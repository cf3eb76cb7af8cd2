---------------------------- MODULE DatadogBackend ----------------------------
(***************************************************************************)
(* backends/datadog.py: every method reads pages of spans.  A search for   *)
(* traces fetches the traces of the spans it finds and applies all filters *)
(* once more.                                                              *)
(***************************************************************************)
EXTENDS SearchCall

\* _infer_status
DatadogStatus(s) ==
    IF s.status # <<"UNSET">> THEN s.status
    ELSE IF s.hint # {} THEN CHOOSE h \in s.hint : TRUE
    ELSE <<"UNSET">>

\* _parse_dd_span, of those that can be parsed
DatadogParsed(rows) ==
    [i \in DOMAIN Sound(rows) |->
        [Sound(rows)[i] EXCEPT !.status = DatadogStatus(Sound(rows)[i])]]

DatadogSupported(f) == f.operator \in CommonOperators

\* The status that the service takes a quoted one for: its own are ok and error,
\* and case matters.
DatadogQuoted(text) ==
    CASE text = <<"ok">> -> <<"OK">>
      [] text = <<"error">> -> <<"ERROR">>
      [] text \in {<<"OK">>, <<"ERROR">>} -> <<>>
      [] OTHER -> text

\* mutant: no filter names a status as the service does
DatadogNamed_Never(f) == f.field # "status"

DatadogNamed(f) ==
    \/ f.field # "status"
    \/ f.operator \in {"equals", "not_equals"} /\ Operand(f).text \in {<<"OK">>, <<"ERROR">>}

\* _filter_to_dd_query: what the service is asked for a filter.  Only two
\* operators name a status as the service does.
DatadogAsked(f) ==
    LET quoted(v) == [v EXCEPT !.text = DatadogQuoted(@)]
    IN  IF DatadogNamed(f) THEN f
        ELSE [f EXCEPT !.value = {quoted(v) : v \in @},
                       !.values = {[i \in DOMAIN s |-> quoted(s[i])] : s \in @}]

\* _build_dd_query: a condition that cannot be expressed is left out.
DatadogQuery ==
    LET native == Among(filters, {f \in ToSet(filters) : DatadogSupported(f) /\ Expressible(f)})
    IN  [i \in DOMAIN native |-> DatadogAsked(native[i])]
DatadogUnsupported == Among(filters, {f \in ToSet(filters) : ~DatadogSupported(f)})

DatadogHits ==
    CASE call.op \in {"search_traces", "search_spans"} ->
           SpansWith(DatadogQuery)
      [] call.op = "get_trace" -> OfTrace(Spans, call.subject)
      [] call.op = "operations" -> SpansOf(call.subject)
      [] OTHER -> Spans

\* The limit that each method passes to _search_spans_raw.
DatadogTarget ==
    CASE call.op = "search_traces" -> 5 * Limit
      [] call.op = "search_spans" -> 2 * Limit
      [] call.op = "get_trace" -> MaxPages * PageSize
      [] call.op \in {"list_services", "operations"} -> PageSize
      [] call.op = "health_check" -> 1

\* Every method starts with a page.
DatadogStart == Ask("paging")

\* mutant: a page may bring as many spans as fit on it
DatadogPageLimit_Full == PageSize

DatadogPageLimit == Min({Max({DatadogTarget - Len(read), 1}), PageSize})

\* mutant: the loop goes on for as long as there is a cursor
DatadogMorePages_Cursor == Len(read) < DatadogTarget

DatadogMorePages == pages < MaxPages /\ Len(read) < DatadogTarget

\* _search_spans_raw: a turn of its loop.  A response of the wrong shape counts
\* as one without spans or without a cursor.
DatadogReadPage ==
    /\ step = "paging"
    /\ DatadogMorePages
    /\ Read(DatadogHits, DatadogPageLimit)

DatadogEndOfPages ==
    /\ step = "paging"
    /\ ~DatadogMorePages
    /\ StopReading(DatadogHits)

\* The request fails: only health_check does not raise.
DatadogReadFails ==
    /\ step = "paging"
    /\ DatadogMorePages
    /\ IF call.op = "health_check" THEN Return(FALSE) ELSE Raise

\* search_traces, after its pages
DatadogFindTraces ==
    /\ call.op = "search_traces"
    /\ FetchTraces(First(TraceIds(read), MaxHydrate))

\* The pages that the get_trace of a trace may read.
DatadogTraceOf(id) == {First(OfTrace(Spans, id), n) : n \in 1..Len(OfTrace(Spans, id))}

\* One get_trace of search_traces; what it raises is logged.
DatadogFetchTrace ==
    /\ call.op = "search_traces"
    /\ todo # <<>>
    /\ \/ \E rows \in DatadogTraceOf(Head(todo)) :
            /\ DatadogParsed(rows) # <<>>
            /\ Fetched(<<Grouped(DatadogParsed(rows))>>, rows = OfTrace(Spans, Head(todo)))
       \/ NotFetched

\* mutant: only the filters that the service does not apply
DatadogRechecked_Unsupported == DatadogUnsupported

DatadogRechecked == filters

DatadogReturnTraces ==
    /\ call.op = "search_traces"
    /\ step = "fetching"
    /\ todo = <<>>
    /\ Return(First(Filtered(found, DatadogRechecked), Limit))

DatadogReturnSpans ==
    /\ call.op = "search_spans"
    /\ step = "read"
    /\ Return(First(Filtered(AsSpans(DatadogParsed(read)), DatadogUnsupported), Limit))

DatadogReturnTrace ==
    /\ call.op = "get_trace"
    /\ step = "read"
    /\ IF DatadogParsed(read) = <<>> THEN Raise
       ELSE Return(<<Grouped(DatadogParsed(read))>>)

DatadogReturnServices ==
    /\ call.op = "list_services"
    /\ step = "read"
    /\ Return({s.service : s \in ToSet(read)})

DatadogReturnOperations ==
    /\ call.op = "operations"
    /\ step = "read"
    /\ Return({s.operation : s \in ToSet(read)})

DatadogReturnHealth ==
    /\ call.op = "health_check"
    /\ step = "read"
    /\ Return(TRUE)

DatadogNext ==
    \/ DatadogStart \/ Reject \/ DatadogReadPage \/ DatadogEndOfPages
    \/ DatadogReadFails \/ DatadogFindTraces \/ DatadogFetchTrace
    \/ DatadogReturnTraces \/ DatadogReturnSpans \/ DatadogReturnTrace
    \/ DatadogReturnServices \/ DatadogReturnOperations \/ DatadogReturnHealth
=============================================================================
