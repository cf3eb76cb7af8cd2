----------------------------- MODULE SentryBackend ----------------------------
(***************************************************************************)
(* backends/sentry.py: pages of span rows; a search for traces fetches     *)
(* each trace from the trace endpoint and overlays the attributes and the  *)
(* status of the rows it found.                                            *)
(***************************************************************************)
EXTENDS SearchCall

\* _parse_sentry_row, of those that can be parsed: a row has no linked errors.
SentryParsedRows(rows) == Sound(rows)

\* _infer_status of an item: linked errors come first.
SentryItemStatus(s) ==
    IF <<"ERROR">> \in s.hint THEN <<"ERROR">>
    ELSE IF s.thin THEN <<"UNSET">> ELSE s.status

\* _flatten_trace_items, _parse_sentry_trace_item
SentryParsedItems(spans) ==
    LET children == {s \in ToSet(spans) : \E t \in ToSet(spans) : s.parent = {t.id}}
        sound == Sound(Unstacked(spans, children))
    IN  [i \in DOMAIN sound |->
            [sound[i] EXCEPT !.status = SentryItemStatus(sound[i]),
                             !.attributes = IF sound[i].thin THEN Bare ELSE @]]

SentrySupported(f) == f.operator \in CommonOperators

\* _build_sentry_query
SentryQuery ==
    Among(filters, {f \in ToSet(filters) : SentrySupported(f) /\ Expressible(f)})
SentryUnsupported == Among(filters, {f \in ToSet(filters) : ~SentrySupported(f)})

\* One row for each value of what is listed.
SentryOnePer(rows, field) ==
    At(rows, {i \in DOMAIN rows : \A j \in 1 .. i - 1 : rows[j][field] # rows[i][field]})

\* The rows behind the pages: of spans, of projects, of the values of span.op,
\* which are spans sampled if those cannot be had.
SentryHits ==
    CASE call.op \in {"search_traces", "search_spans"} ->
           SpansWith(SentryQuery)
      [] call.op = "list_services" -> SentryOnePer(Spans, "service")
      [] call.op = "operations" /\ step = "values" ->
           SentryOnePer(SpansOf(call.subject), "operation")
      [] OTHER -> SpansOf(call.subject)

\* The limit of _search_events_raw; the lists have none.
SentryLimited ==
    \/ call.op \in {"search_traces", "search_spans"}
    \/ call.op = "operations" /\ step = "paging"

SentryTarget ==
    CASE call.op = "search_traces" -> 5 * Limit
      [] call.op = "search_spans" -> 2 * Limit
      [] OTHER -> MaxPages * PageSize

SentryMorePages == pages < MaxPages /\ (SentryLimited => Len(read) < SentryTarget)

SentryPageLimit ==
    IF SentryLimited THEN Min({Max({SentryTarget - Len(read), 1}), PageSize})
    ELSE PageSize

SentryPaged == call.op \in {"search_traces", "search_spans", "list_services", "operations"}

SentryStart == Ask(IF call.op = "operations" THEN "values" ELSE "paging")

\* _search_events_raw and list_services: a turn of the loop, which ends when
\* the Link header names no next page with results.
SentryReadPage ==
    /\ step = "paging"
    /\ SentryPaged
    /\ SentryMorePages
    /\ Read(SentryHits, SentryPageLimit)

SentryEndOfPages ==
    /\ step = "paging"
    /\ SentryPaged
    /\ ~SentryMorePages
    /\ StopReading(SentryHits)

SentryRequestFails ==
    /\ step = "paging"
    /\ SentryPaged => SentryMorePages
    /\ IF call.op = "health_check" THEN Return(FALSE) ELSE Raise

\* _get_operations_via_attribute_values: a turn of its loop.
SentryReadValues ==
    /\ step = "values"
    /\ SentryMorePages
    /\ Read(SentryHits, SentryPageLimit)
    /\ step' = "read" => read' # <<>>

SentryEndOfValues ==
    /\ step = "values"
    /\ ~SentryMorePages
    /\ read # <<>>
    /\ StopReading(SentryHits)

\* A request for the values fails, or there are none: spans are sampled.
SentrySample ==
    /\ step = "values"
    /\ SentryMorePages \/ read = <<>>
    /\ step' = "paging"
    /\ read' = <<>>
    /\ pages' = 0
    /\ UNCHANGED <<store, call, filters, todo, found, failed, cut, answer>>

SentryFindTraces ==
    /\ call.op = "search_traces"
    /\ FetchTraces(First(TraceIds(read), MaxHydrate))

\* get_trace: the id must look like one.
SentryTraceOf(id) == IF id \in OddIds THEN <<>> ELSE SentryParsedItems(OfTrace(Spans, id))

SentryOverlaid(id) == Enriched(SentryTraceOf(id), SentryParsedRows(OfTrace(read, id)))

SentryFetchTrace ==
    /\ call.op = "search_traces"
    /\ todo # <<>>
    /\ \/ /\ SentryTraceOf(Head(todo)) # <<>>
          /\ Fetched(<<Grouped(SentryOverlaid(Head(todo)))>>, TRUE)
       \/ NotFetched

SentryReturnTraces ==
    /\ call.op = "search_traces"
    /\ step = "fetching"
    /\ todo = <<>>
    /\ Return(First(Filtered(found, filters), Limit))

SentryReturnSpans ==
    /\ call.op = "search_spans"
    /\ step = "read"
    /\ Return(First(Filtered(AsSpans(SentryParsedRows(read)), SentryUnsupported), Limit))

SentryReturnTrace ==
    /\ call.op = "get_trace"
    /\ step = "paging"
    /\ IF SentryTraceOf(call.subject) = <<>> THEN Raise
       ELSE Return(<<Grouped(SentryTraceOf(call.subject))>>)

SentryReturnServices ==
    /\ call.op = "list_services"
    /\ step = "read"
    /\ Return({s.service : s \in ToSet(read)})

SentryReturnOperations ==
    /\ call.op = "operations"
    /\ step = "read"
    /\ Return({s.operation : s \in ToSet(read)})

SentryReturnHealth ==
    /\ call.op = "health_check"
    /\ step = "paging"
    /\ Return(TRUE)

SentryNext ==
    \/ SentryStart \/ Reject \/ SentryReadPage \/ SentryEndOfPages
    \/ SentryRequestFails \/ SentryReadValues \/ SentryEndOfValues \/ SentrySample
    \/ SentryFindTraces \/ SentryFetchTrace \/ SentryReturnTraces
    \/ SentryReturnSpans \/ SentryReturnTrace \/ SentryReturnServices
    \/ SentryReturnOperations \/ SentryReturnHealth
=============================================================================
