------------------------------ MODULE TempoBackend -----------------------------
(***************************************************************************)
(* backends/tempo.py: one TraceQL search, which finds the traces with a    *)
(* span that satisfies the query, then each of them.  Only the filters     *)
(* that are not part of the query are applied to what comes back.          *)
(***************************************************************************)
EXTENDS SearchCall

CONSTANTS
    MaxServiceRows,  \* the limit of 1000 of list_services
    MaxOperationRows \* the limit of 100 of get_service_operations

\* _parse_tempo_trace: nothing if none of its spans can be parsed.
TempoParsed(spans) ==
    IF Sound(spans) = <<>> THEN <<>> ELSE <<GroupedOk(Sound(spans))>>

TempoSupported(f) == f.operator \in CommonOperators \cup {"contains"}

\* _filter_to_traceql: whether it has a condition for the filter.
TempoConvertible(f) ==
    CASE f.field = "status" ->
           /\ f.operator \in {"equals", "not_equals"}
           /\ Operand(f).text \in {<<"ERROR">>, <<"OK">>}
      [] f.field \in OddFields -> FALSE
      [] f.operator \in {"gt", "lt", "gte", "lte"} -> f.type = "number"
      [] OTHER -> TRUE

TempoTraceLevel == {"service.name", "duration", "duration_ms", "status"}

\* mutant: what cannot be converted is neither asked for nor applied
TempoRemaining_Supported == Among(filters, {f \in ToSet(filters) : ~TempoSupported(f)})

TempoNative(f) ==
    /\ TempoSupported(f)
    /\ call.op = "search_spans" => f.field \in TempoTraceLevel
    /\ TempoConvertible(f)

\* _build_traceql_from_filters, and the filters that are left for the client.
TempoQuery == Among(filters, {f \in ToSet(filters) : TempoNative(f)})
TempoRemaining == Among(filters, {f \in ToSet(filters) : ~TempoNative(f)})

TempoHits ==
    CASE IsSearch -> Roots(TracesWith(TempoQuery))
      [] call.op = "operations" ->
           Roots(TracesOf(call.subject))
      [] OTHER -> Roots(store)

TempoRowLimit ==
    CASE call.op = "search_traces" -> Limit
      [] call.op = "search_spans" -> Min({2 * Limit, 1000})
      [] call.op = "list_services" -> MaxServiceRows
      [] call.op = "operations" -> MaxOperationRows
      [] call.op = "health_check" -> 1

TempoStart == Ask("paging")

TempoSearch ==
    /\ step = "paging"
    /\ call.op # "get_trace"
    /\ ReadOnce(TempoHits, TempoRowLimit)

TempoRequestFails ==
    /\ step = "paging"
    /\ IF call.op = "health_check" THEN Return(FALSE) ELSE Raise

\* The rows whose trace can be fetched: _search_row_trace_id
TempoAttempted ==
    LET ids == [i \in DOMAIN First(read, MaxHydrate) |-> read[i].trace]
    IN  At(ids, {i \in DOMAIN ids : ids[i] \notin OddIds})

TempoFindTraces == IsSearch /\ FetchTraces(TempoAttempted)

TempoFetchTrace ==
    /\ todo # <<>>
    /\ \/ Fetched(TempoParsed(OfTrace(Spans, Head(todo))), TRUE)
       \/ NotFetched

\* mutant: a failed fetch is a trace that is not there
TempoOutage_Never == FALSE

TempoOutage == TempoAttempted # <<>> /\ failed = Len(TempoAttempted)

TempoAllFetchesFailed ==
    /\ step = "fetching"
    /\ todo = <<>>
    /\ TempoOutage
    /\ Raise

TempoReturnTraces ==
    /\ call.op = "search_traces"
    /\ step = "fetching"
    /\ todo = <<>>
    /\ ~TempoOutage
    /\ Return(Filtered(found, TempoRemaining))

TempoReturnSpans ==
    /\ call.op = "search_spans"
    /\ step = "fetching"
    /\ todo = <<>>
    /\ ~TempoOutage
    /\ LET spans == FlattenSeq([i \in DOMAIN found |-> AsSpans(found[i].spans)])
       IN  Return(First(Filtered(spans, TempoRemaining), Limit))

TempoReturnTrace ==
    /\ call.op = "get_trace"
    /\ step = "paging"
    /\ LET trace == IF call.subject \in OddIds THEN <<>>
                    ELSE TempoParsed(OfTrace(Spans, call.subject))
       IN  IF trace = <<>> THEN Raise ELSE Return(trace)

TempoReturnServices ==
    /\ call.op = "list_services"
    /\ step = "read"
    /\ Return({s.service : s \in ToSet(read)})

\* The root operations of the traces that begin in the service.
TempoReturnOperations ==
    /\ call.op = "operations"
    /\ step = "read"
    /\ Return({s.operation : s \in {t \in ToSet(read) : t.service = call.subject}})

TempoReturnHealth ==
    /\ call.op = "health_check"
    /\ step = "read"
    /\ Return(TRUE)

TempoNext ==
    \/ TempoStart \/ Reject \/ TempoSearch \/ TempoRequestFails \/ TempoFindTraces
    \/ TempoFetchTrace \/ TempoAllFetchesFailed \/ TempoReturnTraces
    \/ TempoReturnSpans \/ TempoReturnTrace \/ TempoReturnServices
    \/ TempoReturnOperations \/ TempoReturnHealth
=============================================================================
