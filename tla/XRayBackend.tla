------------------------------ MODULE XRayBackend ------------------------------
(***************************************************************************)
(* backends/xray.py: pages of trace summaries, then batches of the traces' *)
(* segments, in pages too.  A condition of the service is about a trace,   *)
(* not about one span.  A span of the store is a segment, or if it is thin *)
(* a subsegment embedded in one, which has the service of that segment and *)
(* does not name its parent.  Documents that cannot be decoded are left    *)
(* out of the store.                                                       *)
(***************************************************************************)
EXTENDS SearchCall

CONSTANTS
    MaxBatchPages, \* _MAX_BATCH_PAGES
    MaxBatch,      \* _BATCH_GET_TRACES_MAX_IDS
    SampleSize     \* the limit of 1000 summaries

\* _flatten_segment_tree, _parse_segment_item
XRayParsed(segments) ==
    LET embedded == {s \in ToSet(segments) : s.thin}
        sound == Sound(Unstacked(segments, embedded))
    IN  [i \in DOMAIN sound |->
            IF sound[i].thin THEN [sound[i] EXCEPT !.parent = {}] ELSE sound[i]]

XRaySupported(f) ==
    f.operator \in {"equals", "not_equals", "gt", "lt", "gte", "lte", "in"}

\* _split_filters, and what _filter_to_xray_expression can express.
XRayNative(f) ==
    /\ XRaySupported(f)
    /\ CASE f.field = "service.name" ->
              \/ f.operator \in {"equals", "not_equals"} /\ Operand(f).type = "str"
              \/ f.operator = "in"
         [] f.field = "duration" -> \E v \in f.value : v.type \in {"int", "float"}
         [] f.field = "status" ->
              /\ f.operator \in {"equals", "not_equals"}
              /\ Operand(f).text \in {<<"ERROR">>, <<"OK">>}
         [] OTHER -> FALSE

\* The service's answer: of the services any must be the one, or none.
XRayTraceHolds(spans, f) ==
    CASE f.field = "service.name" ->
           IF f.operator = "not_equals"
           THEN \A i \in DOMAIN spans : Str(spans[i].service).text # Operand(f).text
           ELSE \E i \in DOMAIN spans : TextMatches(spans[i].service, f)
      [] f.field = "duration" -> NumberMatches(Extent(spans), f)
      [] f.field = "status" ->
           (\E i \in DOMAIN spans : IsError(spans[i]))
           = ((f.operator = "equals") = (Operand(f).text = <<"ERROR">>))

\* _build_filter_expression
XRayQuery == Among(filters, {f \in ToSet(filters) : XRayNative(f)})

XRayHits ==
    CASE IsSearch ->
           Roots(Among(store, {trace \in ToSet(store) :
                                   \A f \in ToSet(XRayQuery) : XRayTraceHolds(trace, f)}))
      [] call.op = "operations" ->
           Roots(TracesOf(call.subject))
      [] OTHER -> Roots(store)

XRayTarget ==
    CASE call.op = "search_traces" -> 5 * Limit
      [] call.op = "search_spans" -> 2 * Limit
      [] OTHER -> SampleSize

XRayMorePages == pages < MaxPages /\ Len(read) < XRayTarget

XRayStart == Ask(IF call.op \in {"list_services", "health_check"} THEN "graph" ELSE "paging")

\* get_service_graph: the names of the services that it shows.
XRayShowGraph ==
    /\ step = "graph"
    /\ \E names \in SUBSET {s.service : s \in ToSet(Spans)} :
        /\ names # {}
        /\ Return(IF call.op = "health_check" THEN TRUE ELSE names)

\* It shows none or may not be asked: traces are sampled.
XRaySample ==
    /\ step = "graph"
    /\ step' = "paging"
    /\ UNCHANGED <<store, call, filters, read, pages, todo, found, failed, cut, answer>>

\* _get_trace_summaries_raw: a turn of its loop, which asks for no page size.
XRayReadPage ==
    /\ step = "paging"
    /\ call.op # "get_trace"
    /\ XRayMorePages
    /\ Read(XRayHits, Len(XRayHits))

XRayEndOfPages ==
    /\ step = "paging"
    /\ call.op # "get_trace"
    /\ ~XRayMorePages
    /\ StopReading(XRayHits)

\* _dedupe_trace_ids
XRayFindTraces == FetchTraces(First(TraceIds(read), MaxHydrate))

XRayFindTrace ==
    /\ step = "paging"
    /\ call.op = "get_trace"
    /\ todo' = <<call.subject>>
    /\ step' = "fetching"
    /\ UNCHANGED <<store, call, filters, read, pages, found, failed, cut, answer>>

XRayBatch == First(todo, MaxBatch)

\* mutant: the same batch is asked for again
XRayRest_Same == todo

XRayRest == SubSeq(todo, Len(XRayBatch) + 1, Len(todo))

\* mutant: the pages of a batch are not counted
XRayBatchEnds_OnToken(last) == last

XRayBatchEnds(last) == last \/ pages + 1 = MaxBatchPages

\* _batch_get_traces_raw: a page of segments of the batch.  An unprocessed
\* trace brings none; a get_trace of it raises, as if the request failed.
XRayReadBatch ==
    /\ step = "fetching"
    /\ todo # <<>>
    /\ \E unprocessed \in SUBSET ToSet(XRayBatch), last \in BOOLEAN :
        LET missing == Among(Spans, {s \in ToSet(Spans) \ ToSet(found) :
                                         s.trace \in ToSet(XRayBatch)})
            offered == Among(missing, {s \in ToSet(missing) : s.trace \notin unprocessed})
        IN  \E n \in 0..Len(offered) :
            /\ n < Len(offered) => ~offered[n + 1].thin
            /\ found' = found \o First(offered, n)
            /\ IF XRayBatchEnds(last)
               THEN /\ todo' = XRayRest
                    /\ pages' = 0
                    /\ cut' = (cut \/ n < Len(missing))
               ELSE /\ pages' = pages + 1
                    /\ UNCHANGED <<todo, cut>>
    /\ UNCHANGED <<store, call, step, filters, read, failed, answer>>

\* Only the failure of the graph is caught, and all of a health_check.
XRayRequestFails ==
    /\ \/ step = "graph"
       \/ step = "paging" /\ call.op # "get_trace" /\ XRayMorePages
       \/ step = "fetching" /\ todo # <<>>
    /\ IF call.op = "health_check" THEN Return(FALSE) ELSE Raise

\* The traces that have segments, in the order of the summaries.
XRayHydrated ==
    LET ids == IF call.op = "get_trace" THEN <<call.subject>> ELSE TraceIds(read)
        all == [i \in DOMAIN ids |-> XRayParsed(OfTrace(found, ids[i]))]
    IN  Among(all, ToSet(all) \ {<<>>})

XRayAnswered(op) ==
    /\ call.op = op
    /\ step = "fetching"
    /\ todo = <<>>

XRayReturnTraces ==
    /\ XRayAnswered("search_traces")
    /\ LET traces == [i \in DOMAIN XRayHydrated |-> Grouped(XRayHydrated[i])]
       IN  Return(First(Filtered(traces, filters), Limit))

XRayReturnSpans ==
    /\ XRayAnswered("search_spans")
    /\ Return(First(Filtered(AsSpans(FlattenSeq(XRayHydrated)), filters), Limit))

XRayReturnTrace ==
    /\ XRayAnswered("get_trace")
    /\ IF XRayHydrated = <<>> THEN Raise ELSE Return(<<Grouped(XRayHydrated[1])>>)

XRayReturnServices ==
    /\ XRayAnswered("list_services")
    /\ Return({s.service : s \in ToSet(FlattenSeq(XRayHydrated))})

XRayReturnOperations ==
    /\ XRayAnswered("operations")
    /\ Return({s.operation :
                  s \in {t \in ToSet(FlattenSeq(XRayHydrated)) : t.service = call.subject}})

XRayReturnHealth == XRayAnswered("health_check") /\ Return(TRUE)

XRayNext ==
    \/ XRayStart \/ Reject \/ XRayShowGraph \/ XRaySample \/ XRayReadPage
    \/ XRayEndOfPages \/ XRayFindTraces \/ XRayFindTrace \/ XRayReadBatch
    \/ XRayRequestFails \/ XRayReturnTraces \/ XRayReturnSpans \/ XRayReturnTrace
    \/ XRayReturnServices \/ XRayReturnOperations \/ XRayReturnHealth
=============================================================================
