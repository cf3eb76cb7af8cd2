---------------------------- MODULE TraceloopBackend ---------------------------
(***************************************************************************)
(* backends/traceloop.py: one request, for root spans each of which stands *)
(* for its trace, or for spans.  The service keeps some attributes under   *)
(* older names.                                                            *)
(***************************************************************************)
EXTENDS SearchCall

CONSTANTS
    OldName, \* what a filter calls an attribute -> what the service calls it
    NewName, \* older names -> newer names, of attributes that are read
    RootRows \* the limit of 1000 root spans of the lists

\* _transform_llm_attributes_to_gen_ai
TraceloopModern(attributes) ==
    LET old == DOMAIN attributes \cap DOMAIN NewName
    IN  [a \in DOMAIN attributes \cup {NewName[o] : o \in old} |->
            IF a \in DOMAIN attributes THEN attributes[a]
            ELSE attributes[CHOOSE o \in old : NewName[o] = a]]

TraceloopParsed(spans) ==
    [i \in DOMAIN Sound(spans) |->
        [Sound(spans)[i] EXCEPT !.attributes = TraceloopModern(@)]]

\* _convert_root_span_to_trace: the trace is its root span.
TraceloopOfRoot(s) ==
    [level |-> "trace", spans |-> <<s>>, root |-> s, duration |-> s.duration,
     status |-> s.status]

TraceloopNative(f) ==
    /\ f.operator \in {"equals", "not_equals", "gt", "lt", "gte", "lte"}
    /\ f.field # "status"

\* _filter_to_traceloop
TraceloopAsked(f) ==
    [f EXCEPT !.field = CASE @ \in DOMAIN OldName -> OldName[@]
                          [] @ = "duration_ms" -> "duration"
                          [] OTHER -> @]

TraceloopQuery ==
    LET native == Among(filters, {f \in ToSet(filters) : TraceloopNative(f)})
    IN  [i \in DOMAIN native |-> TraceloopAsked(native[i])]

TraceloopRemaining == Among(filters, {f \in ToSet(filters) : ~TraceloopNative(f)})

TraceloopRootSpans == FlattenSeq([i \in DOMAIN store |-> Parentless(store[i])])

TraceloopRootsWith(query) ==
    Among(TraceloopRootSpans, {s \in ToSet(TraceloopRootSpans) :
                                  \A f \in ToSet(query) : Holds(s, f)})

TraceloopStart == Ask("paging")

TraceloopSearch ==
    /\ step = "paging"
    /\ \/ /\ call.op = "search_traces"
          /\ ReadOnce(TraceloopRootsWith(TraceloopQuery), Limit)
       \/ /\ call.op = "search_spans"
          /\ ReadOnce(SpansWith(TraceloopQuery), Limit)
       \/ /\ call.op \in {"list_services", "operations"}
          /\ ReadOnce(TraceloopRootSpans, RootRows)

TraceloopRequestFails ==
    /\ step = "paging"
    /\ IF call.op = "health_check" THEN Return(FALSE) ELSE Raise

TraceloopReturnTraces ==
    /\ call.op = "search_traces"
    /\ step = "read"
    /\ LET roots == TraceloopParsed(read)
           traces == [i \in DOMAIN roots |-> TraceloopOfRoot(roots[i])]
       IN  Return(Filtered(traces, TraceloopRemaining))

TraceloopReturnSpans ==
    /\ call.op = "search_spans"
    /\ step = "read"
    /\ Return(First(Filtered(AsSpans(TraceloopParsed(read)), TraceloopRemaining), Limit))

\* get_trace, _convert_spans_to_trace
TraceloopReturnTrace ==
    /\ call.op = "get_trace"
    /\ step = "paging"
    /\ LET spans == IF call.subject \in OddIds THEN <<>>
                    ELSE TraceloopParsed(OfTrace(Spans, call.subject))
       IN  IF spans = <<>> THEN Raise ELSE Return(<<GroupedOk(spans)>>)

TraceloopReturnServices ==
    /\ call.op = "list_services"
    /\ step = "read"
    /\ Return({s.service : s \in ToSet(read)})

TraceloopReturnOperations ==
    /\ call.op = "operations"
    /\ step = "read"
    /\ Return({s.operation : s \in {t \in ToSet(read) : t.service = call.subject}})

TraceloopReturnHealth ==
    /\ call.op = "health_check"
    /\ step = "paging"
    /\ Return(TRUE)

TraceloopNext ==
    \/ TraceloopStart \/ Reject \/ TraceloopSearch \/ TraceloopRequestFails
    \/ TraceloopReturnTraces \/ TraceloopReturnSpans \/ TraceloopReturnTrace
    \/ TraceloopReturnServices \/ TraceloopReturnOperations \/ TraceloopReturnHealth
=============================================================================
