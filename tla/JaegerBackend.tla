----------------------------- MODULE JaegerBackend -----------------------------
(***************************************************************************)
(* backends/jaeger.py: one request for the whole traces of one service     *)
(* with a span that fits the parameters of the query; the filters but that *)
(* of the service are applied to what comes back.                          *)
(***************************************************************************)
EXTENDS SearchCall

\* _parse_jaeger_trace: nothing if none of its spans can be parsed.
JaegerParsed(spans) ==
    IF Sound(spans) = <<>> THEN <<>> ELSE <<GroupedOk(Sound(spans))>>

JaegerNative(f) == f.field = "service.name" /\ f.operator = "equals"

\* The service is named by a text, whatever the type of the filter.
JaegerNamed(text) == Where("service.name", "equals", "string", Str(text))

JaegerRemaining == Among(filters, {f \in ToSet(filters) : ~JaegerNative(f)})

\* mutant: a filter on the service name is taken as applied
JaegerService_Parameter == call.params.service

\* The parameter, or what the last filter on the service name asks for.
JaegerService ==
    Operand(filters[Max({i \in DOMAIN filters : JaegerNative(filters[i])})]).text

\* TraceQuery.to_backend_params, and that service: conditions on one span.
JaegerQuery ==
    <<JaegerNamed(JaegerService)>>
    \o Converted([call.params EXCEPT !.service = <<>>, !.hasError = {}])

JaegerRowLimit == IF call.op = "search_spans" THEN Min({2 * Limit, 1000}) ELSE Limit

JaegerNoService == IsSearch /\ call.params.service = <<>>

JaegerStart == Ask("paging")

\* A search must name a service.
JaegerRefuseNoService ==
    /\ step = "paging"
    /\ JaegerNoService
    /\ Raise

\* _search_service_traces_with_filters: its request
JaegerSearch ==
    /\ step = "paging"
    /\ IsSearch
    /\ ~JaegerNoService
    /\ ReadOnce(Roots(TracesWith(JaegerQuery)), JaegerRowLimit)

JaegerRequestFails ==
    /\ step = "paging"
    /\ ~JaegerNoService
    /\ IF call.op = "health_check" THEN Return(FALSE) ELSE Raise

\* Its response holds the traces.
JaegerReceived ==
    FlattenSeq([i \in DOMAIN read |-> JaegerParsed(OfTrace(Spans, read[i].trace))])

JaegerReturnTraces ==
    /\ call.op = "search_traces"
    /\ step = "read"
    /\ Return(Filtered(JaegerReceived, JaegerRemaining))

JaegerReturnSpans ==
    /\ call.op = "search_spans"
    /\ step = "read"
    /\ LET spans == FlattenSeq([i \in DOMAIN JaegerReceived |->
                                  AsSpans(JaegerReceived[i].spans)])
       IN  Return(First(Filtered(spans, JaegerRemaining), Limit))

JaegerReturnTrace ==
    /\ call.op = "get_trace"
    /\ step = "paging"
    /\ LET trace == IF call.subject \in OddIds THEN <<>>
                    ELSE JaegerParsed(OfTrace(Spans, call.subject))
       IN  IF trace = <<>> THEN Raise ELSE Return(trace)

JaegerReturnServices ==
    /\ call.op = "list_services"
    /\ step = "paging"
    /\ Return({s.service : s \in ToSet(Spans)})

JaegerReturnOperations ==
    /\ call.op = "operations"
    /\ step = "paging"
    /\ Return({s.operation : s \in {t \in ToSet(Spans) : t.service = call.subject}})

JaegerReturnHealth ==
    /\ call.op = "health_check"
    /\ step = "paging"
    /\ Return(TRUE)

JaegerNext ==
    \/ JaegerStart \/ Reject \/ JaegerRefuseNoService \/ JaegerSearch
    \/ JaegerRequestFails \/ JaegerReturnTraces \/ JaegerReturnSpans
    \/ JaegerReturnTrace \/ JaegerReturnServices \/ JaegerReturnOperations
    \/ JaegerReturnHealth
=============================================================================
