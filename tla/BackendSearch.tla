----------------------------- MODULE BackendSearch -----------------------------
(***************************************************************************)
(* A call on any of the backends that have no module with a limiter of its *)
(* own, from the arguments to the answer, and what it promises.            *)
(***************************************************************************)
EXTENDS
    DatadogBackend, NewRelicBackend, SentryBackend, XRayBackend, TempoBackend,
    JaegerBackend, TraceloopBackend

ASSUME SearchAssumption ==
    {MaxHydrate, PageSize, MaxPages, MaxRows, MaxUniques, MaxBatchPages, MaxBatch, SampleSize,
     MaxServiceRows, MaxOperationRows, RootRows} \subseteq Nat \ {0}

\* The call has ended.
Done ==
    /\ step = "done"
    /\ UNCHANGED vars

Next ==
    \/ call.backend = "datadog" /\ DatadogNext
    \/ call.backend = "newrelic" /\ NewRelicNext
    \/ call.backend = "sentry" /\ SentryNext
    \/ call.backend = "xray" /\ XRayNext
    \/ call.backend = "tempo" /\ TempoNext
    \/ call.backend = "jaeger" /\ JaegerNext
    \/ call.backend = "traceloop" /\ TraceloopNext
    \/ Done

\* A request is answered or fails in the end: each has a timeout.  This is
\* WF_vars(Next), as long as some step can be taken until the call is done, which
\* is checked as the absence of deadlock.
Fairness == []<>(step = "done") \/ []<><<Next>>_vars

Spec == Init /\ [][Next]_vars /\ Fairness
-----------------------------------------------------------------------------
(* Properties.                                                             *)

Verifying == {"datadog", "newrelic", "sentry", "xray"}

OneService == {"jaeger"}

Form(backend, f) ==
    CASE backend = "jaeger" /\ JaegerNative(f) -> JaegerNamed(Operand(f).text)
      [] backend = "traceloop" -> TraceloopAsked(f)
      [] backend = "datadog" -> DatadogAsked(f)
      [] OTHER -> f

Source == INSTANCE TraceSource WITH over <- step = "done"

\* Every backend keeps the promises of the base class: at most so many items,
\* each of them of the service and as it is there, none twice, and no filter
\* forgotten (base.py:976-1001).
KeepsPromises == Source!Spec

\* Every call ends, even if the service always offers another page or hands out
\* pages without rows (datadog.py:437, sentry.py:756, xray.py:665).
EveryCallEnds == <>(step = "done")

\* What a search asks of the service is bounded whatever it answers: pages,
\* rows of the pages that have a size, and traces fetched one by one
\* (datadog.py:437-446).
RequestsBounded ==
    /\ pages <= Max({MaxPages, MaxBatchPages})
    /\ IsSearch /\ call.backend \in {"datadog", "sentry"} =>
        /\ Len(read) <= Limit * IF call.op = "search_traces" THEN 5 ELSE 2
        /\ failed + Len(todo) + Len(found) <= MaxHydrate
    /\ call.backend \in {"newrelic", "tempo"} => failed + Len(todo) + Len(found) <= MaxHydrate

\* A span of a trace has the attribute with the value.
Bears(item, field, text) ==
    \E s \in ToSet(item.spans) :
        field \in DOMAIN s.attributes /\ \E v \in s.attributes[field] : v.text = text

\* What the parameters of a search say of a trace.
Wanted(item, p) ==
    /\ p.service # <<>> => item.root.service = p.service
    /\ p.operation # <<>> => item.root.operation = p.operation
    /\ \A n \in p.least : item.duration >= n
    /\ \A n \in p.most : item.duration <= n
    /\ \A b \in p.hasError : b = (item.status = <<"ERROR">>)
    /\ p.system # <<>> => Bears(item, "gen_ai.system", p.system)
    /\ p.requestModel # <<>> => Bears(item, "gen_ai.request.model", p.requestModel)
    /\ p.responseModel # <<>> => Bears(item, "gen_ai.response.model", p.responseModel)
    /\ \A i \in DOMAIN p.tags : Bears(item, p.tags[i][1], p.tags[i][2])

\* What is known of a trace: of a span that the search found, all; of another
\* one, what the lookup brings.
Known(trace, hits) ==
    [i \in DOMAIN trace |->
        IF trace[i] \in ToSet(hits) THEN [trace[i] EXCEPT !.thin = FALSE, !.hint = {}]
        ELSE trace[i]]

\* A trace as the backend shows it; of Traceloop's a search shows the root.
Shown(trace) ==
    CASE call.backend = "datadog" -> Grouped(DatadogParsed(trace))
      [] call.backend = "newrelic" -> Grouped(NewRelicLookedUp(Known(trace, NewRelicHits)))
      [] call.backend = "sentry" -> Grouped(SentryParsedItems(Known(trace, SentryHits)))
      [] call.backend = "xray" -> Grouped(XRayParsed(trace))
      [] call.backend \in {"tempo", "jaeger"} -> GroupedOk(trace)
      [] call.backend = "traceloop" -> TraceloopOfRoot(TraceloopParsed(<<Root(trace)>>)[1])

\* What is not looked up among the attributes.
OwnFields ==
    {"service.name", "name", "operation_name", "duration", "status", "parent_span_id",
     "span_count", "has_errors"}

Explicit == [i \in DOMAIN call.filters |-> Normalized(call.filters[i])]

\* A span fits by itself.
Fits(s) ==
    /\ Wanted([spans |-> <<s>>, root |-> s, duration |-> s.duration, status |-> s.status],
              call.params)
    /\ \A i \in DOMAIN Explicit :
        Holds(s, IF call.backend = "datadog" THEN Explicit[i] ELSE Form(call.backend, Explicit[i]))
    /\ call.backend = "traceloop" =>
        \A i \in DOMAIN AllFilters : Holds(s, TraceloopAsked(AllFilters[i]))

\* The service finds the trace: by one span that fits, which for Traceloop has to
\* be the root.  X-Ray looks at the whole trace, where a negated OK means an error.
Discoverable(trace) ==
    CASE call.backend = "xray" ->
           \A f \in ToSet(Explicit) : XRayNative(f) => XRayTraceHolds(trace, f)
      [] call.backend = "traceloop" -> Parentless(trace) # <<>> /\ Fits(Root(trace))
      [] OTHER -> \E s \in ToSet(trace) : Fits(s)

\* A search that was not cut off anywhere returns every trace that its
\* parameters and filters describe, if one of its spans does so by itself:
\* nothing gets lost between what the service is asked, the rows found, the traces
\* fetched, what is overlaid on them and the filters applied again; a tag named
\* like a field that a span has of its own means that field.  No filter is to
\* match nothing because it quotes a status in another case than the service's
\* (tests/test_sentry.py:313-318, tests/test_datadog.py:225-229).
AllFound ==
    /\ step = "done" /\ call.op = "search_traces" /\ ~cut
    /\ \A i \in DOMAIN call.params.tags : call.params.tags[i][1] \notin OwnFields
    => \A traces \in answer, trace \in ToSet(store) :
            /\ \A s \in ToSet(trace) : s.sound
            /\ Discoverable(trace)
            /\ Wanted(Shown(trace), call.params)
            /\ MatchesAll(Shown(trace), Explicit)
            => \/ Len(traces) = Limit
               \/ \E i \in DOMAIN traces : traces[i].spans[1].trace = trace[1].trace

\* Datadog is asked for a list of statuses in another case than its own, and
\* takes one that is written in its case for another one than the code does.
QuotesStatus(f) ==
    /\ f.field = "status"
    /\ \/ f.operator = "in"
       \/ /\ f.operator \in {"equals", "not_equals"}
          /\ Operand(f).text \in {<<"ok">>, <<"error">>}

\* Every search but those is complete in that sense (datadog.py:184-247,
\* newrelic.py:284-393, sentry.py:294-404, xray.py:266-310, tempo.py:165-276,
\* jaeger.py:91-139, traceloop.py:87-178).
NothingMissed ==
    (call.backend = "datadog" => \A i \in DOMAIN Explicit : ~QuotesStatus(Explicit[i])) => AllFound

\* Tempo does not call an outage of its lookups an empty result
\* (tempo.py:251-261).
OutageIsNotEmpty ==
    step = "done" /\ call.backend = "tempo" /\ IsSearch /\ failed > 0 =>
        \A items \in answer : failed < Len(TempoAttempted)
-----------------------------------------------------------------------------
\* A filter with the opposite operator.
Opposites ==
    [not_equals |-> "equals", not_in |-> "in", not_contains |-> "contains",
     gt |-> "lte", lt |-> "gte"]

Knows(type, operator) ==
    CASE type = "number" -> operator \in {"not_equals", "not_in", "gt", "lt"}
      [] type = "string" -> operator \in {"not_equals", "not_in", "not_contains"}
      [] type = "boolean" -> operator = "not_equals"

\* A filter that was accepted and the one with the opposite operator split the
\* traces: both fail when the field is missing, and otherwise exactly one of
\* them holds if all values can be compared.  Orders are opposite on a single
\* value only (filter_engine.py:272-277).
OppositesSplit ==
    \A i \in DOMAIN filters, trace \in ToSet(store) :
        LET f == filters[i]
            vs == FieldValues(Grouped(trace), f.field)
            g == [f EXCEPT !.operator = Opposites[@]]
        IN  Knows(f.type, f.operator) /\ (f.operator \in {"gt", "lt"} => \A v, w \in vs : v = w) =>
                /\ ~(Satisfied(vs, f) /\ Satisfied(vs, g))
                /\ vs # {} /\ (f.type = "number" => \A v \in vs : Comparable(v))
                   => Satisfied(vs, f) \/ Satisfied(vs, g)
=============================================================================
