------------------------------ MODULE TraceSource ------------------------------
(***************************************************************************)
(* backends/base.py: what a method of a backend promises, whichever        *)
(* backend it is: one answer, or an exception.                             *)
(***************************************************************************)
EXTENDS Calls

CONSTANTS
    Verifying,  \* the backends that apply all filters of a search for traces
                \* to what they return
    OneService, \* those whose service takes one name of a service
    Form(_, _)  \* what a backend asks its service for a filter

VARIABLES
    over,  \* whether the call has ended
    answer \* what it returned, if it did not raise

\* A span as it is read: never another one's identity, place or time.  The
\* parent may be lost.
ReadsAs(s, r) ==
    /\ r.id = s.id /\ r.trace = s.trace
    /\ r.parent \in {s.parent, {}}
    /\ r.service = s.service /\ r.operation = s.operation
    /\ r.start = s.start /\ r.duration = s.duration

Same(r, s) == r.trace = s.trace /\ r.id = s.id

Once(spans) == \A i, j \in DOMAIN spans : Same(spans[i], spans[j]) => i = j

\* No span is in an item twice, or in two items.
NoneTwice(items) ==
    \A i, j \in DOMAIN items : \A a \in DOMAIN items[i].spans, b \in DOMAIN items[j].spans :
        Same(items[i].spans[a], items[j].spans[b]) => i = j /\ a = b

\* Spans of one trace of the service, each of them once.
PartOf(spans, trace) ==
    /\ spans # <<>>
    /\ Once(spans)
    /\ \A i \in DOMAIN spans : \E s \in ToSet(trace) : ReadsAs(s, spans[i])

\* A filter is applied to an item, or the service finds a span of its trace to
\* satisfy it.
Heeded(f, item, trace) ==
    Matches(item, f) \/ \E s \in ToSet(trace) : Holds(s, Form(call.backend, f))

\* Of the filters that name the service, the parameter among them, the last one
\* counts where the service takes one name.
NamesService(f) == f.field = "service.name" /\ f.operator = "equals"

Overridden(i) ==
    /\ call.backend \in OneService
    /\ NamesService(AllFilters[i])
    /\ \E j \in DOMAIN AllFilters : j > i /\ NamesService(AllFilters[j])

TraceWanted(item) ==
    \E trace \in ToSet(store) :
        /\ PartOf(item.spans, trace)
        /\ \A i \in DOMAIN AllFilters :
            IF call.backend \in Verifying THEN Matches(item, AllFilters[i])
            ELSE Overridden(i) \/ Heeded(AllFilters[i], item, trace)

\* In a search for spans a filter that the service could apply, but that cannot
\* be expressed, may get lost.
SpanWanted(item) ==
    \E trace \in ToSet(store) :
        /\ PartOf(item.spans, trace)
        /\ \A i \in DOMAIN AllFilters :
            Expressible(AllFilters[i]) =>
                Overridden(i) \/ Heeded(AllFilters[i], item, trace)

\* _wrap_with_query_limit: MAX_TRACES_PER_QUERY bounds what is asked for.
MostItems == IF call.limit > MaxQueryLimit THEN MaxQueryLimit ELSE call.limit

Promised(value) ==
    CASE call.op = "search_traces" ->
           /\ Len(value) <= MostItems
           /\ \A i \in DOMAIN value : TraceWanted(value[i])
           /\ NoneTwice(value)
      [] call.op = "search_spans" ->
           /\ Len(value) <= MostItems
           /\ \A i \in DOMAIN value : SpanWanted(value[i])
           /\ NoneTwice(value)
      [] call.op = "get_trace" ->
           /\ Len(value) = 1
           /\ PartOf(value[1].spans, OfTrace(Spans, call.subject))
      [] call.op = "list_services" -> value \subseteq {s.service : s \in ToSet(Spans)}
      [] call.op = "operations" ->
           value \subseteq {s.operation : s \in {t \in ToSet(Spans) : t.service = call.subject}}
      [] call.op = "health_check" -> value \in BOOLEAN

Init ==
    /\ \E c \in Cases : call \in c.calls /\ store \in c.stores
    /\ over = FALSE
    /\ answer = {}

\* The call ends, once, with what is promised or with an exception.
End ==
    /\ ~over
    /\ over'
    /\ answer' = {} \/ \E value \in answer' : answer' = {value} /\ Promised(value)
    /\ UNCHANGED <<store, call>>

Spec == Init /\ [][End]_<<store, call, over, answer>>
=============================================================================
