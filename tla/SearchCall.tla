------------------------------ MODULE SearchCall ------------------------------
(***************************************************************************)
(* What the methods of several backends do in the same way, in the base    *)
(* class or by convention.  A backend's module extends this one with its   *)
(* own steps; what it defines bears its name.                              *)
(***************************************************************************)
EXTENDS Calls

CONSTANTS
    MaxHydrate, \* _MAX_TRACES_TO_HYDRATE, max_traces_to_fetch
    PageSize,   \* what fits on a page: 1000 spans of Datadog, 100 rows of Sentry
    MaxPages    \* _MAX_SEARCH_PAGES

VARIABLES
    step,     \* "asked", "paging", "read", "fetching" or "done", or what the
              \* backend's module adds
    filters,  \* get_all_filters
    read,     \* the rows read so far
    pages,    \* the number of requests for them
    todo,     \* the traces still to be fetched
    found,    \* what was fetched
    failed,   \* the number of fetches that failed
    cut,      \* whether something that was there was not read: no state of the
              \* code's
    answer    \* what the call returned, if it did not raise

vars == <<store, call, step, filters, read, pages, todo, found, failed, cut, answer>>
-----------------------------------------------------------------------------
(* Sequences of spans.                                                     *)

\* The traces with a span that satisfies a query, and the rows that stand for
\* traces.
TracesWith(query) ==
    Among(store, {trace \in ToSet(store) :
                     \E s \in ToSet(trace) : \A f \in ToSet(query) : Holds(s, f)})

\* The spans that satisfy a query, and what is there of a service.
SpansWith(query) ==
    Among(Spans, {s \in ToSet(Spans) : \A f \in ToSet(query) : Holds(s, f)})

SpansOf(service) == Among(Spans, {s \in ToSet(Spans) : s.service = service})

TracesOf(service) ==
    Among(store, {trace \in ToSet(store) : \E s \in ToSet(trace) : s.service = service})

\* Those that can be parsed.
Sound(spans) == Among(spans, {s \in ToSet(spans) : s.sound})

Roots(traces) == [i \in DOMAIN traces |-> Root(traces[i])]

First(s, n) == SubSeq(s, 1, Min({Len(s), n}))

\* The trace ids of rows, each once, in their order.
TraceIds(rows) ==
    LET ids == [i \in DOMAIN rows |-> rows[i].trace]
    IN  At(ids, {i \in DOMAIN ids : \A j \in 1 .. i - 1 : ids[j] # ids[i]})

Bare == [f \in {} |-> {}]

\* _enrich_trace_with_search_rows: attributes and status from the rows.
Enriched(spans, rows) ==
    [i \in DOMAIN spans |->
        LET r == Among(rows, {row \in ToSet(rows) : row.id = spans[i].id})
        IN  IF r = <<>> THEN spans[i]
            ELSE [spans[i] EXCEPT !.attributes = Last(r).attributes, !.status = Last(r).status]]

AsSpans(spans) == [i \in DOMAIN spans |-> OfSpan(spans[i])]

\* What other backends make of the spans of a trace.
GroupedOk(spans) ==
    [Grouped(spans) EXCEPT !.status =
        IF \E i \in DOMAIN spans : IsError(spans[i]) THEN <<"ERROR">> ELSE <<"OK">>]

\* The items of a response that are nested in one of them.
Under(items, nested, top) ==
    Among(items, {t \in nested : t.parent = {top.id}})

\* The items that come off a stack, when those nested in an item are put on it
\* after the item.
Unstacked(items, nested) ==
    LET after[n \in 0 .. Len(items)] ==
            IF n = 0
            THEN [flat |-> <<>>,
                  stack |-> Among(items, ToSet(items) \ nested)]
            ELSE LET before == after[n - 1]
                 IN  IF before.stack = <<>> THEN before
                     ELSE [flat |-> Append(before.flat, Last(before.stack)),
                           stack |-> Front(before.stack)
                                     \o Under(items, nested, Last(before.stack))]
    IN  after[Len(items)].flat
-----------------------------------------------------------------------------
(* Steps of several backends.                                              *)

Init ==
    /\ \E c \in Cases : call \in c.calls /\ store \in c.stores
    /\ step = "asked"
    /\ filters = <<>>
    /\ read = <<>>
    /\ pages = 0
    /\ todo = <<>>
    /\ found = <<>>
    /\ failed = 0
    /\ cut = FALSE
    /\ answer = {}

\* TraceQuery or SpanQuery is built from the arguments of a search.
Ask(first) ==
    /\ step = "asked"
    /\ IsSearch => ValidQuery
    /\ filters' = IF IsSearch THEN AllFilters ELSE <<>>
    /\ step' = first
    /\ UNCHANGED <<store, call, read, pages, todo, found, failed, cut, answer>>

\* The call raises.
Raise ==
    /\ step' = "done"
    /\ UNCHANGED <<store, call, filters, read, pages, todo, found, failed, cut, answer>>

Reject ==
    /\ step = "asked"
    /\ IsSearch
    /\ ~ValidQuery
    /\ Raise

Return(value) ==
    /\ step' = "done"
    /\ answer' = {value}
    /\ UNCHANGED <<store, call, filters, read, pages, todo, found, failed, cut>>

\* A request for rows brings some of the hits not read yet; it may be the last.
Read(hits, most) ==
    \E n \in 0..Min({most, Len(hits) - Len(read)}), last \in BOOLEAN :
        /\ pages' = pages + 1
        /\ read' = First(hits, Len(read) + n)
        /\ step' = IF last THEN "read" ELSE step
        /\ cut' = (cut \/ (last /\ Len(read) + n < Len(hits)))
        /\ UNCHANGED <<store, call, filters, todo, found, failed, answer>>

\* A request that brings as many of the hits as it asks for.
ReadOnce(hits, most) ==
    /\ pages' = pages + 1
    /\ read' = First(hits, most)
    /\ step' = "read"
    /\ cut' = (Len(hits) > most)
    /\ UNCHANGED <<store, call, filters, todo, found, failed, answer>>

\* No more requests for rows.
StopReading(hits) ==
    /\ step' = "read"
    /\ cut' = (cut \/ Len(read) < Len(hits))
    /\ UNCHANGED <<store, call, filters, read, pages, todo, found, failed, answer>>

\* The traces of the rows are to be fetched, up to the cap.
FetchTraces(ids) ==
    /\ step = "read"
    /\ todo' = ids
    /\ step' = "fetching"
    /\ pages' = 0
    /\ cut' = (cut \/ Len(ids) < Len(TraceIds(read)))
    /\ UNCHANGED <<store, call, filters, read, found, failed, answer>>

\* The next of them was fetched: what was made of it, if anything.
Fetched(traces, whole) ==
    /\ step = "fetching"
    /\ todo' = Tail(todo)
    /\ found' = found \o traces
    /\ cut' = (cut \/ ~whole)
    /\ UNCHANGED <<store, call, step, filters, read, pages, failed, answer>>

\* It was not: the error is logged.
NotFetched ==
    /\ step = "fetching"
    /\ todo # <<>>
    /\ todo' = Tail(todo)
    /\ failed' = failed + 1
    /\ cut' = TRUE
    /\ UNCHANGED <<store, call, step, filters, read, pages, found, answer>>
=============================================================================
