---------------------------- MODULE NewRelicBackend ---------------------------
(***************************************************************************)
(* backends/newrelic.py: one NRQL query of at most so many rows, never     *)
(* pages.  A search for traces fetches each trace by GraphQL and overlays  *)
(* the attributes and the status of the rows it found.                     *)
(***************************************************************************)
EXTENDS SearchCall

CONSTANTS
    MaxRows,    \* _MAX_NRQL_LIMIT
    MaxUniques  \* the 200 of uniques(...)

\* _parse_newrelic_row, of those that can be parsed
NewRelicParsed(rows) == Sound(rows)

\* _parse_newrelic_graphql_span: the lookup may carry no attributes but the
\* service.
NewRelicLookedUp(spans) ==
    [i \in DOMAIN NewRelicParsed(spans) |->
        IF NewRelicParsed(spans)[i].thin
        THEN [NewRelicParsed(spans)[i] EXCEPT !.attributes = Bare, !.status = <<"UNSET">>]
        ELSE NewRelicParsed(spans)[i]]

NewRelicSupported(f) == f.operator \in CommonOperators

\* _build_nrql_where
NewRelicQuery ==
    Among(filters, {f \in ToSet(filters) : NewRelicSupported(f) /\ Expressible(f)})
NewRelicUnsupported == Among(filters, {f \in ToSet(filters) : ~NewRelicSupported(f)})

NewRelicHits == SpansWith(NewRelicQuery)

\* _run_nrql_search
NewRelicRowLimit ==
    Min({MaxRows, Max({1, Limit * IF call.op = "search_traces" THEN 5 ELSE 2})})

NewRelicStart == Ask("paging")

\* What the account's NRQL answers to a search.
NewRelicSearch ==
    /\ step = "paging"
    /\ IsSearch
    /\ ReadOnce(NewRelicHits, NewRelicRowLimit)

\* _call_nerdgraph and _run_account_nrql raise on errors, on a missing account
\* and on results of the wrong shape.
NewRelicRequestFails ==
    /\ step = "paging"
    /\ IF call.op = "health_check" THEN Return(FALSE) ELSE Raise

NewRelicFindTraces ==
    /\ call.op = "search_traces"
    /\ FetchTraces(First(TraceIds(read), MaxHydrate))

NewRelicTraceOf(id) == NewRelicLookedUp(OfTrace(Spans, id))

\* mutant: a thin lookup is not enriched
NewRelicOverlaid_Never(id) == NewRelicTraceOf(id)

NewRelicOverlaid(id) == Enriched(NewRelicTraceOf(id), NewRelicParsed(OfTrace(read, id)))

NewRelicFetchTrace ==
    /\ call.op = "search_traces"
    /\ todo # <<>>
    /\ \/ /\ NewRelicTraceOf(Head(todo)) # <<>>
          /\ Fetched(<<Grouped(NewRelicOverlaid(Head(todo)))>>, TRUE)
       \/ NotFetched

NewRelicReturnTraces ==
    /\ call.op = "search_traces"
    /\ step = "fetching"
    /\ todo = <<>>
    /\ Return(First(Filtered(found, filters), Limit))

NewRelicReturnSpans ==
    /\ call.op = "search_spans"
    /\ step = "read"
    /\ Return(First(Filtered(AsSpans(NewRelicParsed(read)), NewRelicUnsupported), Limit))

NewRelicReturnTrace ==
    /\ call.op = "get_trace"
    /\ step = "paging"
    /\ IF NewRelicTraceOf(call.subject) = <<>> THEN Raise
       ELSE Return(<<Grouped(NewRelicTraceOf(call.subject))>>)

\* uniques: so many of the names at most, or a row of the wrong shape, which
\* counts as none.
NewRelicSomeOf(names) ==
    {{}} \cup {ns \in SUBSET names : Cardinality(ns) = Min({MaxUniques, Cardinality(names)})}

NewRelicReturnServices ==
    /\ call.op = "list_services"
    /\ step = "paging"
    /\ \E names \in NewRelicSomeOf({s.service : s \in ToSet(Spans)}) : Return(names)

NewRelicReturnOperations ==
    /\ call.op = "operations"
    /\ step = "paging"
    /\ LET operations == {s.operation : s \in {t \in ToSet(Spans) : t.service = call.subject}}
       IN  \E names \in NewRelicSomeOf(operations) : Return(names)

NewRelicReturnHealth ==
    /\ call.op = "health_check"
    /\ step = "paging"
    /\ Return(TRUE)

NewRelicNext ==
    \/ NewRelicStart \/ Reject \/ NewRelicSearch \/ NewRelicRequestFails
    \/ NewRelicFindTraces \/ NewRelicFetchTrace \/ NewRelicReturnTraces
    \/ NewRelicReturnSpans \/ NewRelicReturnTrace \/ NewRelicReturnServices
    \/ NewRelicReturnOperations \/ NewRelicReturnHealth
=============================================================================
