-------------------------- MODULE HoneycombSearch --------------------------
(***************************************************************************)
(* backends/honeycomb.py: the queries of the HoneycombBackends that share  *)
(* a limiter.  A task runs one query, or for search_traces two: the search *)
(* and one hydration of all the traces it found.  A query creates a spec,  *)
(* takes a slot, creates a result and polls it until it is complete.       *)
(*                                                                         *)
(* The limiter is HoneycombLimiter, its callers are the queries.  A step   *)
(* is what a task runs between two awaits.                                 *)
(***************************************************************************)
EXTENDS HoneycombLimiter, Selection

CONSTANTS
    Tasks,        \* the calls of search_traces and of the methods with one query
    Timeout,      \* per task, self.timeout of its backend, the budget of acquire
    RequestTime,  \* the transport ends every HTTP request within this time
    Execution,    \* _QUERY_EXECUTION_TIMEOUT_SECONDS
    Interval,     \* _POLL_INTERVAL_SECONDS
    Traces,       \* the trace ids there are
    Rows,         \* what a search may find: the trace ids of its rows, in order
    MaxHydrate,   \* _MAX_TRACES_TO_HYDRATE
    Limit,        \* query.limit
    Hydrated,     \* the traces whose spans the hydration still finds
    Matching,     \* the traces that pass the filters once they are whole
    LastStart     \* bound: no task begins after this time

ASSUME SearchAssumption ==
    /\ Callers = Tasks \X {1, 2}
    /\ Timeout \in [Tasks -> Budgets \ {0}]
    /\ {Execution, Interval, RequestTime, MaxHydrate, Limit} \subseteq Nat \ {0}
    /\ Rows \subseteq Seq(Traces)
    /\ LastStart \in Nat

VARIABLES
    task,    \* per task, where it is in which query
    found,   \* per task, the trace ids it hydrates
    answer   \* per task, the trace ids it returns

searchVars == <<vars, task, found, answer>>
-----------------------------------------------------------------------------
InFlight == {"spec", "run", "poll"}
Active == InFlight \cup {"slot", "pause"}
Over == {"done", "failed", "cancelled"}

Kinds == {"single", "search"}

TaskStates ==
    [step : {"new"} \cup Active \cup Over, query : {1, 2}, kind : Kinds,
     until : Nat, giveUp : Nat, began : Nat]

Fresh == [step |-> "new", query |-> 1, kind |-> "single",
          until |-> 0, giveUp |-> 0, began |-> 0]

\* The acquire of the query the task is at.
Slot(t) == <<t, task[t].query>>

\* The task awaits a request of its current query.
Requests(t, step) ==
    task' = [task EXCEPT ![t] = [@ EXCEPT !.step = step, !.until = now + RequestTime]]

\* The locals of a call are gone when it is over.
Finish(t, how) ==
    task' = [task EXCEPT ![t] = [Fresh EXCEPT !.step = how, !.query = task[t].query,
                                              !.kind = task[t].kind]]

SearchInit ==
    /\ Init
    /\ task = [t \in Tasks |-> Fresh]
    /\ found = [t \in Tasks |-> <<>>]
    /\ answer = [t \in Tasks |-> <<>>]

\* Time passes when nothing can run, no request is over its time and no poll
\* is due.
SearchTick ==
    /\ Tick
    /\ \A t \in Tasks :
        task[t].step \in InFlight \cup {"pause"} => now < task[t].until
    /\ UNCHANGED <<task, found, answer>>
-----------------------------------------------------------------------------
(* _run_query.                                                             *)

\* A tool call, or /ready's list_services: POST the spec of its first query.
Begin(t, kind) ==
    /\ task[t].step = "new"
    /\ now <= LastStart
    /\ task' = [task EXCEPT ![t] =
                  [Fresh EXCEPT !.step = "spec", !.kind = kind,
                                !.until = now + RequestTime, !.began = now]]
    /\ UNCHANGED <<vars, found, answer>>

\* _create_query_spec returns the id: _create_query_result asks for a slot.
SpecCreated(t) ==
    /\ task[t].step = "spec"
    /\ Acquire(Slot(t), Timeout[t])
    /\ task' = [task EXCEPT ![t] = [@ EXCEPT !.step = "slot", !.until = 0]]
    /\ UNCHANGED <<found, answer>>

\* acquire goes on; with the slot the result is created at once, and
\* HoneycombRateLimitedError ends the call.
AwaitsSlot(t) ==
    /\ task[t].step = "slot"
    /\ \/ \E f \in first .. Len(calls) + 1 :
            \/ TakeSlot(Slot(t), f) /\ Requests(t, "run")
            \/ Refuse(Slot(t), f) /\ Finish(t, "failed")
            \/ Park(Slot(t), f) /\ UNCHANGED task
       \/ TimesOut(Slot(t)) /\ Finish(t, "failed")
    /\ UNCHANGED <<found, answer>>

\* _poll_query_result begins: its deadline is set once.
ResultCreated(t) ==
    /\ task[t].step = "run"
    /\ task' = [task EXCEPT ![t] =
                  [@ EXCEPT !.step = "poll", !.until = now + RequestTime,
                            !.giveUp = now + Execution + Interval]]
    /\ UNCHANGED <<vars, found, answer>>

\* The poll says the query still runs: the deadline is looked at here only.
NotComplete(t) ==
    /\ task[t].step = "poll"
    /\ \/ now >= task[t].giveUp /\ Finish(t, "failed")
       \/ /\ now < task[t].giveUp
          /\ task' = [task EXCEPT ![t] = [@ EXCEPT !.step = "pause",
                                                   !.until = now + Interval]]
    /\ UNCHANGED <<vars, found, answer>>

\* mutant: the deadline is computed inside the loop
PollAgain_Renewed(t) ==
    /\ task[t].step = "pause"
    /\ now >= task[t].until
    /\ task' = [task EXCEPT ![t] =
                  [@ EXCEPT !.step = "poll", !.until = now + RequestTime,
                            !.giveUp = now + Execution + Interval]]
    /\ UNCHANGED <<vars, found, answer>>

\* The sleep between two polls is over.
PollAgain(t) ==
    /\ task[t].step = "pause"
    /\ now >= task[t].until
    /\ Requests(t, "poll")
    /\ UNCHANGED <<vars, found, answer>>
-----------------------------------------------------------------------------
(* What the rows of a complete result are used for.                        *)

Cut(s, n) == SubSeq(s, 1, IF n < Len(s) THEN n ELSE Len(s))

\* Each trace once, in the order of its first row, as many as are hydrated.
TraceIds(rows) ==
    Cut(At(rows, {i \in DOMAIN rows : \A j \in 1 .. i - 1 : rows[j] # rows[i]}), MaxHydrate)

\* Where the traces are that have spans and pass the filters.
Whole(ids) == {i \in DOMAIN ids : ids[i] \in Hydrated /\ ids[i] \in Matching}

\* mutant: cut to the limit before the filters are applied
Answered_CutFirst(ids) ==
    At(Cut(ids, Limit), Whole(Cut(ids, Limit)))

\* The traces with spans, filtered once more now that they are whole.
Answered(ids) == Cut(At(ids, Whole(ids)), Limit)

\* A method with one query returns what it found.
SingleComplete(t) ==
    /\ task[t].step = "poll"
    /\ task[t].kind = "single"
    /\ Finish(t, "done")
    /\ UNCHANGED <<vars, found, answer>>

\* search_traces hydrates all traces of its search in one query, if any.
SearchComplete(t) ==
    /\ task[t].step = "poll"
    /\ task[t].kind = "search" /\ task[t].query = 1
    /\ \E rows \in Rows :
        /\ found' = [found EXCEPT ![t] = TraceIds(rows)]
        /\ \/ TraceIds(rows) = <<>> /\ Finish(t, "done")
           \/ /\ TraceIds(rows) # <<>>
              /\ task' = [task EXCEPT ![t] =
                            [@ EXCEPT !.step = "spec", !.query = 2, !.giveUp = 0,
                                      !.until = now + RequestTime]]
    /\ UNCHANGED <<vars, answer>>

HydrationComplete(t) ==
    /\ task[t].step = "poll"
    /\ task[t].query = 2
    /\ answer' = [answer EXCEPT ![t] = Answered(found[t])]
    /\ Finish(t, "done")
    /\ UNCHANGED <<vars, found>>
-----------------------------------------------------------------------------
(* How a call fails: no step of it is repeated by the backend.             *)

\* 402, 403 or another error status, or a body of an unexpected shape.
RequestFails(t) ==
    /\ task[t].step \in InFlight
    /\ Finish(t, "failed")
    /\ UNCHANGED <<vars, found, answer>>

\* The transport's deadline.
RequestTimesOut(t) ==
    /\ task[t].step \in InFlight
    /\ now >= task[t].until
    /\ Finish(t, "failed")
    /\ UNCHANGED <<vars, found, answer>>

\* The client of the tool call cancels it.
TaskCancelled(t) ==
    /\ task[t].step \in Active
    /\ IF task[t].step = "slot" THEN Cancel(Slot(t)) ELSE UNCHANGED vars
    /\ Finish(t, "cancelled")
    /\ UNCHANGED <<found, answer>>
-----------------------------------------------------------------------------
SearchNext ==
    \/ SearchTick
    \/ \E t \in Tasks :
        \/ \E kind \in Kinds : Begin(t, kind)
        \/ SpecCreated(t)
        \/ AwaitsSlot(t)
        \/ ResultCreated(t)
        \/ NotComplete(t)
        \/ PollAgain(t)
        \/ SingleComplete(t)
        \/ SearchComplete(t)
        \/ HydrationComplete(t)
        \/ RequestFails(t)
        \/ RequestTimesOut(t)
        \/ TaskCancelled(t)

\* Time passes, the event loop runs what is ready and the transport gives up
\* in time.  The backend owes no answer.
SearchFairness ==
    /\ WF_searchVars(SearchTick)
    /\ \A t \in Tasks :
        /\ WF_searchVars(AwaitsSlot(t))
        /\ WF_searchVars(PollAgain(t))
        /\ WF_searchVars(RequestTimesOut(t))

SearchSpec == SearchInit /\ [][SearchNext]_searchVars /\ SearchFairness
-----------------------------------------------------------------------------
(* Properties.                                                             *)

\* The limiter's type and the tasks'; a task is inside acquire exactly while
\* one of its slots is waited for.
SearchTypeOK ==
    /\ TypeOK
    /\ task \in [Tasks -> TaskStates]
    /\ {found, answer} \subseteq [Tasks -> Seq(Traces)]
    /\ \A t \in Tasks :
        /\ Len(found[t]) <= MaxHydrate
        /\ Len(answer[t]) <= Limit
        /\ \A q \in {1, 2} :
            pc[<<t, q>>] \in Waiting <=> task[t].step = "slot" /\ task[t].query = q

\* The longest one query can take: two POSTs, the slot between them, and the
\* polls, of which the last begins up to an interval after the deadline.
QueryTime(t) == 3 * RequestTime + Timeout[t] + Execution + 2 * Interval

\* A call never lasts longer than its queries may, however the backend
\* paces its answers and however many callers queue for slots: polling does
\* not wait for a query that never completes (honeycomb.py:108-110).
SearchBounded ==
    \A t \in Tasks :
        task[t].step \in Active =>
            now - task[t].began < task[t].query * QueryTime(t)

\* The limit is spent on traces that match: one found and hydrated is missing
\* from the answer only when Limit others are in it.
LimitSpentOnMatches ==
    \A t \in Tasks :
        task[t].step = "done" /\ task[t].kind = "search" =>
            \A i \in DOMAIN found[t] :
                found[t][i] \in Hydrated \cap Matching =>
                    \/ \E j \in DOMAIN answer[t] : answer[t][j] = found[t][i]
                    \/ Len(answer[t]) = Limit

\* Every call ends, also when the backend never completes a query.
EverySearchEnds ==
    \A t \in Tasks : task[t].step \in Active ~> task[t].step \in Over
=============================================================================
