------------------------------- MODULE XRayPool -------------------------------
(***************************************************************************)
(* backends/xray.py: _call, the one way to a blocking boto3 call, and      *)
(* close().                                                                *)
(*                                                                         *)
(* A call holds a permit of the semaphore until its await ends.  The work  *)
(* it submits is the executor's from then on: a call that is cancelled     *)
(* gives its permit back while the thread may go on with its work.         *)
(***************************************************************************)
EXTENDS Integers, Sequences, FiniteSets

CONSTANTS
    Callers,   \* the tasks of tool calls and probes
    Permits,   \* _MAX_CONCURRENT_XRAY_CALLS: of the semaphore and the executor
    MaxCalls   \* bound: how many boto3 calls a task makes in a row

ASSUME PoolAssumption ==
    /\ IsFiniteSet(Callers)
    /\ Permits \in Nat \ {0}
    /\ MaxCalls \in Nat

VARIABLES
    free,     \* the permits nobody holds
    waiters,  \* who waits for one, in order
    pc,       \* per task, where it is
    made,     \* per task, the boto3 calls submitted so far
    work,     \* per task, where the work it submitted last is
    closed    \* the executor is shut down

pool == <<free, waiters, pc, made, work, closed>>
-----------------------------------------------------------------------------
Ends == {"served", "raised", "shut", "dropped", "cancelled", "refused"}
Stages == {"outside", "ready", "waiting", "granted", "calling"} \cup Ends
Works == {"none", "pending", "running", "done", "dropped"}

Holders == {c \in Callers : pc[c] \in {"granted", "calling"}}
Pending == {c \in Callers : work[c] = "pending"}
Running == {c \in Callers : work[c] = "running"}

\* Work in a thread that nobody waits for any more.
Orphans == {c \in Running : pc[c] # "calling"}

\* mutant: the semaphore lets one more in than there are threads
PoolInit_Wider ==
    /\ free = Permits + 1
    /\ waiters = <<>>
    /\ pc = [c \in Callers |-> "outside"]
    /\ made = [c \in Callers |-> 0]
    /\ work = [c \in Callers |-> "none"]
    /\ closed = FALSE

PoolInit ==
    /\ free = Permits
    /\ waiters = <<>>
    /\ pc = [c \in Callers |-> "outside"]
    /\ made = [c \in Callers |-> 0]
    /\ work = [c \in Callers |-> "none"]
    /\ closed = FALSE

\* A tool call or a probe begins.
Enter(c) ==
    /\ pc[c] = "outside"
    /\ pc' = [pc EXCEPT ![c] = "ready"]
    /\ UNCHANGED <<free, waiters, made, work, closed>>
-----------------------------------------------------------------------------
(* asyncio.Semaphore: a permit given back goes to who waits longest.       *)

First(d) == waiters # <<>> /\ d = Head(waiters) /\ pc[d] = "waiting"

\* A waiter that is cancelled is removed from the queue.
Unqueue(c) ==
    \E i \in DOMAIN waiters :
        /\ waiters[i] = c
        /\ waiters' = SubSeq(waiters, 1, i - 1) \o SubSeq(waiters, i + 1, Len(waiters))

\* mutant: release() stands after the await and not in a finally
Release_AfterAwait(c, to) ==
    \/ /\ waiters = <<>> \/ to \notin {"ready", "served"}
       /\ free' = IF to \in {"ready", "served"} THEN free + 1 ELSE free
       /\ pc' = [pc EXCEPT ![c] = to]
       /\ UNCHANGED waiters
    \/ \E d \in Callers :
        /\ First(d)
        /\ to \in {"ready", "served"}
        /\ waiters' = Tail(waiters)
        /\ pc' = [pc EXCEPT ![c] = to, ![d] = "granted"]
        /\ UNCHANGED free

\* The async with of c ends, however it ends, and c goes on to "to".
Release(c, to) ==
    \/ /\ waiters = <<>>
       /\ free' = free + 1
       /\ pc' = [pc EXCEPT ![c] = to]
       /\ UNCHANGED waiters
    \/ \E d \in Callers :
        /\ First(d)
        /\ waiters' = Tail(waiters)
        /\ pc' = [pc EXCEPT ![c] = to, ![d] = "granted"]
        /\ UNCHANGED free
-----------------------------------------------------------------------------
(* _call.                                                                  *)

\* run_in_executor.
Submit(c) ==
    /\ ~closed
    /\ work' = [work EXCEPT ![c] = "pending"]
    /\ made' = [made EXCEPT ![c] = @ + 1]

\* With a free permit there is no await before the work is submitted; an
\* executor that is shut down raises, and the permit is given back at once.
TakePermit(c) ==
    /\ pc[c] = "ready"
    /\ free > 0
    /\ waiters = <<>>
    /\ \/ /\ Submit(c)
          /\ free' = free - 1
          /\ pc' = [pc EXCEPT ![c] = "calling"]
       \/ /\ closed
          /\ pc' = [pc EXCEPT ![c] = "shut"]
          /\ UNCHANGED <<free, made, work>>
    /\ UNCHANGED <<waiters, closed>>

Queue(c) ==
    /\ pc[c] = "ready"
    /\ free = 0 \/ waiters # <<>>
    /\ waiters' = Append(waiters, c)
    /\ pc' = [pc EXCEPT ![c] = "waiting"]
    /\ UNCHANGED <<free, made, work, closed>>

\* The task that was handed a permit runs again.
UsePermit(c) ==
    /\ pc[c] = "granted"
    /\ \/ /\ Submit(c)
          /\ pc' = [pc EXCEPT ![c] = "calling"]
          /\ UNCHANGED <<free, waiters>>
       \/ /\ closed
          /\ Release(c, "shut")
          /\ UNCHANGED <<made, work>>
    /\ UNCHANGED closed

\* The work is done: the task makes its next call, as for another page, or
\* ends with an answer or with what boto3 raised.
Return(c) ==
    /\ pc[c] = "calling"
    /\ work[c] = "done"
    /\ \/ made[c] < MaxCalls /\ Release(c, "ready")
       \/ Release(c, "served")
       \/ Release(c, "raised")
    /\ work' = [work EXCEPT ![c] = "none"]
    /\ UNCHANGED <<made, closed>>

\* The shutdown cancelled the work, and so the await: the task gets a
\* CancelledError although nobody cancelled it.
Dropped(c) ==
    /\ pc[c] = "calling"
    /\ work[c] = "dropped"
    /\ Release(c, "dropped")
    /\ work' = [work EXCEPT ![c] = "none"]
    /\ UNCHANGED <<made, closed>>

\* The task is cancelled, by its session or by the deadline of a probe.  Work
\* that has no thread yet is cancelled with it, a thread goes on.
Cancel(c) ==
    /\ \/ /\ pc[c] = "ready"
          /\ pc' = [pc EXCEPT ![c] = "cancelled"]
          /\ UNCHANGED <<free, waiters, work>>
       \/ /\ pc[c] = "waiting"
          /\ pc' = [pc EXCEPT ![c] = "cancelled"]
          /\ Unqueue(c)
          /\ UNCHANGED <<free, work>>
       \/ /\ pc[c] = "granted"
          /\ Release(c, "cancelled")
          /\ UNCHANGED work
       \/ /\ pc[c] = "calling"
          /\ Release(c, "cancelled")
          /\ work' = [work EXCEPT ![c] = IF @ = "running" THEN @ ELSE "none"]
    /\ UNCHANGED <<made, closed>>
-----------------------------------------------------------------------------
(* The executor.  Which work an idle thread takes next makes no difference *)
(* to what is claimed here.                                                *)

ThreadTakes(c) ==
    /\ work[c] = "pending"
    /\ Cardinality(Running) < Permits
    /\ work' = [work EXCEPT ![c] = "running"]
    /\ UNCHANGED <<free, waiters, pc, made, closed>>

\* boto3 returns or raises, at the latest on its own timeouts.
ThreadEnds(c) ==
    /\ work[c] = "running"
    /\ work' = [work EXCEPT ![c] = IF pc[c] = "calling" THEN "done" ELSE "none"]
    /\ UNCHANGED <<free, waiters, pc, made, closed>>

\* close: shutdown(wait=False, cancel_futures=True).
Close ==
    /\ ~closed
    /\ closed' = TRUE
    /\ work' = [c \in Callers |-> IF work[c] = "pending" THEN "dropped" ELSE work[c]]
    /\ UNCHANGED <<free, waiters, pc, made>>
-----------------------------------------------------------------------------
Thread(c) == ThreadTakes(c) \/ ThreadEnds(c)

Runs(c) == TakePermit(c) \/ Queue(c) \/ UsePermit(c) \/ Return(c) \/ Dropped(c)
-----------------------------------------------------------------------------
(* Properties.                                                             *)

\* A permit stands for a thread: when every thread is busy, work waits for
\* one only as long as threads are busy with the work of tasks that have
\* gone (xray.py:224-231).
PermitMeansThread ==
    Cardinality(Running) = Permits => Cardinality(Pending) <= Cardinality(Orphans)

\* Once close() has run no boto3 call begins, whoever comes through the
\* semaphore later (xray.py:254-260).
NothingBeginsClosed == closed => Pending = {}
=============================================================================
