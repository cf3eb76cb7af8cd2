-------------------------- MODULE HoneycombLimiter --------------------------
(***************************************************************************)
(* backends/honeycomb.py: _RateLimiter, the one queue in front of every    *)
(* Create Query Result call under the same Configuration Key.              *)
(*                                                                         *)
(* A caller's step is what it runs between two awaits: it gets the lock,   *)
(* or its sleep ends, and it goes through the loop of _wait_for_slot once. *)
(* The lock is an asyncio.Lock: first come, first served, and held across  *)
(* the sleep.  The event loop runs what is ready before time passes.       *)
(***************************************************************************)
EXTENDS Integers, Sequences

CONSTANTS
    Callers,   \* the calls of acquire, each made by a task of its own
    Nobody,    \* holds the lock when nobody does
    Max,       \* _max_per_minute
    Window,    \* the 60 seconds
    Budgets,   \* the max_wait_seconds; None is one that outlasts MaxTime
    MaxTime,   \* bound: the clock stops here
    LastAsk    \* bound: nobody calls acquire after this time

ASSUME LimiterAssumption ==
    /\ Max \in Nat \ {0}
    /\ Window \in Nat \ {0}
    /\ Budgets \subseteq Nat
    /\ MaxTime \in Nat
    /\ Nobody \notin Callers

VARIABLES
    now,       \* the monotonic clock
    calls,     \* the times of all slots taken, oldest first
    first,     \* _call_times is calls from here on
    holder,    \* who holds _lock
    waiters,   \* who waits for it, in order
    pc,        \* per caller, where it is
    deadline,  \* per caller, when its asyncio.timeout fires
    wakeAt     \* per caller, when its sleep ends

vars == <<now, calls, first, holder, waiters, pc, deadline, wakeAt>>
-----------------------------------------------------------------------------
Waiting == {"queued", "sleeping"}
Ends == {"granted", "refused", "cancelled"}

\* mutant: an entry that is exactly Window old is kept
Expired_Later(i) == calls[i] < now - Window

Expired(i) == calls[i] <= now - Window

\* popleft while the oldest entry is out of the window leaves calls from f on.
EvictedTo(f) ==
    /\ f \in first .. Len(calls) + 1
    /\ \A i \in first .. f - 1 : Expired(i)
    /\ f <= Len(calls) => ~Expired(f)

\* mutant: one call more than the cap
Full_OffByOne(f) == Len(calls) + 1 - f > Max

\* len(_call_times) >= _max_per_minute, after evicting up to f
Full(f) == Len(calls) + 1 - f >= Max

\* wait_seconds: until the oldest call leaves the window.
WaitFor(f) == Window - (now - calls[f])

\* mutant: the budget covers the sleep but not the wait for the lock
Overdue_OnlyAsleep(c) == pc[c] = "sleeping" /\ now >= deadline[c]

\* asyncio.timeout(max_wait_seconds) is due, around lock wait and sleep.
Overdue(c) == pc[c] \in Waiting /\ now >= deadline[c]

\* mutant: the lock is released for the sleep
HolderAsleep_Released(c) == Nobody

\* The lock is held across the sleep.
HolderAsleep(c) == c
-----------------------------------------------------------------------------
Init ==
    /\ now = 0
    /\ calls = <<>>
    /\ first = 1
    /\ holder = Nobody
    /\ waiters = <<>>
    /\ pc = [c \in Callers |-> "idle"]
    /\ deadline = [c \in Callers |-> 0]
    /\ wakeAt = [c \in Callers |-> 0]

\* Time passes when nobody can run and no timer is due.
Tick ==
    /\ now < MaxTime
    /\ holder = Nobody => waiters = <<>>
    /\ \A c \in Callers :
        /\ ~Overdue(c)
        /\ pc[c] = "sleeping" => now < wakeAt[c]
    /\ now' = now + 1
    /\ UNCHANGED <<calls, first, holder, waiters, pc, deadline, wakeAt>>

\* acquire: a caller that finds the lock free is the head of its waiters.
Acquire(c, maxWait) ==
    /\ pc[c] = "idle"
    /\ now <= LastAsk
    /\ pc' = [pc EXCEPT ![c] = "queued"]
    /\ deadline' = [deadline EXCEPT ![c] = now + maxWait]
    /\ waiters' = Append(waiters, c)
    /\ UNCHANGED <<now, calls, first, holder, wakeAt>>
-----------------------------------------------------------------------------
(* _wait_for_slot: one turn of its loop.                                   *)

GetsLock(c) ==
    /\ pc[c] = "queued"
    /\ holder = Nobody
    /\ waiters # <<>>
    /\ c = Head(waiters)
    /\ waiters' = Tail(waiters)

WakesUp(c) ==
    /\ pc[c] = "sleeping"
    /\ now >= wakeAt[c]
    /\ waiters' = waiters

Turn(c, f) ==
    /\ GetsLock(c) \/ WakesUp(c)
    /\ EvictedTo(f)
    /\ first' = f

TakeSlot(c, f) ==
    /\ Turn(c, f)
    /\ ~Full(f)
    /\ calls' = Append(calls, now)
    /\ holder' = Nobody
    /\ pc' = [pc EXCEPT ![c] = "granted"]
    /\ UNCHANGED <<now, deadline, wakeAt>>

\* mutant: a wait that cannot end in time is begun all the same
TooLong_Never(c, f) == FALSE

\* The next slot frees after the deadline: the caller fails fast.
TooLong(c, f) == WaitFor(f) > deadline[c] - now

Refuse(c, f) ==
    /\ Turn(c, f)
    /\ Full(f)
    /\ WaitFor(f) > 0
    /\ TooLong(c, f)
    /\ holder' = Nobody
    /\ pc' = [pc EXCEPT ![c] = "refused"]
    /\ UNCHANGED <<now, calls, deadline, wakeAt>>

\* With no wait at all the loop would spin without ever yielding: there is
\* no step for that, and time would stand still.
Park(c, f) ==
    /\ Turn(c, f)
    /\ Full(f)
    /\ WaitFor(f) > 0
    /\ ~TooLong(c, f)
    /\ holder' = HolderAsleep(c)
    /\ pc' = [pc EXCEPT ![c] = "sleeping"]
    /\ wakeAt' = [wakeAt EXCEPT ![c] = now + WaitFor(f)]
    /\ UNCHANGED <<now, calls, deadline>>
-----------------------------------------------------------------------------
(* A caller that gives up leaves the waiters, or releases the lock.        *)

Unqueue(c) ==
    \E i \in DOMAIN waiters :
        /\ waiters[i] = c
        /\ waiters' = [j \in 1 .. Len(waiters) - 1 |-> waiters[IF j < i THEN j ELSE j + 1]]

Leave(c, how) ==
    /\ \/ pc[c] = "queued" /\ Unqueue(c) /\ UNCHANGED holder
       \/ pc[c] = "sleeping" /\ holder' = Nobody /\ UNCHANGED waiters
    /\ pc' = [pc EXCEPT ![c] = how]
    /\ UNCHANGED <<now, calls, first, deadline, wakeAt>>

\* asyncio.timeout(max_wait_seconds) fires, in the lock wait or the sleep.
TimesOut(c) ==
    /\ Overdue(c)
    /\ Leave(c, "refused")

Cancel(c) ==
    /\ pc[c] \in Waiting
    /\ Leave(c, "cancelled")
-----------------------------------------------------------------------------
Runs(c) ==
    \E f \in first .. Len(calls) + 1 :
        \/ TakeSlot(c, f)
        \/ Refuse(c, f)
        \/ Park(c, f)

Next ==
    \/ Tick
    \/ \E c \in Callers :
        \/ \E maxWait \in Budgets : Acquire(c, maxWait)
        \/ Runs(c)
        \/ TimesOut(c)
        \/ Cancel(c)

Spec == Init /\ [][Next]_vars
-----------------------------------------------------------------------------
(* Properties.                                                             *)

\* Every variable has its type; the lock is held exactly by a sleeping caller
\* and the waiters are exactly the queued ones.
TypeOK ==
    /\ now \in Nat
    /\ calls \in Seq(Nat)
    /\ first \in 1 .. Len(calls) + 1
    /\ waiters \in Seq(Callers)
    /\ pc \in [Callers -> {"idle"} \cup Waiting \cup Ends]
    /\ deadline \in [Callers -> Nat]
    /\ wakeAt \in [Callers -> Nat]
    /\ holder \in Callers \cup {Nobody}
    /\ \A c \in Callers : pc[c] = "sleeping" <=> holder = c
    /\ \A c \in Callers :
        pc[c] = "queued" <=> \E i \in DOMAIN waiters : waiters[i] = c

\* The cap is a true ceiling: any Max + 1 consecutive slots span a whole
\* window, whoever waits, sleeps, times out or is cancelled
\* (honeycomb.py:207-213).
RateBound ==
    \A i \in DOMAIN calls :
        i + Max \in DOMAIN calls => calls[i + Max] - calls[i] >= Window

\* No caller spends more than its budget inside acquire, lock wait and sleep
\* together (honeycomb.py:215-221).
WaitBounded ==
    \A c \in Callers : pc[c] \in Waiting => now <= deadline[c]

\* A caller that was parked gets its slot when it wakes: nobody can take it
\* meanwhile, and it is never sent away before its deadline.
ParkedIsServed ==
    [][\A c \in Callers :
         pc[c] = "sleeping" /\ pc'[c] \in {"refused", "sleeping"}
         => \/ pc'[c] = "sleeping" /\ wakeAt'[c] = wakeAt[c]
            \/ now >= deadline[c]]_vars

=============================================================================
