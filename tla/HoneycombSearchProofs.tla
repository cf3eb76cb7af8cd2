----------------------- MODULE HoneycombSearchProofs -----------------------
(***************************************************************************)
(* Every query of every task goes through the limiter, whose guarantees    *)
(* therefore hold for them, and no call outlasts its bound: for any number *)
(* of tasks, any budgets, and whatever the requests' and polls' times are. *)
(***************************************************************************)
EXTENDS HoneycombSearch, WellFoundedInduction, TLAPS

-----------------------------------------------------------------------------
(* What _RateLimiter guarantees for every cap, window, set of budgets and  *)
(* number of callers.                                                      *)

\* The part of the types the argument needs.
Types ==
    /\ now \in Nat
    /\ calls \in Seq(Nat)
    /\ first \in 1 .. Len(calls) + 1
    /\ pc \in [Callers -> {"idle"} \cup Waiting \cup Ends]
    /\ deadline \in [Callers -> Nat]
    /\ wakeAt \in [Callers -> Nat]

\* What has been evicted is out of the window, and stays so.
EvictedIsOld == \A i \in 1 .. first - 1 : Expired(i)

\* _call_times never holds more than the cap.
DequeBounded == Len(calls) + 1 - first <= Max

\* A sleeping caller holds the lock, and what it waits for is that the
\* oldest call leaves the window.
Parked ==
    \A c \in Callers :
        pc[c] = "sleeping" =>
            /\ holder = c
            /\ first <= Len(calls)
            /\ wakeAt[c] = calls[first] + Window

\* The inductive invariant.
IInv ==
    /\ Types
    /\ EvictedIsOld
    /\ DequeBounded
    /\ RateBound
    /\ Parked
    /\ WaitBounded
-----------------------------------------------------------------------------
USE DEF Waiting, Ends

\* The initial state satisfies the invariant.
LEMMA InitIInv == Init => IInv
  <1> SUFFICES ASSUME Init PROVE IInv
    OBVIOUS
  <1> USE LimiterAssumption DEF Init
  <1>1. Len(calls) = 0 /\ calls \in Seq(Nat)
    OBVIOUS
  <1>2. Types
    BY DEF Types
  <1>3. EvictedIsOld /\ DequeBounded /\ RateBound
    BY DEF EvictedIsOld, DequeBounded, RateBound
  <1>4. Parked /\ WaitBounded
    BY DEF Parked, WaitBounded
  <1> QED
    BY <1>2, <1>3, <1>4 DEF IInv

\* Eviction keeps the invariant's view of the deque: everything before the
\* new start is old, and the deque only shrinks.
LEMMA Evicting ==
    ASSUME IInv, NEW f, EvictedTo(f)
    PROVE  /\ f \in 1 .. Len(calls) + 1
           /\ \A i \in 1 .. f - 1 : Expired(i)
           /\ Len(calls) + 1 - f <= Max
  <1>1. Len(calls) \in Nat /\ first \in Nat /\ Max \in Nat
    BY LimiterAssumption DEF IInv, Types
  <1>2. f \in 1 .. Len(calls) + 1 /\ f >= first
    BY DEF EvictedTo, IInv, Types
  <1>3. \A i \in 1 .. f - 1 : i \in 1 .. first - 1 \/ i \in first .. f - 1
    BY <1>1
  <1>4. \A i \in 1 .. f - 1 : Expired(i)
    BY <1>3 DEF EvictedTo, IInv, EvictedIsOld
  <1>5. Len(calls) + 1 - f <= Max
    BY <1>1, <1>2 DEF IInv, DequeBounded
  <1> QED
    BY <1>2, <1>4, <1>5

\* A parked caller that wakes finds a free slot: the entry it waited for is
\* the one that leaves the window.
LEMMA WakesToASlot ==
    ASSUME IInv, NEW c \in Callers, NEW f, WakesUp(c), EvictedTo(f)
    PROVE  ~Full(f)
  <1>1. /\ Len(calls) \in Nat /\ first \in Nat /\ Max \in Nat /\ now \in Nat
        /\ Window \in Nat /\ f \in 1 .. Len(calls) + 1
    BY LimiterAssumption, Evicting DEF IInv, Types
  <1>2. /\ first <= Len(calls) /\ wakeAt[c] = calls[first] + Window
        /\ now >= wakeAt[c]
    BY DEF WakesUp, IInv, Parked
  <1>3. calls[first] \in Nat
    BY <1>2 DEF IInv, Types
  <1>4. Expired(first)
    BY <1>1, <1>2, <1>3 DEF Expired
  <1>5. f # first
    BY <1>2, <1>4 DEF EvictedTo
  <1>6. f > first
    BY <1>1, <1>5 DEF EvictedTo
  <1> QED
    BY <1>1, <1>6 DEF Full, IInv, DequeBounded

\* Whoever takes a turn, no other caller is asleep.
LEMMA AloneAwake ==
    ASSUME IInv, NEW c \in Callers, NEW d \in Callers, NEW f,
           Turn(c, f), d # c, Nobody \notin Callers
    PROVE  pc[d] # "sleeping"
  BY DEF IInv, Parked, Turn, GetsLock, WakesUp
-----------------------------------------------------------------------------
(* Every step preserves the invariant.                                     *)

\* The clock: what was old stays old.
LEMMA StepTick == IInv /\ Tick => IInv'
  <1> SUFFICES ASSUME IInv, Tick PROVE IInv'
    OBVIOUS
  <1> USE LimiterAssumption DEF Tick
  <1>1. /\ now \in Nat /\ now' = now + 1 /\ calls' = calls /\ first' = first
        /\ UNCHANGED <<holder, pc, deadline, wakeAt>>
    BY DEF IInv, Types
  <1>2. Types'
    BY DEF IInv, Types
  <1>3. EvictedIsOld'
    <2>1. \A i \in 1 .. first - 1 : calls[i] \in Nat
      BY DEF IInv, Types
    <2> QED
      BY <1>1, <2>1 DEF IInv, EvictedIsOld, Expired
  <1>4. DequeBounded' /\ RateBound' /\ Parked'
    BY DEF IInv, DequeBounded, RateBound, Parked
  <1>5. WaitBounded'
    BY DEF IInv, Types, WaitBounded, Overdue
  <1> QED
    BY <1>2, <1>3, <1>4, <1>5 DEF IInv

\* A caller enters.
LEMMA StepAcquire ==
    ASSUME NEW c \in Callers, NEW maxWait \in Budgets, IInv,
           Acquire(c, maxWait)
    PROVE  IInv'
  <1> USE LimiterAssumption DEF Acquire
  <1>1. maxWait \in Nat /\ now \in Nat /\ now + maxWait \in Nat
    BY DEF IInv, Types
  <1>2. UNCHANGED <<now, calls, first, holder, wakeAt>>
    OBVIOUS
  <1>3. Types'
    BY DEF IInv, Types
  <1>4. EvictedIsOld' /\ DequeBounded' /\ RateBound'
    BY DEF IInv, EvictedIsOld, Expired, DequeBounded, RateBound
  <1>5. Parked'
    BY DEF IInv, Parked
  <1>6. WaitBounded'
    BY DEF IInv, Types, WaitBounded
  <1> QED
    BY <1>3, <1>4, <1>5, <1>6 DEF IInv

\* A slot is taken: the call Max places before it has left the window.
LEMMA StepTakeSlot ==
    ASSUME NEW c \in Callers, NEW f, IInv, TakeSlot(c, f)
    PROVE  IInv'
  <1> USE LimiterAssumption
  <1>1. /\ EvictedTo(f) /\ first' = f /\ ~Full(f) /\ calls' = Append(calls, now)
        /\ pc' = [pc EXCEPT ![c] = "granted"]
        /\ UNCHANGED <<now, deadline, wakeAt>>
    BY DEF TakeSlot, Turn
  <1>2. /\ f \in 1 .. Len(calls) + 1
        /\ \A i \in 1 .. f - 1 : Expired(i)
    BY <1>1, Evicting
  <1>3. /\ now \in Nat /\ Max \in Nat \ {0} /\ Len(calls) \in Nat
        /\ Window \in Nat
        /\ \A i \in 1 .. Len(calls) : calls[i] \in Nat
    BY DEF IInv, Types
  <1>4. /\ Len(calls') = Len(calls) + 1
        /\ calls' \in Seq(Nat)
        /\ \A i \in 1 .. Len(calls) : calls'[i] = calls[i]
        /\ calls'[Len(calls) + 1] = now
    BY <1>1 DEF IInv, Types
  <1>5. Types'
    BY <1>1, <1>2 DEF IInv, Types
  <1>6. EvictedIsOld'
    BY <1>1, <1>2 DEF EvictedIsOld, Expired
  <1>7. DequeBounded'
    BY <1>1, <1>2 DEF DequeBounded, Full
  <1>8. RateBound'
    <2> SUFFICES ASSUME NEW i \in DOMAIN calls', i + Max \in DOMAIN calls'
                 PROVE  calls'[i + Max] - calls'[i] >= Window
      BY DEF RateBound
    <2>1. i \in 1 .. Len(calls) + 1 /\ i + Max \in 1 .. Len(calls) + 1
      BY <1>4
    <2>2. i \in 1 .. Len(calls)
      BY <2>1
    <2>3. CASE i + Max \in 1 .. Len(calls)
      <3>1. calls[i + Max] - calls[i] >= Window
        BY <2>3 DEF IInv, RateBound
      <3> QED
        BY <1>4, <2>2, <2>3, <3>1
    <2>4. CASE i + Max = Len(calls) + 1
      <3>1. i \in 1 .. f - 1
        BY <1>1, <1>2 DEF Full
      <3>2. calls[i] <= now - Window
        BY <1>2, <3>1 DEF Expired
      <3> QED
        BY <1>4, <2>2, <2>4, <3>2
    <2> QED
      BY <2>1, <2>3, <2>4
  <1>9. Parked'
    <2>1. \A d \in Callers : d # c => pc[d] # "sleeping"
      BY AloneAwake DEF TakeSlot
    <2>2. \A d \in Callers : pc'[d] # "sleeping"
      BY <1>1, <2>1 DEF IInv, Types
    <2> QED
      BY <2>2 DEF Parked
  <1>10. WaitBounded'
    BY <1>1 DEF IInv, WaitBounded
  <1> QED
    BY <1>5, <1>6, <1>7, <1>8, <1>9, <1>10 DEF IInv

\* A turn of the loop that takes no slot.
LEMMA StepNoSlot ==
    ASSUME NEW c \in Callers, NEW f, IInv, Refuse(c, f) \/ Park(c, f)
    PROVE  IInv'
  <1> USE LimiterAssumption
  <1>1. /\ Turn(c, f) /\ EvictedTo(f) /\ first' = f
        /\ Full(f) /\ WaitFor(f) > 0
        /\ UNCHANGED <<now, calls, deadline>>
    BY DEF Refuse, Park, Turn
  <1>2. /\ f \in 1 .. Len(calls) + 1
        /\ \A i \in 1 .. f - 1 : Expired(i)
        /\ Len(calls) + 1 - f <= Max
    BY <1>1, Evicting
  <1>3. /\ now \in Nat /\ Max \in Nat \ {0} /\ Len(calls) \in Nat
        /\ Window \in Nat /\ f \in Nat /\ f <= Len(calls)
    BY <1>1, <1>2 DEF IInv, Types, Full
  <1>4. calls[f] \in Nat
    BY <1>2, <1>3 DEF IInv, Types
  <1>5. EvictedIsOld' /\ DequeBounded' /\ RateBound'
    BY <1>1, <1>2 DEF IInv, EvictedIsOld, Expired, DequeBounded, RateBound
  <1>6. \A d \in Callers : d # c => pc[d] # "sleeping"
    BY <1>1, AloneAwake
  <1>7. CASE Refuse(c, f)
    <2>1. pc' = [pc EXCEPT ![c] = "refused"] /\ UNCHANGED wakeAt
      BY <1>7 DEF Refuse
    <2>2. Types'
      BY <1>1, <1>2, <2>1 DEF IInv, Types
    <2>3. Parked'
      BY <1>6, <2>1 DEF IInv, Types, Parked
    <2>4. WaitBounded'
      BY <1>1, <2>1 DEF IInv, WaitBounded
    <2> QED
      BY <1>5, <2>2, <2>3, <2>4 DEF IInv
  <1>8. CASE Park(c, f)
    <2>1. /\ pc' = [pc EXCEPT ![c] = "sleeping"] /\ holder' = c
          /\ wakeAt' = [wakeAt EXCEPT ![c] = now + WaitFor(f)]
      BY <1>8 DEF Park, HolderAsleep
    <2>2. now + WaitFor(f) = calls[f] + Window
      BY <1>3, <1>4 DEF WaitFor
    <2>3. Types'
      <3>1. calls[f] + Window \in Nat
        BY <1>3, <1>4
      <3>2. wakeAt' \in [Callers -> Nat]
        BY <2>1, <2>2, <3>1 DEF IInv, Types
      <3>3. pc' \in [Callers -> {"idle"} \cup Waiting \cup Ends]
        BY <2>1 DEF IInv, Types, Waiting
      <3> QED
        BY <1>1, <1>2, <2>1, <3>2, <3>3 DEF IInv, Types
    <2>4. Parked'
      <3>1. \A d \in Callers : pc'[d] = "sleeping" => d = c
        BY <1>6, <2>1
      <3>2. wakeAt'[c] = calls[f] + Window
        BY <2>1, <2>2 DEF IInv, Types
      <3> QED
        BY <1>1, <1>3, <2>1, <3>1, <3>2 DEF Parked
    <2>5. WaitBounded'
      <3>1. pc[c] \in Waiting
        BY <1>1 DEF Turn, GetsLock, WakesUp
      <3> QED
        BY <1>1, <2>1, <3>1 DEF IInv, WaitBounded
    <2> QED
      BY <1>5, <2>3, <2>4, <2>5 DEF IInv
  <1> QED
    BY <1>7, <1>8

\* A caller gives up.
LEMMA StepLeave ==
    ASSUME NEW c \in Callers, NEW how \in {"refused", "cancelled"}, IInv,
           Leave(c, how)
    PROVE  IInv'
  <1> USE LimiterAssumption
  <1>1. /\ UNCHANGED <<now, calls, first, deadline, wakeAt>>
        /\ pc' = [pc EXCEPT ![c] = how]
        /\ \/ pc[c] = "queued" /\ holder' = holder
           \/ pc[c] = "sleeping" /\ holder' = Nobody
    BY DEF Leave
  <1>2. Types'
    BY <1>1 DEF IInv, Types
  <1>3. EvictedIsOld' /\ DequeBounded' /\ RateBound'
    BY <1>1 DEF IInv, EvictedIsOld, Expired, DequeBounded, RateBound
  <1>4. Parked'
    BY <1>1 DEF IInv, Types, Parked
  <1>5. WaitBounded'
    BY <1>1 DEF IInv, WaitBounded
  <1> QED
    BY <1>2, <1>3, <1>4, <1>5 DEF IInv

\* A step that changes nothing.
LEMMA StepStutter == IInv /\ UNCHANGED vars => IInv'
  BY DEF vars, IInv, Types, EvictedIsOld, Expired, DequeBounded, RateBound,
         Parked, WaitBounded

\* Every step of the specification preserves the invariant.
LEMMA NextIInv == IInv /\ [Next]_vars => IInv'
  <1> SUFFICES ASSUME IInv, [Next]_vars PROVE IInv'
    OBVIOUS
  <1>1. CASE Tick
    BY <1>1, StepTick
  <1>2. ASSUME NEW c \in Callers,
               \/ \E maxWait \in Budgets : Acquire(c, maxWait)
               \/ Runs(c)
               \/ TimesOut(c)
               \/ Cancel(c)
        PROVE  IInv'
    <2>1. ASSUME NEW maxWait \in Budgets, Acquire(c, maxWait) PROVE IInv'
      BY <2>1, StepAcquire
    <2>2. CASE Runs(c)
      BY <2>2, StepTakeSlot, StepNoSlot DEF Runs
    <2>3. CASE TimesOut(c)
      BY <2>3, StepLeave DEF TimesOut
    <2>4. CASE Cancel(c)
      BY <2>4, StepLeave DEF Cancel
    <2> QED
      BY <1>2, <2>1, <2>2, <2>3, <2>4
  <1>3. CASE UNCHANGED vars
    BY <1>3, StepStutter
  <1> QED
    BY <1>1, <1>2, <1>3 DEF Next

\* The invariant holds in every reachable state.
LEMMA Invariant == Spec => []IInv
  BY InitIInv, NextIInv, PTL DEF Spec
-----------------------------------------------------------------------------
(* The theorems.                                                           *)

\* The cap is a true ceiling for every cap, window and crowd of callers: a
\* slot is only taken when the slot Max places before it is a window old.
THEOREM CapIsACeiling == Spec => []RateBound
  <1>1. IInv => RateBound
    BY DEF IInv
  <1> QED
    BY <1>1, Invariant, PTL

\* Nobody stays in acquire beyond its budget.
THEOREM WaitIsBounded == Spec => []WaitBounded
  <1>1. IInv => WaitBounded
    BY DEF IInv
  <1> QED
    BY <1>1, Invariant, PTL

\* Holding the lock across the sleep reserves the slot: a parked caller is
\* neither sent away nor parked again when it wakes.
THEOREM ParkedCallersAreServed == Spec => ParkedIsServed
  <1> DEFINE Served ==
        \A c \in Callers :
            pc[c] = "sleeping" /\ pc'[c] \in {"refused", "sleeping"}
            => \/ pc'[c] = "sleeping" /\ wakeAt'[c] = wakeAt[c]
               \/ now >= deadline[c]
  <1>1. IInv /\ [Next]_vars => [Served]_vars
    <2> SUFFICES ASSUME IInv, Next, NEW c \in Callers, pc[c] = "sleeping",
                        pc'[c] \in {"refused", "sleeping"}
                 PROVE  \/ pc'[c] = "sleeping" /\ wakeAt'[c] = wakeAt[c]
                        \/ now >= deadline[c]
      OBVIOUS
    <2>1. Types
      BY DEF IInv
    <2>2. CASE Tick
      BY <2>2 DEF Tick
    <2>3. ASSUME NEW d \in Callers, NEW maxWait \in Budgets,
                 Acquire(d, maxWait)
          PROVE  pc'[c] = pc[c] /\ wakeAt'[c] = wakeAt[c]
      BY <2>3 DEF Acquire
    <2>4. ASSUME NEW d \in Callers, Runs(d) PROVE FALSE
      <3>1. PICK f : Turn(d, f) /\ (TakeSlot(d, f) \/ Refuse(d, f) \/ Park(d, f))
        BY <2>4 DEF Runs, TakeSlot, Refuse, Park
      <3>2. d = c
        BY <3>1, AloneAwake, LimiterAssumption
      <3>3. ~Full(f)
        BY <3>1, <3>2, WakesToASlot DEF Turn, GetsLock
      <3>4. TakeSlot(c, f)
        BY <3>1, <3>2, <3>3 DEF Refuse, Park
      <3> QED
        BY <2>1, <3>4 DEF TakeSlot, Types
    <2>5. ASSUME NEW d \in Callers, TimesOut(d)
          PROVE  \/ pc'[c] = pc[c] /\ wakeAt'[c] = wakeAt[c]
                 \/ now >= deadline[c]
      BY <2>5 DEF TimesOut, Overdue, Leave
    <2>6. ASSUME NEW d \in Callers, Cancel(d)
          PROVE  pc'[c] = pc[c] /\ wakeAt'[c] = wakeAt[c]
      BY <2>6 DEF Cancel, Leave
    <2> QED
      BY <2>2, <2>3, <2>4, <2>5, <2>6 DEF Next
  <1> QED
    BY <1>1, Invariant, PTL DEF Spec, ParkedIsServed
-----------------------------------------------------------------------------
(* The lock and its queue.                                                 *)

\* The queued callers wait in the queue, each once, and who sleeps has the lock.
Queue ==
    /\ waiters \in Seq(Callers)
    /\ \A i, j \in DOMAIN waiters : i < j => waiters[i] # waiters[j]
    /\ \A c \in Callers :
        pc[c] = "queued" <=> \E i \in DOMAIN waiters : waiters[i] = c
    /\ holder \in Callers \cup {Nobody}
    /\ \A c \in Callers : pc[c] = "sleeping" <=> holder = c

\* p is q without its i-th member.
Shorter(p, q, i) ==
    /\ p \in Seq(Callers) /\ q \in Seq(Callers) /\ i \in DOMAIN q
    /\ Len(p) = Len(q) - 1
    /\ \A j \in DOMAIN p : p[j] = q[IF j < i THEN j ELSE j + 1]

\* Without a member the queue has all the others, once.
LEMMA Shortened ==
    ASSUME NEW p, NEW q, NEW i, Shorter(p, q, i),
           \A j, k \in DOMAIN q : j < k => q[j] # q[k]
    PROVE  /\ \A c \in Callers : (\E j \in DOMAIN p : p[j] = c)
                                <=> c # q[i] /\ \E j \in DOMAIN q : q[j] = c
           /\ \A j, k \in DOMAIN p : j < k => p[j] # p[k]
  <1>1. PICK n \in Nat : n = Len(q)
    BY DEF Shorter
  <1>2. DOMAIN q = 1 .. n /\ DOMAIN p = 1 .. n - 1 /\ i \in 1 .. n
    BY <1>1 DEF Shorter
  <1>3. PICK f : f = [j \in 1 .. n - 1 |-> IF j < i THEN j ELSE j + 1]
    OBVIOUS
  <1>4. \A j \in 1 .. n - 1 : f[j] \in 1 .. n /\ f[j] # i /\ p[j] = q[f[j]]
    BY <1>2, <1>3 DEF Shorter
  <1>5. \A j, k \in 1 .. n - 1 : j < k => f[j] < f[k]
    BY <1>2, <1>3
  <1>6. \A k \in 1 .. n : k # i => \E j \in 1 .. n - 1 : f[j] = k
    <2> SUFFICES ASSUME NEW k \in 1 .. n, k # i
                 PROVE  \E j \in 1 .. n - 1 : f[j] = k
      OBVIOUS
    <2>1. CASE k < i
      <3>1. k \in 1 .. n - 1 /\ f[k] = k
        BY <1>2, <1>3, <2>1
      <3> QED
        BY <3>1
    <2>2. CASE k > i
      <3>1. PICK j \in Int : j = k - 1
        OBVIOUS
      <3>2. j \in 1 .. n - 1 /\ ~ (j < i) /\ j + 1 = k
        BY <1>2, <2>2, <3>1
      <3>3. f[j] = k
        BY <1>3, <3>2
      <3> QED
        BY <3>2, <3>3
    <2> QED
      BY <1>2, <2>1, <2>2
  <1>7. \A j, k \in 1 .. n : j # k => q[j] # q[k]
    BY <1>2
  <1>8. \A c \in Callers : (\E j \in DOMAIN p : p[j] = c)
                         <=> c # q[i] /\ \E j \in DOMAIN q : q[j] = c
    <2> SUFFICES ASSUME NEW c \in Callers
                 PROVE  (\E j \in DOMAIN p : p[j] = c)
                        <=> c # q[i] /\ \E j \in DOMAIN q : q[j] = c
      OBVIOUS
    <2>1. ASSUME NEW j \in 1 .. n - 1, p[j] = c
          PROVE  c # q[i] /\ \E k \in 1 .. n : q[k] = c
      <3>1. f[j] \in 1 .. n /\ f[j] # i /\ q[f[j]] = c
        BY <1>4, <2>1
      <3> QED
        BY <1>2, <1>7, <3>1
    <2>2. ASSUME c # q[i], NEW k \in 1 .. n, q[k] = c
          PROVE  \E j \in 1 .. n - 1 : p[j] = c
      <3>1. k # i
        BY <2>2
      <3>2. PICK j \in 1 .. n - 1 : f[j] = k
        BY <1>6, <3>1
      <3>3. p[j] = q[f[j]]
        BY <1>4
      <3> QED
        BY <2>2, <3>2, <3>3
    <2> QED
      BY <1>2, <2>1, <2>2
  <1>9. \A j, k \in DOMAIN p : j < k => p[j] # p[k]
    <2> SUFFICES ASSUME NEW j \in 1 .. n - 1, NEW k \in 1 .. n - 1, j < k
                 PROVE  p[j] # p[k]
      BY <1>2
    <2>1. f[j] \in 1 .. n /\ f[k] \in 1 .. n /\ f[j] < f[k]
      BY <1>4, <1>5
    <2>2. f[j] # f[k]
      BY <2>1
    <2> QED
      BY <1>4, <1>7, <2>1, <2>2
  <1> QED
    BY <1>8, <1>9

LEMMA TailShortens ==
    ASSUME NEW q \in Seq(Callers), q # <<>>
    PROVE  Shorter(Tail(q), q, 1)
  BY DEF Shorter

LEMMA CutShortens ==
    ASSUME NEW q \in Seq(Callers), NEW i \in DOMAIN q,
           NEW p, p = [j \in 1 .. Len(q) - 1 |-> q[IF j < i THEN j ELSE j + 1]]
    PROVE  Shorter(p, q, i)
  <1>1. PICK n \in Nat : n = Len(q)
    OBVIOUS
  <1>2. i \in 1 .. n /\ n - 1 \in Nat
    BY <1>1
  <1>3. \A j \in 1 .. n - 1 : (IF j < i THEN j ELSE j + 1) \in 1 .. n
    BY <1>2
  <1>4. DOMAIN p = 1 .. n - 1 /\ \A j \in 1 .. n - 1 : p[j] \in Callers
    BY <1>1, <1>3
  <1>5. p \in Seq(Callers) /\ Len(p) = n - 1
    BY <1>1, <1>2, <1>4
  <1> QED
    BY <1>1, <1>5 DEF Shorter

\* A step of one caller: it leaves the queue or was not in it, and has the lock
\* afterwards just if it sleeps.
LEMMA QueueMoves ==
    ASSUME IInv, Queue, NEW c \in Callers, NEW st,
           pc' = [pc EXCEPT ![c] = st], st # "queued",
           \/ pc[c] = "queued" /\ \E i : waiters[i] = c /\ Shorter(waiters', waiters, i)
           \/ pc[c] # "queued" /\ waiters' = waiters,
           \/ st # "sleeping" /\ pc[c] # "sleeping" /\ holder' = holder
           \/ st # "sleeping" /\ holder \in {c, Nobody} /\ holder' = Nobody
           \/ st = "sleeping" /\ holder \in {c, Nobody} /\ holder' = c
    PROVE  Queue'
  <1>1. /\ pc'[c] = st /\ \A d \in Callers : d # c => pc'[d] = pc[d]
        /\ Nobody \notin Callers
    BY LimiterAssumption DEF IInv, Types
  <1>2. /\ holder' \in Callers \cup {Nobody}
        /\ \A d \in Callers : pc'[d] = "sleeping" <=> holder' = d
    BY <1>1 DEF Queue
  <1>3. CASE pc[c] # "queued" /\ waiters' = waiters
    BY <1>1, <1>2, <1>3 DEF Queue
  <1>4. ASSUME NEW i, pc[c] = "queued", waiters[i] = c, Shorter(waiters', waiters, i)
        PROVE  Queue'
    <2>1. /\ \A d \in Callers : (\E j \in DOMAIN waiters' : waiters'[j] = d)
                                <=> d # c /\ \E j \in DOMAIN waiters : waiters[j] = d
          /\ \A j, k \in DOMAIN waiters' : j < k => waiters'[j] # waiters'[k]
      BY <1>4, Shortened DEF Queue
    <2>2. waiters' \in Seq(Callers)
      BY <1>4 DEF Shorter
    <2> QED
      BY <1>1, <1>2, <2>1, <2>2 DEF Queue
  <1> QED
    BY <1>3, <1>4

\* A caller's turn: it comes from the head of the queue, or out of its sleep.
LEMMA TurnMoves ==
    ASSUME IInv, Queue, NEW c \in Callers, NEW f, Turn(c, f)
    PROVE  /\ \/ pc[c] = "queued" /\ \E i : waiters[i] = c /\ Shorter(waiters', waiters, i)
              \/ pc[c] # "queued" /\ waiters' = waiters
           /\ holder \in {c, Nobody}
  <1>1. CASE GetsLock(c)
    <2>1. waiters \in Seq(Callers) /\ waiters # <<>> /\ waiters' = Tail(waiters)
      BY <1>1 DEF GetsLock, Queue
    <2>2. Shorter(waiters', waiters, 1) /\ waiters[1] = c
      BY <1>1, <2>1, TailShortens DEF GetsLock
    <2> QED
      BY <1>1, <2>2 DEF GetsLock
  <1>2. CASE WakesUp(c)
    BY <1>2 DEF WakesUp, Queue
  <1> QED
    BY <1>1, <1>2 DEF Turn

LEMMA QueueStep ==
    ASSUME IInv, Queue, [Next]_vars
    PROVE  Queue'
  <1>1. CASE UNCHANGED <<pc, waiters, holder>>
    BY <1>1 DEF Queue
  <1>2. ASSUME NEW c \in Callers, NEW maxWait \in Budgets, Acquire(c, maxWait)
        PROVE  Queue'
    <2>1. /\ pc[c] = "idle" /\ pc' = [pc EXCEPT ![c] = "queued"]
          /\ waiters' = Append(waiters, c) /\ holder' = holder
      BY <1>2 DEF Acquire
    <2>2. pc'[c] = "queued" /\ \A d \in Callers : d # c => pc'[d] = pc[d]
      BY <2>1 DEF IInv, Types
    <2>3. PICK n \in Nat : n = Len(waiters)
      BY DEF Queue
    <2>4. /\ waiters' \in Seq(Callers) /\ DOMAIN waiters' = 1 .. n + 1
          /\ waiters'[n + 1] = c /\ \A i \in 1 .. n : waiters'[i] = waiters[i]
          /\ DOMAIN waiters = 1 .. n
      BY <2>1, <2>3 DEF Queue
    <2>5. \A i \in 1 .. n : waiters[i] # c
      BY <2>1, <2>4 DEF Queue
    <2>6. \A i, j \in 1 .. n + 1 : i < j => waiters'[i] # waiters'[j]
      BY <2>4, <2>5 DEF Queue
    <2>7. ASSUME NEW d \in Callers
          PROVE  pc'[d] = "queued" <=> \E i \in 1 .. n + 1 : waiters'[i] = d
      <3>1. CASE d = c
        BY <2>2, <2>4, <3>1
      <3>2. CASE d # c
        BY <2>2, <2>4, <3>2 DEF Queue
      <3> QED
        BY <3>1, <3>2
    <2>8. /\ holder' \in Callers \cup {Nobody}
          /\ \A d \in Callers : pc'[d] = "sleeping" <=> holder' = d
      BY <2>1, <2>2 DEF Queue
    <2> QED
      BY <2>4, <2>6, <2>7, <2>8 DEF Queue
  <1>3. ASSUME NEW c \in Callers, Runs(c)
        PROVE  Queue'
    <2>1. PICK f : TakeSlot(c, f) \/ Refuse(c, f) \/ Park(c, f)
      BY <1>3 DEF Runs
    <2>2. PICK st \in {"granted", "refused", "sleeping"} :
             /\ pc' = [pc EXCEPT ![c] = st]
             /\ st = "sleeping" => holder' = c
             /\ st # "sleeping" => holder' = Nobody
      BY <2>1 DEF TakeSlot, Refuse, Park, HolderAsleep
    <2>3. Turn(c, f)
      BY <2>1 DEF TakeSlot, Refuse, Park
    <2> QED
      BY <2>2, <2>3, TurnMoves, QueueMoves
  <1>4. ASSUME NEW c \in Callers, NEW how \in {"refused", "cancelled"}, Leave(c, how)
        PROVE  Queue'
    <2>1. CASE pc[c] = "queued" /\ Unqueue(c) /\ holder' = holder
      <3>1. \E i : waiters[i] = c /\ Shorter(waiters', waiters, i)
        BY <2>1, CutShortens DEF Unqueue, Queue
      <3> QED
        BY <1>4, <2>1, <3>1, QueueMoves DEF Leave
    <2>2. CASE pc[c] = "sleeping" /\ holder' = Nobody /\ waiters' = waiters
      <3>1. holder = c
        BY <2>2 DEF Queue
      <3> QED
        BY <1>4, <2>2, <3>1, QueueMoves DEF Leave
    <2> QED
      BY <1>4, <2>1, <2>2 DEF Leave
  <1> QED
    BY <1>1, <1>2, <1>3, <1>4 DEF Next, Tick, TimesOut, Cancel, vars

LEMMA QueueInvariant == Spec => []Queue
  <1>1. Init => Queue
    BY LimiterAssumption DEF Init, Queue
  <1> QED
    BY <1>1, Invariant, QueueStep, PTL DEF Spec

\* Every variable of the limiter has its type, the lock is held exactly by a
\* caller that sleeps and its queue is exactly the queued callers, whoever is
\* cancelled or times out where (honeycomb.py:229-291).
THEOREM TypeCorrect == Spec => []TypeOK
  <1>1. IInv /\ Queue => TypeOK
    BY DEF IInv, Types, Queue, TypeOK
  <1> QED
    BY <1>1, Invariant, QueueInvariant, PTL
-----------------------------------------------------------------------------
(* The queries.                                                            *)

TaskTypes == task \in [Tasks -> TaskStates]

\* The latest that the current query of t can have begun.
Since(t) == task[t].began + (IF task[t].query = 1 THEN 0 ELSE QueryTime(t))

\* The current query is not behind.
InTime(t) ==
    /\ task[t].step = "spec" => task[t].until <= Since(t) + RequestTime
    /\ task[t].step = "slot" =>
        /\ pc[Slot(t)] \in Waiting
        /\ deadline[Slot(t)] <= Since(t) + RequestTime + Timeout[t]
    /\ task[t].step = "run" => task[t].until <= Since(t) + 2 * RequestTime + Timeout[t]
    /\ task[t].step \in {"poll", "pause"} =>
        task[t].giveUp <= Since(t) + 2 * RequestTime + Timeout[t] + Execution + Interval
    /\ task[t].step = "poll" => task[t].until < task[t].giveUp + Interval + RequestTime
    /\ task[t].step = "pause" => task[t].until < task[t].giveUp + Interval

\* No request and no pause of it lasts beyond its end.
Awake(t) == task[t].step \in InFlight \cup {"pause"} => now <= task[t].until

Paced(t) == Awake(t) /\ InTime(t)

\* The inductive invariant.
SearchInv ==
    /\ IInv
    /\ TaskTypes
    /\ \A t \in Tasks : Paced(t)
-----------------------------------------------------------------------------
\* The constants are numbers.
LEMMA Times ==
    /\ \A t \in Tasks : Timeout[t] \in Nat
    /\ RequestTime \in Nat \ {0} /\ Execution \in Nat \ {0} /\ Interval \in Nat \ {0}
  BY SearchAssumption, LimiterAssumption

\* A query of a task is a caller of the limiter, and of no other task.
LEMMA Slots ==
    ASSUME TaskTypes, NEW t \in Tasks
    PROVE  /\ Slot(t) \in Callers
           /\ Slot(t) = <<t, task[t].query>>
           /\ task[t].query \in {1, 2}
           /\ task[t] \in TaskStates
  BY SearchAssumption DEF TaskTypes, TaskStates, Slot

\* Every step of the queries is a step of the limiter or leaves it alone.
LEMMA LimiterStep == TaskTypes /\ [SearchNext]_searchVars => [Next]_vars
  <1> SUFFICES ASSUME TaskTypes, [SearchNext]_searchVars PROVE [Next]_vars
    OBVIOUS
  <1>1. CASE SearchTick
    BY <1>1 DEF SearchTick, Next
  <1>2. CASE UNCHANGED searchVars
    BY <1>2 DEF searchVars
  <1>3. ASSUME NEW t \in Tasks, SpecCreated(t) PROVE Next
    BY <1>3, Slots, SearchAssumption DEF SpecCreated, Next
  <1>4. ASSUME NEW t \in Tasks, AwaitsSlot(t) PROVE Next
    BY <1>4, Slots DEF AwaitsSlot, Next, Runs
  <1>5. ASSUME NEW t \in Tasks, TaskCancelled(t) PROVE [Next]_vars
    BY <1>5, Slots DEF TaskCancelled, Next
  <1>6. ASSUME NEW t \in Tasks,
               \/ \E kind \in Kinds : Begin(t, kind)
               \/ ResultCreated(t) \/ NotComplete(t) \/ PollAgain(t)
               \/ SingleComplete(t) \/ SearchComplete(t) \/ HydrationComplete(t)
               \/ RequestFails(t) \/ RequestTimesOut(t)
        PROVE  UNCHANGED vars
    BY <1>6 DEF Begin, ResultCreated, NotComplete, PollAgain, SingleComplete,
                SearchComplete, HydrationComplete, RequestFails, RequestTimesOut
  <1> QED
    BY <1>1, <1>2, <1>3, <1>4, <1>5, <1>6 DEF SearchNext
-----------------------------------------------------------------------------
(* One step of one task.                                                   *)

\* A step of task t leaves the other tasks on time.
LEMMA OneMoves ==
    ASSUME TaskTypes, \A u \in Tasks : Paced(u), now' = now,
           NEW t \in Tasks, NEW r \in TaskStates, task' = [task EXCEPT ![t] = r],
           \A u \in Tasks \ {t} : \A q \in {1, 2} :
               pc'[<<u, q>>] = pc[<<u, q>>] /\ deadline'[<<u, q>>] = deadline[<<u, q>>],
           task'[t] = r => Paced(t)'
    PROVE  TaskTypes' /\ \A u \in Tasks : Paced(u)'
  <1>1. TaskTypes' /\ task'[t] = r
    BY DEF TaskTypes
  <1>2. ASSUME NEW u \in Tasks, u # t PROVE Paced(u)'
    <2>1. task'[u] = task[u] /\ task[u].query \in {1, 2}
      BY <1>2 DEF TaskTypes, TaskStates
    <2>2. Paced(u)
      OBVIOUS
    <2>3. pc'[Slot(u)'] = pc[Slot(u)] /\ deadline'[Slot(u)'] = deadline[Slot(u)]
      BY <1>2, <2>1 DEF Slot
    <2> QED
      BY <2>1, <2>2, <2>3 DEF Paced, Awake, InTime, Since, QueryTime
  <1> QED
    BY <1>1, <1>2

\* A call that is over, or has not begun, is not late.
LEMMA OverIsPaced ==
    ASSUME NEW t \in Tasks, task[t].step \in {"new"} \cup Over
    PROVE  Paced(t)
  BY DEF Over, Paced, Awake, InTime, InFlight

\* A task that is on time: its record, and numbers to reckon with.
LEMMA OnTime ==
    ASSUME SearchInv, NEW t \in Tasks
    PROVE  /\ task[t] \in TaskStates /\ Since(t) \in Nat /\ now \in Nat
           /\ Slot(t) \in Callers /\ Slot(t) = <<t, task[t].query>>
           /\ Awake(t) /\ InTime(t)
           /\ pc \in [Callers -> {"idle"} \cup Waiting \cup Ends]
           /\ deadline \in [Callers -> Nat]
  <1>1. task[t] \in TaskStates /\ Slot(t) \in Callers /\ Slot(t) = <<t, task[t].query>>
    BY Slots DEF SearchInv
  <1>2. QueryTime(t) \in Nat
    BY Times DEF QueryTime
  <1> QED
    BY <1>1, <1>2 DEF SearchInv, IInv, Types, Paced, Since, TaskStates

\* Time passes: nothing is due, and the limiter keeps who waits in time.
LEMMA PacedTick == SearchInv /\ SearchTick => TaskTypes' /\ \A t \in Tasks : Paced(t)'
  <1> SUFFICES ASSUME SearchInv, SearchTick PROVE TaskTypes' /\ \A t \in Tasks : Paced(t)'
    OBVIOUS
  <1>1. task' = task /\ pc' = pc /\ deadline' = deadline /\ now' = now + 1 /\ now \in Nat
    BY DEF SearchTick, Tick, SearchInv, IInv, Types
  <1>2. ASSUME NEW t \in Tasks PROVE Paced(t)'
    <2>1. task[t].step \in InFlight \cup {"pause"} => now < task[t].until
      BY DEF SearchTick
    <2>2. task[t].until \in Nat /\ Paced(t)
      BY Slots DEF SearchInv, TaskStates
    <2> QED
      BY <1>1, <2>1, <2>2 DEF Paced, Awake, InTime, Since, QueryTime, Slot
  <1> QED
    BY <1>1, <1>2 DEF SearchInv, TaskTypes

\* A call begins.
LEMMA PacedBegin ==
    ASSUME SearchInv, NEW t \in Tasks, NEW kind \in Kinds, Begin(t, kind)
    PROVE  TaskTypes' /\ \A u \in Tasks : Paced(u)'
  <1>1. PICK due \in Nat, at \in Nat : due = now + RequestTime /\ at = now
    BY Times DEF SearchInv, IInv, Types
  <1> DEFINE r == [Fresh EXCEPT !.step = "spec", !.kind = kind,
                                !.until = due, !.began = at]
  <1>2. r \in TaskStates /\ r.step = "spec" /\ r.query = 1 /\ r.until = due /\ r.began = at
    BY <1>1 DEF r, Fresh, TaskStates, Active, InFlight
  <1>3. task' = [task EXCEPT ![t] = r] /\ UNCHANGED vars
    BY <1>1 DEF Begin
  <1> HIDE DEF r
  <1>4. task'[t] = r => Paced(t)'
    BY <1>1, <1>2, <1>3, Times DEF Paced, Awake, InTime, Since, vars
  <1> QED
    BY <1>2, <1>3, <1>4, OneMoves DEF SearchInv, vars

\* The spec is created within RequestTime; then the budget starts.
LEMMA PacedSpec ==
    ASSUME SearchInv, NEW t \in Tasks, SpecCreated(t)
    PROVE  TaskTypes' /\ \A u \in Tasks : Paced(u)'
  <1>1. PICK r0 \in TaskStates : r0 = task[t]
    BY OnTime
  <1> DEFINE r == [r0 EXCEPT !.step = "slot", !.until = 0]
  <1>2. r \in TaskStates /\ r.step = "slot" /\ r.query = r0.query /\ r.began = r0.began
    BY <1>1 DEF r, TaskStates, Active
  <1>3. /\ task' = [task EXCEPT ![t] = r] /\ now' = now
        /\ pc' = [pc EXCEPT ![Slot(t)] = "queued"]
        /\ deadline' = [deadline EXCEPT ![Slot(t)] = now + Timeout[t]]
    BY <1>1 DEF SpecCreated, Acquire
  <1> HIDE DEF r
  <1>4. ASSUME NEW u \in Tasks \ {t}, NEW q \in {1, 2}
        PROVE  pc'[<<u, q>>] = pc[<<u, q>>] /\ deadline'[<<u, q>>] = deadline[<<u, q>>]
    BY <1>3, OnTime, SearchAssumption
  <1>5. ASSUME task'[t] = r PROVE Paced(t)'
    <2>1. Slot(t)' = Slot(t) /\ Since(t)' = Since(t)
      BY <1>1, <1>2, <1>5 DEF Slot, Since, QueryTime
    <2>2. pc'[Slot(t)] = "queued" /\ deadline'[Slot(t)] = now + Timeout[t]
      BY <1>3, OnTime
    <2>3. now <= Since(t) + RequestTime
      BY Times, OnTime DEF SpecCreated, Awake, InTime, InFlight, TaskStates
    <2>4. pc'[Slot(t)] \in Waiting
      BY <2>2 DEF Waiting
    <2>5. deadline'[Slot(t)] <= Since(t) + RequestTime + Timeout[t]
      BY Times, <2>2, <2>3, OnTime
    <2>6. pc'[Slot(t)'] \in Waiting
      BY <2>1, <2>4
    <2>7. deadline'[Slot(t)'] <= Since(t)' + RequestTime + Timeout[t]
      BY <2>1, <2>5
    <2> QED
      BY <1>2, <1>5, <2>6, <2>7 DEF Paced, Awake, InTime, InFlight
  <1> QED
    BY <1>2, <1>3, <1>4, <1>5, OneMoves DEF SearchInv

\* A call ends, inside acquire or anywhere else.
LEMMA PacedOver ==
    ASSUME SearchInv, NEW t \in Tasks, NEW how \in Over, Finish(t, how),
           now' = now, deadline' = deadline,
           \/ pc' = pc
           \/ \E p \in Ends : pc' = [pc EXCEPT ![Slot(t)] = p]
    PROVE  TaskTypes' /\ \A u \in Tasks : Paced(u)'
  <1>1. PICK r0 \in TaskStates : r0 = task[t]
    BY OnTime
  <1> DEFINE r == [Fresh EXCEPT !.step = how, !.query = r0.query, !.kind = r0.kind]
  <1>2. r \in TaskStates /\ r.step = how
    BY <1>1 DEF r, Fresh, TaskStates, Kinds
  <1>3. task' = [task EXCEPT ![t] = r]
    BY <1>1 DEF Finish
  <1> HIDE DEF r
  <1>4. ASSUME NEW u \in Tasks \ {t}, NEW q \in {1, 2}
        PROVE  pc'[<<u, q>>] = pc[<<u, q>>] /\ deadline'[<<u, q>>] = deadline[<<u, q>>]
    BY OnTime, SearchAssumption
  <1>5. task'[t] = r => Paced(t)'
    BY <1>2 DEF Over, Paced, Awake, InTime, InFlight
  <1> QED
    BY <1>2, <1>3, <1>4, <1>5, OneMoves DEF SearchInv

\* The call goes on: another record, and the limiter has not changed.
LEMMA PacedOn ==
    ASSUME SearchInv, NEW t \in Tasks, NEW r \in TaskStates,
           task' = [task EXCEPT ![t] = r], UNCHANGED vars,
           r.step # "slot", r.step \in InFlight \cup {"pause"} => now <= r.until,
           task'[t] = r => InTime(t)'
    PROVE  TaskTypes' /\ \A u \in Tasks : Paced(u)'
  <1>1. task'[t] = r => Paced(t)'
    BY DEF Paced, Awake, vars
  <1> QED
    BY <1>1, OneMoves DEF SearchInv, vars

\* The caller is parked: it stays inside acquire, with its deadline.
LEMMA PacedParked ==
    ASSUME SearchInv, NEW t \in Tasks, NEW f, task[t].step = "slot",
           Park(Slot(t), f), UNCHANGED task
    PROVE  TaskTypes' /\ \A u \in Tasks : Paced(u)'
  <1>1. /\ pc' = [pc EXCEPT ![Slot(t)] = "sleeping"]
        /\ deadline' = deadline /\ now' = now /\ task' = task
    BY DEF Park
  <1>2. ASSUME NEW u \in Tasks PROVE Paced(u)'
    <2>1. pc'[Slot(u)] = pc[Slot(u)] \/ pc'[Slot(u)] = "sleeping"
      BY <1>1, OnTime
    <2>2. Slot(u)' = Slot(u) /\ Since(u)' = Since(u)
      BY <1>1 DEF Slot, Since, QueryTime
    <2>3. Paced(u)
      BY DEF SearchInv
    <2> QED
      BY <1>1, <2>1, <2>2, <2>3 DEF Paced, Awake, InTime, Waiting
  <1> QED
    BY <1>1, <1>2 DEF SearchInv, TaskTypes

\* A slot is taken by its deadline, and the result is asked for.
LEMMA PacedRun ==
    ASSUME SearchInv, NEW t \in Tasks, NEW f, task[t].step = "slot",
           TakeSlot(Slot(t), f), Requests(t, "run")
    PROVE  TaskTypes' /\ \A u \in Tasks : Paced(u)'
  <1>1. PICK r0 \in TaskStates, due \in Nat : r0 = task[t] /\ due = now + RequestTime
    BY OnTime, Times
  <1> DEFINE r == [r0 EXCEPT !.step = "run", !.until = due]
  <1>2. /\ r \in TaskStates /\ r.step = "run" /\ r.until = due
        /\ r.query = r0.query /\ r.began = r0.began
    BY <1>1 DEF r, TaskStates, Active, InFlight
  <1>3. /\ task' = [task EXCEPT ![t] = r] /\ now' = now /\ deadline' = deadline
        /\ pc' = [pc EXCEPT ![Slot(t)] = "granted"]
    BY <1>1 DEF Requests, TakeSlot
  <1> HIDE DEF r
  <1>4. ASSUME NEW u \in Tasks \ {t}, NEW q \in {1, 2}
        PROVE  pc'[<<u, q>>] = pc[<<u, q>>] /\ deadline'[<<u, q>>] = deadline[<<u, q>>]
    BY <1>3, OnTime, SearchAssumption
  <1>5. ASSUME task'[t] = r PROVE Paced(t)'
    <2>1. Since(t)' = Since(t)
      BY <1>1, <1>2, <1>5 DEF Since, QueryTime
    <2>2. now <= deadline[Slot(t)]
      BY OnTime DEF SearchInv, IInv, WaitBounded, InTime
    <2>3. due <= Since(t) + 2 * RequestTime + Timeout[t]
      BY <1>1, <2>2, Times, OnTime DEF InTime
    <2> QED
      BY <1>1, <1>2, <1>3, <1>5, <2>1, <2>3, Times, OnTime DEF Paced, Awake, InTime, InFlight
  <1> QED
    BY <1>2, <1>3, <1>4, <1>5, OneMoves DEF SearchInv
-----------------------------------------------------------------------------
(* The polls: the deadline of the loop follows the slot's.                 *)

LEMMA PacedResult ==
    ASSUME SearchInv, NEW t \in Tasks, ResultCreated(t)
    PROVE  TaskTypes' /\ \A u \in Tasks : Paced(u)'
  <1>1. PICK r0 \in TaskStates, due \in Nat, end \in Nat :
            r0 = task[t] /\ due = now + RequestTime /\ end = now + Execution + Interval
    BY OnTime, Times
  <1> DEFINE r == [r0 EXCEPT !.step = "poll", !.until = due, !.giveUp = end]
  <1>2. /\ r \in TaskStates /\ r.step = "poll" /\ r.until = due /\ r.giveUp = end
        /\ r.query = r0.query /\ r.began = r0.began
    BY <1>1 DEF r, TaskStates, Active, InFlight
  <1>3. task' = [task EXCEPT ![t] = r] /\ UNCHANGED vars
    BY <1>1 DEF ResultCreated
  <1> HIDE DEF r
  <1>4. ASSUME task'[t] = r PROVE InTime(t)'
    <2>1. Since(t)' = Since(t)
      BY <1>1, <1>2, <1>4 DEF Since, QueryTime
    <2>2. end <= Since(t) + 2 * RequestTime + Timeout[t] + Execution + Interval
      BY <1>1, Times, OnTime DEF ResultCreated, Awake, InTime, InFlight, TaskStates
    <2>3. due < end + Interval + RequestTime
      BY <1>1, Times, OnTime
    <2> QED
      BY <1>2, <1>4, <2>1, <2>2, <2>3, Times DEF InTime
  <1>5. r.step # "slot" /\ now <= r.until
    BY <1>1, <1>2, Times, OnTime
  <1> QED
    BY <1>2, <1>3, <1>4, <1>5, PacedOn

\* Before the deadline a pause begins, after it the call ends.
LEMMA PacedPause ==
    ASSUME SearchInv, NEW t \in Tasks, NotComplete(t)
    PROVE  TaskTypes' /\ \A u \in Tasks : Paced(u)'
  <1>1. CASE Finish(t, "failed") /\ UNCHANGED vars
    BY <1>1, PacedOver DEF Over, vars
  <1>2. CASE ~Finish(t, "failed")
    <2>1. PICK r0 \in TaskStates, due \in Nat : r0 = task[t] /\ due = now + Interval
      BY OnTime, Times
    <2> DEFINE r == [r0 EXCEPT !.step = "pause", !.until = due]
    <2>2. /\ r \in TaskStates /\ r.step = "pause" /\ r.until = due
          /\ r.giveUp = r0.giveUp /\ r.query = r0.query /\ r.began = r0.began
      BY <2>1 DEF r, TaskStates, Active, InFlight
    <2>3. /\ task' = [task EXCEPT ![t] = r] /\ UNCHANGED vars
          /\ now < r0.giveUp /\ task[t].step = "poll"
      BY <1>2, <2>1 DEF NotComplete
    <2> HIDE DEF r
    <2>4. ASSUME task'[t] = r PROVE InTime(t)'
      <3>1. Since(t)' = Since(t)
        BY <2>1, <2>2, <2>4 DEF Since, QueryTime
      <3>2. due < r0.giveUp + Interval
        BY <2>1, <2>3, Times, OnTime DEF TaskStates
      <3>3. r0.giveUp <= Since(t) + 2 * RequestTime + Timeout[t] + Execution + Interval
        BY <2>1, <2>3, OnTime DEF InTime
      <3> QED
        BY <2>2, <2>4, <3>1, <3>2, <3>3, Times DEF InTime
    <2>5. r.step # "slot" /\ now <= r.until
      BY <2>1, <2>2, Times, OnTime
    <2> QED
      BY <2>2, <2>3, <2>4, <2>5, PacedOn
  <1> QED
    BY <1>1, <1>2 DEF NotComplete

\* The last poll begins less than an interval after the deadline.
LEMMA PacedPoll ==
    ASSUME SearchInv, NEW t \in Tasks, PollAgain(t)
    PROVE  TaskTypes' /\ \A u \in Tasks : Paced(u)'
  <1>1. PICK r0 \in TaskStates, due \in Nat : r0 = task[t] /\ due = now + RequestTime
    BY OnTime, Times
  <1> DEFINE r == [r0 EXCEPT !.step = "poll", !.until = due]
  <1>2. /\ r \in TaskStates /\ r.step = "poll" /\ r.until = due
        /\ r.giveUp = r0.giveUp /\ r.query = r0.query /\ r.began = r0.began
    BY <1>1 DEF r, TaskStates, Active, InFlight
  <1>3. task' = [task EXCEPT ![t] = r] /\ UNCHANGED vars /\ task[t].step = "pause"
    BY <1>1 DEF PollAgain, Requests
  <1> HIDE DEF r
  <1>4. ASSUME task'[t] = r PROVE InTime(t)'
    <2>1. Since(t)' = Since(t)
      BY <1>1, <1>2, <1>4 DEF Since, QueryTime
    <2>2. now <= r0.until /\ r0.until < r0.giveUp + Interval
      BY <1>1, <1>3, OnTime DEF Awake, InTime
    <2>3. due < r0.giveUp + Interval + RequestTime
      BY <1>1, <2>2, Times, OnTime DEF TaskStates
    <2>4. r0.giveUp <= Since(t) + 2 * RequestTime + Timeout[t] + Execution + Interval
      BY <1>1, <1>3, OnTime DEF InTime
    <2> QED
      BY <1>2, <1>4, <2>1, <2>3, <2>4, Times DEF InTime
  <1>5. r.step # "slot" /\ now <= r.until
    BY <1>1, <1>2, Times, OnTime
  <1> QED
    BY <1>2, <1>3, <1>4, <1>5, PacedOn

\* The last poll ends the search within QueryTime: the hydration begins, or
\* there is nothing to hydrate.
LEMMA PacedSearch ==
    ASSUME SearchInv, NEW t \in Tasks, SearchComplete(t)
    PROVE  TaskTypes' /\ \A u \in Tasks : Paced(u)'
  <1>1. CASE Finish(t, "done") /\ UNCHANGED vars
    BY <1>1, PacedOver DEF Over, vars
  <1>2. CASE ~Finish(t, "done")
    <2>1. PICK r0 \in TaskStates, due \in Nat : r0 = task[t] /\ due = now + RequestTime
      BY OnTime, Times
    <2> DEFINE r == [r0 EXCEPT !.step = "spec", !.query = 2, !.giveUp = 0, !.until = due]
    <2>2. /\ r \in TaskStates /\ r.step = "spec" /\ r.until = due
          /\ r.query = 2 /\ r.began = r0.began
      BY <2>1 DEF r, TaskStates, Active, InFlight
    <2>3. /\ task' = [task EXCEPT ![t] = r] /\ UNCHANGED vars
          /\ task[t].step = "poll" /\ task[t].query = 1
      BY <1>2, <2>1 DEF SearchComplete
    <2> HIDE DEF r
    <2>4. ASSUME task'[t] = r PROVE InTime(t)'
      <3>1. Since(t) = task[t].began /\ Since(t)' = task[t].began + QueryTime(t)
        BY <2>1, <2>2, <2>3, <2>4 DEF Since, QueryTime, TaskStates
      <3>2. now <= Since(t) + QueryTime(t)
        BY <2>3, Times, OnTime DEF QueryTime, Awake, InTime, InFlight, TaskStates
      <3>3. due <= Since(t)' + RequestTime
        BY <2>1, <3>1, <3>2, Times, OnTime DEF QueryTime
      <3> QED
        BY <2>2, <2>4, <3>3 DEF InTime
    <2>5. r.step # "slot" /\ now <= r.until
      BY <2>1, <2>2, Times, OnTime
    <2> QED
      BY <2>2, <2>3, <2>4, <2>5, PacedOn
  <1> QED
    BY <1>1, <1>2 DEF SearchComplete
-----------------------------------------------------------------------------
(* The steps together.                                                     *)

\* A task inside acquire goes on, or leaves it.
LEMMA PacedSlot ==
    ASSUME SearchInv, NEW t \in Tasks, AwaitsSlot(t)
    PROVE  TaskTypes' /\ \A u \in Tasks : Paced(u)'
  <1>1. task[t].step = "slot"
    BY DEF AwaitsSlot
  <1>2. ASSUME NEW f, TakeSlot(Slot(t), f), Requests(t, "run")
        PROVE  TaskTypes' /\ \A u \in Tasks : Paced(u)'
    BY <1>1, <1>2, PacedRun
  <1>3. ASSUME NEW f, Park(Slot(t), f), UNCHANGED task
        PROVE  TaskTypes' /\ \A u \in Tasks : Paced(u)'
    BY <1>1, <1>3, PacedParked
  <1>4. ASSUME NEW f, Refuse(Slot(t), f) \/ TimesOut(Slot(t)), Finish(t, "failed")
        PROVE  TaskTypes' /\ \A u \in Tasks : Paced(u)'
    <2>1. /\ now' = now /\ deadline' = deadline
          /\ pc' = [pc EXCEPT ![Slot(t)] = "refused"]
      BY <1>4 DEF Refuse, TimesOut, Leave
    <2>2. "refused" \in Ends /\ "failed" \in Over
      BY DEF Ends, Over
    <2> QED
      BY <1>4, <2>1, <2>2, PacedOver
  <1> QED
    BY <1>2, <1>3, <1>4 DEF AwaitsSlot

LEMMA PacedCancel ==
    ASSUME SearchInv, NEW t \in Tasks, TaskCancelled(t)
    PROVE  TaskTypes' /\ \A u \in Tasks : Paced(u)'
  <1>1. Finish(t, "cancelled") /\ (Cancel(Slot(t)) \/ UNCHANGED vars)
    BY DEF TaskCancelled
  <1>2. CASE Cancel(Slot(t))
    <2>1. /\ now' = now /\ deadline' = deadline
          /\ pc' = [pc EXCEPT ![Slot(t)] = "cancelled"]
      BY <1>2 DEF Cancel, Leave
    <2>2. "cancelled" \in Ends /\ "cancelled" \in Over
      BY DEF Ends, Over
    <2> QED
      BY <1>1, <2>1, <2>2, PacedOver
  <1>3. CASE UNCHANGED vars
    BY <1>1, <1>3, PacedOver DEF vars, Over
  <1> QED
    BY <1>1, <1>2, <1>3

\* The answers and the failures that end a call.
LEMMA PacedEnd ==
    ASSUME SearchInv, NEW t \in Tasks,
           \/ SingleComplete(t) \/ HydrationComplete(t)
           \/ RequestFails(t) \/ RequestTimesOut(t)
    PROVE  TaskTypes' /\ \A u \in Tasks : Paced(u)'
  BY PacedOver DEF SingleComplete, HydrationComplete, RequestFails, RequestTimesOut,
                   Over, vars

LEMMA InitSearchInv == SearchInit => SearchInv
  <1> SUFFICES ASSUME SearchInit PROVE SearchInv
    OBVIOUS
  <1>1. Fresh \in TaskStates
    BY DEF Fresh, TaskStates, Kinds
  <1>2. TaskTypes /\ \A t \in Tasks : task[t].step = "new"
    BY <1>1 DEF SearchInit, TaskTypes, Fresh
  <1>3. \A t \in Tasks : Paced(t)
    BY <1>2, OverIsPaced
  <1> QED
    BY <1>2, <1>3, InitIInv DEF SearchInit, SearchInv

LEMMA NextSearchInv == SearchInv /\ [SearchNext]_searchVars => SearchInv'
  <1> SUFFICES ASSUME SearchInv, [SearchNext]_searchVars PROVE SearchInv'
    OBVIOUS
  <1>1. IInv'
    BY LimiterStep, NextIInv DEF SearchInv
  <1>2. TaskTypes' /\ \A u \in Tasks : Paced(u)'
    <2>1. CASE SearchTick
      BY <2>1, PacedTick
    <2>2. CASE UNCHANGED searchVars
      <3>1. ASSUME NEW t \in Tasks PROVE Paced(t)'
        <4>1. Paced(t)
          BY DEF SearchInv
        <4> QED
          BY <2>2, <4>1 DEF searchVars, vars, Paced, Awake, InTime, Since, QueryTime, Slot
      <3> QED
        BY <2>2, <3>1 DEF searchVars, SearchInv, TaskTypes
    <2>3. ASSUME NEW t \in Tasks,
                 \/ \E kind \in Kinds : Begin(t, kind)
                 \/ SpecCreated(t) \/ AwaitsSlot(t) \/ ResultCreated(t)
          PROVE  TaskTypes' /\ \A u \in Tasks : Paced(u)'
      BY <2>3, PacedBegin, PacedSpec, PacedSlot, PacedResult
    <2>4. ASSUME NEW t \in Tasks,
                 NotComplete(t) \/ PollAgain(t) \/ SearchComplete(t) \/ TaskCancelled(t)
          PROVE  TaskTypes' /\ \A u \in Tasks : Paced(u)'
      BY <2>4, PacedPause, PacedPoll, PacedSearch, PacedCancel
    <2>5. ASSUME NEW t \in Tasks,
                 \/ SingleComplete(t) \/ HydrationComplete(t)
                 \/ RequestFails(t) \/ RequestTimesOut(t)
          PROVE  TaskTypes' /\ \A u \in Tasks : Paced(u)'
      BY <2>5, PacedEnd
    <2> QED
      BY <2>1, <2>2, <2>3, <2>4, <2>5 DEF SearchNext
  <1> QED
    BY <1>1, <1>2 DEF SearchInv

LEMMA SearchInvariant == SearchSpec => []SearchInv
  BY InitSearchInv, NextSearchInv, PTL DEF SearchSpec

\* On time means: within the bound.
LEMMA InvBounds == SearchInv => SearchBounded
  <1> SUFFICES ASSUME SearchInv, NEW t \in Tasks, task[t].step \in Active
               PROVE  now - task[t].began < task[t].query * QueryTime(t)
    BY DEF SearchBounded
  <1>1. QueryTime(t) \in Nat /\ task[t].query \in {1, 2} /\ task[t].began \in Nat
    BY Times, OnTime DEF QueryTime, TaskStates
  <1>2. Since(t) + QueryTime(t) = task[t].began + task[t].query * QueryTime(t)
    BY <1>1 DEF Since
  <1>3. now < Since(t) + QueryTime(t)
    <2>1. CASE task[t].step = "slot"
      BY <2>1, Times, OnTime DEF InTime, QueryTime, SearchInv, IInv, WaitBounded
    <2>2. CASE task[t].step \in {"spec", "run"}
      BY <2>2, Times, OnTime DEF InTime, Awake, InFlight, QueryTime, TaskStates
    <2>3. CASE task[t].step \in {"poll", "pause"}
      BY <2>3, Times, OnTime DEF InTime, Awake, InFlight, QueryTime, TaskStates
    <2> QED
      BY <2>1, <2>2, <2>3 DEF Active, InFlight
  <1> QED
    BY <1>1, <1>2, <1>3, OnTime
-----------------------------------------------------------------------------
(* What is found and what is answered.                                     *)

\* Induction over the natural numbers, for the members of a set.
LEMMA SetInduction ==
    ASSUME NEW S, 0 \in S, \A n \in Nat : n \in S => n + 1 \in S
    PROVE  Nat \subseteq S
  <1> SUFFICES ASSUME Nat \ S # {} PROVE FALSE
    OBVIOUS
  <1>1. PICK R : R = OpToRel(<, Nat)
    BY Zenon
  <1>2. IsWellFoundedOn(R, Nat)
    BY <1>1, NatLessThanWellFounded, Zenon
  <1>3. \A x, y \in Nat : x < y => <<x, y>> \in R
    BY <1>1, Zenon DEF OpToRel
  <1>4. PICK T : T = Nat \ S
    OBVIOUS
  <1>5. PICK m \in T : \A y \in T : ~ (<<y, m>> \in R)
    <2>1. \E x \in T : \A y \in T : ~ (<<y, x>> \in R)
      BY <1>2, <1>4, WFMin
    <2> QED
      BY <2>1
  <1>6. m \in Nat /\ m # 0
    BY <1>4, <1>5
  <1>7. m - 1 \in Nat /\ m - 1 < m /\ m - 1 + 1 = m
    BY <1>6
  <1>8. m - 1 \in T
    BY <1>4, <1>5, <1>7
  <1> QED
    BY <1>3, <1>5, <1>6, <1>7, <1>8

\* f[n] is what is kept of the first n members of s.
Keeps(f, s, P) ==
    f = [n \in 0 .. Len(s) |->
            IF n = 0 THEN <<>>
            ELSE IF n \in P THEN Append(f[n - 1], s[n]) ELSE f[n - 1]]

KeepsTo(f, m, s, P) ==
    /\ DOMAIN f = 0 .. m
    /\ \A n \in 0 .. m :
        f[n] = IF n = 0 THEN <<>>
               ELSE IF n \in P THEN Append(f[n - 1], s[n]) ELSE f[n - 1]

LEMMA KeepsExists ==
    ASSUME NEW s \in Seq(Traces), NEW P
    PROVE  \E f : Keeps(f, s, P)
  <1>1. PICK N \in Nat : N = Len(s)
    OBVIOUS
  <1>2. PICK T : T = {m \in Nat : \E g : KeepsTo(g, m, s, P)}
    OBVIOUS
  <1>3. 0 \in T
    <2>1. PICK g : g = [n \in 0 .. 0 |-> <<>>]
      OBVIOUS
    <2>2. KeepsTo(g, 0, s, P)
      BY <2>1 DEF KeepsTo
    <2> QED
      BY <1>2, <2>2
  <1>4. ASSUME NEW m \in Nat, m \in T
        PROVE  m + 1 \in T
    <2>1. PICK g : KeepsTo(g, m, s, P)
      BY <1>2, <1>4
    <2>2. PICK h : h = [n \in 0 .. m + 1 |->
                          IF n = m + 1
                          THEN IF m + 1 \in P THEN Append(g[m], s[m + 1]) ELSE g[m]
                          ELSE g[n]]
      OBVIOUS
    <2>3. DOMAIN h = 0 .. m + 1 /\ \A n \in 0 .. m : h[n] = g[n]
      BY <2>2
    <2>4. h[m + 1] = IF m + 1 \in P THEN Append(h[m], s[m + 1]) ELSE h[m]
      BY <2>2, <2>3
    <2>5. ASSUME NEW n \in 0 .. m + 1
          PROVE  h[n] = IF n = 0 THEN <<>>
                        ELSE IF n \in P THEN Append(h[n - 1], s[n]) ELSE h[n - 1]
      <3>1. CASE n = m + 1
        <4>1. n - 1 = m /\ n # 0
          BY <3>1
        <4> QED
          BY <2>4, <3>1, <4>1
      <3>2. CASE n \in 0 .. m
        <4>1. n # 0 => n - 1 \in 0 .. m
          BY <3>2
        <4>2. n # 0 => h[n - 1] = g[n - 1]
          BY <2>3, <4>1
        <4> QED
          BY <2>1, <2>3, <3>2, <4>2 DEF KeepsTo
      <3> QED
        BY <3>1, <3>2
    <2>6. KeepsTo(h, m + 1, s, P)
      BY <2>3, <2>5 DEF KeepsTo
    <2> QED
      BY <1>2, <2>6
  <1>5. PICK f : KeepsTo(f, N, s, P)
    <2>1. N \in T
      BY <1>3, <1>4, SetInduction
    <2> QED
      BY <1>2, <2>1
  <1>6. f = [n \in 0 .. N |-> f[n]]
    BY <1>5 DEF KeepsTo
  <1> QED
    BY <1>1, <1>5, <1>6 DEF KeepsTo, Keeps

\* What At keeps are the members at P, all of them.
LEMMA AtKeeps ==
    ASSUME NEW s \in Seq(Traces), NEW P
    PROVE  /\ At(s, P) \in Seq(Traces)
           /\ \A i \in DOMAIN s : i \in P => \E j \in DOMAIN At(s, P) : At(s, P)[j] = s[i]
  <1>1. PICK N \in Nat : N = Len(s)
    OBVIOUS
  <1>2. PICK f : f = CHOOSE x : Keeps(x, s, P)
    OBVIOUS
  <1>3. Keeps(f, s, P)
    <2>1. \E x : Keeps(x, s, P)
      BY KeepsExists
    <2> QED
      BY <1>2, <2>1, Zenon
  <1>4. KeepsTo(f, N, s, P)
    BY <1>1, <1>3 DEF Keeps, KeepsTo
  <1>5. PICK T : T = {m \in Nat : m <= N => /\ f[m] \in Seq(Traces)
                                          /\ \A i \in 1 .. m : i \in P =>
                                               \E j \in DOMAIN f[m] : f[m][j] = s[i]}
    OBVIOUS
  <1>6. 0 \in T
    <2>1. f[0] = <<>>
      BY <1>1, <1>4 DEF KeepsTo
    <2>2. f[0] \in Seq(Traces)
      BY <2>1
    <2>3. \A i \in 1 .. 0 : FALSE
      OBVIOUS
    <2> QED
      BY <1>5, <2>2, <2>3
  <1>7. ASSUME NEW m \in Nat, m \in T
        PROVE  m + 1 \in T
    <2> SUFFICES ASSUME m + 1 <= N
                 PROVE  /\ f[m + 1] \in Seq(Traces)
                        /\ \A i \in 1 .. m + 1 : i \in P =>
                             \E j \in DOMAIN f[m + 1] : f[m + 1][j] = s[i]
      BY <1>5
    <2>1. PICK v : v = f[m]
      OBVIOUS
    <2>2. /\ v \in Seq(Traces)
          /\ \A i \in 1 .. m : i \in P => \E j \in DOMAIN v : v[j] = s[i]
      BY <1>5, <1>7, <2>1
    <2>3. PICK n \in Nat : n = m + 1
      OBVIOUS
    <2>4. n \in 0 .. N /\ n # 0 /\ n - 1 = m /\ n \in 1 .. N
      BY <1>1, <2>3
    <2>5. f[n] = IF n \in P THEN Append(v, s[n]) ELSE v
      <3>1. f[n] = IF n = 0 THEN <<>>
                   ELSE IF n \in P THEN Append(f[n - 1], s[n]) ELSE f[n - 1]
        BY <1>4, <2>4 DEF KeepsTo
      <3> QED
        BY <2>1, <2>4, <3>1
    <2>6. s[n] \in Traces
      BY <1>1, <2>4
    <2>7. CASE n \notin P
      <3>1. \A i \in 1 .. n : i \in P => i \in 1 .. m
        BY <2>3, <2>7
      <3> QED
        BY <2>2, <2>3, <2>5, <2>7, <3>1
    <2>8. CASE n \in P
      <3>1. PICK w : w = Append(v, s[n])
        OBVIOUS
      <3>2. PICK l \in Nat : l = Len(v)
        BY <2>2
      <3>3. /\ w \in Seq(Traces) /\ DOMAIN w = 1 .. l + 1 /\ DOMAIN v = 1 .. l
            /\ w[l + 1] = s[n] /\ \A j \in 1 .. l : w[j] = v[j]
        BY <2>2, <2>6, <3>1, <3>2
      <3>4. ASSUME NEW i \in 1 .. n, i \in P
            PROVE  \E j \in DOMAIN w : w[j] = s[i]
        <4>1. CASE i = n
          <5>1. l + 1 \in DOMAIN w
            BY <3>3
          <5> QED
            BY <3>3, <4>1, <5>1
        <4>2. CASE i # n
          <5>1. i \in 1 .. m
            BY <2>3, <4>2
          <5>2. PICK j \in 1 .. l : v[j] = s[i]
            BY <2>2, <3>3, <3>4, <5>1
          <5>3. j \in DOMAIN w /\ w[j] = s[i]
            BY <3>3, <5>2
          <5> QED
            BY <5>3
        <4> QED
          BY <4>1, <4>2
      <3>5. f[n] = w
        BY <2>5, <2>8, <3>1
      <3> QED
        BY <2>3, <3>3, <3>4, <3>5
    <2> QED
      BY <2>7, <2>8
  <1>8. N \in T
    BY <1>6, <1>7, SetInduction
  <1>9. At(s, P) = f[N]
    BY <1>1, <1>2 DEF At, Keeps
  <1>10. DOMAIN s = 1 .. N
    BY <1>1
  <1> QED
    BY <1>5, <1>8, <1>9, <1>10

\* A prefix, and of a short sequence all of it.
LEMMA CutIs ==
    ASSUME NEW w \in Seq(Traces), NEW n \in Nat
    PROVE  /\ Cut(w, n) \in Seq(Traces) /\ Len(Cut(w, n)) <= n
           /\ Cut(w, n) = w \/ Len(Cut(w, n)) = n
  <1>1. PICK l \in Nat : l = Len(w)
    OBVIOUS
  <1>2. CASE n < l
    <2>1. Cut(w, n) = SubSeq(w, 1, n)
      BY <1>1, <1>2 DEF Cut
    <2>2. SubSeq(w, 1, n) \in Seq(Traces) /\ Len(SubSeq(w, 1, n)) = n
      BY <1>1, <1>2
    <2> QED
      BY <2>1, <2>2
  <1>3. CASE ~ (n < l)
    <2>1. Cut(w, n) = SubSeq(w, 1, l)
      BY <1>1, <1>3 DEF Cut
    <2>2. SubSeq(w, 1, l) = w
      BY <1>1
    <2> QED
      BY <1>1, <1>3, <2>1, <2>2
  <1> QED
    BY <1>2, <1>3

LEMMA TraceIdsAre ==
    ASSUME NEW rows \in Rows
    PROVE  TraceIds(rows) \in Seq(Traces) /\ Len(TraceIds(rows)) <= MaxHydrate
  <1>1. rows \in Seq(Traces) /\ MaxHydrate \in Nat
    BY SearchAssumption
  <1> QED
    BY <1>1, AtKeeps, CutIs DEF TraceIds

\* A trace that is whole is answered, or the limit is used up.
LEMMA AnsweredIs ==
    ASSUME NEW ids \in Seq(Traces)
    PROVE  /\ Answered(ids) \in Seq(Traces) /\ Len(Answered(ids)) <= Limit
           /\ \A i \in DOMAIN ids :
                ids[i] \in Hydrated \cap Matching =>
                    \/ \E j \in DOMAIN Answered(ids) : Answered(ids)[j] = ids[i]
                    \/ Len(Answered(ids)) = Limit
  <1>1. PICK w : w = At(ids, Whole(ids))
    OBVIOUS
  <1>2. /\ w \in Seq(Traces)
        /\ \A i \in DOMAIN ids : i \in Whole(ids) => \E j \in DOMAIN w : w[j] = ids[i]
    BY <1>1, AtKeeps
  <1>3. Limit \in Nat
    BY SearchAssumption
  <1>4. PICK z : z = Answered(ids)
    OBVIOUS
  <1>5. z = Cut(w, Limit)
    BY <1>1, <1>4 DEF Answered
  <1>6. z \in Seq(Traces) /\ Len(z) <= Limit /\ (z = w \/ Len(z) = Limit)
    BY <1>2, <1>3, <1>5, CutIs
  <1>7. \A i \in DOMAIN ids : ids[i] \in Hydrated \cap Matching => i \in Whole(ids)
    BY DEF Whole
  <1>8. \A i \in DOMAIN ids : ids[i] \in Hydrated \cap Matching =>
            (\E j \in DOMAIN z : z[j] = ids[i]) \/ Len(z) = Limit
    BY <1>2, <1>6, <1>7
  <1> QED
    BY <1>4, <1>6, <1>8

\* What a call has found and answered: trace ids within their bounds.
Results ==
    /\ {found, answer} \subseteq [Tasks -> Seq(Traces)]
    /\ \A t \in Tasks : Len(found[t]) <= MaxHydrate /\ Len(answer[t]) <= Limit

\* A search that is done has found nothing, or answers from what it has found.
Answers ==
    \A t \in Tasks :
        task[t].step = "done" /\ task[t].kind = "search" =>
            found[t] = <<>> \/ answer[t] = Answered(found[t])

\* A task is inside acquire exactly with the query it waits for a slot with.
AtSlot ==
    \A t \in Tasks : \A q \in {1, 2} :
        pc[<<t, q>>] \in Waiting <=> task[t].step = "slot" /\ task[t].query = q

LEMMA ResultsStep ==
    ASSUME Results, [SearchNext]_searchVars
    PROVE  Results'
  <1>1. CASE UNCHANGED <<found, answer>>
    BY <1>1 DEF Results
  <1>2. ASSUME NEW t \in Tasks, SearchComplete(t)
        PROVE  Results'
    <2>1. PICK rows \in Rows : found' = [found EXCEPT ![t] = TraceIds(rows)] /\ answer' = answer
      BY <1>2 DEF SearchComplete
    <2>2. PICK ids \in Seq(Traces) : ids = TraceIds(rows) /\ Len(ids) <= MaxHydrate
      BY TraceIdsAre
    <2> QED
      BY <2>1, <2>2 DEF Results
  <1>3. ASSUME NEW t \in Tasks, HydrationComplete(t)
        PROVE  Results'
    <2>1. answer' = [answer EXCEPT ![t] = Answered(found[t])] /\ found' = found
      BY <1>3 DEF HydrationComplete
    <2>2. found[t] \in Seq(Traces)
      BY DEF Results
    <2>3. PICK ids \in Seq(Traces) : ids = Answered(found[t]) /\ Len(ids) <= Limit
      BY <2>2, AnsweredIs
    <2> QED
      BY <2>1, <2>3 DEF Results
  <1> QED
    BY <1>1, <1>2, <1>3, Zenon DEF SearchNext, SearchTick, Begin, SpecCreated, AwaitsSlot,
       ResultCreated, NotComplete, PollAgain, SingleComplete, RequestFails,
       RequestTimesOut, TaskCancelled, searchVars

\* How a step that is not about rows changes the record of its task.
LEMMA Recorded ==
    ASSUME TaskTypes, NEW t \in Tasks
    PROVE  /\ \A kind : Begin(t, kind) =>
                \E r : task' = [task EXCEPT ![t] = r] /\ r.step = "spec"
           /\ SpecCreated(t) =>
                \E r : /\ task' = [task EXCEPT ![t] = r]
                      /\ r.step = "slot" /\ r.query = task[t].query
           /\ \A step : Requests(t, step) =>
                \E r : /\ task' = [task EXCEPT ![t] = r]
                      /\ r.step = step /\ r.query = task[t].query
           /\ \A how : Finish(t, how) =>
                \E r : /\ task' = [task EXCEPT ![t] = r]
                      /\ r.step = how /\ r.query = task[t].query
           /\ ResultCreated(t) =>
                \E r : task' = [task EXCEPT ![t] = r] /\ r.step = "poll"
           /\ NotComplete(t) =>
                \E r : task' = [task EXCEPT ![t] = r] /\ r.step \in {"failed", "pause"}
  <1>1. PICK r0 \in TaskStates : r0 = task[t]
    BY DEF TaskTypes
  <1>2. ASSUME NEW kind, Begin(t, kind)
        PROVE  \E r : task' = [task EXCEPT ![t] = r] /\ r.step = "spec"
    <2>1. PICK r : r = [Fresh EXCEPT !.step = "spec", !.kind = kind,
                                     !.until = now + RequestTime, !.began = now]
      OBVIOUS
    <2>2. r.step = "spec"
      BY <2>1 DEF Fresh
    <2>3. task' = [task EXCEPT ![t] = r]
      BY <1>2, <2>1 DEF Begin
    <2> QED
      BY <2>2, <2>3
  <1>3. ASSUME SpecCreated(t)
        PROVE  \E r : /\ task' = [task EXCEPT ![t] = r]
                      /\ r.step = "slot" /\ r.query = task[t].query
    <2>1. PICK r : r = [r0 EXCEPT !.step = "slot", !.until = 0]
      OBVIOUS
    <2>2. r.step = "slot" /\ r.query = r0.query
      BY <2>1 DEF TaskStates
    <2> QED
      BY <1>1, <1>3, <2>1, <2>2 DEF SpecCreated
  <1>4. ASSUME NEW step, Requests(t, step)
        PROVE  \E r : /\ task' = [task EXCEPT ![t] = r]
                      /\ r.step = step /\ r.query = task[t].query
    <2>1. PICK r : r = [r0 EXCEPT !.step = step, !.until = now + RequestTime]
      OBVIOUS
    <2>2. r.step = step /\ r.query = r0.query
      BY <2>1 DEF TaskStates
    <2> QED
      BY <1>1, <1>4, <2>1, <2>2 DEF Requests
  <1>5. ASSUME NEW how, Finish(t, how)
        PROVE  \E r : /\ task' = [task EXCEPT ![t] = r]
                      /\ r.step = how /\ r.query = task[t].query
    <2>1. PICK r : r = [Fresh EXCEPT !.step = how, !.query = task[t].query,
                                     !.kind = task[t].kind]
      OBVIOUS
    <2>2. r.step = how /\ r.query = task[t].query
      BY <2>1 DEF Fresh
    <2> QED
      BY <1>5, <2>1, <2>2 DEF Finish
  <1>6. ASSUME ResultCreated(t)
        PROVE  \E r : task' = [task EXCEPT ![t] = r] /\ r.step = "poll"
    <2>1. PICK r : r = [r0 EXCEPT !.step = "poll", !.until = now + RequestTime,
                                  !.giveUp = now + Execution + Interval]
      OBVIOUS
    <2>2. r.step = "poll"
      BY <2>1 DEF TaskStates
    <2> QED
      BY <1>1, <1>6, <2>1, <2>2 DEF ResultCreated
  <1>7. ASSUME NotComplete(t)
        PROVE  \E r : task' = [task EXCEPT ![t] = r] /\ r.step \in {"failed", "pause"}
    <2>1. CASE Finish(t, "failed")
      BY <1>5, <2>1
    <2>2. PICK r : r = [r0 EXCEPT !.step = "pause", !.until = now + Interval]
      OBVIOUS
    <2>3. r.step = "pause"
      BY <2>2 DEF TaskStates
    <2> QED
      BY <1>1, <1>7, <2>1, <2>2, <2>3 DEF NotComplete
  <1> QED
    BY <1>2, <1>3, <1>4, <1>5, <1>6, <1>7

\* A task that is done does not move; another's record is its own.
LEMMA AnswersMove ==
    ASSUME TaskTypes, Results, Answers, NEW t \in Tasks, NEW r,
           task' = [task EXCEPT ![t] = r],
           NEW f, NEW a, found' = [found EXCEPT ![t] = f], answer' = [answer EXCEPT ![t] = a],
           r.step = "done" /\ r.kind = "search" => f = <<>> \/ a = Answered(f)
    PROVE  Answers'
  <1>1. /\ task'[t] = r /\ found'[t] = f /\ answer'[t] = a
        /\ \A u \in Tasks : u # t => /\ task'[u] = task[u] /\ found'[u] = found[u]
                                     /\ answer'[u] = answer[u]
    BY DEF TaskTypes, Results
  <1> QED
    BY <1>1 DEF Answers

LEMMA AnswersStep ==
    ASSUME TaskTypes, Results, Answers, [SearchNext]_searchVars
    PROVE  Answers'
  <1>1. CASE UNCHANGED <<task, found, answer>>
    BY <1>1 DEF Answers
  <1>2. ASSUME NEW t \in Tasks
        PROVE  found = [found EXCEPT ![t] = found[t]] /\ answer = [answer EXCEPT ![t] = answer[t]]
    BY DEF Results
  <1>3. ASSUME NEW t \in Tasks, NEW r, task' = [task EXCEPT ![t] = r],
               r.step # "done" \/ r.kind # "search", UNCHANGED <<found, answer>>
        PROVE  Answers'
    <2>1. found' = [found EXCEPT ![t] = found[t]] /\ answer' = [answer EXCEPT ![t] = answer[t]]
      BY <1>2, <1>3
    <2>2. PICK f, a : f = found[t] /\ a = answer[t]
      OBVIOUS
    <2>3. found' = [found EXCEPT ![t] = f] /\ answer' = [answer EXCEPT ![t] = a]
      BY <2>1, <2>2
    <2> QED
      BY <1>3, <2>3, AnswersMove
  <1>4. ASSUME NEW t \in Tasks, SingleComplete(t)
        PROVE  Answers'
    <2>1. PICK r : r = [Fresh EXCEPT !.step = "done", !.query = task[t].query,
                                     !.kind = task[t].kind]
      OBVIOUS
    <2>2. r.kind = "single"
      BY <1>4, <2>1 DEF SingleComplete, Fresh
    <2> QED
      BY <1>3, <1>4, <2>1, <2>2 DEF SingleComplete, Finish
  <1>5. ASSUME NEW t \in Tasks, SearchComplete(t)
        PROVE  Answers'
    <2>1. PICK f, a : found' = [found EXCEPT ![t] = f] /\ a = answer[t]
      BY <1>5 DEF SearchComplete
    <2>2. answer' = [answer EXCEPT ![t] = a]
      BY <1>2, <1>5, <2>1 DEF SearchComplete
    <2>3. f = found'[t]
      BY <2>1 DEF Results
    <2>4. PICK r : /\ task' = [task EXCEPT ![t] = r]
                   /\ r.step = "spec" \/ f = <<>>
      <3>1. CASE found'[t] = <<>> /\ Finish(t, "done")
        BY <2>3, <3>1 DEF Finish
      <3>2. CASE ~ (found'[t] = <<>> /\ Finish(t, "done"))
        <4>1. task[t] \in TaskStates
          BY DEF TaskTypes
        <4>2. PICK r : r = [task[t] EXCEPT !.step = "spec", !.query = 2, !.giveUp = 0,
                                           !.until = now + RequestTime]
          OBVIOUS
        <4>3. r.step = "spec"
          BY <4>1, <4>2 DEF TaskStates
        <4>4. task' = [task EXCEPT ![t] = r]
          <5>1. PICK rows \in Rows : /\ found' = [found EXCEPT ![t] = TraceIds(rows)]
                                     /\ \/ TraceIds(rows) = <<>> /\ Finish(t, "done")
                                        \/ task' = [task EXCEPT ![t] = r]
            BY <1>5, <4>2 DEF SearchComplete
          <5>2. found'[t] = TraceIds(rows)
            BY <5>1 DEF Results
          <5> QED
            BY <3>2, <5>1, <5>2
        <4> QED
          BY <4>3, <4>4
      <3> QED
        BY <3>1, <3>2
    <2> QED
      BY <2>1, <2>2, <2>4, AnswersMove
  <1>6. ASSUME NEW t \in Tasks, HydrationComplete(t)
        PROVE  Answers'
    <2>1. PICK f, a : f = found[t] /\ a = Answered(found[t])
      OBVIOUS
    <2>2. found' = [found EXCEPT ![t] = f] /\ answer' = [answer EXCEPT ![t] = a]
      BY <1>2, <1>6, <2>1 DEF HydrationComplete
    <2>3. PICK r : task' = [task EXCEPT ![t] = r]
      BY <1>6 DEF HydrationComplete, Finish
    <2> QED
      BY <2>1, <2>2, <2>3, AnswersMove
  <1>7. ASSUME NEW t \in Tasks,
               \/ Finish(t, "failed") \/ Finish(t, "cancelled") \/ Requests(t, "run")
               \/ Requests(t, "poll") \/ (\E kind : Begin(t, kind)) \/ SpecCreated(t)
               \/ ResultCreated(t) \/ NotComplete(t),
               UNCHANGED <<found, answer>>
        PROVE  Answers'
    <2>1. PICK r : /\ task' = [task EXCEPT ![t] = r]
                   /\ r.step \in {"failed", "cancelled", "run", "poll", "spec", "slot", "pause"}
      BY <1>7, Recorded
    <2> QED
      BY <1>3, <1>7, <2>1
  <1>8. ASSUME NEW t \in Tasks,
               \/ \E kind \in Kinds : Begin(t, kind)
               \/ SpecCreated(t) \/ AwaitsSlot(t) \/ ResultCreated(t) \/ NotComplete(t)
               \/ PollAgain(t) \/ RequestFails(t) \/ RequestTimesOut(t) \/ TaskCancelled(t)
        PROVE  Answers'
    <2>1. UNCHANGED <<found, answer>>
      BY <1>8 DEF Begin, SpecCreated, AwaitsSlot, ResultCreated, NotComplete, PollAgain,
                  RequestFails, RequestTimesOut, TaskCancelled
    <2>2. \/ Finish(t, "failed") \/ Finish(t, "cancelled") \/ Requests(t, "run")
          \/ Requests(t, "poll") \/ (\E kind : Begin(t, kind)) \/ SpecCreated(t)
          \/ ResultCreated(t) \/ NotComplete(t) \/ task' = task
      BY <1>8 DEF AwaitsSlot, PollAgain, RequestFails, RequestTimesOut, TaskCancelled
    <2> QED
      BY <1>1, <1>7, <2>1, <2>2
  <1> QED
    BY <1>1, <1>4, <1>5, <1>6, <1>8 DEF SearchNext, SearchTick, searchVars

\* One task moves: the limiter has not, or only the slot of its query.
LEMMA AtSlotMoves ==
    ASSUME TaskTypes, pc \in [Callers -> {"idle"} \cup Waiting \cup Ends], AtSlot,
           NEW t \in Tasks, NEW r, task' = [task EXCEPT ![t] = r],
           \/ pc' = pc /\ task[t].step # "slot" /\ r.step # "slot"
           \/ /\ \E p : pc' = [pc EXCEPT ![Slot(t)] = p] /\ (p \in Waiting <=> r.step = "slot")
              /\ r.query = task[t].query
    PROVE  AtSlot'
  <1>1. task'[t] = r /\ \A u \in Tasks : u # t => task'[u] = task[u]
    BY DEF TaskTypes
  <1>2. CASE pc' = pc /\ task[t].step # "slot" /\ r.step # "slot"
    <2>1. ASSUME NEW u \in Tasks
          PROVE  task'[u].step = "slot" => task[u].step = "slot" /\ task'[u] = task[u]
      BY <1>1, <1>2
    <2>2. ASSUME NEW u \in Tasks, task[u].step = "slot"
          PROVE  task'[u] = task[u]
      BY <1>1, <1>2, <2>2
    <2> SUFFICES ASSUME NEW u \in Tasks, NEW q \in {1, 2}
                 PROVE  pc'[<<u, q>>] \in Waiting <=> task'[u].step = "slot" /\ task'[u].query = q
      BY DEF AtSlot
    <2>3. pc'[<<u, q>>] \in Waiting <=> task[u].step = "slot" /\ task[u].query = q
      BY <1>2 DEF AtSlot
    <2> QED
      BY <2>1, <2>2, <2>3
  <1>3. ASSUME NEW p, pc' = [pc EXCEPT ![Slot(t)] = p], p \in Waiting <=> r.step = "slot",
               r.query = task[t].query
        PROVE  AtSlot'
    <2>1. Slot(t) = <<t, task[t].query>> /\ task[t].query \in {1, 2} /\ Slot(t) \in Callers
      BY Slots
    <2>2. \A u \in Tasks : \A q \in {1, 2} :
             /\ <<u, q>> \in Callers
             /\ <<u, q>> # Slot(t) => pc'[<<u, q>>] = pc[<<u, q>>]
      BY <1>3, <2>1, SearchAssumption
    <2>3. pc'[Slot(t)] = p
      BY <1>3, <2>1
    <2> SUFFICES ASSUME NEW u \in Tasks, NEW q \in {1, 2}
                 PROVE  pc'[<<u, q>>] \in Waiting <=> task'[u].step = "slot" /\ task'[u].query = q
      BY DEF AtSlot
    <2>4. pc[<<u, q>>] \in Waiting <=> task[u].step = "slot" /\ task[u].query = q
      BY DEF AtSlot
    <2>5. CASE u = t /\ q = task[t].query
      BY <1>1, <1>3, <2>1, <2>3, <2>5
    <2>6. CASE u = t /\ q # task[t].query
      BY <1>1, <1>3, <2>1, <2>2, <2>4, <2>6
    <2>7. CASE u # t
      <3>1. <<u, q>> # Slot(t)
        BY <2>1, <2>7
      <3>2. pc'[<<u, q>>] = pc[<<u, q>>]
        BY <2>2, <3>1
      <3>3. task'[u] = task[u]
        BY <1>1, <2>7
      <3> QED
        BY <2>4, <3>2, <3>3
    <2> QED
      BY <2>5, <2>6, <2>7
  <1> QED
    BY <1>2, <1>3

LEMMA AtSlotStep ==
    ASSUME TaskTypes, pc \in [Callers -> {"idle"} \cup Waiting \cup Ends], AtSlot,
           [SearchNext]_searchVars
    PROVE  AtSlot'
  <1>1. CASE UNCHANGED <<task, pc>>
    BY <1>1 DEF AtSlot
  <1>2. ASSUME NEW t \in Tasks, SpecCreated(t)
        PROVE  AtSlot'
    <2>1. PICK r : task' = [task EXCEPT ![t] = r] /\ r.step = "slot" /\ r.query = task[t].query
      BY <1>2, Recorded
    <2>2. pc' = [pc EXCEPT ![Slot(t)] = "queued"]
      BY <1>2 DEF SpecCreated, Acquire
    <2> QED
      BY <2>1, <2>2, AtSlotMoves
  <1>3. ASSUME NEW t \in Tasks, NEW how \in {"run", "failed", "cancelled"}, NEW p \in Ends,
               Requests(t, how) \/ Finish(t, how), pc' = [pc EXCEPT ![Slot(t)] = p]
        PROVE  AtSlot'
    <2>1. PICK r : task' = [task EXCEPT ![t] = r] /\ r.step = how /\ r.query = task[t].query
      BY <1>3, Recorded
    <2> QED
      BY <1>3, <2>1, AtSlotMoves
  <1>4. ASSUME NEW t \in Tasks, AwaitsSlot(t)
        PROVE  AtSlot'
    <2>1. ASSUME NEW f, Park(Slot(t), f), task' = task
          PROVE  AtSlot'
      <3>1. PICK r : r = task[t]
        OBVIOUS
      <3>2. task' = [task EXCEPT ![t] = r] /\ r.step = "slot"
        BY <1>4, <2>1, <3>1 DEF TaskTypes, AwaitsSlot
      <3>3. pc' = [pc EXCEPT ![Slot(t)] = "sleeping"]
        BY <2>1 DEF Park
      <3> QED
        BY <3>1, <3>2, <3>3, AtSlotMoves
    <2>2. ASSUME NEW f, TakeSlot(Slot(t), f), Requests(t, "run")
          PROVE  AtSlot'
      BY <1>3, <2>2 DEF TakeSlot
    <2>3. ASSUME NEW f, Refuse(Slot(t), f) \/ TimesOut(Slot(t)), Finish(t, "failed")
          PROVE  AtSlot'
      BY <1>3, <2>3 DEF Refuse, TimesOut, Leave
    <2> QED
      BY <1>4, <2>1, <2>2, <2>3 DEF AwaitsSlot
  <1>5. ASSUME NEW t \in Tasks, TaskCancelled(t), task[t].step = "slot"
        PROVE  AtSlot'
    <2>1. Finish(t, "cancelled") /\ pc' = [pc EXCEPT ![Slot(t)] = "cancelled"]
      BY <1>5 DEF TaskCancelled, Cancel, Leave
    <2> QED
      BY <1>3, <2>1
  <1>6. ASSUME NEW t \in Tasks,
               \/ \E kind \in Kinds : Begin(t, kind)
               \/ ResultCreated(t) \/ NotComplete(t) \/ PollAgain(t)
               \/ SingleComplete(t) \/ SearchComplete(t) \/ HydrationComplete(t)
               \/ RequestFails(t) \/ RequestTimesOut(t)
               \/ TaskCancelled(t) /\ task[t].step # "slot"
        PROVE  AtSlot'
    <2>1. pc' = pc /\ task[t].step # "slot"
      BY <1>6 DEF Begin, ResultCreated, NotComplete, PollAgain, SingleComplete, SearchComplete,
                  HydrationComplete, RequestFails, RequestTimesOut, TaskCancelled, InFlight, vars
    <2>2. PICK r : task' = [task EXCEPT ![t] = r] /\ r.step # "slot"
      <3>1. CASE SearchComplete(t) /\ ~ Finish(t, "done")
        <4>1. task[t] \in TaskStates
          BY DEF TaskTypes
        <4>2. PICK r : r = [task[t] EXCEPT !.step = "spec", !.query = 2, !.giveUp = 0,
                                           !.until = now + RequestTime]
          OBVIOUS
        <4>3. r.step = "spec"
          BY <4>1, <4>2 DEF TaskStates
        <4>4. task' = [task EXCEPT ![t] = r]
          BY <3>1, <4>2 DEF SearchComplete
        <4> QED
          BY <4>3, <4>4
      <3>2. CASE \/ \E kind \in Kinds : Begin(t, kind)
                 \/ ResultCreated(t) \/ NotComplete(t) \/ Requests(t, "poll")
                 \/ \E how \in Over : Finish(t, how)
        <4>1. \E r : task' = [task EXCEPT ![t] = r] /\ r.step \in {"spec", "poll", "pause"} \cup Over
          BY <3>2, Recorded DEF Over
        <4> QED
          BY <4>1 DEF Over
      <3> QED
        BY <1>6, <3>1, <3>2 DEF PollAgain, SingleComplete, SearchComplete, HydrationComplete,
           RequestFails, RequestTimesOut, TaskCancelled, Over
    <2> QED
      BY <2>1, <2>2, AtSlotMoves
  <1> QED
    BY <1>1, <1>2, <1>4, <1>5, <1>6 DEF SearchNext, SearchTick, Tick, searchVars, vars

ResultInv == SearchInv /\ Queue /\ Results /\ Answers /\ AtSlot

LEMMA ResultInvariant == SearchSpec => []ResultInv
  <1>1. SearchInit => Results /\ Answers /\ AtSlot
    <2> SUFFICES ASSUME SearchInit PROVE Results /\ Answers /\ AtSlot
      OBVIOUS
    <2>1. /\ \A t \in Tasks : task[t].step = "new"
          /\ found = [t \in Tasks |-> <<>>] /\ answer = [t \in Tasks |-> <<>>]
          /\ pc = [c \in Callers |-> "idle"]
      BY DEF SearchInit, Fresh, Init
    <2>2. MaxHydrate \in Nat /\ Limit \in Nat
      BY SearchAssumption
    <2>3. Results
      BY <2>1, <2>2 DEF Results
    <2>4. \A t \in Tasks : \A q \in {1, 2} : <<t, q>> \in Callers
      BY SearchAssumption
    <2>5. AtSlot
      BY <2>1, <2>4 DEF AtSlot
    <2> QED
      BY <2>1, <2>3, <2>5 DEF Answers
  <1>2. SearchInv /\ Queue /\ [SearchNext]_searchVars => Queue'
    BY LimiterStep, QueueStep DEF SearchInv
  <1>3. ResultInv /\ [SearchNext]_searchVars => Results' /\ Answers' /\ AtSlot'
    BY ResultsStep, AnswersStep, AtSlotStep DEF ResultInv, SearchInv, IInv, Types
  <1>4. SearchInit => Queue
    BY LimiterAssumption DEF SearchInit, Init, Queue
  <1>5. ResultInv /\ [SearchNext]_searchVars /\ SearchInv' => ResultInv'
    BY <1>2, <1>3 DEF ResultInv
  <1>6. SearchInit /\ SearchInv => ResultInv
    BY <1>1, <1>4 DEF ResultInv
  <1> QED
    BY <1>5, <1>6, SearchInvariant, PTL DEF SearchSpec
-----------------------------------------------------------------------------
(* The theorems.                                                           *)

\* The searches implement the limiter's specification: whatever a query
\* does, fails at or is cancelled in, it takes its slots as acquire gives
\* them out (honeycomb.py:866-898).
THEOREM SearchesImplementLimiter == SearchSpec => Spec
  <1>1. SearchInit => Init
    BY DEF SearchInit
  <1>2. SearchInv /\ [SearchNext]_searchVars => [Next]_vars
    BY LimiterStep DEF SearchInv
  <1> QED
    BY <1>1, <1>2, SearchInvariant, PTL DEF SearchSpec, Spec

\* The cap holds for the calls the queries really make: any Max + 1 of them
\* span a window, for every number of tasks and backends (honeycomb.py:207-213).
THEOREM QueriesKeepTheCap == SearchSpec => []RateBound
  BY SearchesImplementLimiter, CapIsACeiling, PTL

\* A call of one query lasts less than QueryTime, a search_traces less than
\* twice that (honeycomb.py:108-110, 215-221, 916).
THEOREM SearchesAreBounded == SearchSpec => []SearchBounded
  BY SearchInvariant, InvBounds, PTL

\* The limit of a search is spent on traces that match, whatever rows it found
\* and whatever is left of them when they are hydrated (honeycomb.py:440-479).
THEOREM LimitIsSpentOnMatches == SearchSpec => []LimitSpentOnMatches
  <1>1. ResultInv => LimitSpentOnMatches
    <2> SUFFICES ASSUME ResultInv, NEW t \in Tasks,
                        task[t].step = "done", task[t].kind = "search",
                        NEW i \in DOMAIN found[t], found[t][i] \in Hydrated \cap Matching
                 PROVE  \/ \E j \in DOMAIN answer[t] : answer[t][j] = found[t][i]
                        \/ Len(answer[t]) = Limit
      BY DEF LimitSpentOnMatches
    <2>1. found[t] \in Seq(Traces)
      BY DEF ResultInv, Results
    <2>2. found[t] # <<>>
      BY <2>1
    <2>3. answer[t] = Answered(found[t])
      BY <2>2 DEF ResultInv, Answers
    <2> QED
      BY <2>1, <2>3, AnsweredIs
  <1> QED
    BY <1>1, ResultInvariant, PTL

\* Every variable has its type, a search finds no more than it may hydrate and
\* answers no more than its limit, and a task is inside acquire exactly with
\* the query it waits for a slot with.
THEOREM SearchTypesHold == SearchSpec => []SearchTypeOK
  <1>1. ResultInv => SearchTypeOK
    <2> SUFFICES ASSUME ResultInv PROVE SearchTypeOK
      OBVIOUS
    <2>1. TypeOK
      BY DEF ResultInv, SearchInv, IInv, Types, Queue, TypeOK
    <2> QED
      BY <2>1 DEF ResultInv, SearchInv, TaskTypes, Results, AtSlot, SearchTypeOK
  <1> QED
    BY <1>1, ResultInvariant, PTL
=============================================================================
