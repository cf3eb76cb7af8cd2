-------------------------- MODULE QueryCacheProofs --------------------------
(***************************************************************************)
(* Proofs about QueryCache, for any sets of callers, keys and computations *)
(* and any Ttl, MaxEntries and bounds.                                     *)
(***************************************************************************)
EXTENDS QueryCache, FiniteSetTheorems, WellFoundedInduction, TLAPS

Followers(i) == {c \in Callers : call[c].pc = "follower" /\ call[c].slot = i}

\* The count the leader's handler reads is exact.
CountsExact ==
    \A i \in Computations :
        /\ IsFiniteSet(Followers(i))
        /\ comp[i].waitingFollowers = Cardinality(Followers(i))

\* Nobody waits for a computation that was never started or is cancelled.
WaitingOnLive ==
    \A c \in Callers :
        IsWaiting(c) => /\ call[c].slot \in Computations
                        /\ comp[call[c].slot].finisher # "none"
                        /\ comp[call[c].slot].key = call[c].key
                        /\ ~comp[call[c].slot].cancelling

SoleLeader ==
    \A c, d \in Callers :
        /\ call[c].pc = "leader"
        /\ call[d].pc = "leader"
        /\ call[c].slot = call[d].slot
        => c = d

\* How the finisher, its future and its cancellation hang together.
Lifecycle ==
    \A i \in Computations :
        /\ ~Done(i) => comp[i].future = "pending"
        /\ comp[i].finisher = "none" => ~comp[i].cancelling
        /\ comp[i].abandoned <=> comp[i].cancelling
        /\ comp[i].cancelling => comp[i].finisher \in {"new", "running", "cancelled"}
        /\ Done(i) /\ ~comp[i].cancelling => comp[i].future = comp[i].finisher

\* The part of TypeOK about the store, the slots and the clock.
Stores ==
    /\ now \in Nat
    /\ entries \in [Keys -> Entry]
    /\ older \subseteq Keys \X Keys
    /\ lastSwept \in Int
    /\ inflight \in [Keys -> Computations \cup {None}]
    /\ epoch \in Nat

\* A started computation has a key.
KeyKnown ==
    \A i \in Computations : comp[i].finisher # "none" => comp[i].key \in Keys

Core == KeyKnown /\ CountsExact /\ WaitingOnLive /\ SoleLeader /\ Lifecycle

IInv == TypeOK /\ Core /\ NoPoisonedSlot /\ NoForeignCancellation

\* The empty cache satisfies the inductive invariant.
LEMMA InitInv == Init => IInv
  <1> SUFFICES ASSUME Init PROVE IInv
    OBVIOUS
  <1>1. TypeOK
    BY CacheAssumption DEF Init, TypeOK, Entry, NoEntry, Computation, Unused,
                           Call, NoCall, Ends, Waiting
  <1>2. CountsExact
    <2> SUFFICES ASSUME NEW i \in Computations
                 PROVE  IsFiniteSet(Followers(i)) /\ comp[i].waitingFollowers = Cardinality(Followers(i))
      BY DEF CountsExact
    <2>1. Followers(i) = {}
      BY DEF Init, Followers, NoCall
    <2> QED
      BY <2>1, FS_EmptySet DEF Init, Unused
  <1>3. WaitingOnLive /\ SoleLeader /\ Lifecycle
    BY DEF Init, WaitingOnLive, SoleLeader, Lifecycle, IsWaiting, Waiting,
           NoCall, Unused, Done, Ends
  <1>4. NoPoisonedSlot /\ NoForeignCancellation
    BY DEF Init, NoPoisonedSlot, NoForeignCancellation, NoCall
  <1> QED
    BY <1>1, <1>2, <1>3, <1>4 DEF IInv, Core, KeyKnown, Init, Unused

\* Giving up a computation leaves all but two of its fields alone.
LEMMA AbandonKeeps ==
    ASSUME TypeOK, NEW i \in Computations
    PROVE  /\ Abandon(i) \in [Computations -> Computation]
           /\ \A j \in Computations :
                /\ Abandon(i)[j].finisher = comp[j].finisher
                /\ Abandon(i)[j].key = comp[j].key
                /\ Abandon(i)[j].waitingFollowers = comp[j].waitingFollowers
  <1> DEFINE r == [comp[i] EXCEPT !.abandoned = TRUE, !.cancelling = TRUE]
  <1>1. comp \in [Computations -> Computation]
    BY DEF TypeOK
  <1>2. comp[i] \in Computation
    BY <1>1
  <1>3. r \in Computation
    BY <1>2 DEF Computation
  <1>4. /\ r.finisher = comp[i].finisher
        /\ r.key = comp[i].key
        /\ r.waitingFollowers = comp[i].waitingFollowers
    BY <1>2 DEF Computation
  <1>5. Abandon(i) = [comp EXCEPT ![i] = r]
    BY <1>1 DEF Abandon
  <1> HIDE DEF r
  <1> QED
    BY <1>1, <1>3, <1>4, <1>5

\* No step makes a caller wait for a computation that is unused or cancelled.
LEMMA WaitingStep ==
    ASSUME IInv, [Next]_vars
    PROVE  (WaitingOnLive /\ SoleLeader)'
  <1>1. CASE Tick
    BY <1>1 DEF IInv, Core, WaitingOnLive, SoleLeader, IsWaiting, Waiting,
            Ends, Done, TypeOK, Computation, Call, Tick
  <1>2. CASE Clear
    BY <1>2 DEF IInv, Core, WaitingOnLive, SoleLeader, IsWaiting, Waiting,
            Ends, Done, TypeOK, Computation, Call, Clear
  <1>3. ASSUME NEW c \in Callers, NEW k \in Keys, Hit(c, k)
        PROVE  (WaitingOnLive /\ SoleLeader)'
    BY <1>3 DEF IInv, Core, WaitingOnLive, SoleLeader, IsWaiting, Waiting,
            Ends, Done, TypeOK, Computation, Call, Hit, Live, NewCall
  <1>4. ASSUME NEW c \in Callers, NEW k \in Keys, Join(c, k)
        PROVE  (WaitingOnLive /\ SoleLeader)'
    BY <1>4, CacheAssumption DEF IInv, Core, WaitingOnLive, SoleLeader,
            IsWaiting, Waiting, Ends, Done, TypeOK, Computation, Call, Join,
            Miss, InFlight, Joinable, NewCall, NoPoisonedSlot
  <1>5. ASSUME NEW c \in Callers, NEW k \in Keys, NEW i \in Computations, Lead(c, k, i)
        PROVE  (WaitingOnLive /\ SoleLeader)'
    BY <1>5 DEF IInv, Core, WaitingOnLive, SoleLeader, IsWaiting, Waiting,
            Ends, Done, TypeOK, Computation, Call, Lead, Miss, InFlight,
            Joinable, NewCall, Unused
  <1>6. ASSUME NEW c \in Callers, RequestCancel(c)
        PROVE  (WaitingOnLive /\ SoleLeader)'
    BY <1>6 DEF IInv, Core, WaitingOnLive, SoleLeader, IsWaiting, Waiting,
            Ends, Done, TypeOK, Computation, Call, RequestCancel
  <1>7. ASSUME NEW c \in Callers, LeaderReturn(c)
        PROVE  (WaitingOnLive /\ SoleLeader)'
    BY <1>7 DEF IInv, Core, WaitingOnLive, SoleLeader, IsWaiting, Waiting,
            Ends, Done, TypeOK, Computation, Call, LeaderReturn, Answered,
            ValueOf
  <1>8. ASSUME NEW c \in Callers, FollowerReturn(c)
        PROVE  (WaitingOnLive /\ SoleLeader)'
    BY <1>8 DEF IInv, Core, WaitingOnLive, SoleLeader, IsWaiting, Waiting,
            Ends, Done, TypeOK, Computation, Call, FollowerReturn, Answered,
            ValueOf, Leave
  <1>9. ASSUME NEW c \in Callers, LeaderCancelled(c)
        PROVE  (WaitingOnLive /\ SoleLeader)'
    <2> DEFINE i == call[c].slot
    <2>1. i \in Computations /\ call[c].pc = "leader"
      BY <1>9 DEF IInv, Core, WaitingOnLive, IsWaiting, Waiting, LeaderCancelled
    <2>2. CASE Unwanted(i)
      <3>1. Followers(i) = {}
        BY <2>1, <2>2, FS_EmptySet DEF Unwanted, IInv, Core, CountsExact
      <3>2. \A d \in Callers : IsWaiting(d) /\ call[d].slot = i => d = c
        BY <2>1, <3>1 DEF IInv, Core, SoleLeader, IsWaiting, Waiting, Followers
      <3>3. \A j \in Computations : j # i => comp'[j] = comp[j]
        BY <2>1, <2>2, <1>9 DEF LeaderCancelled, Abandon, IInv, TypeOK
      <3>4. /\ comp'[i].finisher = comp[i].finisher
            /\ comp'[i].key = comp[i].key
        <4>1. comp' = Abandon(i)
          BY <2>2, <1>9 DEF LeaderCancelled
        <4> QED
          BY <2>1, <4>1, AbandonKeeps DEF IInv
      <3>5. \A d \in Callers : /\ d # c => call'[d] = call[d]
                               /\ ~IsWaiting(c)'
        BY <1>9 DEF LeaderCancelled, Answered, IInv, TypeOK, Call, IsWaiting, Waiting
      <3> QED
        BY <3>2, <3>3, <3>4, <3>5
           DEF IInv, Core, WaitingOnLive, SoleLeader, IsWaiting, Waiting
    <2>3. CASE ~Unwanted(i)
      BY <2>3, <1>9 DEF LeaderCancelled, Answered, IInv, Core, WaitingOnLive,
         SoleLeader, IsWaiting, Waiting, TypeOK, Call
    <2> QED
      BY <2>2, <2>3
  <1>10. ASSUME NEW c \in Callers, FollowerCancelled(c)
         PROVE  (WaitingOnLive /\ SoleLeader)'
    BY <1>10 DEF IInv, Core, WaitingOnLive, SoleLeader, IsWaiting, Waiting,
            Ends, Done, TypeOK, Computation, Call, FollowerCancelled,
            Answered, Leave
  <1>11. ASSUME NEW i \in Computations, FinisherStart(i)
         PROVE  (WaitingOnLive /\ SoleLeader)'
    BY <1>11 DEF IInv, Core, WaitingOnLive, SoleLeader, IsWaiting, Waiting,
            Ends, Done, TypeOK, Computation, Call, FinisherStart
  <1>12. ASSUME NEW i \in Computations, Publish(i)
         PROVE  (WaitingOnLive /\ SoleLeader)'
    BY <1>12 DEF IInv, Core, WaitingOnLive, SoleLeader, IsWaiting, Waiting,
            Ends, Done, TypeOK, Computation, Call, Publish, Complete, Release
  <1>13. ASSUME NEW i \in Computations, NEW how \in {"error", "cancelled"}, ComputeRaises(i, how)
         PROVE  (WaitingOnLive /\ SoleLeader)'
    BY <1>13 DEF IInv, Core, WaitingOnLive, SoleLeader, IsWaiting, Waiting,
            Ends, Done, TypeOK, Computation, Call, ComputeRaises,
            FinisherFails, Complete, Release
  <1>14. ASSUME NEW i \in Computations, CancelledRunning(i)
         PROVE  (WaitingOnLive /\ SoleLeader)'
    BY <1>14 DEF IInv, Core, WaitingOnLive, SoleLeader, IsWaiting, Waiting,
            Ends, Done, TypeOK, Computation, Call, CancelledRunning,
            FinisherFails, Complete, Release
  <1>15. ASSUME NEW i \in Computations, CancelledUnstarted(i)
         PROVE  (WaitingOnLive /\ SoleLeader)'
    BY <1>15 DEF IInv, Core, WaitingOnLive, SoleLeader, IsWaiting, Waiting,
            Ends, Done, TypeOK, Computation, Call, CancelledUnstarted
  <1>16. ASSUME NEW i \in Computations, Settle(i)
         PROVE  (WaitingOnLive /\ SoleLeader)'
    BY <1>16 DEF IInv, Core, WaitingOnLive, SoleLeader, IsWaiting, Waiting,
            Ends, Done, TypeOK, Computation, Call, Settle, Complete, Release
  <1>17. CASE UNCHANGED vars
    BY <1>17 DEF IInv, Core, WaitingOnLive, SoleLeader, IsWaiting, Waiting,
            Ends, Done, TypeOK, Computation, Call, vars
  <1> QED BY <1>1, <1>2, <1>3, <1>4, <1>5, <1>6, <1>7, <1>8, <1>9, <1>10,
            <1>11, <1>12, <1>13, <1>14, <1>15, <1>16, <1>17
       DEF Next, Ask, Finisher, WakeUp

\* No step breaks the tie between a finisher, its future and its cancellation.
LEMMA LifecycleStep ==
    ASSUME IInv, [Next]_vars
    PROVE  Lifecycle'
  <1>1. CASE Tick
    BY <1>1 DEF IInv, Core, Lifecycle, IsWaiting, Waiting, Ends, Done, TypeOK,
            Computation, Call, Tick
  <1>2. CASE Clear
    BY <1>2 DEF IInv, Core, Lifecycle, IsWaiting, Waiting, Ends, Done, TypeOK,
            Computation, Call, Clear
  <1>3. ASSUME NEW c \in Callers, NEW k \in Keys, Hit(c, k)
        PROVE  Lifecycle'
    BY <1>3 DEF IInv, Core, Lifecycle, IsWaiting, Waiting, Ends, Done, TypeOK,
            Computation, Call, Hit, Live, NewCall
  <1>4. ASSUME NEW c \in Callers, NEW k \in Keys, Join(c, k)
        PROVE  Lifecycle'
    BY <1>4 DEF IInv, Core, Lifecycle, IsWaiting, Waiting, Ends, Done, TypeOK,
            Computation, Call, Join, Miss, InFlight, Joinable, NewCall
  <1>5. ASSUME NEW c \in Callers, NEW k \in Keys, NEW i \in Computations, Lead(c, k, i)
        PROVE  Lifecycle'
    BY <1>5 DEF IInv, Core, Lifecycle, IsWaiting, Waiting, Ends, Done, TypeOK,
            Computation, Call, Lead, Miss, InFlight, Joinable, NewCall, Unused
  <1>6. ASSUME NEW c \in Callers, RequestCancel(c)
        PROVE  Lifecycle'
    BY <1>6 DEF IInv, Core, Lifecycle, IsWaiting, Waiting, Ends, Done, TypeOK,
            Computation, Call, RequestCancel
  <1>7. ASSUME NEW c \in Callers, LeaderReturn(c)
        PROVE  Lifecycle'
    BY <1>7 DEF IInv, Core, Lifecycle, IsWaiting, Waiting, Ends, Done, TypeOK,
            Computation, Call, LeaderReturn, Answered, ValueOf
  <1>8. ASSUME NEW c \in Callers, FollowerReturn(c)
        PROVE  Lifecycle'
    BY <1>8 DEF IInv, Core, Lifecycle, IsWaiting, Waiting, Ends, Done, TypeOK,
            Computation, Call, FollowerReturn, Answered, ValueOf, Leave
  <1>9. ASSUME NEW c \in Callers, LeaderCancelled(c)
        PROVE  Lifecycle'
    <2> DEFINE i == call[c].slot
    <2>1. i \in Computations
      BY <1>9 DEF IInv, Core, WaitingOnLive, IsWaiting, Waiting, LeaderCancelled
    <2>2. CASE Unwanted(i)
      <3>1. comp' = Abandon(i)
        BY <2>2, <1>9 DEF LeaderCancelled
      <3>2. ~Done(i) /\ comp[i].finisher # "none"
        BY <2>2, <1>9 DEF Unwanted, LeaderCancelled, IInv, Core, WaitingOnLive, IsWaiting, Waiting
      <3>3. comp[i].finisher \in {"new", "running"}
        BY <2>1, <3>2 DEF IInv, TypeOK, Computation, Done
      <3>4. \A j \in Computations :
               /\ comp'[j].finisher = comp[j].finisher
               /\ comp'[j].future = comp[j].future
               /\ j # i => comp'[j] = comp[j]
        BY <2>1, <3>1 DEF IInv, TypeOK, Abandon, Computation
      <3>5. comp'[i].abandoned /\ comp'[i].cancelling
        BY <2>1, <3>1 DEF IInv, TypeOK, Abandon, Computation
      <3> QED
        BY <2>1, <3>2, <3>3, <3>4, <3>5 DEF IInv, Core, Lifecycle, Done
    <2>3. CASE ~Unwanted(i)
      BY <2>3, <1>9 DEF LeaderCancelled, IInv, Core, Lifecycle, Done
    <2> QED
      BY <2>2, <2>3
  <1>10. ASSUME NEW c \in Callers, FollowerCancelled(c)
         PROVE  Lifecycle'
    BY <1>10 DEF IInv, Core, Lifecycle, IsWaiting, Waiting, Ends, Done,
            TypeOK, Computation, Call, FollowerCancelled, Answered, Leave
  <1>11. ASSUME NEW i \in Computations, FinisherStart(i)
         PROVE  Lifecycle'
    BY <1>11 DEF IInv, Core, Lifecycle, IsWaiting, Waiting, Ends, Done,
            TypeOK, Computation, Call, FinisherStart
  <1>12. ASSUME NEW i \in Computations, Publish(i)
         PROVE  Lifecycle'
    BY <1>12 DEF IInv, Core, Lifecycle, IsWaiting, Waiting, Ends, Done,
            TypeOK, Computation, Call, Publish, Complete, Release
  <1>13. ASSUME NEW i \in Computations, NEW how \in {"error", "cancelled"}, ComputeRaises(i, how)
         PROVE  Lifecycle'
    BY <1>13 DEF IInv, Core, Lifecycle, IsWaiting, Waiting, Ends, Done,
            TypeOK, Computation, Call, ComputeRaises, FinisherFails, Complete,
            Release
  <1>14. ASSUME NEW i \in Computations, CancelledRunning(i)
         PROVE  Lifecycle'
    BY <1>14 DEF IInv, Core, Lifecycle, IsWaiting, Waiting, Ends, Done,
            TypeOK, Computation, Call, CancelledRunning, FinisherFails,
            Complete, Release
  <1>15. ASSUME NEW i \in Computations, CancelledUnstarted(i)
         PROVE  Lifecycle'
    BY <1>15 DEF IInv, Core, Lifecycle, IsWaiting, Waiting, Ends, Done,
            TypeOK, Computation, Call, CancelledUnstarted
  <1>16. ASSUME NEW i \in Computations, Settle(i)
         PROVE  Lifecycle'
    BY <1>16 DEF IInv, Core, Lifecycle, IsWaiting, Waiting, Ends, Done,
            TypeOK, Computation, Call, Settle, Complete, Release
  <1>17. CASE UNCHANGED vars
    BY <1>17 DEF IInv, Core, Lifecycle, IsWaiting, Waiting, Ends, Done,
            TypeOK, Computation, Call, vars
  <1> QED BY <1>1, <1>2, <1>3, <1>4, <1>5, <1>6, <1>7, <1>8, <1>9, <1>10,
            <1>11, <1>12, <1>13, <1>14, <1>15, <1>16, <1>17
       DEF Next, Ask, Finisher, WakeUp

\* Whatever a step leaves registered can still answer.
LEMMA SlotStep ==
    ASSUME IInv, [Next]_vars
    PROVE  NoPoisonedSlot'
  <1>1. CASE Tick
    BY <1>1, CacheAssumption DEF IInv, Core, Lifecycle, NoPoisonedSlot,
            Joinable, Ends, Done, TypeOK, Computation, Call, Tick
  <1>2. CASE Clear
    BY <1>2, CacheAssumption DEF IInv, Core, Lifecycle, NoPoisonedSlot,
            Joinable, Ends, Done, TypeOK, Computation, Call, Clear
  <1>3. ASSUME NEW c \in Callers, NEW k \in Keys, Hit(c, k)
        PROVE  NoPoisonedSlot'
    BY <1>3, CacheAssumption DEF IInv, Core, Lifecycle, NoPoisonedSlot,
            Joinable, Ends, Done, TypeOK, Computation, Call, Hit, Live,
            NewCall
  <1>4. ASSUME NEW c \in Callers, NEW k \in Keys, Join(c, k)
        PROVE  NoPoisonedSlot'
    BY <1>4, CacheAssumption DEF IInv, Core, Lifecycle, NoPoisonedSlot,
            Joinable, Ends, Done, TypeOK, Computation, Call, Join, Miss,
            InFlight, Joinable, NewCall
  <1>5. ASSUME NEW c \in Callers, NEW k \in Keys, NEW i \in Computations, Lead(c, k, i)
        PROVE  NoPoisonedSlot'
    BY <1>5, CacheAssumption DEF IInv, Core, Lifecycle, NoPoisonedSlot,
            Joinable, Ends, Done, TypeOK, Computation, Call, Lead, Miss,
            InFlight, Joinable, NewCall, Unused
  <1>6. ASSUME NEW c \in Callers, RequestCancel(c)
        PROVE  NoPoisonedSlot'
    BY <1>6, CacheAssumption DEF IInv, Core, Lifecycle, NoPoisonedSlot,
            Joinable, Ends, Done, TypeOK, Computation, Call, RequestCancel
  <1>7. ASSUME NEW c \in Callers, LeaderReturn(c)
        PROVE  NoPoisonedSlot'
    BY <1>7, CacheAssumption DEF IInv, Core, Lifecycle, NoPoisonedSlot,
            Joinable, Ends, Done, TypeOK, Computation, Call, LeaderReturn,
            Answered, ValueOf
  <1>8. ASSUME NEW c \in Callers, FollowerReturn(c)
        PROVE  NoPoisonedSlot'
    BY <1>8, CacheAssumption DEF IInv, Core, Lifecycle, NoPoisonedSlot,
            Joinable, Ends, Done, TypeOK, Computation, Call, FollowerReturn,
            Answered, ValueOf, Leave
  <1>9. ASSUME NEW c \in Callers, LeaderCancelled(c)
        PROVE  NoPoisonedSlot'
    BY <1>9, CacheAssumption DEF IInv, Core, Lifecycle, NoPoisonedSlot,
            Joinable, Ends, Done, TypeOK, Computation, Call, LeaderCancelled,
            Answered, Unwanted, Abandon, Release
  <1>10. ASSUME NEW c \in Callers, FollowerCancelled(c)
         PROVE  NoPoisonedSlot'
    BY <1>10, CacheAssumption DEF IInv, Core, Lifecycle, NoPoisonedSlot,
            Joinable, Ends, Done, TypeOK, Computation, Call,
            FollowerCancelled, Answered, Leave
  <1>11. ASSUME NEW i \in Computations, FinisherStart(i)
         PROVE  NoPoisonedSlot'
    BY <1>11, CacheAssumption DEF IInv, Core, Lifecycle, NoPoisonedSlot,
            Joinable, Ends, Done, TypeOK, Computation, Call, FinisherStart
  <1>12. ASSUME NEW i \in Computations, Publish(i)
         PROVE  NoPoisonedSlot'
    BY <1>12, CacheAssumption DEF IInv, Core, Lifecycle, NoPoisonedSlot,
            Joinable, Ends, Done, TypeOK, Computation, Call, Publish,
            Complete, Release
  <1>13. ASSUME NEW i \in Computations, NEW how \in {"error", "cancelled"}, ComputeRaises(i, how)
         PROVE  NoPoisonedSlot'
    BY <1>13, CacheAssumption DEF IInv, Core, Lifecycle, NoPoisonedSlot,
            Joinable, Ends, Done, TypeOK, Computation, Call, ComputeRaises,
            FinisherFails, Complete, Release
  <1>14. ASSUME NEW i \in Computations, CancelledRunning(i)
         PROVE  NoPoisonedSlot'
    BY <1>14, CacheAssumption DEF IInv, Core, Lifecycle, NoPoisonedSlot,
            Joinable, Ends, Done, TypeOK, Computation, Call, CancelledRunning,
            FinisherFails, Complete, Release
  <1>15. ASSUME NEW i \in Computations, CancelledUnstarted(i)
         PROVE  NoPoisonedSlot'
    BY <1>15, CacheAssumption DEF IInv, Core, Lifecycle, NoPoisonedSlot,
            Joinable, Ends, Done, TypeOK, Computation, Call,
            CancelledUnstarted
  <1>16. ASSUME NEW i \in Computations, Settle(i)
         PROVE  NoPoisonedSlot'
    BY <1>16, CacheAssumption DEF IInv, Core, Lifecycle, NoPoisonedSlot,
            Joinable, Ends, Done, TypeOK, Computation, Call, Settle, Complete,
            Release
  <1>17. CASE UNCHANGED vars
    BY <1>17, CacheAssumption DEF IInv, Core, Lifecycle, NoPoisonedSlot,
            Joinable, Ends, Done, TypeOK, Computation, Call, vars
  <1> QED BY <1>1, <1>2, <1>3, <1>4, <1>5, <1>6, <1>7, <1>8, <1>9, <1>10,
            <1>11, <1>12, <1>13, <1>14, <1>15, <1>16, <1>17
       DEF Next, Ask, Finisher, WakeUp

\* No step hands a CancelledError to a caller nobody cancelled.
LEMMA ForeignStep ==
    ASSUME IInv, [Next]_vars
    PROVE  NoForeignCancellation'
  <1>1. CASE Tick
    BY <1>1 DEF IInv, Core, Lifecycle, WaitingOnLive, NoForeignCancellation,
            IsWaiting, Waiting, Ends, Done, TypeOK, Computation, Call, Tick
  <1>2. CASE Clear
    BY <1>2 DEF IInv, Core, Lifecycle, WaitingOnLive, NoForeignCancellation,
            IsWaiting, Waiting, Ends, Done, TypeOK, Computation, Call, Clear
  <1>3. ASSUME NEW c \in Callers, NEW k \in Keys, Hit(c, k)
        PROVE  NoForeignCancellation'
    BY <1>3 DEF IInv, Core, Lifecycle, WaitingOnLive, NoForeignCancellation,
            IsWaiting, Waiting, Ends, Done, TypeOK, Computation, Call, Hit,
            Live, NewCall
  <1>4. ASSUME NEW c \in Callers, NEW k \in Keys, Join(c, k)
        PROVE  NoForeignCancellation'
    BY <1>4 DEF IInv, Core, Lifecycle, WaitingOnLive, NoForeignCancellation,
            IsWaiting, Waiting, Ends, Done, TypeOK, Computation, Call, Join,
            Miss, InFlight, Joinable, NewCall
  <1>5. ASSUME NEW c \in Callers, NEW k \in Keys, NEW i \in Computations, Lead(c, k, i)
        PROVE  NoForeignCancellation'
    BY <1>5 DEF IInv, Core, Lifecycle, WaitingOnLive, NoForeignCancellation,
            IsWaiting, Waiting, Ends, Done, TypeOK, Computation, Call, Lead,
            Miss, InFlight, Joinable, NewCall, Unused
  <1>6. ASSUME NEW c \in Callers, RequestCancel(c)
        PROVE  NoForeignCancellation'
    BY <1>6 DEF IInv, Core, Lifecycle, WaitingOnLive, NoForeignCancellation,
            IsWaiting, Waiting, Ends, Done, TypeOK, Computation, Call,
            RequestCancel
  <1>7. ASSUME NEW c \in Callers, LeaderReturn(c)
        PROVE  NoForeignCancellation'
    BY <1>7 DEF IInv, Core, Lifecycle, WaitingOnLive, NoForeignCancellation,
            IsWaiting, Waiting, Ends, Done, TypeOK, Computation, Call,
            LeaderReturn, Answered, ValueOf
  <1>8. ASSUME NEW c \in Callers, FollowerReturn(c)
        PROVE  NoForeignCancellation'
    BY <1>8 DEF IInv, Core, Lifecycle, WaitingOnLive, NoForeignCancellation,
            IsWaiting, Waiting, Ends, Done, TypeOK, Computation, Call,
            FollowerReturn, Answered, ValueOf, Leave
  <1>9. ASSUME NEW c \in Callers, LeaderCancelled(c)
        PROVE  NoForeignCancellation'
    <2> DEFINE i == call[c].slot
    <2>1. i \in Computations
      BY <1>9 DEF IInv, Core, WaitingOnLive, IsWaiting, Waiting, LeaderCancelled
    <2>2. CASE Unwanted(i)
      <3>1. comp' = Abandon(i)
        BY <2>2, <1>9 DEF LeaderCancelled
      <3> QED
        BY <2>1, <2>2, <3>1, <1>9 DEF IInv, Core, Lifecycle, WaitingOnLive,
                NoForeignCancellation, IsWaiting, Waiting, Ends, Done, TypeOK,
                Computation, Call, LeaderCancelled, Answered, Unwanted,
                Abandon
    <2>3. CASE ~Unwanted(i)
      BY <2>3, <1>9 DEF IInv, Core, Lifecycle, WaitingOnLive,
              NoForeignCancellation, IsWaiting, Waiting, Ends, Done, TypeOK,
              Computation, Call, LeaderCancelled, Answered
    <2> QED
      BY <2>2, <2>3
  <1>10. ASSUME NEW c \in Callers, FollowerCancelled(c)
         PROVE  NoForeignCancellation'
    BY <1>10 DEF IInv, Core, Lifecycle, WaitingOnLive, NoForeignCancellation,
            IsWaiting, Waiting, Ends, Done, TypeOK, Computation, Call,
            FollowerCancelled, Answered, Leave
  <1>11. ASSUME NEW i \in Computations, FinisherStart(i)
         PROVE  NoForeignCancellation'
    BY <1>11 DEF IInv, Core, Lifecycle, WaitingOnLive, NoForeignCancellation,
            IsWaiting, Waiting, Ends, Done, TypeOK, Computation, Call,
            FinisherStart
  <1>12. ASSUME NEW i \in Computations, Publish(i)
         PROVE  NoForeignCancellation'
    BY <1>12 DEF IInv, Core, Lifecycle, WaitingOnLive, NoForeignCancellation,
            IsWaiting, Waiting, Ends, Done, TypeOK, Computation, Call,
            Publish, Complete, Release
  <1>13. ASSUME NEW i \in Computations, NEW how \in {"error", "cancelled"}, ComputeRaises(i, how)
         PROVE  NoForeignCancellation'
    BY <1>13 DEF IInv, Core, Lifecycle, WaitingOnLive, NoForeignCancellation,
            IsWaiting, Waiting, Ends, Done, TypeOK, Computation, Call,
            ComputeRaises, FinisherFails, Complete, Release
  <1>14. ASSUME NEW i \in Computations, CancelledRunning(i)
         PROVE  NoForeignCancellation'
    BY <1>14 DEF IInv, Core, Lifecycle, WaitingOnLive, NoForeignCancellation,
            IsWaiting, Waiting, Ends, Done, TypeOK, Computation, Call,
            CancelledRunning, FinisherFails, Complete, Release
  <1>15. ASSUME NEW i \in Computations, CancelledUnstarted(i)
         PROVE  NoForeignCancellation'
    BY <1>15 DEF IInv, Core, Lifecycle, WaitingOnLive, NoForeignCancellation,
            IsWaiting, Waiting, Ends, Done, TypeOK, Computation, Call,
            CancelledUnstarted
  <1>16. ASSUME NEW i \in Computations, Settle(i)
         PROVE  NoForeignCancellation'
    BY <1>16 DEF IInv, Core, Lifecycle, WaitingOnLive, NoForeignCancellation,
            IsWaiting, Waiting, Ends, Done, TypeOK, Computation, Call, Settle,
            Complete, Release
  <1>17. CASE UNCHANGED vars
    BY <1>17 DEF IInv, Core, Lifecycle, WaitingOnLive, NoForeignCancellation,
            IsWaiting, Waiting, Ends, Done, TypeOK, Computation, Call, vars
  <1> QED BY <1>1, <1>2, <1>3, <1>4, <1>5, <1>6, <1>7, <1>8, <1>9, <1>10,
            <1>11, <1>12, <1>13, <1>14, <1>15, <1>16, <1>17
       DEF Next, Ask, Finisher, WakeUp

\* A follower that leaves was counted.
LEMMA FollowerCounted ==
    ASSUME IInv, NEW c \in Callers, call[c].pc = "follower"
    PROVE  /\ call[c].slot \in Computations
           /\ comp[call[c].slot].waitingFollowers - 1 \in Nat
  <1> DEFINE i == call[c].slot
  <1>1. i \in Computations
    BY DEF IInv, Core, WaitingOnLive, IsWaiting, Waiting
  <1>2. c \in Followers(i)
    BY DEF Followers
  <1>3. Cardinality(Followers(i)) \in Nat \ {0}
    BY <1>1, <1>2, FS_CardinalityType, FS_EmptySet DEF IInv, Core, CountsExact
  <1> QED
    BY <1>1, <1>3 DEF IInv, Core, CountsExact

\* The future is pending or ended after a completion.
LEMMA CompleteType ==
    ASSUME TypeOK, NEW i \in Computations, NEW e \in Ends
    PROVE  Complete(i, e) \in {"pending"} \cup Ends
  BY DEF Complete, TypeOK, Computation, Ends

\* An ended computation's record has the type of a computation.
LEMMA EndedType ==
    ASSUME NEW r \in Computation, NEW e \in Ends,
           NEW f \in {"pending"} \cup Ends
    PROVE  [r EXCEPT !.finisher = e, !.future = f] \in Computation
  BY DEF Computation, Ends

\* Updating one computation to a well-typed record keeps the type.
LEMMA UpdatedType ==
    ASSUME TypeOK, NEW i \in Computations, NEW r \in Computation
    PROVE  [comp EXCEPT ![i] = r] \in [Computations -> Computation]
  BY DEF TypeOK

\* A follower that counts itself out leaves a well-typed computation.
LEMMA LeaveType ==
    ASSUME IInv, NEW c \in Callers, call[c].pc = "follower"
    PROVE  Leave(call[c].slot) \in [Computations -> Computation]
  <1> DEFINE i == call[c].slot
  <1>1. /\ comp \in [Computations -> Computation]
        /\ i \in Computations
        /\ comp[i].waitingFollowers - 1 \in Nat
    BY FollowerCounted DEF IInv, TypeOK
  <1>2. comp[i] \in Computation
    BY <1>1
  <1>3. [comp[i] EXCEPT !.waitingFollowers = @ - 1] \in Computation
    BY <1>1, <1>2 DEF Computation
  <1> QED
    BY <1>1, <1>3 DEF Leave

\* The record of an answered call.
LEMMA AnsweredRecord ==
    ASSUME NEW r \in Call, NEW e \in Ends, NEW v \in Computations \cup {None}
    PROVE  [r EXCEPT !.pc = e, !.val = v] \in Call
  BY DEF Call

\* An answered call has the type of a call.
LEMMA AnsweredType ==
    ASSUME TypeOK, NEW c \in Callers, NEW e \in Ends,
           NEW v \in Computations \cup {None}
    PROVE  Answered(c, e, v) \in [Callers -> Call]
  <1>1. call \in [Callers -> Call]
    BY DEF TypeOK
  <1>2. [call[c] EXCEPT !.pc = e, !.val = v] \in Call
    BY <1>1, AnsweredRecord
  <1> QED
    BY <1>1, <1>2 DEF Answered

\* Types of the computations: the follower count never goes below zero.
LEMMA CompTypeStep ==
    ASSUME IInv, [Next]_vars
    PROVE  (comp \in [Computations -> Computation])'
  <1>1. CASE Tick
    BY <1>1 DEF IInv, TypeOK, Computation, Ends, Tick
  <1>2. CASE Clear
    BY <1>2 DEF IInv, TypeOK, Computation, Ends, Clear
  <1>3. ASSUME NEW c \in Callers, NEW k \in Keys, Hit(c, k)
        PROVE  (comp \in [Computations -> Computation])'
    BY <1>3 DEF IInv, TypeOK, Computation, Ends, Hit, Live, NewCall
  <1>4. ASSUME NEW c \in Callers, NEW k \in Keys, Join(c, k)
        PROVE  (comp \in [Computations -> Computation])'
    BY <1>4, CacheAssumption DEF IInv, TypeOK, Computation, Ends, Join, Miss,
            InFlight, Joinable, NewCall
  <1>5. ASSUME NEW c \in Callers, NEW k \in Keys, NEW i \in Computations, Lead(c, k, i)
        PROVE  (comp \in [Computations -> Computation])'
    <2>1. Unused \in Computation
      BY DEF Unused, Computation, Ends
    <2>2. [Unused EXCEPT !.key = k, !.start = now, !.born = epoch,
                         !.finisher = "new"] \in Computation
      <3>1. now \in Int /\ epoch \in Nat
        BY DEF IInv, TypeOK
      <3> QED
        BY <2>1, <3>1 DEF Computation
    <2> QED
      BY <2>2, UpdatedType, <1>5 DEF IInv, Lead
  <1>6. ASSUME NEW c \in Callers, RequestCancel(c)
        PROVE  (comp \in [Computations -> Computation])'
    BY <1>6 DEF IInv, TypeOK, Computation, Ends, RequestCancel
  <1>7. ASSUME NEW c \in Callers, LeaderReturn(c)
        PROVE  (comp \in [Computations -> Computation])'
    BY <1>7 DEF IInv, TypeOK, Computation, Ends, LeaderReturn, Answered,
            ValueOf
  <1>8. ASSUME NEW c \in Callers, FollowerReturn(c)
        PROVE  (comp \in [Computations -> Computation])'
    BY <1>8, LeaveType DEF FollowerReturn
  <1>9. ASSUME NEW c \in Callers, LeaderCancelled(c)
        PROVE  (comp \in [Computations -> Computation])'
    <2>1. call[c].slot \in Computations
      BY <1>9 DEF IInv, Core, WaitingOnLive, IsWaiting, Waiting, LeaderCancelled
    <2>2. Abandon(call[c].slot) \in [Computations -> Computation]
      BY <2>1, AbandonKeeps DEF IInv
    <2> QED
      BY <2>2, <1>9 DEF LeaderCancelled, IInv, TypeOK
  <1>10. ASSUME NEW c \in Callers, FollowerCancelled(c)
         PROVE  (comp \in [Computations -> Computation])'
    BY <1>10, LeaveType DEF FollowerCancelled
  <1>11. ASSUME NEW i \in Computations, FinisherStart(i)
         PROVE  (comp \in [Computations -> Computation])'
    BY <1>11 DEF IInv, TypeOK, Computation, Ends, FinisherStart
  <1>12. ASSUME NEW i \in Computations, Publish(i)
         PROVE  (comp \in [Computations -> Computation])'
    <2>1. comp[i] \in Computation /\ now \in Int /\ "ok" \in Ends
      BY DEF IInv, TypeOK, Ends
    <2>2. Complete(i, "ok") \in {"pending"} \cup Ends
      BY <2>1, CompleteType DEF IInv
    <2>3. [comp[i] EXCEPT !.finisher = "ok", !.ended = now,
                          !.future = Complete(i, "ok")] \in Computation
      BY <2>1, <2>2 DEF Computation, Ends
    <2> QED
      BY <2>3, UpdatedType, <1>12 DEF IInv, Publish
  <1>13. ASSUME NEW i \in Computations, NEW how \in {"error", "cancelled"}, ComputeRaises(i, how)
         PROVE  (comp \in [Computations -> Computation])'
    <2>1. comp[i] \in Computation
      BY DEF IInv, TypeOK
    <2>2. how \in Ends /\ TypeOK
      BY DEF IInv, Ends
    <2>3. Complete(i, how) \in {"pending"} \cup Ends
      BY <2>2, CompleteType
    <2>4. [comp[i] EXCEPT !.finisher = how, !.future = Complete(i, how)] \in Computation
      BY <2>1, <2>2, <2>3, EndedType
    <2>5. comp' = [comp EXCEPT ![i] = [comp[i] EXCEPT !.finisher = how,
                                                      !.future = Complete(i, how)]]
      BY <1>13 DEF ComputeRaises, FinisherFails
    <2> QED
      BY <2>2, <2>4, <2>5, UpdatedType
  <1>14. ASSUME NEW i \in Computations, CancelledRunning(i)
         PROVE  (comp \in [Computations -> Computation])'
    <2>1. comp[i] \in Computation
      BY DEF IInv, TypeOK
    <2>2. "cancelled" \in Ends /\ TypeOK
      BY DEF IInv, Ends
    <2>3. Complete(i, "cancelled") \in {"pending"} \cup Ends
      BY <2>2, CompleteType
    <2>4. [comp[i] EXCEPT !.finisher = "cancelled",
                          !.future = Complete(i, "cancelled")] \in Computation
      BY <2>1, <2>2, <2>3, EndedType
    <2>5. comp' = [comp EXCEPT ![i] = [comp[i] EXCEPT
                      !.finisher = "cancelled",
                      !.future = Complete(i, "cancelled")]]
      BY <1>14 DEF CancelledRunning, FinisherFails
    <2> QED
      BY <2>2, <2>4, <2>5, UpdatedType
  <1>15. ASSUME NEW i \in Computations, CancelledUnstarted(i)
         PROVE  (comp \in [Computations -> Computation])'
    BY <1>15 DEF IInv, TypeOK, Computation, Ends, CancelledUnstarted
  <1>16. ASSUME NEW i \in Computations, Settle(i)
         PROVE  (comp \in [Computations -> Computation])'
    <2>1. comp[i] \in Computation /\ "cancelled" \in Ends
      BY DEF IInv, TypeOK, Ends
    <2>2. Complete(i, "cancelled") \in {"pending"} \cup Ends
      BY <2>1, CompleteType DEF IInv
    <2>3. [comp[i] EXCEPT !.settled = TRUE,
                          !.future = Complete(i, "cancelled")] \in Computation
      BY <2>1, <2>2 DEF Computation, Ends
    <2> QED
      BY <2>3, UpdatedType, <1>16 DEF IInv, Settle
  <1>17. CASE UNCHANGED vars
    BY <1>17 DEF IInv, TypeOK, Computation, Ends, vars
  <1> QED BY <1>1, <1>2, <1>3, <1>4, <1>5, <1>6, <1>7, <1>8, <1>9, <1>10,
            <1>11, <1>12, <1>13, <1>14, <1>15, <1>16, <1>17
       DEF Next, Ask, Finisher, WakeUp

\* Types of the calls.
LEMMA CallTypeStep ==
    ASSUME IInv, [Next]_vars
    PROVE  (call \in [Callers -> Call])'
  <1>1. CASE Tick
    BY <1>1 DEF IInv, TypeOK, Computation, Call, Entry, Ends, Waiting, Tick
  <1>2. CASE Clear
    BY <1>2 DEF IInv, TypeOK, Computation, Call, Entry, Ends, Waiting, Clear
  <1>3. ASSUME NEW c \in Callers, NEW k \in Keys, Hit(c, k)
        PROVE  (call \in [Callers -> Call])'
    BY <1>3 DEF IInv, TypeOK, Computation, Call, Entry, Ends, Waiting, Hit,
            Live, NewCall
  <1>4. ASSUME NEW c \in Callers, NEW k \in Keys, Join(c, k)
        PROVE  (call \in [Callers -> Call])'
    BY <1>4 DEF IInv, TypeOK, Computation, Call, Entry, Ends, Waiting, Join,
            Miss, InFlight, Joinable, NewCall
  <1>5. ASSUME NEW c \in Callers, NEW k \in Keys, NEW i \in Computations, Lead(c, k, i)
        PROVE  (call \in [Callers -> Call])'
    BY <1>5 DEF IInv, TypeOK, Computation, Call, Entry, Ends, Waiting, Lead,
            Miss, InFlight, Joinable, NewCall, Unused
  <1>6. ASSUME NEW c \in Callers, RequestCancel(c)
        PROVE  (call \in [Callers -> Call])'
    <2>1. call \in [Callers -> Call]
      BY DEF IInv, TypeOK
    <2>2. [call[c] EXCEPT !.cancelReq = TRUE] \in Call
      BY <2>1 DEF Call
    <2>3. call' = [call EXCEPT ![c] = [call[c] EXCEPT !.cancelReq = TRUE]]
      BY <1>6 DEF RequestCancel
    <2> QED
      BY <2>1, <2>2, <2>3
  <1>7. ASSUME NEW c \in Callers, LeaderReturn(c)
        PROVE  (call \in [Callers -> Call])'
    <2>1. /\ call[c].slot \in Computations
          /\ comp[call[c].slot].finisher \in Ends
      BY <1>7 DEF IInv, Core, WaitingOnLive, Lifecycle, IsWaiting, Waiting, Done,
         LeaderReturn, TypeOK, Computation, Ends
    <2>2. ValueOf(call[c].slot) \in Computations \cup {None}
      BY <2>1 DEF ValueOf
    <2> QED
      BY <2>1, <2>2, AnsweredType, <1>7 DEF LeaderReturn, IInv
  <1>8. ASSUME NEW c \in Callers, FollowerReturn(c)
        PROVE  (call \in [Callers -> Call])'
    <2>1. /\ call[c].slot \in Computations
          /\ comp[call[c].slot].future \in Ends
      BY <1>8 DEF IInv, Core, WaitingOnLive, Lifecycle, IsWaiting, Waiting, Done,
         FollowerReturn, TypeOK, Computation, Ends
    <2>2. ValueOf(call[c].slot) \in Computations \cup {None}
      BY <2>1 DEF ValueOf
    <2> QED
      BY <2>1, <2>2, AnsweredType, <1>8 DEF FollowerReturn, IInv
  <1>9. ASSUME NEW c \in Callers, LeaderCancelled(c)
        PROVE  (call \in [Callers -> Call])'
    <2>1. Answered(c, "cancelled", None) \in [Callers -> Call]
      BY AnsweredType DEF IInv, Ends
    <2> QED
      BY <2>1, <1>9 DEF LeaderCancelled
  <1>10. ASSUME NEW c \in Callers, FollowerCancelled(c)
         PROVE  (call \in [Callers -> Call])'
    <2>1. Answered(c, "cancelled", None) \in [Callers -> Call]
      BY AnsweredType DEF IInv, Ends
    <2> QED
      BY <2>1, <1>10 DEF FollowerCancelled
  <1>11. ASSUME NEW i \in Computations, FinisherStart(i)
         PROVE  (call \in [Callers -> Call])'
    BY <1>11 DEF IInv, TypeOK, Computation, Call, Entry, Ends, Waiting,
            FinisherStart
  <1>12. ASSUME NEW i \in Computations, Publish(i)
         PROVE  (call \in [Callers -> Call])'
    BY <1>12 DEF IInv, TypeOK, Computation, Call, Entry, Ends, Waiting,
            Publish, Complete, Release
  <1>13. ASSUME NEW i \in Computations, NEW how \in {"error", "cancelled"}, ComputeRaises(i, how)
         PROVE  (call \in [Callers -> Call])'
    BY <1>13 DEF IInv, TypeOK, Computation, Call, Entry, Ends, Waiting,
            ComputeRaises, FinisherFails, Complete, Release
  <1>14. ASSUME NEW i \in Computations, CancelledRunning(i)
         PROVE  (call \in [Callers -> Call])'
    BY <1>14 DEF IInv, TypeOK, Computation, Call, Entry, Ends, Waiting,
            CancelledRunning, FinisherFails, Complete, Release
  <1>15. ASSUME NEW i \in Computations, CancelledUnstarted(i)
         PROVE  (call \in [Callers -> Call])'
    BY <1>15 DEF IInv, TypeOK, Computation, Call, Entry, Ends, Waiting,
            CancelledUnstarted
  <1>16. ASSUME NEW i \in Computations, Settle(i)
         PROVE  (call \in [Callers -> Call])'
    BY <1>16 DEF IInv, TypeOK, Computation, Call, Entry, Ends, Waiting,
            Settle, Complete, Release
  <1>17. CASE UNCHANGED vars
    BY <1>17 DEF IInv, TypeOK, Computation, Call, Entry, Ends, Waiting, vars
  <1> QED BY <1>1, <1>2, <1>3, <1>4, <1>5, <1>6, <1>7, <1>8, <1>9, <1>10,
            <1>11, <1>12, <1>13, <1>14, <1>15, <1>16, <1>17
       DEF Next, Ask, Finisher, WakeUp

\* Sweeping keeps the type of the entries.
LEMMA SweptType ==
    ASSUME TypeOK
    PROVE  Swept \in [Keys -> Entry] /\ SweptAt \in Int
  BY DEF TypeOK, Swept, SweptAt, Entry, NoEntry

\* Moving a key to the end keeps the order's type.
LEMMA MoveToEndType ==
    ASSUME NEW k \in Keys, NEW ents
    PROVE  MoveToEnd(k, ents) \subseteq Keys \X Keys
  BY DEF MoveToEnd, KeysOf

\* Types of the store, the slots and the clock.
LEMMA StoreTypeStep ==
    ASSUME IInv, [Next]_vars
    PROVE  Stores'
  <1>1. CASE Tick
    BY <1>1, SweptType, MoveToEndType DEF IInv, TypeOK, Entry, Stores, Tick
  <1>2. CASE Clear
    BY <1>2, SweptType, MoveToEndType DEF IInv, TypeOK, Entry, Stores, Clear,
            NoEntry
  <1>3. ASSUME NEW c \in Callers, NEW k \in Keys, Hit(c, k)
        PROVE  Stores'
    BY <1>3, SweptType, MoveToEndType DEF IInv, TypeOK, Entry, Stores, Hit,
            Live, NewCall
  <1>4. ASSUME NEW c \in Callers, NEW k \in Keys, Join(c, k)
        PROVE  Stores'
    BY <1>4, SweptType, MoveToEndType DEF IInv, TypeOK, Entry, Stores, Join,
            Miss, InFlight, Joinable, NewCall
  <1>5. ASSUME NEW c \in Callers, NEW k \in Keys, NEW i \in Computations, Lead(c, k, i)
        PROVE  Stores'
    BY <1>5, SweptType, MoveToEndType DEF IInv, TypeOK, Entry, Stores, Lead,
            Miss, InFlight, Joinable, NewCall, Unused
  <1>6. ASSUME NEW c \in Callers, RequestCancel(c)
        PROVE  Stores'
    BY <1>6, SweptType, MoveToEndType DEF IInv, TypeOK, Entry, Stores,
            RequestCancel
  <1>7. ASSUME NEW c \in Callers, LeaderReturn(c)
        PROVE  Stores'
    BY <1>7, SweptType, MoveToEndType DEF IInv, TypeOK, Entry, Stores,
            LeaderReturn, Answered, ValueOf
  <1>8. ASSUME NEW c \in Callers, FollowerReturn(c)
        PROVE  Stores'
    BY <1>8, SweptType, MoveToEndType DEF IInv, TypeOK, Entry, Stores,
            FollowerReturn, Answered, ValueOf, Leave
  <1>9. ASSUME NEW c \in Callers, LeaderCancelled(c)
        PROVE  Stores'
    BY <1>9, SweptType, MoveToEndType DEF IInv, TypeOK, Entry, Stores,
            LeaderCancelled, Answered, Unwanted, Abandon, Release
  <1>10. ASSUME NEW c \in Callers, FollowerCancelled(c)
         PROVE  Stores'
    BY <1>10, SweptType, MoveToEndType DEF IInv, TypeOK, Entry, Stores,
            FollowerCancelled, Answered, Leave
  <1>11. ASSUME NEW i \in Computations, FinisherStart(i)
         PROVE  Stores'
    BY <1>11, SweptType, MoveToEndType DEF IInv, TypeOK, Entry, Stores,
            FinisherStart
  <1>12. ASSUME NEW i \in Computations, Publish(i)
         PROVE  Stores'
    <2> DEFINE k == comp[i].key
               ents == [entries EXCEPT ![k] = [val |-> i, expires |-> Expiry(i)]]
               order == MoveToEnd(k, ents)
               kept == Survivors(ents, order)
    <2>1. k \in Keys
      BY <1>12 DEF IInv, Core, KeyKnown, Publish
    <2>2. ents \in [Keys -> Entry]
      <3>1. Expiry(i) \in Int
        BY CacheAssumption DEF IInv, TypeOK, Computation, Expiry
      <3> QED
        BY <2>1, <3>1 DEF IInv, TypeOK, Entry
    <2>3. kept \subseteq Keys
      BY DEF Survivors, KeysOf
    <2>4. order \subseteq Keys \X Keys
      BY <2>1, MoveToEndType
    <2>5. entries' \in [Keys -> Entry]
      <3>1. entries' = [j \in Keys |-> IF j \in kept THEN ents[j] ELSE NoEntry]
        BY <1>12 DEF Publish
      <3> QED
        BY <2>2, <3>1 DEF Entry, NoEntry
    <2>6. older' \subseteq Keys \X Keys
      <3>1. older' = order \cap (kept \X kept)
        BY <1>12 DEF Publish
      <3> QED
        BY <2>4, <3>1
    <2> QED
      BY <2>5, <2>6, <1>12 DEF Publish, Release, IInv, TypeOK, Stores
  <1>13. ASSUME NEW i \in Computations, NEW how \in {"error", "cancelled"}, ComputeRaises(i, how)
         PROVE  Stores'
    BY <1>13, SweptType, MoveToEndType DEF IInv, TypeOK, Entry, Stores,
            ComputeRaises, FinisherFails, Complete, Release
  <1>14. ASSUME NEW i \in Computations, CancelledRunning(i)
         PROVE  Stores'
    BY <1>14, SweptType, MoveToEndType DEF IInv, TypeOK, Entry, Stores,
            CancelledRunning, FinisherFails, Complete, Release
  <1>15. ASSUME NEW i \in Computations, CancelledUnstarted(i)
         PROVE  Stores'
    BY <1>15, SweptType, MoveToEndType DEF IInv, TypeOK, Entry, Stores,
            CancelledUnstarted
  <1>16. ASSUME NEW i \in Computations, Settle(i)
         PROVE  Stores'
    BY <1>16, SweptType, MoveToEndType DEF IInv, TypeOK, Entry, Stores,
            Settle, Complete, Release
  <1>17. CASE UNCHANGED vars
    BY <1>17, SweptType, MoveToEndType DEF IInv, TypeOK, Entry, Stores, vars
  <1> QED BY <1>1, <1>2, <1>3, <1>4, <1>5, <1>6, <1>7, <1>8, <1>9, <1>10,
            <1>11, <1>12, <1>13, <1>14, <1>15, <1>16, <1>17
       DEF Next, Ask, Finisher, WakeUp

\* A started computation keeps its key.
LEMMA KeyStep ==
    ASSUME IInv, [Next]_vars
    PROVE  KeyKnown'
  <1>1. CASE Tick
    BY <1>1 DEF IInv, Core, KeyKnown, TypeOK, Computation, Tick
  <1>2. CASE Clear
    BY <1>2 DEF IInv, Core, KeyKnown, TypeOK, Computation, Clear
  <1>3. ASSUME NEW c \in Callers, NEW k \in Keys, Hit(c, k)
        PROVE  KeyKnown'
    BY <1>3 DEF IInv, Core, KeyKnown, TypeOK, Computation, Hit, Live, NewCall
  <1>4. ASSUME NEW c \in Callers, NEW k \in Keys, Join(c, k)
        PROVE  KeyKnown'
    BY <1>4 DEF IInv, Core, KeyKnown, TypeOK, Computation, Join, Miss,
            InFlight, Joinable, NewCall
  <1>5. ASSUME NEW c \in Callers, NEW k \in Keys, NEW i \in Computations, Lead(c, k, i)
        PROVE  KeyKnown'
    BY <1>5 DEF IInv, Core, KeyKnown, TypeOK, Computation, Lead, Miss,
            InFlight, Joinable, NewCall, Unused
  <1>6. ASSUME NEW c \in Callers, RequestCancel(c)
        PROVE  KeyKnown'
    BY <1>6 DEF IInv, Core, KeyKnown, TypeOK, Computation, RequestCancel
  <1>7. ASSUME NEW c \in Callers, LeaderReturn(c)
        PROVE  KeyKnown'
    BY <1>7 DEF IInv, Core, KeyKnown, TypeOK, Computation, LeaderReturn,
            Answered, ValueOf
  <1>8. ASSUME NEW c \in Callers, FollowerReturn(c)
        PROVE  KeyKnown'
    BY <1>8 DEF IInv, Core, KeyKnown, TypeOK, Computation, FollowerReturn,
            Answered, ValueOf, Leave
  <1>9. ASSUME NEW c \in Callers, LeaderCancelled(c)
        PROVE  KeyKnown'
    <2>1. call[c].slot \in Computations
      BY <1>9 DEF IInv, Core, WaitingOnLive, IsWaiting, Waiting, LeaderCancelled
    <2>2. \A j \in Computations : /\ Abandon(call[c].slot)[j].key = comp[j].key
                                  /\ Abandon(call[c].slot)[j].finisher = comp[j].finisher
      BY <2>1 DEF IInv, TypeOK, Computation, Abandon
    <2> QED
      BY <2>2, <1>9 DEF LeaderCancelled, IInv, Core, KeyKnown
  <1>10. ASSUME NEW c \in Callers, FollowerCancelled(c)
         PROVE  KeyKnown'
    BY <1>10 DEF IInv, Core, KeyKnown, TypeOK, Computation, FollowerCancelled,
            Answered, Leave
  <1>11. ASSUME NEW i \in Computations, FinisherStart(i)
         PROVE  KeyKnown'
    BY <1>11 DEF IInv, Core, KeyKnown, TypeOK, Computation, FinisherStart
  <1>12. ASSUME NEW i \in Computations, Publish(i)
         PROVE  KeyKnown'
    BY <1>12 DEF IInv, Core, KeyKnown, TypeOK, Computation, Publish, Complete,
            Release
  <1>13. ASSUME NEW i \in Computations, NEW how \in {"error", "cancelled"}, ComputeRaises(i, how)
         PROVE  KeyKnown'
    BY <1>13 DEF IInv, Core, KeyKnown, TypeOK, Computation, ComputeRaises,
            FinisherFails, Complete, Release
  <1>14. ASSUME NEW i \in Computations, CancelledRunning(i)
         PROVE  KeyKnown'
    BY <1>14 DEF IInv, Core, KeyKnown, TypeOK, Computation, CancelledRunning,
            FinisherFails, Complete, Release
  <1>15. ASSUME NEW i \in Computations, CancelledUnstarted(i)
         PROVE  KeyKnown'
    BY <1>15 DEF IInv, Core, KeyKnown, TypeOK, Computation, CancelledUnstarted
  <1>16. ASSUME NEW i \in Computations, Settle(i)
         PROVE  KeyKnown'
    BY <1>16 DEF IInv, Core, KeyKnown, TypeOK, Computation, Settle, Complete,
            Release
  <1>17. CASE UNCHANGED vars
    BY <1>17 DEF IInv, Core, KeyKnown, TypeOK, Computation, vars
  <1> QED BY <1>1, <1>2, <1>3, <1>4, <1>5, <1>6, <1>7, <1>8, <1>9, <1>10,
            <1>11, <1>12, <1>13, <1>14, <1>15, <1>16, <1>17
       DEF Next, Ask, Finisher, WakeUp

\* The count stays exact where followers and counter stay as they are.
LEMMA CountsKept ==
    ASSUME CountsExact,
           \A i \in Computations :
               /\ Followers(i)' = Followers(i)
               /\ comp'[i].waitingFollowers = comp[i].waitingFollowers
    PROVE  CountsExact'
  BY DEF CountsExact

\* The follower count stays exact, however followers come and go.
LEMMA CountsStep ==
    ASSUME IInv, [Next]_vars
    PROVE  CountsExact'
  <1>1. CASE Tick
    <2>1. \A j \in Computations :
             /\ Followers(j)' = Followers(j)
             /\ comp'[j].waitingFollowers = comp[j].waitingFollowers
      BY <1>1 DEF IInv, TypeOK, Call, Ends, Computation, Followers, Tick
    <2> QED
      BY <2>1, CountsKept DEF IInv, Core
  <1>2. CASE Clear
    <2>1. \A j \in Computations :
             /\ Followers(j)' = Followers(j)
             /\ comp'[j].waitingFollowers = comp[j].waitingFollowers
      BY <1>2 DEF IInv, TypeOK, Call, Ends, Computation, Followers, Clear
    <2> QED
      BY <2>1, CountsKept DEF IInv, Core
  <1>3. ASSUME NEW c \in Callers, NEW k \in Keys, Hit(c, k)
        PROVE  CountsExact'
    <2>1. \A j \in Computations :
             /\ Followers(j)' = Followers(j)
             /\ comp'[j].waitingFollowers = comp[j].waitingFollowers
      BY <1>3 DEF IInv, TypeOK, Call, Ends, Computation, Followers, Hit, NewCall,
              IsWaiting, Waiting
    <2> QED
      BY <2>1, CountsKept DEF IInv, Core
  <1>4. ASSUME NEW c \in Callers, NEW k \in Keys, Join(c, k)
        PROVE  CountsExact'
    <2>1. PICK i \in Computations : i = inflight[k] /\ c \notin Followers(i)
      BY <1>4, CacheAssumption DEF Join, Miss, InFlight, IsWaiting, Waiting, Followers, IInv, TypeOK
    <2>2. Followers(i)' = Followers(i) \cup {c}
      BY <2>1, <1>4 DEF Join, NewCall, Followers, IInv, TypeOK, Call
    <2>3. \A j \in Computations : j # i => Followers(j)' = Followers(j)
      BY <2>1, <1>4 DEF Join, Miss, NewCall, Followers, IInv, TypeOK, Call, IsWaiting, Waiting
    <2>4. \A j \in Computations :
             comp'[j].waitingFollowers =
               IF j = i THEN comp[j].waitingFollowers + 1 ELSE comp[j].waitingFollowers
      BY <2>1, <1>4 DEF Join, IInv, TypeOK, Computation
    <2>5. /\ IsFiniteSet(Followers(i)')
          /\ comp'[i].waitingFollowers = Cardinality(Followers(i)')
      BY <2>1, <2>2, <2>4, FS_AddElement DEF IInv, Core, CountsExact
    <2>6. ASSUME NEW j \in Computations, j # i
          PROVE  /\ IsFiniteSet(Followers(j)')
                 /\ comp'[j].waitingFollowers = Cardinality(Followers(j)')
      BY <2>1, <2>3, <2>4, <2>6 DEF IInv, Core, CountsExact
    <2> QED
      BY <2>1, <2>5, <2>6 DEF CountsExact
  <1>5. ASSUME NEW c \in Callers, NEW k \in Keys, NEW i \in Computations, Lead(c, k, i)
        PROVE  CountsExact'
    <2>1. Followers(i) = {}
      BY <1>5 DEF Lead, Followers, IInv, Core, WaitingOnLive, IsWaiting, Waiting
    <2>2. \A j \in Computations : Followers(j)' = Followers(j)
      BY <1>5 DEF Lead, Miss, NewCall, Followers, IInv, TypeOK, Call, IsWaiting, Waiting
    <2>3. \A j \in Computations :
             comp'[j].waitingFollowers = IF j = i THEN 0 ELSE comp[j].waitingFollowers
      BY <1>5 DEF Lead, Unused, IInv, TypeOK
    <2> QED
      BY <2>1, <2>2, <2>3, FS_EmptySet DEF IInv, Core, CountsExact
  <1>6. ASSUME NEW c \in Callers, RequestCancel(c)
        PROVE  CountsExact'
    <2>1. \A j \in Computations :
             /\ Followers(j)' = Followers(j)
             /\ comp'[j].waitingFollowers = comp[j].waitingFollowers
      BY <1>6 DEF IInv, TypeOK, Call, Ends, Computation, Followers, RequestCancel
    <2> QED
      BY <2>1, CountsKept DEF IInv, Core
  <1>7. ASSUME NEW c \in Callers, LeaderReturn(c)
        PROVE  CountsExact'
    <2>1. \A j \in Computations :
             /\ Followers(j)' = Followers(j)
             /\ comp'[j].waitingFollowers = comp[j].waitingFollowers
      BY <1>7 DEF IInv, TypeOK, Call, Ends, Computation, Followers, LeaderReturn,
              Answered, ValueOf
    <2> QED
      BY <2>1, CountsKept DEF IInv, Core
  <1>8. ASSUME NEW c \in Callers, FollowerReturn(c)
        PROVE  CountsExact'
    <2>1. PICK i \in Computations : i = call[c].slot /\ c \in Followers(i)
      BY FollowerCounted, <1>8 DEF FollowerReturn, Followers
    <2>0. comp[i].future \in Ends
      BY <2>1, <1>8 DEF FollowerReturn, IInv, TypeOK, Computation
    <2>2. Followers(i)' = Followers(i) \ {c}
      BY <2>0, <2>1, <1>8 DEF FollowerReturn, Answered, Followers, IInv, TypeOK, Call, Ends
    <2>3. \A j \in Computations : j # i => Followers(j)' = Followers(j)
      BY <2>0, <2>1, <1>8 DEF FollowerReturn, Answered, Followers, IInv, TypeOK, Call, Ends
    <2>4. \A j \in Computations :
             comp'[j].waitingFollowers =
               IF j = i THEN comp[j].waitingFollowers - 1 ELSE comp[j].waitingFollowers
      BY <2>1, <1>8 DEF FollowerReturn, Leave, IInv, TypeOK, Computation
    <2>5. /\ IsFiniteSet(Followers(i)')
          /\ comp'[i].waitingFollowers = Cardinality(Followers(i)')
      BY <2>1, <2>2, <2>4, FS_RemoveElement, FS_CardinalityType DEF IInv, Core, CountsExact
    <2>6. ASSUME NEW j \in Computations, j # i
          PROVE  /\ IsFiniteSet(Followers(j)')
                 /\ comp'[j].waitingFollowers = Cardinality(Followers(j)')
      BY <2>3, <2>4, <2>6 DEF IInv, Core, CountsExact
    <2> QED
      BY <2>5, <2>6 DEF CountsExact
  <1>9. ASSUME NEW c \in Callers, LeaderCancelled(c)
        PROVE  CountsExact'
    <2>1. \A j \in Computations :
             /\ Followers(j)' = Followers(j)
             /\ comp'[j].waitingFollowers = comp[j].waitingFollowers
      <3>1. ASSUME NEW d \in Callers
            PROVE  d = c \/ call'[d] = call[d]
        BY <1>9 DEF LeaderCancelled, Answered, IInv, TypeOK
      <3>2. call[c].pc = "leader" /\ call'[c].pc = "cancelled"
        BY <1>9 DEF LeaderCancelled, Answered, IInv, TypeOK, Call
      <3>3. \A j \in Computations : Followers(j)' = Followers(j)
        BY <3>1, <3>2 DEF Followers
      <3>4. call[c].slot \in Computations
        BY <1>9 DEF IInv, Core, WaitingOnLive, IsWaiting, Waiting, LeaderCancelled
      <3>5. comp' = Abandon(call[c].slot) \/ comp' = comp
        BY <1>9 DEF LeaderCancelled
      <3> QED
        BY <3>3, <3>4, <3>5, AbandonKeeps DEF IInv
    <2> QED
      BY <2>1, CountsKept DEF IInv, Core
  <1>10. ASSUME NEW c \in Callers, FollowerCancelled(c)
         PROVE  CountsExact'
    <2>1. PICK i \in Computations : i = call[c].slot /\ c \in Followers(i)
      BY FollowerCounted, <1>10 DEF FollowerCancelled, Followers
    <2>2. Followers(i)' = Followers(i) \ {c}
      BY <2>1, <1>10 DEF FollowerCancelled, Answered, Followers, IInv, TypeOK, Call, Ends
    <2>3. \A j \in Computations : j # i => Followers(j)' = Followers(j)
      BY <2>1, <1>10 DEF FollowerCancelled, Answered, Followers, IInv, TypeOK, Call, Ends
    <2>4. \A j \in Computations :
             comp'[j].waitingFollowers =
               IF j = i THEN comp[j].waitingFollowers - 1 ELSE comp[j].waitingFollowers
      BY <2>1, <1>10 DEF FollowerCancelled, Leave, IInv, TypeOK, Computation
    <2>5. /\ IsFiniteSet(Followers(i)')
          /\ comp'[i].waitingFollowers = Cardinality(Followers(i)')
      BY <2>1, <2>2, <2>4, FS_RemoveElement, FS_CardinalityType DEF IInv, Core, CountsExact
    <2>6. ASSUME NEW j \in Computations, j # i
          PROVE  /\ IsFiniteSet(Followers(j)')
                 /\ comp'[j].waitingFollowers = Cardinality(Followers(j)')
      BY <2>3, <2>4, <2>6 DEF IInv, Core, CountsExact
    <2> QED
      BY <2>5, <2>6 DEF CountsExact
  <1>11. ASSUME NEW i \in Computations, FinisherStart(i)
         PROVE  CountsExact'
    <2>1. \A j \in Computations :
             /\ Followers(j)' = Followers(j)
             /\ comp'[j].waitingFollowers = comp[j].waitingFollowers
      BY <1>11 DEF IInv, TypeOK, Call, Ends, Computation, Followers, FinisherStart
    <2> QED
      BY <2>1, CountsKept DEF IInv, Core
  <1>12. ASSUME NEW i \in Computations, Publish(i)
         PROVE  CountsExact'
    <2>1. \A j \in Computations :
             /\ Followers(j)' = Followers(j)
             /\ comp'[j].waitingFollowers = comp[j].waitingFollowers
      BY <1>12 DEF IInv, TypeOK, Call, Ends, Computation, Followers, Publish,
              Complete, Release
    <2> QED
      BY <2>1, CountsKept DEF IInv, Core
  <1>13. ASSUME NEW i \in Computations, NEW how \in {"error", "cancelled"}, ComputeRaises(i, how)
         PROVE  CountsExact'
    <2>1. \A j \in Computations :
             /\ Followers(j)' = Followers(j)
             /\ comp'[j].waitingFollowers = comp[j].waitingFollowers
      BY <1>13 DEF IInv, TypeOK, Call, Ends, Computation, Followers,
              ComputeRaises, FinisherFails, Complete, Release
    <2> QED
      BY <2>1, CountsKept DEF IInv, Core
  <1>14. ASSUME NEW i \in Computations, CancelledRunning(i)
         PROVE  CountsExact'
    <2>1. \A j \in Computations :
             /\ Followers(j)' = Followers(j)
             /\ comp'[j].waitingFollowers = comp[j].waitingFollowers
      BY <1>14 DEF IInv, TypeOK, Call, Ends, Computation, Followers,
              CancelledRunning, FinisherFails, Complete, Release
    <2> QED
      BY <2>1, CountsKept DEF IInv, Core
  <1>15. ASSUME NEW i \in Computations, CancelledUnstarted(i)
         PROVE  CountsExact'
    <2>1. \A j \in Computations :
             /\ Followers(j)' = Followers(j)
             /\ comp'[j].waitingFollowers = comp[j].waitingFollowers
      BY <1>15 DEF IInv, TypeOK, Call, Ends, Computation, Followers,
              CancelledUnstarted
    <2> QED
      BY <2>1, CountsKept DEF IInv, Core
  <1>16. ASSUME NEW i \in Computations, Settle(i)
         PROVE  CountsExact'
    <2>1. \A j \in Computations :
             /\ Followers(j)' = Followers(j)
             /\ comp'[j].waitingFollowers = comp[j].waitingFollowers
      BY <1>16 DEF IInv, TypeOK, Call, Ends, Computation, Followers, Settle,
              Complete, Release
    <2> QED
      BY <2>1, CountsKept DEF IInv, Core
  <1>17. CASE UNCHANGED vars
    BY <1>17 DEF IInv, Core, CountsExact, Followers, Done, vars
  <1> QED BY <1>1, <1>2, <1>3, <1>4, <1>5, <1>6, <1>7, <1>8, <1>9, <1>10,
            <1>11, <1>12, <1>13, <1>14, <1>15, <1>16, <1>17
       DEF Next, Ask, Finisher, WakeUp

\* Every step preserves the inductive invariant.
LEMMA StepInv == IInv /\ [Next]_vars => IInv'
  <1> SUFFICES ASSUME IInv, [Next]_vars PROVE IInv'
    OBVIOUS
  <1>1. TypeOK'
    BY CompTypeStep, CallTypeStep, StoreTypeStep DEF TypeOK, Stores
  <1>2. Core'
    BY KeyStep, CountsStep, WaitingStep, LifecycleStep DEF Core
  <1> QED
    BY <1>1, <1>2, SlotStep, ForeignStep DEF IInv

\* The inductive invariant holds throughout (get_or_compute, the finisher and
\* clear(), cache.py:124-310).
THEOREM Invariance == Spec => []IInv
  <1>1. Init => IInv
    BY InitInv
  <1>2. IInv /\ [Next]_vars => IInv'
    BY StepInv
  <1> QED
    BY <1>1, <1>2, PTL DEF Spec

\* Every reachable state has the declared types; in particular the count of
\* waiting followers is never decremented below zero.
THEOREM TypeCorrect == Spec => []TypeOK
  <1>1. IInv => TypeOK
    BY DEF IInv
  <1> QED
    BY <1>1, Invariance, PTL

\* Nobody sees a CancelledError that is not his own or the backend's
\* (cache.py:124-213), for any number of callers, keys and computations.
THEOREM CancellationIsPrivate == Spec => []NoForeignCancellation
  <1>1. IInv => NoForeignCancellation
    BY DEF IInv
  <1> QED
    BY <1>1, Invariance, PTL

\* The leader's handler (cache.py:194-213) cancels only work that nobody
\* waits for.
THEOREM WantedWorkSurvives == Spec => []OnlyUnwantedCancelled
  <1>1. IInv => OnlyUnwantedCancelled
    BY DEF IInv, Core, WaitingOnLive, OnlyUnwantedCancelled
  <1> QED
    BY <1>1, Invariance, PTL

\* A registered slot can always still answer, so no key is ever unservable.
THEOREM SlotsStayServable == Spec => []NoPoisonedSlot
  <1>1. IInv => NoPoisonedSlot
    BY DEF IInv
  <1> QED
    BY <1>1, Invariance, PTL
-----------------------------------------------------------------------------
(* What QueryCache stores and answers: one wanted computation per key,     *)
(* answers that match and are fresh, and the bounded LRU store.            *)

\* The wanted computation of the current epoch is the one registered.
Flight ==
    /\ \A i \in Computations : comp[i].finisher # "none" => comp[i].born <= epoch
    /\ \A i \in Computations :
        Wanted(i) /\ comp[i].born = epoch => inflight[comp[i].key] = i
    /\ SingleFlight

ExpiryExact ==
    \A k \in Keys :
        entries[k].val # None => entries[k].expires = Expiry(entries[k].val)

AskedBefore == \A c \in Callers : call[c].at <= now

\* The value a caller waits for is published after its call.
JoinedBefore ==
    \A c \in Callers :
        IsWaiting(c) /\ comp[call[c].slot].finisher = "ok"
        => comp[call[c].slot].ended >= call[c].at

\* What a step never changes about a computation.
Lasting ==
    \A i \in Computations :
        /\ comp[i].finisher # "none" => /\ comp'[i].finisher # "none"
                                        /\ comp'[i].key = comp[i].key
                                        /\ comp'[i].start = comp[i].start
        /\ comp[i].finisher = "ok" => /\ comp'[i].finisher = "ok"
                                      /\ comp'[i].ended = comp[i].ended

\* The leader's handler touches nothing of a computation but its abandonment.
LEMMA HandlerKeeps ==
    ASSUME IInv, NEW c \in Callers, LeaderCancelled(c), NEW j \in Computations
    PROVE  /\ comp'[j].key = comp[j].key
           /\ comp'[j].start = comp[j].start
           /\ comp'[j].born = comp[j].born
           /\ comp'[j].ended = comp[j].ended
           /\ comp'[j].finisher = comp[j].finisher
           /\ Wanted(j)' => Wanted(j) /\ (inflight[comp[j].key] = j =>
                                          inflight'[comp[j].key] = j)
  <1>1. call[c].slot \in Computations
    BY DEF IInv, Core, WaitingOnLive, IsWaiting, Waiting, LeaderCancelled
  <1>2. CASE Unwanted(call[c].slot)
    <2>1. comp' = Abandon(call[c].slot) /\ inflight' = Release(call[c].slot)
      BY <1>2 DEF LeaderCancelled
    <2>2. /\ comp'[j].key = comp[j].key
          /\ comp'[j].start = comp[j].start
          /\ comp'[j].born = comp[j].born
          /\ comp'[j].ended = comp[j].ended
          /\ comp'[j].finisher = comp[j].finisher
      BY <2>1 DEF Abandon
    <2>3. CASE j = call[c].slot
      <3>1. comp'[j].cancelling
        BY <2>1, <2>3 DEF Abandon, IInv, TypeOK
      <3> QED
        BY <2>2, <3>1 DEF Wanted
    <2>4. CASE j # call[c].slot
      <3>1. comp'[j] = comp[j]
        BY <2>1, <2>4 DEF Abandon
      <3>2. Wanted(j) => comp[j].key \in Keys
        BY DEF Wanted, IInv, Core, KeyKnown
      <3> QED
        BY <2>1, <2>4, <3>1, <3>2 DEF Wanted, Release
    <2> QED
      BY <2>3, <2>4
  <1>3. CASE ~Unwanted(call[c].slot)
    BY <1>3 DEF LeaderCancelled, Wanted
  <1> QED
    BY <1>2, <1>3

\* The store's invariants hold of the empty cache.
LEMMA InitStore == Init => /\ Flight /\ AnswersMatch /\ ExpiryExact
                           /\ AskedBefore /\ JoinedBefore /\ FreshAnswer
  BY DEF Init, Flight, SingleFlight, Wanted, Unused, AnswersMatch,
         ExpiryExact, AskedBefore, JoinedBefore, FreshAnswer, NoEntry, NoCall,
         Cached, KeysOf, IsWaiting, Waiting


\* One wanted computation per key and epoch, registered while it is current.
LEMMA FlightStep ==
    ASSUME IInv, Flight, [Next]_vars
    PROVE  Flight'
  <1>1. CASE Tick
    BY <1>1 DEF Flight, SingleFlight, Wanted, Tick
  <1>2. CASE Clear
    BY <1>2 DEF IInv, Flight, SingleFlight, Wanted, TypeOK, Computation, Clear
  <1>3. ASSUME NEW c \in Callers, NEW k \in Keys, Hit(c, k)
        PROVE  Flight'
    BY <1>3 DEF Flight, SingleFlight, Wanted, Hit
  <1>4. ASSUME NEW c \in Callers, NEW k \in Keys, Join(c, k)
        PROVE  Flight'
    BY <1>4 DEF Flight, SingleFlight, Wanted, Join
  <1>5. ASSUME NEW c \in Callers, NEW k \in Keys, NEW i \in Computations, Lead(c, k, i)
        PROVE  Flight'
    BY <1>5, CacheAssumption
       DEF IInv, NoPoisonedSlot, Flight, SingleFlight, Wanted, TypeOK, Lead,
           InFlight
  <1>6. ASSUME NEW c \in Callers, RequestCancel(c)
        PROVE  Flight'
    BY <1>6 DEF Flight, SingleFlight, Wanted, RequestCancel
  <1>7. ASSUME NEW c \in Callers, LeaderReturn(c)
        PROVE  Flight'
    BY <1>7 DEF Flight, SingleFlight, Wanted, LeaderReturn
  <1>8. ASSUME NEW c \in Callers, FollowerReturn(c)
        PROVE  Flight'
    BY <1>8 DEF Flight, SingleFlight, Wanted, FollowerReturn, Answered, Leave
  <1>9. ASSUME NEW c \in Callers, LeaderCancelled(c)
        PROVE  Flight'
    <2>1. UNCHANGED epoch
      BY <1>9 DEF LeaderCancelled
    <2> QED
      BY <2>1, HandlerKeeps, <1>9 DEF Flight, SingleFlight
  <1>10. ASSUME NEW c \in Callers, FollowerCancelled(c)
         PROVE  Flight'
    BY <1>10 DEF Flight, SingleFlight, Wanted, FollowerCancelled, Leave
  <1>11. ASSUME NEW i \in Computations, FinisherStart(i)
         PROVE  Flight'
    BY <1>11 DEF Flight, SingleFlight, Wanted, FinisherStart
  <1>12. ASSUME NEW i \in Computations, Publish(i)
         PROVE  Flight'
    BY <1>12
       DEF IInv, Core, KeyKnown, Flight, SingleFlight, Wanted, TypeOK,
           Publish, Release
  <1>13. ASSUME NEW i \in Computations, NEW how \in {"error", "cancelled"}, ComputeRaises(i, how)
         PROVE  Flight'
    BY <1>13
       DEF IInv, Core, KeyKnown, Flight, SingleFlight, Wanted, TypeOK,
           ComputeRaises, FinisherFails, Release
  <1>14. ASSUME NEW i \in Computations, CancelledRunning(i)
         PROVE  Flight'
    BY <1>14
       DEF IInv, Core, KeyKnown, Flight, SingleFlight, Wanted,
           CancelledRunning, FinisherFails, Release
  <1>15. ASSUME NEW i \in Computations, CancelledUnstarted(i)
         PROVE  Flight'
    BY <1>15 DEF Flight, SingleFlight, Wanted, CancelledUnstarted
  <1>16. ASSUME NEW i \in Computations, Settle(i)
         PROVE  Flight'
    BY <1>16
       DEF IInv, Core, KeyKnown, Lifecycle, NoPoisonedSlot, Flight,
           SingleFlight, Wanted, Settle, Release
  <1>17. CASE UNCHANGED vars
    BY <1>17 DEF Flight, SingleFlight, Wanted, vars
  <1> QED BY <1>1, <1>2, <1>3, <1>4, <1>5, <1>6, <1>7, <1>8, <1>9, <1>10,
     <1>11, <1>12, <1>13, <1>14, <1>15, <1>16, <1>17
     DEF Next, Ask, Finisher, WakeUp

\* Answers and stored values stay results of the right key.
LEMMA MatchStep ==
    ASSUME IInv, AnswersMatch, [Next]_vars
    PROVE  AnswersMatch'
  <1>1. CASE Tick
    BY <1>1 DEF AnswersMatch, Cached, Tick
  <1>2. CASE Clear
    BY <1>2 DEF AnswersMatch, Cached, KeysOf, NoEntry, Clear
  <1>3. ASSUME NEW c \in Callers, NEW k \in Keys, Hit(c, k)
        PROVE  AnswersMatch'
    BY <1>3
       DEF AnswersMatch, Cached, KeysOf, NoEntry, Hit, Live, NewCall, Swept
  <1>4. ASSUME NEW c \in Callers, NEW k \in Keys, Join(c, k)
        PROVE  AnswersMatch'
    BY <1>4
       DEF AnswersMatch, Cached, KeysOf, NoEntry, Join, Miss, NewCall, Swept
  <1>5. ASSUME NEW c \in Callers, NEW k \in Keys, NEW i \in Computations, Lead(c, k, i)
        PROVE  AnswersMatch'
    BY <1>5
       DEF AnswersMatch, Cached, KeysOf, NoEntry, Lead, Miss, NewCall, Swept
  <1>6. ASSUME NEW c \in Callers, RequestCancel(c)
        PROVE  AnswersMatch'
    BY <1>6 DEF AnswersMatch, Cached, RequestCancel
  <1>7. ASSUME NEW c \in Callers, LeaderReturn(c)
        PROVE  AnswersMatch'
    BY <1>7, CacheAssumption
       DEF IInv, Core, WaitingOnLive, AnswersMatch, Cached, IsWaiting,
           Waiting, LeaderReturn, Answered, ValueOf
  <1>8. ASSUME NEW c \in Callers, FollowerReturn(c)
        PROVE  AnswersMatch'
    BY <1>8, CacheAssumption
       DEF IInv, Core, Lifecycle, WaitingOnLive, AnswersMatch, Cached,
           IsWaiting, Waiting, TypeOK, Entry, FollowerReturn, Answered,
           ValueOf, Leave
  <1>9. ASSUME NEW c \in Callers, LeaderCancelled(c)
        PROVE  AnswersMatch'
    BY <1>9, CacheAssumption
       DEF IInv, Lifecycle, WaitingOnLive, AnswersMatch, Cached, KeysOf,
           Waiting, Done, TypeOK, Entry, Call, Ends, LeaderCancelled,
           Answered, Unwanted, Abandon, Release
  <1>10. ASSUME NEW c \in Callers, FollowerCancelled(c)
         PROVE  AnswersMatch'
    BY <1>10 DEF AnswersMatch, Cached, FollowerCancelled, Answered, Leave
  <1>11. ASSUME NEW i \in Computations, FinisherStart(i)
         PROVE  AnswersMatch'
    BY <1>11 DEF AnswersMatch, Cached, FinisherStart
  <1>12. ASSUME NEW i \in Computations, Publish(i)
         PROVE  AnswersMatch'
    BY <1>12 DEF IInv, AnswersMatch, Cached, KeysOf, TypeOK, NoEntry, Publish
  <1>13. ASSUME NEW i \in Computations, NEW how \in {"error", "cancelled"}, ComputeRaises(i, how)
         PROVE  AnswersMatch'
    BY <1>13 DEF AnswersMatch, Cached, ComputeRaises, FinisherFails
  <1>14. ASSUME NEW i \in Computations, CancelledRunning(i)
         PROVE  AnswersMatch'
    BY <1>14 DEF AnswersMatch, Cached, CancelledRunning, FinisherFails
  <1>15. ASSUME NEW i \in Computations, CancelledUnstarted(i)
         PROVE  AnswersMatch'
    BY <1>15 DEF AnswersMatch, Cached, CancelledUnstarted
  <1>16. ASSUME NEW i \in Computations, Settle(i)
         PROVE  AnswersMatch'
    BY <1>16 DEF AnswersMatch, Cached, Settle
  <1>17. CASE UNCHANGED vars
    BY <1>17 DEF AnswersMatch, Cached, vars
  <1> QED BY <1>1, <1>2, <1>3, <1>4, <1>5, <1>6, <1>7, <1>8, <1>9, <1>10,
     <1>11, <1>12, <1>13, <1>14, <1>15, <1>16, <1>17
     DEF Next, Ask, Finisher, WakeUp

\* A started computation keeps its key and start, a result its end.
LEMMA LastingStep ==
    ASSUME IInv, [Next]_vars
    PROVE  Lasting
  <1>1. CASE Tick
    BY <1>1 DEF Lasting, Tick
  <1>2. CASE Clear
    BY <1>2 DEF Lasting, Clear
  <1>3. ASSUME NEW c \in Callers, NEW k \in Keys, Hit(c, k)
        PROVE  Lasting
    BY <1>3 DEF Lasting, Hit
  <1>4. ASSUME NEW c \in Callers, NEW k \in Keys, Join(c, k)
        PROVE  Lasting
    BY <1>4 DEF Lasting, Join
  <1>5. ASSUME NEW c \in Callers, NEW k \in Keys, NEW i \in Computations, Lead(c, k, i)
        PROVE  Lasting
    BY <1>5 DEF Lasting, Lead
  <1>6. ASSUME NEW c \in Callers, RequestCancel(c)
        PROVE  Lasting
    BY <1>6 DEF Lasting, RequestCancel
  <1>7. ASSUME NEW c \in Callers, LeaderReturn(c)
        PROVE  Lasting
    BY <1>7 DEF Lasting, LeaderReturn
  <1>8. ASSUME NEW c \in Callers, FollowerReturn(c)
        PROVE  Lasting
    BY <1>8 DEF Lasting, FollowerReturn, Leave
  <1>9. ASSUME NEW c \in Callers, LeaderCancelled(c)
        PROVE  Lasting
    BY HandlerKeeps, <1>9 DEF Lasting
  <1>10. ASSUME NEW c \in Callers, FollowerCancelled(c)
         PROVE  Lasting
    BY <1>10 DEF Lasting, FollowerCancelled, Leave
  <1>11. ASSUME NEW i \in Computations, FinisherStart(i)
         PROVE  Lasting
    BY <1>11 DEF Lasting, FinisherStart
  <1>12. ASSUME NEW i \in Computations, Publish(i)
         PROVE  Lasting
    BY <1>12 DEF Lasting, Publish
  <1>13. ASSUME NEW i \in Computations, NEW how \in {"error", "cancelled"}, ComputeRaises(i, how)
         PROVE  Lasting
    BY <1>13 DEF Lasting, ComputeRaises, FinisherFails
  <1>14. ASSUME NEW i \in Computations, CancelledRunning(i)
         PROVE  Lasting
    BY <1>14 DEF Lasting, CancelledRunning, FinisherFails
  <1>15. ASSUME NEW i \in Computations, CancelledUnstarted(i)
         PROVE  Lasting
    BY <1>15 DEF Lasting, CancelledUnstarted
  <1>16. ASSUME NEW i \in Computations, Settle(i)
         PROVE  Lasting
    BY <1>16 DEF Lasting, Settle
  <1>17. CASE UNCHANGED vars
    BY <1>17 DEF Lasting, vars
  <1> QED BY <1>1, <1>2, <1>3, <1>4, <1>5, <1>6, <1>7, <1>8, <1>9, <1>10,
     <1>11, <1>12, <1>13, <1>14, <1>15, <1>16, <1>17
     DEF Next, Ask, Finisher, WakeUp

\* Every stored value keeps the expiry its start gives it.
LEMMA ExpiryStep ==
    ASSUME IInv, AnswersMatch, ExpiryExact, [Next]_vars
    PROVE  ExpiryExact'
  <1>1. CASE Tick
    BY <1>1 DEF ExpiryExact, Expiry, Tick
  <1>2. CASE Clear
    BY <1>2 DEF NoEntry, ExpiryExact, Clear
  <1>3. ASSUME NEW c \in Callers, NEW k \in Keys, Hit(c, k)
        PROVE  ExpiryExact'
    BY <1>3 DEF NoEntry, ExpiryExact, Expiry, Hit, Swept
  <1>4. ASSUME NEW c \in Callers, NEW k \in Keys, Join(c, k)
        PROVE  ExpiryExact'
    BY <1>4 DEF NoEntry, ExpiryExact, Expiry, Join, Miss, Swept
  <1>5. ASSUME NEW c \in Callers, NEW k \in Keys, NEW i \in Computations, Lead(c, k, i)
        PROVE  ExpiryExact'
    BY <1>5
       DEF NoEntry, AnswersMatch, Cached, KeysOf, ExpiryExact, Expiry, Lead,
           Miss, Swept
  <1>6. ASSUME NEW c \in Callers, RequestCancel(c)
        PROVE  ExpiryExact'
    BY <1>6 DEF ExpiryExact, Expiry, RequestCancel
  <1>7. ASSUME NEW c \in Callers, LeaderReturn(c)
        PROVE  ExpiryExact'
    BY <1>7 DEF ExpiryExact, Expiry, LeaderReturn
  <1>8. ASSUME NEW c \in Callers, FollowerReturn(c)
        PROVE  ExpiryExact'
    BY <1>8, LastingStep
       DEF IInv, TypeOK, Entry, AnswersMatch, Cached, KeysOf, Lasting,
           ExpiryExact, Expiry, FollowerReturn
  <1>9. ASSUME NEW c \in Callers, LeaderCancelled(c)
        PROVE  ExpiryExact'
    BY <1>9, LastingStep
       DEF IInv, TypeOK, Entry, AnswersMatch, Cached, KeysOf, Lasting,
           ExpiryExact, Expiry, LeaderCancelled
  <1>10. ASSUME NEW c \in Callers, FollowerCancelled(c)
         PROVE  ExpiryExact'
    BY <1>10, LastingStep
       DEF IInv, TypeOK, Entry, AnswersMatch, Cached, KeysOf, Lasting,
           ExpiryExact, Expiry, FollowerCancelled
  <1>11. ASSUME NEW i \in Computations, FinisherStart(i)
         PROVE  ExpiryExact'
    BY <1>11 DEF ExpiryExact, Expiry, FinisherStart
  <1>12. ASSUME NEW i \in Computations, Publish(i)
         PROVE  ExpiryExact'
    BY <1>12 DEF NoEntry, ExpiryExact, Expiry, Publish
  <1>13. ASSUME NEW i \in Computations, NEW how \in {"error", "cancelled"}, ComputeRaises(i, how)
         PROVE  ExpiryExact'
    BY <1>13 DEF ExpiryExact, Expiry, ComputeRaises, FinisherFails
  <1>14. ASSUME NEW i \in Computations, CancelledRunning(i)
         PROVE  ExpiryExact'
    BY <1>14 DEF ExpiryExact, Expiry, CancelledRunning, FinisherFails
  <1>15. ASSUME NEW i \in Computations, CancelledUnstarted(i)
         PROVE  ExpiryExact'
    BY <1>15 DEF ExpiryExact, Expiry, CancelledUnstarted
  <1>16. ASSUME NEW i \in Computations, Settle(i)
         PROVE  ExpiryExact'
    BY <1>16 DEF ExpiryExact, Expiry, Settle
  <1>17. CASE UNCHANGED vars
    BY <1>17 DEF ExpiryExact, Expiry, vars
  <1> QED BY <1>1, <1>2, <1>3, <1>4, <1>5, <1>6, <1>7, <1>8, <1>9, <1>10,
     <1>11, <1>12, <1>13, <1>14, <1>15, <1>16, <1>17
     DEF Next, Ask, Finisher, WakeUp

\* Calls are made in the past.
LEMMA AskedStep ==
    ASSUME IInv, AskedBefore, [Next]_vars
    PROVE  AskedBefore'
  <1>1. CASE Tick
    BY <1>1 DEF IInv, TypeOK, Call, AskedBefore, Tick
  <1>2. CASE Clear
    BY <1>2 DEF AskedBefore, Clear
  <1>3. ASSUME NEW c \in Callers, NEW k \in Keys, Hit(c, k)
        PROVE  AskedBefore'
    BY <1>3 DEF IInv, TypeOK, AskedBefore, Hit, NewCall
  <1>4. ASSUME NEW c \in Callers, NEW k \in Keys, Join(c, k)
        PROVE  AskedBefore'
    BY <1>4 DEF IInv, TypeOK, AskedBefore, Join, NewCall
  <1>5. ASSUME NEW c \in Callers, NEW k \in Keys, NEW i \in Computations, Lead(c, k, i)
        PROVE  AskedBefore'
    BY <1>5 DEF IInv, TypeOK, AskedBefore, Lead, NewCall
  <1>6. ASSUME NEW c \in Callers, RequestCancel(c)
        PROVE  AskedBefore'
    BY <1>6 DEF AskedBefore, RequestCancel
  <1>7. ASSUME NEW c \in Callers, LeaderReturn(c)
        PROVE  AskedBefore'
    BY <1>7 DEF AskedBefore, LeaderReturn, Answered
  <1>8. ASSUME NEW c \in Callers, FollowerReturn(c)
        PROVE  AskedBefore'
    BY <1>8 DEF AskedBefore, FollowerReturn, Answered
  <1>9. ASSUME NEW c \in Callers, LeaderCancelled(c)
        PROVE  AskedBefore'
    BY <1>9 DEF AskedBefore, LeaderCancelled, Answered
  <1>10. ASSUME NEW c \in Callers, FollowerCancelled(c)
         PROVE  AskedBefore'
    BY <1>10 DEF AskedBefore, FollowerCancelled, Answered
  <1>11. ASSUME NEW i \in Computations, FinisherStart(i)
         PROVE  AskedBefore'
    BY <1>11 DEF AskedBefore, FinisherStart
  <1>12. ASSUME NEW i \in Computations, Publish(i)
         PROVE  AskedBefore'
    BY <1>12 DEF AskedBefore, Publish
  <1>13. ASSUME NEW i \in Computations, NEW how \in {"error", "cancelled"}, ComputeRaises(i, how)
         PROVE  AskedBefore'
    BY <1>13 DEF AskedBefore, ComputeRaises, FinisherFails
  <1>14. ASSUME NEW i \in Computations, CancelledRunning(i)
         PROVE  AskedBefore'
    BY <1>14 DEF AskedBefore, CancelledRunning, FinisherFails
  <1>15. ASSUME NEW i \in Computations, CancelledUnstarted(i)
         PROVE  AskedBefore'
    BY <1>15 DEF AskedBefore, CancelledUnstarted
  <1>16. ASSUME NEW i \in Computations, Settle(i)
         PROVE  AskedBefore'
    BY <1>16 DEF AskedBefore, Settle
  <1>17. CASE UNCHANGED vars
    BY <1>17 DEF AskedBefore, vars
  <1> QED BY <1>1, <1>2, <1>3, <1>4, <1>5, <1>6, <1>7, <1>8, <1>9, <1>10,
     <1>11, <1>12, <1>13, <1>14, <1>15, <1>16, <1>17
     DEF Next, Ask, Finisher, WakeUp

\* A value that arrives while a caller waits ended after the call.
LEMMA JoinedStep ==
    ASSUME IInv, AskedBefore, JoinedBefore, [Next]_vars
    PROVE  JoinedBefore'
  <1>1. CASE Tick
    BY <1>1 DEF IsWaiting, JoinedBefore, Tick
  <1>2. CASE Clear
    BY <1>2 DEF IsWaiting, JoinedBefore, Clear
  <1>3. ASSUME NEW c \in Callers, NEW k \in Keys, Hit(c, k)
        PROVE  JoinedBefore'
    BY <1>3 DEF IsWaiting, Waiting, JoinedBefore, Hit, NewCall
  <1>4. ASSUME NEW c \in Callers, NEW k \in Keys, Join(c, k)
        PROVE  JoinedBefore'
    BY <1>4
       DEF IInv, IsWaiting, JoinedBefore, Join, InFlight, NewCall,
           NoPoisonedSlot
  <1>5. ASSUME NEW c \in Callers, NEW k \in Keys, NEW i \in Computations, Lead(c, k, i)
        PROVE  JoinedBefore'
    BY <1>5 DEF IsWaiting, JoinedBefore, Lead, NewCall
  <1>6. ASSUME NEW c \in Callers, RequestCancel(c)
        PROVE  JoinedBefore'
    BY <1>6 DEF IsWaiting, JoinedBefore, RequestCancel
  <1>7. ASSUME NEW c \in Callers, LeaderReturn(c)
        PROVE  JoinedBefore'
    BY <1>7
       DEF IInv, TypeOK, Call, Ends, IsWaiting, JoinedBefore, LeaderReturn,
           Answered
  <1>8. ASSUME NEW c \in Callers, FollowerReturn(c)
        PROVE  JoinedBefore'
    BY <1>8
       DEF IInv, TypeOK, Call, Ends, IsWaiting, JoinedBefore, FollowerReturn,
           Answered, Leave
  <1>9. ASSUME NEW c \in Callers, LeaderCancelled(c)
        PROVE  JoinedBefore'
    <2>1. \A d \in Callers : d # c => call'[d] = call[d]
      BY <1>9 DEF LeaderCancelled, Answered
    <2>2. ~IsWaiting(c)'
      BY <1>9 DEF LeaderCancelled, Answered, IInv, TypeOK, IsWaiting, Waiting
    <2> QED
      BY <2>1, <2>2, HandlerKeeps, <1>9
         DEF JoinedBefore, IInv, Core, WaitingOnLive, IsWaiting
  <1>10. ASSUME NEW c \in Callers, FollowerCancelled(c)
         PROVE  JoinedBefore'
    BY <1>10
       DEF IInv, TypeOK, Call, Ends, IsWaiting, JoinedBefore,
           FollowerCancelled, Answered, Leave
  <1>11. ASSUME NEW i \in Computations, FinisherStart(i)
         PROVE  JoinedBefore'
    BY <1>11 DEF IsWaiting, JoinedBefore, FinisherStart
  <1>12. ASSUME NEW i \in Computations, Publish(i)
         PROVE  JoinedBefore'
    BY <1>12 DEF IsWaiting, AskedBefore, JoinedBefore, Publish
  <1>13. ASSUME NEW i \in Computations, NEW how \in {"error", "cancelled"}, ComputeRaises(i, how)
         PROVE  JoinedBefore'
    BY <1>13 DEF IsWaiting, JoinedBefore, ComputeRaises, FinisherFails
  <1>14. ASSUME NEW i \in Computations, CancelledRunning(i)
         PROVE  JoinedBefore'
    BY <1>14 DEF IsWaiting, JoinedBefore, CancelledRunning, FinisherFails
  <1>15. ASSUME NEW i \in Computations, CancelledUnstarted(i)
         PROVE  JoinedBefore'
    BY <1>15 DEF IsWaiting, JoinedBefore, CancelledUnstarted
  <1>16. ASSUME NEW i \in Computations, Settle(i)
         PROVE  JoinedBefore'
    BY <1>16 DEF IsWaiting, JoinedBefore, Settle
  <1>17. CASE UNCHANGED vars
    BY <1>17 DEF IsWaiting, JoinedBefore, vars
  <1> QED BY <1>1, <1>2, <1>3, <1>4, <1>5, <1>6, <1>7, <1>8, <1>9, <1>10,
     <1>11, <1>12, <1>13, <1>14, <1>15, <1>16, <1>17
     DEF Next, Ask, Finisher, WakeUp

\* Answers stay fresh: those already given do not change.
LEMMA FreshStep ==
    ASSUME IInv, AnswersMatch, ExpiryExact, JoinedBefore, FreshAnswer, [Next]_vars
    PROVE  FreshAnswer'
  <1>1. CASE Tick
    BY <1>1 DEF FreshAnswer, Tick
  <1>2. CASE Clear
    BY <1>2 DEF FreshAnswer, Clear
  <1>3. ASSUME NEW c \in Callers, NEW k \in Keys, Hit(c, k)
        PROVE  FreshAnswer'
    BY <1>3
       DEF Ends, Done, FreshAnswer, Hit, Live, NewCall, ExpiryExact, Expiry,
           Live
  <1>4. ASSUME NEW c \in Callers, NEW k \in Keys, Join(c, k)
        PROVE  FreshAnswer'
    BY <1>4 DEF Ends, Lasting, Done, FreshAnswer, Join, Joinable, NewCall
  <1>5. ASSUME NEW c \in Callers, NEW k \in Keys, NEW i \in Computations, Lead(c, k, i)
        PROVE  FreshAnswer'
    BY <1>5
       DEF AnswersMatch, IsWaiting, Waiting, FreshAnswer, Lead, InFlight,
           Joinable, NewCall
  <1>6. ASSUME NEW c \in Callers, RequestCancel(c)
        PROVE  FreshAnswer'
    BY <1>6 DEF Lasting, FreshAnswer, RequestCancel
  <1>7. ASSUME NEW c \in Callers, LeaderReturn(c)
        PROVE  FreshAnswer'
    BY <1>7
       DEF IInv, TypeOK, Call, Ends, Lasting, IsWaiting, JoinedBefore,
           FreshAnswer, LeaderReturn, Answered, ValueOf
  <1>8. ASSUME NEW c \in Callers, FollowerReturn(c)
        PROVE  FreshAnswer'
    <2> DEFINE i == call[c].slot
    <2>1. /\ i \in Computations
          /\ comp[i].future = comp[i].finisher
      BY <1>8
         DEF FollowerReturn, IInv, Core, WaitingOnLive, Lifecycle, IsWaiting,
             Waiting
    <2>2. comp[i].finisher = "ok" => comp[i].ended >= call[c].at
      BY <1>8 DEF FollowerReturn, JoinedBefore, IsWaiting, Waiting
    <2>3. /\ call'[c].pc = comp[i].finisher
          /\ call'[c].at = call[c].at
          /\ comp[i].finisher = "ok" => call'[c].val = i
          /\ \A d \in Callers : d # c => call'[d] = call[d]
      BY <2>1, <1>8 DEF FollowerReturn, Answered, ValueOf, IInv, TypeOK
    <2> QED
      BY <2>1, <2>2, <2>3, LastingStep
         DEF FreshAnswer, Lasting, AnswersMatch, IInv, TypeOK, Call
  <1>9. ASSUME NEW c \in Callers, LeaderCancelled(c)
        PROVE  FreshAnswer'
    BY <1>9, LastingStep
       DEF IInv, AnswersMatch, TypeOK, Call, Ends, Lasting, FreshAnswer,
           LeaderCancelled, Answered, Release
  <1>10. ASSUME NEW c \in Callers, FollowerCancelled(c)
         PROVE  FreshAnswer'
    BY <1>10, LastingStep
       DEF IInv, AnswersMatch, TypeOK, Call, Lasting, IsWaiting, FreshAnswer,
           FollowerCancelled, Answered
  <1>11. ASSUME NEW i \in Computations, FinisherStart(i)
         PROVE  FreshAnswer'
    BY <1>11 DEF FinisherStart, FreshAnswer
  <1>12. ASSUME NEW i \in Computations, Publish(i)
         PROVE  FreshAnswer'
    BY <1>12 DEF Publish, FreshAnswer, AnswersMatch
  <1>13. ASSUME NEW i \in Computations, NEW how \in {"error", "cancelled"}, ComputeRaises(i, how)
         PROVE  FreshAnswer'
    BY <1>13 DEF ComputeRaises, FinisherFails, FreshAnswer
  <1>14. ASSUME NEW i \in Computations, CancelledRunning(i)
         PROVE  FreshAnswer'
    BY <1>14 DEF CancelledRunning, FinisherFails, FreshAnswer
  <1>15. ASSUME NEW i \in Computations, CancelledUnstarted(i)
         PROVE  FreshAnswer'
    BY <1>15 DEF CancelledUnstarted, FreshAnswer
  <1>16. ASSUME NEW i \in Computations, Settle(i)
         PROVE  FreshAnswer'
    BY <1>16 DEF Settle, FreshAnswer
  <1>17. CASE UNCHANGED vars
    BY <1>17 DEF FreshAnswer, vars
  <1> QED BY <1>1, <1>2, <1>3, <1>4, <1>5, <1>6, <1>7, <1>8, <1>9, <1>10,
     <1>11, <1>12, <1>13, <1>14, <1>15, <1>16, <1>17
     DEF Next, Ask, Finisher, WakeUp

-----------------------------------------------------------------------------
\* R orders E strictly and totally.
StrictOrder(R, E) ==
    /\ R \subseteq E \X E
    /\ \A x \in E : <<x, x>> \notin R
    /\ \A x, y \in E : x # y => <<x, y>> \in R \/ <<y, x>> \in R
    /\ \A x, y, z \in E : <<x, y>> \in R /\ <<y, z>> \in R => <<x, z>> \in R

\* Dropping elements keeps the order of the rest.
LEMMA OrderRestricted ==
    ASSUME NEW E, NEW R, StrictOrder(R, E), NEW F, F \subseteq E
    PROVE  StrictOrder(R \cap (F \X F), F)
  BY DEF StrictOrder

\* Putting a new element last extends the order.
LEMMA OrderAppended ==
    ASSUME NEW E, NEW R, StrictOrder(R, E), NEW k, k \notin E
    PROVE  StrictOrder(R \cup (E \X {k}), E \cup {k})
  BY DEF StrictOrder

\* move_to_end, whether the key was there or not.
LEMMA MoveToEndOrders ==
    ASSUME NEW E, StrictOrder(older, E), NEW k \in Keys, NEW ents,
           KeysOf(ents) \ {k} \subseteq E, k \in KeysOf(ents)
    PROVE  StrictOrder(MoveToEnd(k, ents), KeysOf(ents))
  <1> DEFINE rest == KeysOf(ents) \ {k}
  <1>1. StrictOrder(older \cap (rest \X rest), rest)
    BY OrderRestricted
  <1>2. StrictOrder((older \cap (rest \X rest)) \cup (rest \X {k}), rest \cup {k})
    BY <1>1, OrderAppended
  <1>3. rest \cup {k} = KeysOf(ents)
    OBVIOUS
  <1> QED
    BY <1>2 DEF MoveToEnd

\* A strictly and totally ordered finite set, if not empty, has a first element.
LEMMA FirstExists ==
    ASSUME NEW E, IsFiniteSet(E), NEW R, StrictOrder(R, E), E # {}
    PROVE  \E x \in E : \A y \in E : y # x => <<x, y>> \in R
  <1> DEFINE Before(x) == {y \in E : <<y, x>> \in R}
             T == {Before(x) : x \in E}
  <1>1. T \subseteq FiniteSubsetsOf(E) /\ T # {}
    <2>1. \A x \in E : Before(x) \in SUBSET E
      OBVIOUS
    <2>2. SUBSET E = FiniteSubsetsOf(E)
      BY FS_FiniteSubsetsOfFinite
    <2>3. T \subseteq SUBSET E
      BY <2>1
    <2>4. PICK x \in E : TRUE
      OBVIOUS
    <2>5. Before(x) \in T
      BY <2>4
    <2> QED
      BY <2>2, <2>3, <2>5
  <1>2. IsWellFoundedOn(StrictSubsetOrdering(E), FiniteSubsetsOf(E))
    BY FS_StrictSubsetOrderingWellFounded
  <1>3. \E S \in T : \A U \in T : ~ (<<U, S>> \in StrictSubsetOrdering(E))
    <2> HIDE DEF T
    <2> QED
      BY <1>1, <1>2, WFMin
  <1>4. PICK x \in E : \A y \in E :
                 ~ (<<Before(y), Before(x)>> \in StrictSubsetOrdering(E))
    BY <1>3
  <1>5. ASSUME NEW y \in E, y # x
        PROVE  <<x, y>> \in R
    <2>1. SUFFICES ASSUME <<y, x>> \in R PROVE FALSE
      BY <1>5 DEF StrictOrder
    <2>2. Before(y) \subseteq Before(x)
      BY <2>1 DEF StrictOrder
    <2>3. y \in Before(x) /\ y \notin Before(y)
      BY <2>1 DEF StrictOrder
    <2>4. <<Before(y), Before(x)>> \in StrictSubsetOrdering(E)
      BY <2>2, <2>3 DEF StrictSubsetOrdering
    <2> QED
      BY <1>4, <2>4
  <1> QED
    BY <1>5

\* Eviction keeps no more than MaxEntries keys.
LEMMA SurvivorsBounded ==
    ASSUME NEW ents, NEW order, IsFiniteSet(KeysOf(ents)),
           StrictOrder(order, KeysOf(ents))
    PROVE  /\ IsFiniteSet(Survivors(ents, order))
           /\ Cardinality(Survivors(ents, order)) <= MaxEntries
  <1> DEFINE E == KeysOf(ents)
             K == Survivors(ents, order)
             After(x) == {y \in E : <<x, y>> \in order}
  <1>1. K \subseteq E
    BY DEF Survivors
  <1>2. IsFiniteSet(K)
    BY <1>1, FS_Subset
  <1>3. CASE K = {}
    BY <1>3, FS_EmptySet, CacheAssumption
  <1>4. CASE K # {}
    <2>1. StrictOrder(order \cap (K \X K), K)
      BY <1>1, OrderRestricted
    <2>2. PICK x \in K : \A y \in K : y # x => <<x, y>> \in order \cap (K \X K)
      <3> HIDE DEF K
      <3> QED
        BY <1>2, <1>4, <2>1, FirstExists
    <2>3. K \ {x} \subseteq After(x)
      BY <1>1, <2>2
    <2>4. IsFiniteSet(After(x)) /\ Cardinality(After(x)) \in Nat
      BY FS_Subset, FS_CardinalityType
    <2>5. Cardinality(After(x)) < MaxEntries
      BY DEF Survivors
    <2>6. Cardinality(K \ {x}) <= Cardinality(After(x))
      BY <2>3, FS_Subset
    <2>7. Cardinality(K \ {x}) = Cardinality(K) - 1 /\ Cardinality(K) \in Nat
      <3> HIDE DEF K
      <3> QED
        BY <1>2, FS_RemoveElement, FS_CardinalityType
    <2> QED
      BY <1>2, <2>4, <2>5, <2>6, <2>7, CacheAssumption
  <1> QED
    BY <1>3, <1>4

\* The store: a bounded finite set of keys in a strict total order of use.
Store ==
    /\ IsFiniteSet(Cached)
    /\ Cardinality(Cached) <= MaxEntries
    /\ StrictOrder(older, Cached)

\* The empty cache has no order to speak of.
LEMMA InitLRU == Init => Store
  BY FS_EmptySet, CacheAssumption
     DEF Init, Store, StrictOrder, Cached, KeysOf, NoEntry

\* A sweep only takes keys away.
LEMMA SweptKeys ==
    ASSUME Store
    PROVE  /\ KeysOf(Swept) \subseteq Cached
           /\ IsFiniteSet(KeysOf(Swept))
           /\ Cardinality(KeysOf(Swept)) <= MaxEntries
  <1>1. KeysOf(Swept) \subseteq Cached
    BY DEF KeysOf, Swept, Cached, NoEntry
  <1>2. /\ IsFiniteSet(KeysOf(Swept)) /\ Cardinality(KeysOf(Swept)) \in Nat
        /\ Cardinality(Cached) \in Nat
        /\ Cardinality(KeysOf(Swept)) <= Cardinality(Cached)
    BY <1>1, FS_Subset, FS_CardinalityType DEF Store
  <1> QED
    BY <1>1, <1>2, CacheAssumption DEF Store

\* No step overfills the store or breaks the order of use.
LEMMA StoreStep ==
    ASSUME IInv, Store, [Next]_vars
    PROVE  Store'
  <1>1. CASE Tick
    BY <1>1 DEF Store, Cached, Tick
  <1>2. CASE Clear
    <2>1. Cached' = {} /\ older' = {}
      BY <1>2 DEF Clear, Cached, KeysOf, NoEntry
    <2> QED
      BY <2>1, FS_EmptySet, CacheAssumption DEF Store, StrictOrder
  <1>3. ASSUME NEW c \in Callers, NEW k \in Keys, Hit(c, k)
        PROVE  Store'
    <2>1. entries' = Swept /\ older' = MoveToEnd(k, Swept)
      BY <1>3 DEF Hit
    <2>2. Cached' = KeysOf(Swept)
      BY <2>1 DEF Cached
    <2>3. k \in KeysOf(Swept)
      BY <1>3 DEF Hit, Live, KeysOf, Swept, IInv, TypeOK, Entry
    <2>4. StrictOrder(MoveToEnd(k, Swept), KeysOf(Swept))
      BY <2>3, SweptKeys, MoveToEndOrders DEF Store
    <2> QED
      BY <2>1, <2>2, <2>4, SweptKeys DEF Store
  <1>4. ASSUME NEW c \in Callers, NEW k \in Keys, Join(c, k)
        PROVE  Store'
    <2>1. entries' = Swept /\ older' = older \cap (KeysOf(Swept) \X KeysOf(Swept))
      BY <1>4 DEF Join, Miss
    <2>2. Cached' = KeysOf(Swept)
      BY <2>1 DEF Cached
    <2> QED
      BY <2>1, <2>2, SweptKeys, OrderRestricted DEF Store
  <1>5. ASSUME NEW c \in Callers, NEW k \in Keys, NEW i \in Computations, Lead(c, k, i)
        PROVE  Store'
    <2>1. entries' = Swept /\ older' = older \cap (KeysOf(Swept) \X KeysOf(Swept))
      BY <1>5 DEF Lead, Miss
    <2>2. Cached' = KeysOf(Swept)
      BY <2>1 DEF Cached
    <2> QED
      BY <2>1, <2>2, SweptKeys, OrderRestricted DEF Store
  <1>6. ASSUME NEW c \in Callers, RequestCancel(c)
        PROVE  Store'
    BY <1>6 DEF Store, Cached, RequestCancel
  <1>7. ASSUME NEW c \in Callers, LeaderReturn(c)
        PROVE  Store'
    BY <1>7 DEF Store, Cached, LeaderReturn
  <1>8. ASSUME NEW c \in Callers, FollowerReturn(c)
        PROVE  Store'
    BY <1>8 DEF Store, Cached, FollowerReturn
  <1>9. ASSUME NEW c \in Callers, LeaderCancelled(c)
        PROVE  Store'
    BY <1>9 DEF Store, Cached, LeaderCancelled
  <1>10. ASSUME NEW c \in Callers, FollowerCancelled(c)
         PROVE  Store'
    BY <1>10 DEF Store, Cached, FollowerCancelled
  <1>11. ASSUME NEW i \in Computations, FinisherStart(i)
         PROVE  Store'
    BY <1>11 DEF Store, Cached, FinisherStart
  <1>12. ASSUME NEW i \in Computations, Publish(i)
         PROVE  Store'
    <2> DEFINE k == comp[i].key
               ents == [entries EXCEPT ![k] = [val |-> i, expires |-> Expiry(i)]]
               order == MoveToEnd(k, ents)
               kept == Survivors(ents, order)
    <2>1. k \in Keys
      BY <1>12 DEF Publish, IInv, Core, KeyKnown
    <2>2. KeysOf(ents) = Cached \cup {k}
      BY <2>1, CacheAssumption DEF KeysOf, Cached, IInv, TypeOK
    <2>3. StrictOrder(order, KeysOf(ents)) /\ IsFiniteSet(KeysOf(ents))
      <3> HIDE DEF k, ents
      <3> QED
        BY <2>1, <2>2, MoveToEndOrders, FS_AddElement DEF Store
    <2>4. IsFiniteSet(kept) /\ Cardinality(kept) <= MaxEntries /\ kept \subseteq KeysOf(ents)
      <3> HIDE DEF ents, order
      <3> QED
        BY <2>3, SurvivorsBounded DEF Survivors
    <2>5. entries' = [j \in Keys |-> IF j \in kept THEN ents[j] ELSE NoEntry]
          /\ older' = order \cap (kept \X kept)
      BY <1>12 DEF Publish
    <2>6. Cached' = kept
      <3> HIDE DEF ents, kept
      <3> QED
        BY <2>4, <2>5 DEF Cached, KeysOf, NoEntry
    <2>7. StrictOrder(order \cap (kept \X kept), kept)
      <3> HIDE DEF order, kept
      <3> QED
        BY <2>3, <2>4, OrderRestricted
    <2> QED
      BY <2>4, <2>5, <2>6, <2>7 DEF Store
  <1>13. ASSUME NEW i \in Computations, NEW how \in {"error", "cancelled"}, ComputeRaises(i, how)
         PROVE  Store'
    BY <1>13 DEF Store, Cached, ComputeRaises, FinisherFails
  <1>14. ASSUME NEW i \in Computations, CancelledRunning(i)
         PROVE  Store'
    BY <1>14 DEF Store, Cached, CancelledRunning, FinisherFails
  <1>15. ASSUME NEW i \in Computations, CancelledUnstarted(i)
         PROVE  Store'
    BY <1>15 DEF Store, Cached, CancelledUnstarted
  <1>16. ASSUME NEW i \in Computations, Settle(i)
         PROVE  Store'
    BY <1>16 DEF Store, Cached, Settle
  <1>17. CASE UNCHANGED vars
    BY <1>17 DEF Store, Cached, vars
  <1> QED BY <1>1, <1>2, <1>3, <1>4, <1>5, <1>6, <1>7, <1>8, <1>9, <1>10,
     <1>11, <1>12, <1>13, <1>14, <1>15, <1>16, <1>17
     DEF Next, Ask, Finisher, WakeUp

-----------------------------------------------------------------------------
StoreInv ==
    /\ IInv /\ Flight /\ AnswersMatch /\ ExpiryExact
    /\ AskedBefore /\ JoinedBefore /\ FreshAnswer /\ Store

\* The store's invariants hold throughout, on top of the coalescing ones
\* (sweep, eviction and get_or_compute, cache.py:98-213).
THEOREM StoreInvariance == Spec => []StoreInv
  <1>1. Init => StoreInv
    BY InitInv, InitStore, InitLRU DEF StoreInv
  <1>2. StoreInv /\ [Next]_vars => StoreInv'
    <2> SUFFICES ASSUME StoreInv, [Next]_vars PROVE StoreInv'
      OBVIOUS
    <2>1. IInv' /\ Flight' /\ AnswersMatch'
      BY StepInv, FlightStep, MatchStep DEF StoreInv
    <2>2. ExpiryExact' /\ AskedBefore' /\ JoinedBefore'
      BY ExpiryStep, AskedStep, JoinedStep DEF StoreInv
    <2>3. FreshAnswer' /\ Store'
      BY FreshStep, StoreStep DEF StoreInv
    <2> QED
      BY <2>1, <2>2, <2>3 DEF StoreInv
  <1> QED
    BY <1>1, <1>2, PTL DEF Spec

\* At most one wanted backend call per key between two clear()s
\* (cache.py:132-141), however many callers ask, cancel and fail.
THEOREM Coalescing == Spec => []SingleFlight
  <1>1. StoreInv => SingleFlight
    BY DEF StoreInv, Flight
  <1> QED
    BY <1>1, StoreInvariance, PTL

\* Every answer and every stored value is a successful result of its key.
THEOREM AnswersAreRight == Spec => []AnswersMatch
  <1>1. StoreInv => AnswersMatch
    BY DEF StoreInv
  <1> QED
    BY <1>1, StoreInvariance, PTL

\* No answer is staler than Ttl when its caller asked for it.
THEOREM AnswersAreFresh == Spec => []FreshAnswer
  <1>1. StoreInv => FreshAnswer
    BY DEF StoreInv
  <1> QED
    BY <1>1, StoreInvariance, PTL

-----------------------------------------------------------------------------
(* Eviction.                                                               *)

\* A key that is evicted was used before every key that is kept.
LEMMA EvictedFirst ==
    ASSUME NEW ents, NEW order, IsFiniteSet(KeysOf(ents)),
           StrictOrder(order, KeysOf(ents)),
           NEW j \in KeysOf(ents), j \notin Survivors(ents, order),
           NEW k \in Survivors(ents, order)
    PROVE  <<j, k>> \in order
  <1> DEFINE E == KeysOf(ents)
             After(x) == {y \in E : <<x, y>> \in order}
  <1>1. k \in E /\ j # k
    BY DEF Survivors
  <1>2. SUFFICES ASSUME <<k, j>> \in order PROVE FALSE
    BY <1>1 DEF StrictOrder
  <1>3. After(j) \subseteq After(k)
    BY <1>1, <1>2 DEF StrictOrder
  <1>4. IsFiniteSet(After(k))
    BY FS_Subset
  <1>5. /\ Cardinality(After(j)) <= Cardinality(After(k))
        /\ Cardinality(After(j)) \in Nat /\ Cardinality(After(k)) \in Nat
    <2> HIDE DEF After
    <2> QED
      BY <1>3, <1>4, FS_Subset, FS_CardinalityType
  <1>6. Cardinality(After(k)) < MaxEntries /\ ~(Cardinality(After(j)) < MaxEntries)
    BY <1>1 DEF Survivors
  <1> QED
    BY <1>5, <1>6, CacheAssumption

\* What is used last is kept.
LEMMA LastKept ==
    ASSUME NEW k \in Keys, NEW ents, k \in KeysOf(ents)
    PROVE  k \in Survivors(ents, MoveToEnd(k, ents))
  <1> DEFINE After == {j \in KeysOf(ents) : <<k, j>> \in MoveToEnd(k, ents)}
  <1>1. After = {}
    BY DEF MoveToEnd
  <1>2. Cardinality(After) < MaxEntries
    <2> HIDE DEF After
    <2> QED
      BY <1>1, FS_EmptySet, CacheAssumption
  <1> QED
    BY <1>2 DEF Survivors

-----------------------------------------------------------------------------
(* The sweep.                                                              *)

\* An entry that the last sweep has seen had not expired then.
SweptThrough ==
    /\ lastSwept <= now
    /\ \A k \in Cached : \/ comp[entries[k].val].ended >= lastSwept
                          \/ entries[k].expires > lastSwept

\* Every call sweeps before it does anything else to the store.
LEMMA CallSweeps ==
    ASSUME NEW c \in Callers, Ask(c)
    PROVE  entries' = Swept /\ lastSwept' = SweptAt /\ now' = now
  BY DEF Ask, Hit, Join, Lead, Miss

\* What is stored is a result, which no step takes back.
LEMMA StoredLast ==
    ASSUME IInv, AnswersMatch, [Next]_vars, NEW k \in Cached
    PROVE  /\ entries[k].val \in Computations
           /\ comp'[entries[k].val].ended = comp[entries[k].val].ended
           /\ comp[entries[k].val].ended \in Int /\ entries[k].expires \in Int
  <1>1. k \in Keys /\ entries[k].val # None /\ entries[k] \in Entry
    BY DEF Cached, KeysOf, IInv, TypeOK
  <1>2. entries[k].val \in Computations /\ entries[k].expires \in Int
    BY <1>1 DEF Entry
  <1>3. comp[entries[k].val].finisher = "ok"
    BY DEF AnswersMatch
  <1>4. comp'[entries[k].val].ended = comp[entries[k].val].ended
    BY <1>2, <1>3, LastingStep DEF Lasting
  <1>5. comp[entries[k].val] \in Computation
    BY <1>2 DEF IInv, TypeOK
  <1>6. comp[entries[k].val].ended \in Int
    BY <1>5 DEF Computation
  <1> QED
    BY <1>2, <1>4, <1>6

LEMMA SweepStep ==
    ASSUME IInv, AnswersMatch, SweptThrough, [Next]_vars
    PROVE  SweptThrough'
  <1>1. now \in Int /\ lastSwept \in Int /\ Ttl \in Nat
    BY CacheAssumption DEF IInv, TypeOK
  <1>2. CASE /\ entries' = entries /\ lastSwept' = lastSwept
             /\ now' = now \/ now' = now + 1
    <2>1. Cached' = Cached
      BY <1>2 DEF Cached, KeysOf
    <2> QED
      BY <1>1, <1>2, <2>1, StoredLast DEF SweptThrough
  <1>3. CASE Clear
    <2>1. Cached' = {}
      BY <1>3 DEF Clear, Cached, KeysOf, NoEntry
    <2> QED
      BY <1>3, <2>1 DEF Clear, SweptThrough
  <1>4. ASSUME NEW c \in Callers, Ask(c)
        PROVE  SweptThrough'
    <2>1. entries' = Swept /\ lastSwept' = SweptAt /\ now' = now
      BY <1>4, CallSweeps
    <2>2. lastSwept' <= now'
      BY <1>1, <2>1 DEF SweptAt, SweptThrough
    <2>3. ASSUME NEW k \in Cached'
          PROVE  /\ k \in Cached /\ entries'[k] = entries[k]
                 /\ SweepDue => entries[k].expires > now
      <3>1. k \in Keys /\ entries'[k].val # None
        BY <2>3 DEF Cached, KeysOf
      <3>2. entries[k].expires \in Int
        BY <3>1 DEF IInv, TypeOK, Entry
      <3> QED
        BY <1>1, <2>1, <3>1, <3>2 DEF Swept, NoEntry, Cached, KeysOf
    <2>4. ASSUME NEW k \in Cached'
          PROVE  \/ comp'[entries'[k].val].ended >= lastSwept'
                 \/ entries'[k].expires > lastSwept'
      <3>1. CASE SweepDue
        BY <2>1, <2>3, <2>4, <3>1 DEF SweptAt
      <3>2. CASE ~SweepDue
        <4>1. lastSwept' = lastSwept
          BY <2>1, <3>2 DEF SweptAt
        <4> QED
          BY <2>3, <2>4, <4>1, StoredLast DEF SweptThrough
      <3> QED
        BY <3>1, <3>2
    <2> QED
      BY <2>2, <2>4 DEF SweptThrough
  <1>5. ASSUME NEW i \in Computations, Publish(i)
        PROVE  SweptThrough'
    <2> DEFINE k == comp[i].key
    <2>1. now' = now /\ lastSwept' = lastSwept /\ comp'[i].ended = now
      BY <1>5 DEF Publish, IInv, TypeOK
    <2>2. ASSUME NEW j \in Cached'
          PROVE  \/ j = k /\ entries'[j].val = i
                 \/ j \in Cached /\ entries'[j] = entries[j]
      <3>1. j \in Keys /\ entries'[j].val # None
        BY <2>2 DEF Cached, KeysOf
      <3>2. \/ entries'[j] = [entries EXCEPT ![k] = [val |-> i, expires |-> Expiry(i)]][j]
            \/ entries'[j] = NoEntry
        BY <1>5, <3>1 DEF Publish
      <3> QED
        BY <3>1, <3>2 DEF NoEntry, Cached, KeysOf, IInv, TypeOK
    <2>3. ASSUME NEW j \in Cached'
          PROVE  \/ comp'[entries'[j].val].ended >= lastSwept'
                 \/ entries'[j].expires > lastSwept'
      <3>1. CASE j = k /\ entries'[j].val = i
        BY <1>1, <2>1, <3>1 DEF SweptThrough
      <3>2. CASE j \in Cached /\ entries'[j] = entries[j]
        <4>1. comp'[entries[j].val].ended = comp[entries[j].val].ended
          BY <3>2, StoredLast
        <4> QED
          BY <2>1, <3>2, <4>1 DEF SweptThrough
      <3> QED
        BY <2>2, <2>3, <3>1, <3>2
    <2> QED
      BY <2>1, <2>3 DEF SweptThrough
  <1>6. \/ entries' = entries /\ lastSwept' = lastSwept /\ (now' = now \/ now' = now + 1)
        \/ Clear
        \/ \E c \in Callers : Ask(c)
        \/ \E i \in Computations : Publish(i)
    BY Zenon DEF Next, vars, Tick, RequestCancel, WakeUp, LeaderReturn, FollowerReturn,
           LeaderCancelled, FollowerCancelled, Finisher, FinisherStart, ComputeRaises,
           CancelledRunning, CancelledUnstarted, FinisherFails, Settle
  <1> QED
    BY <1>2, <1>3, <1>4, <1>5, <1>6

\* Only a caller that asks begins a call.
LEMMA OnlyAskBegins ==
    ASSUME IInv, [Next]_vars, NEW c \in Callers, ~IsWaiting(c), call'[c] # call[c]
    PROVE  \E d \in Callers : Ask(d)
  <1>1. ~ \/ LeaderReturn(c) \/ FollowerReturn(c) \/ LeaderCancelled(c)
          \/ FollowerCancelled(c) \/ RequestCancel(c)
    BY DEF LeaderReturn, FollowerReturn, LeaderCancelled, FollowerCancelled, RequestCancel,
           IsWaiting, Waiting
  <1>2. ASSUME NEW d \in Callers,
               \/ LeaderReturn(d) \/ FollowerReturn(d) \/ LeaderCancelled(d)
               \/ FollowerCancelled(d) \/ RequestCancel(d)
        PROVE  d = c
    <2>1. \E x : call' = [call EXCEPT ![d] = x]
      BY <1>2 DEF LeaderReturn, FollowerReturn, LeaderCancelled, FollowerCancelled,
                  RequestCancel, Answered
    <2>2. c \in DOMAIN call
      BY DEF IInv, TypeOK
    <2> QED
      BY <2>1, <2>2
  <1>3. ~(Tick \/ Clear \/ UNCHANGED vars \/ \E i \in Computations : Finisher(i) \/ Settle(i))
    BY DEF Tick, Clear, vars, Finisher, FinisherStart, Publish, ComputeRaises,
           CancelledRunning, CancelledUnstarted, FinisherFails, Settle
  <1> QED
    BY <1>1, <1>2, <1>3 DEF Next, WakeUp

\* Whatever has been expired for a whole Ttl is gone after the next call,
\* whichever key it asks for, unless it was stored since the last sweep, for
\* any number of keys and any Ttl (cache.py:99-116).
THEOREM ExpiredAreReclaimed == Spec => ExpiredReclaimed
  <1> DEFINE Reclaims ==
          \A k \in Keys :
             /\ \E c \in Callers : ~IsWaiting(c) /\ call'[c] # call[c]
             /\ entries'[k].val # None
             /\ entries'[k].expires + Ttl <= now
             => comp[entries'[k].val].ended >= lastSwept'
  <1>1. Init => SweptThrough
    BY DEF Init, SweptThrough, Cached, KeysOf, NoEntry
  <1>2. StoreInv /\ SweptThrough /\ [Next]_vars => SweptThrough'
    BY SweepStep DEF StoreInv
  <1>3. StoreInv /\ SweptThrough /\ [Next]_vars => Reclaims
    <2> SUFFICES ASSUME StoreInv, SweptThrough, [Next]_vars, NEW k \in Keys, NEW d \in Callers,
                        ~IsWaiting(d), call'[d] # call[d],
                        entries'[k].val # None, entries'[k].expires + Ttl <= now
                 PROVE  comp[entries'[k].val].ended >= lastSwept'
      OBVIOUS
    <2>1. IInv /\ AnswersMatch
      BY DEF StoreInv
    <2>2. entries' = Swept /\ lastSwept' = SweptAt
      BY <2>1, OnlyAskBegins, CallSweeps
    <2>3. now \in Int /\ lastSwept \in Int /\ Ttl \in Nat /\ Ttl > 0
      BY <2>1, CacheAssumption DEF IInv, TypeOK
    <2>4. k \in Cached /\ entries'[k] = entries[k]
      BY <2>2 DEF Swept, NoEntry, Cached, KeysOf
    <2>5. comp[entries[k].val].ended \in Int /\ entries[k].expires \in Int
      BY <2>1, <2>4, StoredLast
    <2>6. ~SweepDue
      BY <2>2, <2>3, <2>4, <2>5 DEF Swept, NoEntry
    <2>7. lastSwept' = lastSwept /\ now - lastSwept < Ttl
      BY <2>2, <2>3, <2>6 DEF SweptAt, SweepDue
    <2>8. entries[k].expires <= lastSwept
      BY <2>3, <2>4, <2>5, <2>7
    <2> QED
      BY <2>3, <2>4, <2>5, <2>7, <2>8 DEF SweptThrough
  <1>4. Spec => []SweptThrough
    BY <1>1, <1>2, StoreInvariance, PTL DEF Spec
  <1>5. StoreInv /\ SweptThrough /\ [Next]_vars => [Reclaims]_vars
    BY <1>3
  <1> QED
    BY <1>4, <1>5, StoreInvariance, PTL DEF Spec, ExpiredReclaimed
-----------------------------------------------------------------------------
(* What eviction may take.                                                 *)

\* A running computation ends with a result by publishing it, and what it stores
\* is used last.
LEMMA StoredStays ==
    ASSUME IInv, [Next]_vars, NEW i \in Computations,
           comp[i].finisher = "running", comp'[i].finisher = "ok"
    PROVE  entries'[comp[i].key].val = i
  <1>1. i # None /\ comp \in [Computations -> Computation] /\ comp[i].key \in Keys
    BY CacheAssumption DEF IInv, TypeOK, Core, KeyKnown
  <1>2. ~Tick /\ ~Clear /\ ~UNCHANGED vars
    BY DEF Tick, Clear, vars
  <1>3. ASSUME NEW c \in Callers, NEW k \in Keys, Hit(c, k)
        PROVE  FALSE
    BY <1>3 DEF Hit
  <1>4. ASSUME NEW c \in Callers, NEW k \in Keys, Join(c, k)
        PROVE  FALSE
    BY <1>1, <1>4 DEF Join
  <1>5. ASSUME NEW c \in Callers, NEW k \in Keys, NEW j \in Computations, Lead(c, k, j)
        PROVE  FALSE
    BY <1>1, <1>5 DEF Lead
  <1>6. ASSUME NEW c \in Callers, RequestCancel(c)
        PROVE  FALSE
    BY <1>6 DEF RequestCancel
  <1>7. ASSUME NEW c \in Callers, LeaderReturn(c)
        PROVE  FALSE
    BY <1>1, <1>7 DEF LeaderReturn
  <1>8. ASSUME NEW c \in Callers, FollowerReturn(c)
        PROVE  FALSE
    BY <1>1, <1>8 DEF FollowerReturn, Leave
  <1>9. ASSUME NEW c \in Callers, LeaderCancelled(c)
        PROVE  FALSE
    <2>1. comp' = Abandon(call[c].slot) \/ comp' = comp
      BY <1>9 DEF LeaderCancelled
    <2>2. CASE comp' = Abandon(call[c].slot)
      BY <1>1, <2>2 DEF Abandon
    <2> QED
      BY <2>1, <2>2
  <1>10. ASSUME NEW c \in Callers, FollowerCancelled(c)
         PROVE  FALSE
    BY <1>1, <1>10 DEF FollowerCancelled, Leave
  <1>11. ASSUME NEW j \in Computations, FinisherStart(j)
         PROVE  FALSE
    BY <1>1, <1>11 DEF FinisherStart
  <1>12. ASSUME NEW j \in Computations, NEW how \in {"error", "cancelled"}, ComputeRaises(j, how)
         PROVE  FALSE
    BY <1>1, <1>12 DEF ComputeRaises, FinisherFails
  <1>13. ASSUME NEW j \in Computations, CancelledRunning(j)
         PROVE  FALSE
    BY <1>1, <1>13 DEF CancelledRunning, FinisherFails
  <1>14. ASSUME NEW j \in Computations, CancelledUnstarted(j)
         PROVE  FALSE
    BY <1>1, <1>14 DEF CancelledUnstarted
  <1>15. ASSUME NEW j \in Computations, Settle(j)
         PROVE  FALSE
    BY <1>1, <1>15 DEF Settle
  <1>16. PICK j \in Computations : Publish(j)
    <2>1. \A c \in Callers : ~Ask(c)
      BY <1>3, <1>4, <1>5 DEF Ask
    <2>2. \A c \in Callers : ~RequestCancel(c) /\ ~WakeUp(c)
      BY <1>6, <1>7, <1>8, <1>9, <1>10 DEF WakeUp
    <2>3. \A j \in Computations : ~Settle(j) /\ (Finisher(j) => Publish(j))
      BY <1>11, <1>12, <1>13, <1>14, <1>15 DEF Finisher
    <2> QED
      BY <1>2, <2>1, <2>2, <2>3 DEF Next
  <1>17. j = i
    BY <1>1, <1>16 DEF Publish
  <1> DEFINE k == comp[i].key
             ents == [entries EXCEPT ![k] = [val |-> i, expires |-> Expiry(i)]]
             kept == Survivors(ents, MoveToEnd(k, ents))
  <1>18. entries' = [x \in Keys |-> IF x \in kept THEN ents[x] ELSE NoEntry]
    BY <1>16, <1>17 DEF Publish
  <1>19. ents[k].val = i
    BY <1>1 DEF IInv, TypeOK
  <1>20. k \in KeysOf(ents)
    BY <1>1, <1>19 DEF KeysOf
  <1>21. k \in kept
    <2> HIDE DEF ents
    <2> QED
      BY <1>1, <1>20, LastKept
  <1> QED
    <2> HIDE DEF ents, kept
    <2> QED
      BY <1>1, <1>18, <1>19, <1>21

\* A key that a call finds is the one used last.
LEMMA FoundLast ==
    ASSUME IInv, [Next]_vars, NEW c \in Callers, ~IsWaiting(c), call'[c] # call[c],
           call'[c].pc = "ok", NEW j \in Cached' \ {call'[c].key}
    PROVE  <<j, call'[c].key>> \in older'
  <1>1. PICK d \in Callers : Ask(d)
    BY OnlyAskBegins
  <1>2. call \in [Callers -> Call]
    BY DEF IInv, TypeOK
  <1>3. PICK k \in Keys : Hit(d, k) \/ Join(d, k) \/ \E i \in Computations : Lead(d, k, i)
    BY <1>1 DEF Ask
  <1>4. d = c
    BY <1>2, <1>3 DEF Hit, Join, Lead, NewCall
  <1>5. Hit(c, k)
    BY <1>2, <1>3, <1>4 DEF Join, Lead, NewCall
  <1>6. call'[c].key = k
    BY <1>2, <1>5 DEF Hit, NewCall
  <1>7. Cached' = KeysOf(Swept) /\ older' = MoveToEnd(k, Swept)
    BY <1>5 DEF Hit, Cached, KeysOf
  <1> QED
    BY <1>6, <1>7 DEF MoveToEnd

\* What goes before it expires, other than by clear(), was used before all that
\* is kept.
LEMMA GoesFirst ==
    ASSUME IInv, AnswersMatch, Store, [Next]_vars,
           NEW j \in Cached \ Cached', NEW l \in Cached,
           epoch' = epoch, entries[j].expires > now, entries'[l] = entries[l]
    PROVE  <<j, l>> \in older
  <1>1. j \in Keys /\ l \in Keys /\ entries[j].val # None /\ entries[l].val # None
    BY DEF Cached, KeysOf
  <1>2. entries[j].expires \in Int /\ now \in Int /\ epoch \in Int
    BY <1>1, StoredLast DEF IInv, TypeOK
  <1>3. entries'[j].val = None
    BY <1>1 DEF Cached, KeysOf
  <1>4. \A c \in Callers : ~Ask(c)
    <2> SUFFICES ASSUME NEW c \in Callers, Ask(c) PROVE FALSE
      OBVIOUS
    <2>1. entries' = Swept
      BY CallSweeps
    <2>2. entries'[j] = entries[j]
      BY <1>1, <1>2, <2>1 DEF Swept
    <2> QED
      BY <1>1, <1>3, <2>2
  <1>5. ~Clear
    BY <1>2 DEF Clear
  <1>6. entries' # entries
    BY <1>1, <1>3
  <1>7. PICK i \in Computations : Publish(i)
    <2>1. ~Tick /\ ~UNCHANGED vars
      BY <1>6 DEF Tick, vars
    <2>2. \A c \in Callers : ~RequestCancel(c) /\ ~WakeUp(c)
      BY <1>6 DEF RequestCancel, WakeUp, LeaderReturn, FollowerReturn, LeaderCancelled,
                  FollowerCancelled
    <2>3. \A i \in Computations : ~Settle(i) /\ (Finisher(i) => Publish(i))
      BY <1>6 DEF Settle, Finisher, FinisherStart, ComputeRaises, CancelledRunning,
                  CancelledUnstarted, FinisherFails
    <2> QED
      BY <1>4, <1>5, <2>1, <2>2, <2>3 DEF Next
  <1> DEFINE k == comp[i].key
             ents == [entries EXCEPT ![k] = [val |-> i, expires |-> Expiry(i)]]
             order == MoveToEnd(k, ents)
             kept == Survivors(ents, order)
  <1>8. k \in Keys /\ i # None
    BY <1>7, CacheAssumption DEF Publish, IInv, Core, KeyKnown
  <1>9. KeysOf(ents) = Cached \cup {k}
    BY <1>8 DEF KeysOf, Cached, IInv, TypeOK
  <1>10. StrictOrder(order, KeysOf(ents)) /\ IsFiniteSet(KeysOf(ents))
    <2> HIDE DEF k, ents
    <2> QED
      BY <1>8, <1>9, MoveToEndOrders, FS_AddElement DEF Store
  <1>11. entries' = [x \in Keys |-> IF x \in kept THEN ents[x] ELSE NoEntry]
    BY <1>7 DEF Publish
  <1>12. ents[j].val # None /\ ents[k].val = i
    BY <1>1, <1>8 DEF IInv, TypeOK
  <1>13. j \notin kept
    <2> HIDE DEF ents, kept
    <2> QED
      BY <1>1, <1>3, <1>11, <1>12
  <1>14. l \in kept
    <2> HIDE DEF ents, kept
    <2> QED
      BY <1>1, <1>11 DEF NoEntry
  <1>15. l # k
    <2>1. entries[l].val # i
      BY <1>1, <1>7 DEF AnswersMatch, Publish, Cached, KeysOf
    <2>2. entries'[l] = ents[l]
      <3> HIDE DEF ents, kept
      <3> QED
        BY <1>1, <1>11, <1>14
    <2> QED
      <3> HIDE DEF ents
      <3> QED
        BY <1>12, <2>1, <2>2
  <1>16. <<j, l>> \in order
    <2> HIDE DEF ents, order
    <2> QED
      BY <1>9, <1>10, <1>13, <1>14, EvictedFirst
  <1> QED
    <2> HIDE DEF ents
    <2> QED
      BY <1>15, <1>16 DEF MoveToEnd

\* The store never holds more than MaxEntries results, and gives up the one used
\* least recently (cache.py:118-122, 129-130, 257-261).
THEOREM StoreIsBounded == Spec => BoundedLRU
  <1> DEFINE Keeps ==
          /\ Cardinality(Cached') <= MaxEntries
          /\ \A i \in Computations :
               comp[i].finisher = "running" /\ comp'[i].finisher = "ok" =>
                   entries'[comp[i].key].val = i
          /\ \A c \in Callers :
               ~IsWaiting(c) /\ call'[c] # call[c] /\ call'[c].pc = "ok" =>
                   \A j \in Cached' \ {call'[c].key} : <<j, call'[c].key>> \in older'
          /\ \A j \in Cached \ Cached', k \in Cached :
               epoch' = epoch /\ entries[j].expires > now /\ entries'[k] = entries[k] =>
                   <<j, k>> \in older
  <1>1. StoreInv /\ [Next]_vars => Keeps
    <2> SUFFICES ASSUME StoreInv, [Next]_vars PROVE Keeps
      OBVIOUS
    <2>1. IInv /\ AnswersMatch /\ Store
      BY DEF StoreInv
    <2>2. Cardinality(Cached') <= MaxEntries
      BY <2>1, StoreStep DEF Store
    <2> QED
      BY <2>1, <2>2, StoredStays, FoundLast, GoesFirst
  <1>2. StoreInv /\ [Next]_vars => [Keeps]_vars
    BY <1>1
  <1> QED
    BY <1>2, StoreInvariance, PTL DEF Spec, BoundedLRU
=============================================================================
