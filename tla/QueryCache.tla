----------------------------- MODULE QueryCache -----------------------------
(***************************************************************************)
(* backends/cache.py: the TTL cache with in-flight request coalescing that *)
(* stands in front of every read-only backend query.                       *)
(*                                                                         *)
(* Everything runs on one asyncio event loop.  A step of this module is    *)
(* what one task does between two awaits that can really suspend it; the   *)
(* cache's lock is no such await, because no section it protects awaits.   *)
(* The tasks are the callers of get_or_compute and one finisher per        *)
(* computation.  Task.cancel() only REQUESTS a cancellation: the task sees *)
(* the CancelledError at its next step, and other tasks may run before it. *)
(*                                                                         *)
(* A computation stands for the value it produces: the cached value is the *)
(* identity of the computation that returned it.                           *)
(***************************************************************************)
EXTENDS Integers, FiniteSets

CONSTANTS
    Callers,       \* the tasks that call get_or_compute
    Keys,          \* the cache keys they ask for
    Computations,  \* identities of the _InFlight objects, each used once
    None,          \* no computation, no key
    Cancellable,   \* the callers whose client may cancel its request
    Ttl,           \* ttl_seconds
    MaxEntries,    \* max_entries
    MaxTime,       \* bound: the clock stops here
    MaxClears      \* bound: how often clear() runs

ASSUME CacheAssumption ==
    /\ Ttl \in Nat \ {0}
    /\ MaxEntries \in Nat \ {0}
    /\ MaxTime \in Nat
    /\ MaxClears \in Nat
    /\ None \notin Computations \cup Keys
    /\ Cancellable \subseteq Callers

VARIABLES
    now,        \* the monotonic clock
    entries,    \* _entries: per key the cached value and when it expires
    older,      \* the order of _entries: <<j, k>> when j was used before k
    lastSwept,  \* _last_swept
    inflight,   \* _inflight: per key the registered computation
    comp,       \* the _InFlight objects with their finisher tasks
    call,       \* per caller, its current or last call
    epoch       \* history: how often clear() has run

vars == <<now, entries, older, lastSwept, inflight, comp, call, epoch>>
-----------------------------------------------------------------------------
(* The state of the cache, of a computation and of a call.                 *)

Entry == [val : Computations \cup {None}, expires : Int]
NoEntry == [val |-> None, expires |-> 0]

Ends == {"ok", "error", "cancelled"}

Computation ==
    [key       : Keys \cup {None},
     start     : Int,                        \* the leader's clock reading
     born      : Nat,                        \* history: epoch of its start
     ended     : Int,                        \* history: when it published
     finisher  : {"none", "new", "running"} \cup Ends,
     cancelling : BOOLEAN,                   \* finisher.cancelling() > 0
     settled   : BOOLEAN,                    \* its done-callback has run
     abandoned : BOOLEAN,
     future    : {"pending"} \cup Ends,
     waitingFollowers : Nat]

Unused ==
    [key |-> None, start |-> 0, born |-> 0, ended |-> 0, finisher |-> "none",
     cancelling |-> FALSE, settled |-> FALSE, abandoned |-> FALSE,
     future |-> "pending", waitingFollowers |-> 0]

Waiting == {"leader", "follower"}

Call ==
    [pc        : {"idle"} \cup Waiting \cup Ends,
     key       : Keys \cup {None},
     at        : Int,                        \* when it was made
     slot      : Computations \cup {None},   \* the computation it awaits
     val       : Computations \cup {None},   \* what it returned
     cancelReq : BOOLEAN]                    \* Task.cancel() was called

NoCall == [pc |-> "idle", key |-> None, at |-> 0, slot |-> None,
           val |-> None, cancelReq |-> FALSE]

KeysOf(ents) == {k \in Keys : ents[k].val # None}
Cached == KeysOf(entries)
Done(i) == comp[i].finisher \in Ends
IsWaiting(c) == call[c].pc \in Waiting
-----------------------------------------------------------------------------
(* Helpers of the cache.                                                   *)

\* _InFlight.is_joinable
Joinable(i) ==
    /\ ~comp[i].abandoned
    /\ ~comp[i].cancelling
    /\ comp[i].finisher # "cancelled"
    /\ comp[i].future # "cancelled"

\* _sweep_expired_locked: at most one sweep per Ttl.
SweepDue == now - lastSwept >= Ttl

Swept ==
    [k \in Keys |->
        IF SweepDue /\ entries[k].expires <= now THEN NoEntry ELSE entries[k]]

\* mutant: the gate is pushed forward by every call, so it may never open
SweptAt_EveryCall == now

SweptAt == IF SweepDue THEN now ELSE lastSwept

\* The order of the keys of ents after move_to_end(k).
MoveToEnd(k, ents) ==
    LET rest == KeysOf(ents) \ {k}
    IN  (older \cap (rest \X rest)) \cup (rest \X {k})

\* mutant: popitem() drops the most recently used
Survivors_Newest(ents, order) ==
    {k \in KeysOf(ents) :
        Cardinality({j \in KeysOf(ents) : <<j, k>> \in order}) < MaxEntries}

\* mutant: evicts while len > max + 1
Survivors_OffByOne(ents, order) ==
    {k \in KeysOf(ents) :
        Cardinality({j \in KeysOf(ents) : <<k, j>> \in order}) <= MaxEntries}

\* _evict_to_capacity_locked: popitem(last=False) until the bound holds
\* leaves the keys with fewer than MaxEntries keys used after them.
Survivors(ents, order) ==
    {k \in KeysOf(ents) :
        Cardinality({j \in KeysOf(ents) : <<k, j>> \in order}) < MaxEntries}

\* mutant: the age counts from the end of the computation
Expiry_FromEnd(i) == now + Ttl

\* What a cached value is stored with.
Expiry(i) == comp[i].start + Ttl

\* mutant: whoever ends frees the key, whoever owns the slot by then
Release_Unchecked(i) ==
    [k \in Keys |-> IF comp[i].key = k THEN None ELSE inflight[k]]

\* The identity-checked release of a computation's slot.
Release(i) ==
    [k \in Keys |-> IF inflight[k] = i THEN None ELSE inflight[k]]

\* mutant: failures do not reach the shared future
Complete_OnlyResults(i, outcome) ==
    IF comp[i].future = "pending" /\ outcome = "ok" THEN outcome ELSE comp[i].future

\* set_result, set_exception and cancel, all behind a done() check.
Complete(i, outcome) ==
    IF comp[i].future = "pending" THEN outcome ELSE comp[i].future

\* The end of a caller's await.
Answered(c, outcome, val) ==
    [call EXCEPT ![c] = [@ EXCEPT !.pc = outcome, !.val = val]]
-----------------------------------------------------------------------------
Init ==
    /\ now = 0
    /\ entries = [k \in Keys |-> NoEntry]
    /\ older = {}
    /\ lastSwept = 0
    /\ inflight = [k \in Keys |-> None]
    /\ comp = [i \in Computations |-> Unused]
    /\ call = [c \in Callers |-> NoCall]
    /\ epoch = 0

Tick ==
    /\ now < MaxTime
    /\ now' = now + 1
    /\ UNCHANGED <<entries, older, lastSwept, inflight, comp, call, epoch>>
-----------------------------------------------------------------------------
(* get_or_compute up to its first suspension: sweep, then a hit, or join   *)
(* the computation in flight, or lead a new one.                           *)

Live(k) == entries[k].val # None /\ entries[k].expires > now

InFlight(k) == inflight[k] # None /\ Joinable(inflight[k])

NewCall(c, k, pc, slot, val) ==
    call' = [call EXCEPT ![c] = [pc |-> pc, key |-> k, at |-> now,
                                 slot |-> slot, val |-> val,
                                 cancelReq |-> FALSE]]

Hit(c, k) ==
    /\ ~IsWaiting(c)
    /\ Live(k)
    /\ entries' = Swept
    /\ lastSwept' = SweptAt
    /\ older' = MoveToEnd(k, Swept)
    /\ NewCall(c, k, "ok", None, entries[k].val)
    /\ UNCHANGED <<now, inflight, comp, epoch>>

Miss(c, k) ==
    /\ ~IsWaiting(c)
    /\ ~Live(k)
    /\ entries' = Swept
    /\ lastSwept' = SweptAt
    /\ older' = older \cap (KeysOf(Swept) \X KeysOf(Swept))

Join(c, k) ==
    /\ Miss(c, k)
    /\ InFlight(k)
    /\ comp' = [comp EXCEPT ![inflight[k]].waitingFollowers = @ + 1]
    /\ NewCall(c, k, "follower", inflight[k], None)
    /\ UNCHANGED <<now, inflight, epoch>>

Lead(c, k, i) ==
    /\ Miss(c, k)
    /\ ~InFlight(k)
    /\ comp[i].finisher = "none"
    /\ inflight' = [inflight EXCEPT ![k] = i]
    /\ comp' = [comp EXCEPT ![i] = [Unused EXCEPT !.key = k, !.start = now,
                                                  !.born = epoch,
                                                  !.finisher = "new"]]
    /\ NewCall(c, k, "leader", i, None)
    /\ UNCHANGED <<now, epoch>>
-----------------------------------------------------------------------------
(* _compute_and_publish, the finisher task.                                *)

FinisherStart(i) ==
    /\ comp[i].finisher = "new"
    /\ ~comp[i].cancelling
    /\ comp' = [comp EXCEPT ![i].finisher = "running"]
    /\ UNCHANGED <<now, entries, older, lastSwept, inflight, call, epoch>>

\* compute() returned: store, evict, complete the future, release the slot.
Publish(i) ==
    /\ comp[i].finisher = "running"
    /\ ~comp[i].cancelling
    /\ LET k == comp[i].key
           ents == [entries EXCEPT ![k] = [val |-> i, expires |-> Expiry(i)]]
           order == MoveToEnd(k, ents)
           kept == Survivors(ents, order)
       IN  /\ entries' = [j \in Keys |-> IF j \in kept THEN ents[j] ELSE NoEntry]
           /\ older' = order \cap (kept \X kept)
    /\ comp' = [comp EXCEPT ![i] = [@ EXCEPT !.finisher = "ok", !.ended = now,
                                             !.future = Complete(i, "ok")]]
    /\ inflight' = Release(i)
    /\ UNCHANGED <<now, lastSwept, call, epoch>>

FinisherFails(i, how) ==
    /\ comp' = [comp EXCEPT ![i] = [@ EXCEPT !.finisher = how,
                                             !.future = Complete(i, how)]]
    /\ inflight' = Release(i)
    /\ UNCHANGED <<now, entries, older, lastSwept, call, epoch>>

\* compute() raised: an Exception, or a CancelledError nobody asked for (the
\* X-Ray executor cancels the calls still queued when it is shut down).
ComputeRaises(i, how) ==
    /\ comp[i].finisher = "running"
    /\ ~comp[i].cancelling
    /\ how \in {"error", "cancelled"}
    /\ FinisherFails(i, how)

\* The CancelledError of finisher.cancel() arrives inside compute().
CancelledRunning(i) ==
    /\ comp[i].finisher = "running"
    /\ comp[i].cancelling
    /\ FinisherFails(i, "cancelled")

\* It arrives before the first step: the coroutine's body never runs.
CancelledUnstarted(i) ==
    /\ comp[i].finisher = "new"
    /\ comp[i].cancelling
    /\ comp' = [comp EXCEPT ![i].finisher = "cancelled"]
    /\ UNCHANGED <<now, entries, older, lastSwept, inflight, call, epoch>>

\* _settle_abandoned, the done-callback of the finisher.
Settle(i) ==
    /\ Done(i)
    /\ ~comp[i].settled
    /\ comp' = [comp EXCEPT ![i] = [@ EXCEPT !.settled = TRUE,
                                      !.future = Complete(i, "cancelled")]]
    /\ inflight' = Release(i)
    /\ UNCHANGED <<now, entries, older, lastSwept, call, epoch>>
-----------------------------------------------------------------------------
(* The callers' wake-ups.                                                  *)

ValueOf(i) == IF comp[i].finisher = "ok" THEN i ELSE None

LeaderReturn(c) ==
    /\ call[c].pc = "leader"
    /\ ~call[c].cancelReq
    /\ Done(call[c].slot)
    /\ call' = Answered(c, comp[call[c].slot].finisher, ValueOf(call[c].slot))
    /\ UNCHANGED <<now, entries, older, lastSwept, inflight, comp, epoch>>

Leave(i) == [comp EXCEPT ![i].waitingFollowers = @ - 1]

FollowerReturn(c) ==
    /\ call[c].pc = "follower"
    /\ ~call[c].cancelReq
    /\ comp[call[c].slot].future # "pending"
    /\ call' = Answered(c, comp[call[c].slot].future, ValueOf(call[c].slot))
    /\ comp' = Leave(call[c].slot)
    /\ UNCHANGED <<now, entries, older, lastSwept, inflight, epoch>>

\* The client cancels its request: Task.cancel() on the caller.
RequestCancel(c) ==
    /\ c \in Cancellable
    /\ IsWaiting(c)
    /\ ~call[c].cancelReq
    /\ call' = [call EXCEPT ![c].cancelReq = TRUE]
    /\ UNCHANGED <<now, entries, older, lastSwept, inflight, comp, epoch>>

\* mutant: without the shield the cancellation reaches the shared future
FollowerCancelled_Unshielded(c) ==
    /\ call[c].pc = "follower"
    /\ call[c].cancelReq
    /\ call' = Answered(c, "cancelled", None)
    /\ LET i == call[c].slot
       IN  comp' = [comp EXCEPT ![i] = [@ EXCEPT !.waitingFollowers = @ - 1,
                                          !.future = Complete(i, "cancelled")]]
    /\ UNCHANGED <<now, entries, older, lastSwept, inflight, epoch>>

FollowerCancelled(c) ==
    /\ call[c].pc = "follower"
    /\ call[c].cancelReq
    /\ call' = Answered(c, "cancelled", None)
    /\ comp' = Leave(call[c].slot)
    /\ UNCHANGED <<now, entries, older, lastSwept, inflight, epoch>>

\* mutant: the leader takes its computation with it
Unwanted_LeaderDecides(i) == ~Done(i)

\* The leader's except branch: only it ever cancels a finisher.
Unwanted(i) == comp[i].waitingFollowers = 0 /\ ~Done(i)

Abandon(i) ==
    [comp EXCEPT ![i] = [@ EXCEPT !.abandoned = TRUE, !.cancelling = TRUE]]

\* mutant: the slot stays until the finisher observes its cancellation
LeaderCancelled_KeepsSlot(c) ==
    /\ call[c].pc = "leader"
    /\ call[c].cancelReq
    /\ call' = Answered(c, "cancelled", None)
    /\ comp' = IF Unwanted(call[c].slot) THEN Abandon(call[c].slot) ELSE comp
    /\ UNCHANGED <<now, entries, older, lastSwept, inflight, epoch>>

LeaderCancelled(c) ==
    /\ call[c].pc = "leader"
    /\ call[c].cancelReq
    /\ call' = Answered(c, "cancelled", None)
    /\ \/ /\ Unwanted(call[c].slot)
          /\ comp' = Abandon(call[c].slot)
          /\ inflight' = Release(call[c].slot)
       \/ /\ ~Unwanted(call[c].slot)
          /\ UNCHANGED <<comp, inflight>>
    /\ UNCHANGED <<now, entries, older, lastSwept, epoch>>

\* clear() drops the slots but cancels no computation.
Clear ==
    /\ epoch < MaxClears
    /\ epoch' = epoch + 1
    /\ entries' = [k \in Keys |-> NoEntry]
    /\ older' = {}
    /\ inflight' = [k \in Keys |-> None]
    /\ UNCHANGED <<now, lastSwept, comp, call>>
-----------------------------------------------------------------------------
Ask(c) ==
    \E k \in Keys :
        \/ Hit(c, k)
        \/ Join(c, k)
        \/ \E i \in Computations : Lead(c, k, i)

Finisher(i) ==
    \/ FinisherStart(i)
    \/ Publish(i)
    \/ \E how \in {"error", "cancelled"} : ComputeRaises(i, how)
    \/ CancelledRunning(i)
    \/ CancelledUnstarted(i)

WakeUp(c) ==
    \/ LeaderReturn(c)
    \/ FollowerReturn(c)
    \/ LeaderCancelled(c)
    \/ FollowerCancelled(c)

Next ==
    \/ Tick
    \/ Clear
    \/ \E c \in Callers : Ask(c) \/ RequestCancel(c) \/ WakeUp(c)
    \/ \E i \in Computations : Finisher(i) \/ Settle(i)

\* The event loop runs every ready task and callback, and a computation ends
\* because each backend request has a deadline.  Nobody has to ask, cancel or
\* clear.
Fairness ==
    /\ \A i \in Computations : WF_vars(Finisher(i)) /\ WF_vars(Settle(i))
    /\ \A c \in Callers : WF_vars(WakeUp(c))

Spec == Init /\ [][Next]_vars
FairSpec == Spec /\ Fairness
-----------------------------------------------------------------------------
(* Properties.                                                             *)

\* Every variable has the type its declaration gives it.
TypeOK ==
    /\ now \in Nat
    /\ entries \in [Keys -> Entry]
    /\ older \subseteq Keys \X Keys
    /\ lastSwept \in Int
    /\ inflight \in [Keys -> Computations \cup {None}]
    /\ comp \in [Computations -> Computation]
    /\ call \in [Callers -> Call]
    /\ epoch \in Nat

\* A caller whose task nobody cancelled never sees a CancelledError, unless
\* the backend call itself raised one: neither another client's cancellation,
\* nor the leader's, nor clear() reaches it (cache.py:124-213).
NoForeignCancellation ==
    \A c \in Callers :
        call[c].pc = "cancelled" =>
            \/ call[c].cancelReq
            \/ /\ comp[call[c].slot].finisher = "cancelled"
               /\ ~comp[call[c].slot].cancelling

\* A computation is cancelled only when no caller, leader or follower, still
\* waits for it; the count the code keeps of its followers decides that, and
\* a follower whose own cancellation is on its way still counts.
OnlyUnwantedCancelled ==
    \A i \in Computations :
        comp[i].cancelling =>
            \A c \in Callers : ~(IsWaiting(c) /\ call[c].slot = i)

\* A key is never left unservable: whatever is registered under it is a
\* computation of that key that still has to end and has not been given up.
NoPoisonedSlot ==
    \A k \in Keys :
        inflight[k] # None =>
            LET i == inflight[k]
            IN  /\ comp[i].key = k
                /\ comp[i].finisher \in {"new", "running"}
                /\ comp[i].future = "pending"
                /\ Joinable(i)

Wanted(i) == comp[i].finisher \in {"new", "running"} /\ ~comp[i].cancelling

\* Between two clear()s there is never more than one wanted backend call per
\* key: coalescing holds under every order of cancellations and completions.
SingleFlight ==
    \A i, j \in Computations :
        i # j /\ Wanted(i) /\ Wanted(j) /\ comp[i].born = comp[j].born
        => comp[i].key # comp[j].key

\* What a caller gets and what the cache holds is the result of a successful
\* computation of the very key asked for; no failure is ever cached.
AnswersMatch ==
    /\ \A k \in Cached : LET i == entries[k].val
                         IN  comp[i].finisher = "ok" /\ comp[i].key = k
    /\ \A c \in Callers :
        call[c].pc = "ok" => /\ call[c].val # None
                             /\ comp[call[c].val].finisher = "ok"
                             /\ comp[call[c].val].key = call[c].key

\* A caller's answer was computed from data younger than Ttl at the time of
\* its call, or was not there yet when it called (it joined).  The clock that
\* counts is the leader's at the start, not the one at the end.
FreshAnswer ==
    \A c \in Callers :
        call[c].pc = "ok" =>
            \/ comp[call[c].val].start + Ttl > call[c].at
            \/ comp[call[c].val].ended >= call[c].at

\* The cache never holds more than MaxEntries results.  What is stored stays for
\* the moment, what a call finds counts as used last, and whatever goes before it
\* expires, other than by clear(), was used before everything that is kept.
BoundedLRU ==
    [][/\ Cardinality(Cached') <= MaxEntries
       /\ \A i \in Computations :
            comp[i].finisher = "running" /\ comp'[i].finisher = "ok" =>
                entries'[comp[i].key].val = i
       /\ \A c \in Callers :
            ~IsWaiting(c) /\ call'[c] # call[c] /\ call'[c].pc = "ok" =>
                \A j \in Cached' \ {call'[c].key} : <<j, call'[c].key>> \in older'
       /\ \A j \in Cached \ Cached', k \in Cached :
            epoch' = epoch /\ entries[j].expires > now /\ entries'[k] = entries[k] =>
                <<j, k>> \in older]_vars

\* A key that expired and is never asked for again does not stay: after any
\* call, an entry that has been expired for a whole Ttl was stored since the
\* last sweep.
ExpiredReclaimed ==
    [][\A k \in Keys :
         /\ \E c \in Callers : ~IsWaiting(c) /\ call'[c] # call[c]
         /\ entries'[k].val # None
         /\ entries'[k].expires + Ttl <= now
         => comp[entries'[k].val].ended >= lastSwept']_vars

\* Every call ends, whatever is cancelled, cleared or raised.
EveryCallEnds == \A c \in Callers : IsWaiting(c) ~> ~IsWaiting(c)
=============================================================================
