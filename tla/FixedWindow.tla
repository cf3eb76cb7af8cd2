----------------------------- MODULE FixedWindow -----------------------------
(***************************************************************************)
(* server.py: _FixedWindowRateLimiter and RateLimitMiddleware, the limit   *)
(* on the HTTP requests of one peer.                                       *)
(*                                                                         *)
(* hit() reads the clock, takes the lock and counts without an await in    *)
(* between: nobody ever waits for the lock and a hit is one step.          *)
(***************************************************************************)
EXTENDS Integers, Sequences

CONSTANTS
    Peers,         \* the keys: client addresses
    MaxRequests,   \* _max_requests; with 0 there is no limiter at all
    WindowSeconds  \* _window_seconds

ASSUME WindowAssumption ==
    /\ MaxRequests \in Nat \ {0}
    /\ WindowSeconds \in Nat \ {0}

VARIABLES
    now,        \* the monotonic clock
    buckets,    \* _buckets
    lastSwept,  \* _last_swept
    served      \* per peer, the times of the requests let through: history

gate == <<buckets, lastSwept, served>>
-----------------------------------------------------------------------------
Bucket == [start : Nat, count : Nat]

\* A peer without an entry.
NoBucket == [start |-> 0, count |-> 0]

GateInit ==
    /\ now = 0
    /\ buckets = [p \in Peers |-> NoBucket]
    /\ lastSwept = 0
    /\ served = [p \in Peers |-> <<>>]

\* mutant: a window that is exactly over counts on
Over_Later(start) == now - start > WindowSeconds

Over(start) == now - start >= WindowSeconds

SweepDue == Over(lastSwept)

\* mutant: the sweep drops the windows that run, too
Swept_All(p) == IF SweepDue THEN NoBucket ELSE buckets[p]

\* What _sweep_expired_locked leaves of a peer's entry.
Swept(p) == IF SweepDue /\ Over(buckets[p].start) THEN NoBucket ELSE buckets[p]

\* The entry of a peer with one hit more: of its window, or of a new one.
Counted(p) ==
    IF Swept(p).count = 0 \/ Over(Swept(p).start)
    THEN [start |-> now, count |-> 1]
    ELSE [start |-> Swept(p).start, count |-> Swept(p).count + 1]

Hit(p) ==
    /\ buckets' = [q \in Peers |-> IF q = p THEN Counted(q) ELSE Swept(q)]
    /\ lastSwept' = IF SweepDue THEN now ELSE lastSwept
    /\ UNCHANGED now

\* The request goes on to the application.
Pass(p) ==
    /\ Hit(p)
    /\ Counted(p).count <= MaxRequests
    /\ served' = [served EXCEPT ![p] = Append(@, now)]

\* The request is answered 429.  It counts all the same.
Breach(p) ==
    /\ Hit(p)
    /\ Counted(p).count > MaxRequests
    /\ UNCHANGED served
-----------------------------------------------------------------------------
(* Properties.                                                             *)

\* Two bursts may meet at the end of a window, but no interval as long as a
\* window sees twice the cap of one peer's requests: windows start with a
\* request that passes, and the sweep forgets none that runs
\* (server.py:2012-2030).
PeerRate ==
    \A p \in Peers : \A i \in DOMAIN served[p] :
        i + 2 * MaxRequests - 1 \in DOMAIN served[p]
        => served[p][i + 2 * MaxRequests - 1] - served[p][i] >= WindowSeconds
=============================================================================
