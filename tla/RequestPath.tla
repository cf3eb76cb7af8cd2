----------------------------- MODULE RequestPath -----------------------------
(***************************************************************************)
(* The way of an HTTP request to X-Ray: through the limiter on the peer's  *)
(* requests (server.py), then, in boto3 calls one after the other, through *)
(* the pool that all requests share (backends/xray.py).                    *)
(***************************************************************************)
EXTENDS FixedWindow, XRayPool

CONSTANTS
    Peer,     \* per task, whose request it serves
    MaxTime   \* bound: the clock stops here

ASSUME PathAssumption == Peer \in [Callers -> Peers]

vars == <<now, gate, pool>>
-----------------------------------------------------------------------------
Init == GateInit /\ PoolInit

Tick ==
    /\ now < MaxTime
    /\ now' = now + 1
    /\ UNCHANGED <<gate, pool>>

\* RateLimitMiddleware.dispatch
Admit(c) == Pass(Peer[c]) /\ Enter(c)

TurnAway(c) ==
    /\ Breach(Peer[c])
    /\ pc[c] = "outside"
    /\ pc' = [pc EXCEPT ![c] = "refused"]
    /\ UNCHANGED <<free, waiters, made, work, closed>>

Arrive(c) == Admit(c) \/ TurnAway(c)

Moves(c) == Runs(c) \/ Cancel(c) \/ Thread(c)

Next ==
    \/ Tick
    \/ \E c \in Callers : Arrive(c)
    \/ (Close \/ \E c \in Callers : Moves(c)) /\ UNCHANGED <<now, gate>>

\* The event loop runs what is ready, and threads end; nobody has to ask, to
\* cancel or to close.
Fairness ==
    \A c \in Callers : WF_vars(Runs(c) /\ UNCHANGED <<now, gate>>)
                       /\ WF_vars(Thread(c) /\ UNCHANGED <<now, gate>>)

Spec == Init /\ [][Next]_vars
FairSpec == Spec /\ Fairness
-----------------------------------------------------------------------------
(* Properties.                                                             *)

\* Every variable has its type.
TypeOK ==
    /\ now \in Nat /\ lastSwept \in Nat
    /\ buckets \in [Peers -> Bucket]
    /\ served \in [Peers -> Seq(Nat)]
    /\ free \in Nat
    /\ waiters \in Seq(Callers)
    /\ pc \in [Callers -> Stages]
    /\ made \in [Callers -> Nat]
    /\ work \in [Callers -> Works]
    /\ closed \in BOOLEAN

\* Who is answered 429 has had its cap of requests within the last window.
RefusedWithCause ==
    [][\A c \in Callers : pc[c] # "refused" /\ pc'[c] = "refused" =>
         LET past == served[Peer[c]] IN
         /\ Len(past) >= MaxRequests
         /\ now - past[Len(past) - MaxRequests + 1] < WindowSeconds]_vars

\* Every request is answered, whoever is cancelled meanwhile, whatever its
\* thread still does, and although the backend may be closed under it.
EveryRequestAnswered ==
    \A c \in Callers : pc[c] \notin {"outside"} ~> pc[c] \in Ends
=============================================================================
