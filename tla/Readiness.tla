------------------------------ MODULE Readiness ------------------------------
(***************************************************************************)
(* server.py: GET /ready.  A request takes the shared backend (the first   *)
(* one creates it and awaits its health check), queues for the readiness   *)
(* lock, and is answered from the memo or by a probe of its own:           *)
(* health_check, then list_services, under one deadline.                   *)
(*                                                                         *)
(* A step is what a request runs between two awaits.  A parked backend     *)
(* answers nothing until its state changes, one that is up or down answers *)
(* at once; the event loop runs what is ready before time passes.          *)
(***************************************************************************)
EXTENDS Integers, Sequences

CONSTANTS
    Requests,       \* the GET /ready requests
    Nobody,         \* holds the lock when nobody does
    Window,         \* _readiness_cache_seconds, 0 for no memo
    FailureWindow,  \* _READINESS_FAILURE_MEMO_TTL_SECONDS
    CheckTimeout,   \* _READINESS_CHECK_TIMEOUT_SECONDS
    CallDeadline,   \* the transport's deadline for one backend request
    MaxTime,        \* bound: the clock stops here
    LastAsk,        \* bound: no request arrives after this time
    MaxChanges,     \* bound: how often the backend's state changes
    MaxBackends     \* bound: how many backends are created

ASSUME ReadinessAssumption ==
    /\ Window \in Nat
    /\ FailureWindow \in Nat
    /\ CheckTimeout \in Nat \ {0}
    /\ CallDeadline \in Nat \ {0}
    /\ MaxTime \in Nat /\ LastAsk \in Nat /\ MaxChanges \in Nat
    /\ MaxBackends \in Nat
    /\ Nobody \notin Requests

VARIABLES
    now,        \* the clock
    health,     \* the backend service: "up", "down" or "parked"
    changes,    \* how often it changed
    lastUp,     \* history: the last instant at which it was up
    lastBad,    \* history: the last instant at which it was not
    backend,    \* _backend: 0 for None, or which one was created
    made,       \* how many backends have been created
    holder,     \* who holds _readiness_lock
    waiters,    \* who waits for it, in order
    memo,       \* _readiness_memo
    generation, \* _readiness_generation
    pc,         \* per request, where it is
    req,        \* per request, its local variables
    last        \* history: the last probe that completed

vars == <<now, health, changes, lastUp, lastBad, backend, made, holder,
          waiters, memo, generation, pc, req, last>>
service == <<health, changes, lastUp, lastBad>>
shared == <<backend, made>>
memory == <<memo, generation, last>>
-----------------------------------------------------------------------------
States == {"up", "down", "parked"}
Inside == {"queued", "health", "services"}
Probing == {"health", "services"}
Answers == {"ready", "not_ready"}
PCs == {"idle", "creating", "cancelled"} \cup Inside \cup Answers

\* arrived: when the request came; queuedAt and queuedGen: when it entered
\* _run_backend_checks_memoized and the generation it read there; of: its
\* backend; from: when its probe began; half: what health_check said;
\* aborted: history, the probes cancelled while it waited.
Req == [arrived : Nat, queuedAt : Nat, queuedGen : Nat, of : Nat, from : Nat,
        half : Answers, aborted : Nat]
NewReq == [arrived |-> 0, queuedAt |-> 0, queuedGen |-> 0, of |-> 0,
           from |-> 0, half |-> "ready", aborted |-> 0]

Memo == [of : Nat, expires : Nat, result : Answers, gen : Nat]
NoMemo == [of |-> MaxBackends + 1, expires |-> 0, result |-> "not_ready",
           gen |-> 0]

Probe == [of : Nat, end : Nat, result : Answers]
NoProbe == [of |-> 0, end |-> 0, result |-> "not_ready"]

FailureTTL == IF Window < FailureWindow THEN Window ELSE FailureWindow

\* mutant: a failure is remembered as long as a success
TTL_OneWindow(result) == Window

\* ttl: how long a result is remembered
TTL(result) == IF result = "ready" THEN Window ELSE FailureTTL

\* The memo answers a request under the lock: it is about its backend, and
\* in its window or newer than the request.
Reusable(r) ==
    /\ memo.of = req[r].of
    /\ memo.expires > now \/ memo.gen > req[r].queuedGen

\* mutant: the second half is answered by the query cache
ServicesSay_Cached(r) == req[r].half

\* list_services_uncached: a live request; both halves must succeed.
ServicesSay(r) ==
    IF health = "up" /\ req[r].of # 0 THEN req[r].half ELSE "not_ready"

\* health_check; on None it raises AttributeError, which is caught.
HealthSays(r) ==
    IF health = "up" /\ req[r].of # 0 THEN "ready" ELSE "not_ready"

\* mutant: the deadline covers the first half only
ProbeDue_FirstHalf(r) ==
    pc[r] = "health" /\ now >= req[r].from + CheckTimeout

\* asyncio.timeout(_READINESS_CHECK_TIMEOUT_SECONDS) is due.
ProbeDue(r) == pc[r] \in Probing /\ now >= req[r].from + CheckTimeout

\* The transport gives the creation's health check up, nobody else does.
CreationDue(r) == pc[r] = "creating" /\ now >= req[r].arrived + CallDeadline
-----------------------------------------------------------------------------
Init ==
    /\ now = 0
    /\ health \in States
    /\ changes = 0
    /\ lastUp = 0
    /\ lastBad = 0
    /\ backend = 0
    /\ made = 0
    /\ holder = Nobody
    /\ waiters = <<>>
    /\ memo = NoMemo
    /\ generation = 0
    /\ pc = [r \in Requests |-> "idle"]
    /\ req = [r \in Requests |-> NewReq]
    /\ last = NoProbe

Tick ==
    /\ now < MaxTime
    /\ holder = Nobody => waiters = <<>>
    /\ \A r \in Requests :
        /\ ~ProbeDue(r) /\ ~CreationDue(r)
        /\ pc[r] \in {"creating"} \cup Probing => health = "parked"
    /\ now' = now + 1
    /\ \/ health = "up" /\ lastUp' = now + 1 /\ UNCHANGED lastBad
       \/ health # "up" /\ lastBad' = now + 1 /\ UNCHANGED lastUp
    /\ UNCHANGED <<health, changes, shared, holder, waiters, memory, pc, req>>

\* The backend service fails, parks or recovers.
Change(h) ==
    /\ changes < MaxChanges
    /\ h # health
    /\ health' = h
    /\ changes' = changes + 1
    /\ \/ h = "up" /\ lastUp' = now /\ UNCHANGED lastBad
       \/ h # "up" /\ lastBad' = now /\ UNCHANGED lastUp
    /\ UNCHANGED <<now, shared, holder, waiters, memory, pc, req>>

\* The shutdown drain forgets the backend; the next request recreates it.
Drain ==
    /\ backend # 0
    /\ made < MaxBackends
    /\ backend' = 0
    /\ UNCHANGED <<now, service, made, holder, waiters, memory, pc, req>>
-----------------------------------------------------------------------------
(* ready_route up to the lock.                                             *)

\* The request enters _run_backend_checks_memoized with backend b.
Enters(r, b, since) ==
    /\ pc' = [pc EXCEPT ![r] = "queued"]
    /\ req' = [req EXCEPT ![r] = [NewReq EXCEPT !.arrived = since,
           !.queuedAt = now, !.queuedGen = generation, !.of = b]]
    /\ waiters' = Append(waiters, r)

\* _get_backend finds a backend, whether its health check is over or not.
AskReuses(r) ==
    /\ pc[r] = "idle"
    /\ now <= LastAsk
    /\ backend # 0
    /\ Enters(r, backend, now)
    /\ UNCHANGED <<now, service, shared, holder, memory>>

\* _get_backend creates the backend, then awaits its health check.
AskCreates(r) ==
    /\ pc[r] = "idle"
    /\ now <= LastAsk
    /\ backend = 0
    /\ made < MaxBackends
    /\ made' = made + 1
    /\ backend' = made + 1
    /\ pc' = [pc EXCEPT ![r] = "creating"]
    /\ req' = [req EXCEPT ![r] = [NewReq EXCEPT !.arrived = now]]
    /\ UNCHANGED <<now, service, holder, waiters, memory>>

\* The health check answers or fails, either is logged only, and _get_backend
\* returns what _backend is by then.
Created(r) ==
    /\ pc[r] = "creating"
    /\ health # "parked" \/ CreationDue(r)
    /\ Enters(r, backend, req[r].arrived)
    /\ UNCHANGED <<now, service, shared, holder, memory>>
-----------------------------------------------------------------------------
(* _run_backend_checks_memoized and _run_backend_checks.                   *)

GetsLock(r) ==
    /\ pc[r] = "queued"
    /\ holder = Nobody
    /\ waiters # <<>>
    /\ r = Head(waiters)
    /\ waiters' = Tail(waiters)

\* A request that is over has no local variables any more.
Ends(r, how) ==
    /\ pc' = [pc EXCEPT ![r] = how]
    /\ req' = [req EXCEPT ![r] = NewReq]

FromMemo(r) ==
    /\ GetsLock(r)
    /\ Reusable(r)
    /\ Ends(r, memo.result)
    /\ UNCHANGED <<now, service, shared, holder, memory>>

StartProbe(r) ==
    /\ GetsLock(r)
    /\ ~Reusable(r)
    /\ holder' = r
    /\ pc' = [pc EXCEPT ![r] = "health"]
    /\ req' = [req EXCEPT ![r].from = now]
    /\ UNCHANGED <<now, service, shared, memory>>

HealthChecked(r) ==
    /\ pc[r] = "health"
    /\ health # "parked"
    /\ pc' = [pc EXCEPT ![r] = "services"]
    /\ req' = [req EXCEPT ![r].half = HealthSays(r)]
    /\ UNCHANGED <<now, service, shared, holder, waiters, memory>>

\* mutant: the window runs from the start of the probe
Remember_FromStart(r, result) ==
    /\ generation' = generation + 1
    /\ memo' = [of |-> req[r].of, expires |-> req[r].from + TTL(result),
                result |-> result, gen |-> generation + 1]
    /\ last' = [of |-> req[r].of, end |-> now, result |-> result]

\* The memo's window runs from the end of the probe.
Remember(r, result) ==
    /\ generation' = generation + 1
    /\ memo' = [of |-> req[r].of, expires |-> now + TTL(result),
                result |-> result, gen |-> generation + 1]
    /\ last' = [of |-> req[r].of, end |-> now, result |-> result]

\* The probe is over: it is remembered, its request answered, the lock free.
Concludes(r, result) ==
    /\ Remember(r, result)
    /\ holder' = Nobody
    /\ Ends(r, result)
    /\ UNCHANGED <<now, service, shared, waiters>>

ServicesListed(r) ==
    /\ pc[r] = "services"
    /\ health # "parked"
    /\ Concludes(r, ServicesSay(r))

TimesOut(r) ==
    /\ ProbeDue(r)
    /\ Concludes(r, "not_ready")

\* A waiter of the lock that is cancelled leaves the queue.
Unqueue(r) ==
    \E i \in DOMAIN waiters :
        /\ waiters[i] = r
        /\ waiters' = [j \in 1 .. Len(waiters) - 1 |-> waiters[IF j < i THEN j ELSE j + 1]]

\* The request's task is cancelled: nothing is remembered of its probe.
Cancel(r) ==
    /\ pc[r] \in {"creating"} \cup Inside
    /\ pc' = [pc EXCEPT ![r] = "cancelled"]
    /\ \/ /\ holder = r
          /\ holder' = Nobody
          /\ req' = [d \in Requests |->
                CASE pc[d] = "queued" -> [req[d] EXCEPT !.aborted = @ + 1]
                  [] d = r -> NewReq
                  [] OTHER -> req[d]]
          /\ UNCHANGED waiters
       \/ /\ holder # r
          /\ \/ Unqueue(r)
             \/ pc[r] = "creating" /\ UNCHANGED waiters
          /\ req' = [req EXCEPT ![r] = NewReq]
          /\ UNCHANGED holder
    /\ UNCHANGED <<now, service, shared, memory>>
-----------------------------------------------------------------------------
Runs(r) ==
    \/ Created(r)
    \/ FromMemo(r)
    \/ StartProbe(r)
    \/ HealthChecked(r)
    \/ ServicesListed(r)
    \/ TimesOut(r)

Next ==
    \/ Tick
    \/ \E h \in States : Change(h)
    \/ Drain
    \/ \E r \in Requests :
        \/ AskReuses(r)
        \/ AskCreates(r)
        \/ Runs(r)
        \/ Cancel(r)

\* Time passes, the event loop runs what is ready, and a backend that is not
\* parked answers.
Fairness ==
    /\ WF_vars(Tick)
    /\ \A r \in Requests : WF_vars(Runs(r))

Spec == Init /\ [][Next]_vars
FairSpec == Spec /\ Fairness
-----------------------------------------------------------------------------
(* Properties.                                                             *)

\* Every variable has its type; the lock is held exactly by the request that
\* probes and its waiters are exactly the queued ones.
TypeOK ==
    /\ now \in Nat /\ lastUp \in 0 .. now /\ lastBad \in 0 .. now
    /\ health \in States
    /\ changes \in 0 .. MaxChanges
    /\ made \in 0 .. MaxBackends /\ backend \in {0, made}
    /\ memo \in Memo /\ generation \in Nat
    /\ pc \in [Requests -> PCs]
    /\ req \in [Requests -> Req]
    /\ last \in Probe
    /\ waiters \in Seq(Requests)
    /\ holder \in Requests \cup {Nobody}
    /\ \A r \in Requests : pc[r] \in Probing <=> holder = r
    /\ \A r \in Requests :
        pc[r] = "queued" <=> \E i \in DOMAIN waiters : waiters[i] = r

\* Between two probes of one backend lies the window of the first one's result,
\* and the second is for a request that came after the first one ended: whoever
\* queues, times out or is cancelled, a window costs the backend one completed
\* probe and concurrent requests share it (server.py:506-509).
ProbesSpaced ==
    [][\A r \in Requests :
         /\ pc[r] = "queued" /\ pc'[r] = "health"
         /\ last.of = req[r].of /\ req[r].of # 0
         => /\ now >= last.end + TTL(last.result)
            /\ req[r].queuedAt >= last.end]_vars

\* A request told "ready" was told so of a backend that was really up, less
\* than a window ago or after the request came in (server.py:565-568).
NoStaleReady ==
    [][\A r \in Requests :
         pc[r] \in Inside /\ pc'[r] = "ready"
         => lastUp > now - Window \/ lastUp >= req[r].queuedAt]_vars

\* A request told "not ready" was told so of a backend that was really not
\* up, no longer ago than one probe and the shorter failure window: recovery
\* is noticed quickly (server.py:452-457).
RecoveryNoticed ==
    [][\A r \in Requests :
         /\ pc[r] \in Inside /\ pc'[r] = "not_ready"
         /\ req[r].of # 0
         => \/ lastBad > now - FailureTTL - CheckTimeout
            \/ lastBad >= req[r].queuedAt - CheckTimeout]_vars

\* While the backend is not replaced no request waits longer than one probe,
\* or one more for every probe that was cancelled ahead of it, also when the
\* backend hangs (server.py:506-509).
WaitBounded ==
    made <= 1 /\ backend = made =>
        \A r \in Requests : pc[r] \in Inside =>
            now - req[r].queuedAt <= CheckTimeout * (1 + req[r].aborted)

\* Every request ends, also when the backend never answers anything.
EveryRequestEnds ==
    \A r \in Requests : pc[r] \in {"creating"} \cup Inside
                        ~> pc[r] \in {"cancelled"} \cup Answers

\* What server.py:449-457 says of the route: it "answers 503 instead of
\* hanging on a parked backend", so one deadline bounds the whole request.
RouteBounded ==
    \A r \in Requests : pc[r] \in {"creating"} \cup Inside =>
        now - req[r].arrived <= CheckTimeout * (1 + req[r].aborted)
=============================================================================
