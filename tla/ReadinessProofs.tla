---------------------------- MODULE ReadinessProofs ----------------------------
(***************************************************************************)
(* GET /ready for any number of requests and backends, any windows and     *)
(* deadlines, and however the backend fails, parks and recovers.           *)
(***************************************************************************)
EXTENDS Readiness, TLAPS

\* Nobody queues twice, and who queues first has read no later generation.
QueueInOrder ==
    \A i, j \in DOMAIN waiters :
        i < j => /\ waiters[i] # waiters[j]
                 /\ req[waiters[i]].queuedGen <= req[waiters[j]].queuedGen

\* The histories are up to date.
Observed ==
    /\ health = "up" => lastUp = now
    /\ health # "up" => lastBad = now

\* The memo is about the last completed probe and runs from its end.
Recorded ==
    /\ last.end <= now
    /\ generation = 0 => memo = NoMemo /\ last = NoProbe
    /\ generation # 0 => memo = [of |-> last.of, expires |-> last.end + TTL(last.result),
                                 result |-> last.result, gen |-> generation]

\* What the last probe found was so, then or at most one probe before.
Truthful ==
    /\ last.result = "ready" => lastUp >= last.end
    /\ last.result = "not_ready" /\ last.of # 0 => lastBad >= last.end - CheckTimeout

\* A request that queues has read the generation of the probe before it came.
Informed(r) ==
    /\ req[r].queuedAt <= now
    /\ req[r].queuedGen <= generation
    /\ req[r].queuedGen = generation => last.end <= req[r].queuedAt
    /\ req[r].queuedGen < generation => req[r].queuedAt <= last.end

\* A probe is within its deadline, and waits only for a backend that is parked.
Underway(r) ==
    /\ req[r].queuedAt <= req[r].from
    /\ req[r].from <= now
    /\ now <= req[r].from + CheckTimeout
    /\ now = req[r].from \/ lastBad = now
    /\ pc[r] = "services" /\ req[r].half = "not_ready" /\ req[r].of # 0
       => lastBad >= req[r].from

\* The clock of the last deadline of a request whose probes were cancelled.
Patience(r) == req[r].queuedAt + CheckTimeout * req[r].aborted

\* A request waits for the probe ahead of it, or none, or is about to share
\* what that probe found.
Patient(r) ==
    /\ req[r].of = 1
    /\ pc[r] = "queued" /\ req[r].queuedGen < generation =>
        /\ holder = Nobody
        /\ memo.of = 1
        /\ now <= Patience(r) + CheckTimeout
    /\ pc[r] = "queued" /\ req[r].queuedGen = generation =>
        IF holder = Nobody THEN now <= Patience(r)
                           ELSE req[holder].from <= Patience(r)
    /\ pc[r] \in Probing => req[r].from <= Patience(r)

OneBackend == made <= 1 /\ backend = made

\* TypeOK, in parts.
Values ==
    /\ now \in Nat /\ lastUp \in 0 .. now /\ lastBad \in 0 .. now
    /\ health \in States
    /\ changes \in 0 .. MaxChanges
    /\ made \in 0 .. MaxBackends /\ backend \in {0, made}
    /\ memo \in Memo /\ generation \in Nat
    /\ pc \in [Requests -> PCs]
    /\ req \in [Requests -> Req]
    /\ last \in Probe

Locked ==
    /\ holder \in Requests \cup {Nobody}
    /\ \A r \in Requests : pc[r] \in Probing <=> holder = r

Queued ==
    /\ waiters \in Seq(Requests)
    /\ \A r \in Requests :
        pc[r] = "queued" <=> \E i \in DOMAIN waiters : waiters[i] = r

Creation == \A r \in Requests : pc[r] = "creating" => made # 0

Waiting == \A r \in Requests : pc[r] = "queued" => Informed(r)
Checking == \A r \in Requests : pc[r] \in Probing => Underway(r)
NobodyWaitsLong == OneBackend => \A r \in Requests : pc[r] \in Inside => Patient(r)

IInv ==
    /\ Values /\ Locked /\ Queued /\ QueueInOrder
    /\ Observed /\ Recorded /\ Truthful
    /\ Creation /\ Waiting /\ Checking /\ NobodyWaitsLong
-----------------------------------------------------------------------------
LEMMA TypeParts == TypeOK <=> Values /\ Locked /\ Queued
  BY DEF TypeOK, Values, Locked, Queued

LEMMA Numbers ==
    /\ Window \in Nat /\ FailureWindow \in Nat /\ FailureTTL \in Nat
    /\ CheckTimeout \in Nat /\ CheckTimeout > 0
    /\ \A result \in Answers : TTL(result) \in Nat
    /\ NewReq \in Req /\ NoMemo \in Memo /\ NoProbe \in Probe
  BY ReadinessAssumption DEF FailureTTL, TTL, NewReq, Req, Answers, NoMemo, Memo, NoProbe,
                             Probe

\* A cancelled probe is one more deadline to wait.
LEMMA Rounds ==
    /\ CheckTimeout * 0 = 0
    /\ \A n \in Nat : /\ CheckTimeout * n \in Nat
                      /\ CheckTimeout * (n + 1) = CheckTimeout * n + CheckTimeout
  BY Numbers

LEMMA PatienceType ==
    ASSUME Values, NEW r \in Requests
    PROVE  /\ Patience(r) \in Nat
           /\ req[r].arrived \in Nat /\ req[r].queuedAt \in Nat /\ req[r].queuedGen \in Nat
           /\ req[r].of \in Nat /\ req[r].from \in Nat /\ req[r].aborted \in Nat
           /\ req[r].half \in Answers
  <1>1. req[r] \in Req
    BY DEF Values
  <1>2. req[r].aborted \in Nat /\ req[r].queuedAt \in Nat
    BY <1>1 DEF Req
  <1> QED BY <1>1, <1>2, Rounds DEF Patience, Req

\* p is q without its i-th member.
Shorter(p, q, i) ==
    /\ p \in Seq(Requests) /\ q \in Seq(Requests) /\ i \in DOMAIN q
    /\ Len(p) = Len(q) - 1
    /\ \A j \in DOMAIN p : p[j] = q[IF j < i THEN j ELSE j + 1]

Distinct(q) == \A j, k \in DOMAIN q : j < k => q[j] # q[k]

Holds(q, r) == \E j \in DOMAIN q : q[j] = r

LEMMA Shortened ==
    ASSUME NEW p, NEW q, NEW i, Shorter(p, q, i), Distinct(q)
    PROVE  /\ \A r \in Requests : Holds(p, r) <=> r # q[i] /\ Holds(q, r)
           /\ \A j, k \in DOMAIN p : j < k =>
                \E m, n \in DOMAIN q : m < n /\ p[j] = q[m] /\ p[k] = q[n]
  <1>1. PICK n \in Nat : n = Len(q)
    BY DEF Shorter
  <1>2. DOMAIN q = 1 .. n /\ DOMAIN p = 1 .. n - 1 /\ i \in 1 .. n
    BY <1>1 DEF Shorter
  <1>3. \A j \in 1 .. n - 1 : (IF j < i THEN j ELSE j + 1) \in 1 .. n
                              /\ (IF j < i THEN j ELSE j + 1) # i
    BY <1>2
  <1>4. ASSUME NEW x, NEW j \in DOMAIN p, p[j] = x
        PROVE  x # q[i] /\ \E k \in DOMAIN q : q[k] = x
    <2>1. PICK k \in 1 .. n : k = (IF j < i THEN j ELSE j + 1) /\ k # i
      BY <1>2, <1>3
    <2>2. q[k] = x
      BY <1>4, <2>1 DEF Shorter
    <2>3. q[k] # q[i]
      <3>1. k < i \/ i < k
        BY <2>1, <1>2
      <3> QED BY <3>1, <1>2, <2>1 DEF Distinct
    <2> QED BY <2>2, <2>3, <1>2
  <1>5. ASSUME NEW x, x # q[i], NEW k \in DOMAIN q, q[k] = x
        PROVE  \E j \in DOMAIN p : p[j] = x
    <2>1. CASE k < i
      <3>1. k \in DOMAIN p
        BY <2>1, <1>2
      <3> QED BY <3>1, <2>1, <1>5 DEF Shorter
    <2>2. CASE k > i
      <3>1. k - 1 \in DOMAIN p /\ ~(k - 1 < i) /\ k - 1 + 1 = k
        BY <2>2, <1>2
      <3> QED BY <3>1, <1>5 DEF Shorter
    <2> QED BY <2>1, <2>2, <1>5, <1>2
  <1>6. ASSUME NEW j \in DOMAIN p, NEW k \in DOMAIN p, j < k
        PROVE  \E m, o \in DOMAIN q : m < o /\ p[j] = q[m] /\ p[k] = q[o]
    <2>1. PICK m \in 1 .. n : m = (IF j < i THEN j ELSE j + 1)
      BY <1>2, <1>3
    <2>2. PICK o \in 1 .. n : o = (IF k < i THEN k ELSE k + 1)
      BY <1>2, <1>3
    <2>3. m < o
      BY <2>1, <2>2, <1>2, <1>6
    <2> QED BY <2>1, <2>2, <2>3, <1>2 DEF Shorter
  <1> QED BY <1>4, <1>5, <1>6 DEF Holds

LEMMA TailShortens ==
    ASSUME NEW q \in Seq(Requests), q # <<>>
    PROVE  Shorter(Tail(q), q, 1)
  BY DEF Shorter

LEMMA CutShortens ==
    ASSUME NEW q \in Seq(Requests), NEW i \in DOMAIN q,
           NEW p, p = [j \in 1 .. Len(q) - 1 |-> q[IF j < i THEN j ELSE j + 1]]
    PROVE  Shorter(p, q, i)
  <1>1. PICK n \in Nat : n = Len(q)
    OBVIOUS
  <1>2. i \in 1 .. n /\ n - 1 \in Nat
    BY <1>1
  <1>3. \A j \in 1 .. n - 1 : (IF j < i THEN j ELSE j + 1) \in 1 .. n
    BY <1>2
  <1>4. DOMAIN p = 1 .. n - 1 /\ \A j \in 1 .. n - 1 : p[j] \in Requests
    BY <1>1, <1>3
  <1>5. p \in Seq(Requests) /\ Len(p) = n - 1
    BY <1>1, <1>2, <1>4
  <1> QED BY <1>1, <1>5 DEF Shorter
-----------------------------------------------------------------------------
\* The queue, when r leaves it and the others keep the generation they read.
LEMMA LeavesQueue ==
    ASSUME IInv, NEW r \in Requests, NEW i, Shorter(waiters', waiters, i), waiters[i] = r,
           pc'[r] # "queued",
           \A d \in Requests : d # r => pc'[d] = pc[d] /\ req'[d].queuedGen = req[d].queuedGen
    PROVE  Queued' /\ QueueInOrder'
  <1>1. Distinct(waiters)
    BY DEF IInv, QueueInOrder, Distinct
  <1>2. /\ \A d \in Requests : Holds(waiters', d) <=> d # r /\ Holds(waiters, d)
        /\ \A j, k \in DOMAIN waiters' : j < k =>
             \E m, n \in DOMAIN waiters :
                m < n /\ waiters'[j] = waiters[m] /\ waiters'[k] = waiters[n]
    BY <1>1, Shortened
  <1>3. Queued'
    BY <1>2 DEF IInv, Queued, Holds, Shorter
  <1>4. QueueInOrder'
    <2> SUFFICES ASSUME NEW j \in DOMAIN waiters', NEW k \in DOMAIN waiters', j < k
                 PROVE  /\ waiters'[j] # waiters'[k]
                        /\ req'[waiters'[j]].queuedGen <= req'[waiters'[k]].queuedGen
      BY DEF QueueInOrder
    <2>1. PICK m, n \in DOMAIN waiters :
            m < n /\ waiters'[j] = waiters[m] /\ waiters'[k] = waiters[n]
      BY <1>2
    <2>2. waiters'[j] \in Requests /\ waiters'[k] \in Requests
      BY DEF Shorter
    <2>3. Holds(waiters', waiters'[j]) /\ Holds(waiters', waiters'[k])
      BY DEF Holds
    <2>4. waiters'[j] # r /\ waiters'[k] # r
      BY <1>2, <2>2, <2>3
    <2> QED BY <2>1, <2>2, <2>4 DEF IInv, QueueInOrder
  <1> QED BY <1>3, <1>4

\* The queue, when it and what was read in it stay.
LEMMA QueueStays ==
    ASSUME IInv, waiters' = waiters,
           \A d \in Requests : /\ pc[d] = "queued" <=> pc'[d] = "queued"
                               /\ pc[d] = "queued" => req'[d].queuedGen = req[d].queuedGen
    PROVE  Queued' /\ QueueInOrder'
  <1>1. \A i \in DOMAIN waiters : waiters[i] \in Requests /\ pc[waiters[i]] = "queued"
    BY DEF IInv, Queued
  <1> QED BY <1>1 DEF IInv, Queued, QueueInOrder

\* A request that is not touched has the patience it had.
LEMMA SamePatience ==
    ASSUME NEW r \in Requests, req'[r] = req[r]
    PROVE  Patience(r)' = Patience(r)
  BY DEF Patience

\* A step of one request leaves the others where they are.
LEMMA Moves ==
    ASSUME Values, NEW r \in Requests, NEW c \in PCs, NEW e \in Req,
           pc' = [pc EXCEPT ![r] = c], req' = [req EXCEPT ![r] = e]
    PROVE  /\ pc' \in [Requests -> PCs] /\ req' \in [Requests -> Req]
           /\ pc'[r] = c /\ req'[r] = e
           /\ \A d \in Requests : d # r => pc'[d] = pc[d] /\ req'[d] = req[d]
  BY DEF Values

LEMMA InitHolds == Init => IInv
  <1> SUFFICES ASSUME Init PROVE IInv
    OBVIOUS
  <1>1. Values
    BY Numbers, ReadinessAssumption DEF Init, Values, PCs
  <1>2. Locked /\ Creation /\ Waiting /\ Checking /\ NobodyWaitsLong
    BY ReadinessAssumption DEF Init, Locked, Creation, Waiting, Checking, NobodyWaitsLong, Probing,
                               Inside
  <1>3. Queued /\ QueueInOrder
    BY DEF Init, Queued, QueueInOrder
  <1>4. Observed /\ Recorded /\ Truthful
    BY Numbers DEF Init, Observed, Recorded, Truthful, NoProbe
  <1> QED BY <1>1, <1>2, <1>3, <1>4 DEF IInv
-----------------------------------------------------------------------------
(* One lemma for each action.                                              *)

LEMMA TickKeeps ==
    ASSUME IInv, Tick
    PROVE  IInv'
  <1>1. /\ now' = now + 1 /\ now \in Nat
        /\ UNCHANGED <<health, changes, backend, made, holder, waiters, memo, generation, pc,
                       req, last>>
    BY DEF IInv, Values, Tick, shared, memory
  <1>2. lastUp' \in lastUp .. now' /\ lastBad' \in lastBad .. now'
    BY <1>1 DEF IInv, Values, Tick
  <1>3. Values' /\ Locked' /\ Creation'
    BY <1>1, <1>2 DEF IInv, Values, Locked, Creation
  <1>4. Queued' /\ QueueInOrder'
    BY <1>1, QueueStays
  <1>5. Observed'
    BY <1>1 DEF Observed, Tick
  <1>6. Recorded'
    BY <1>1 DEF IInv, Recorded, Values, Probe
  <1>7. Truthful'
    <2>1. lastUp \in Nat /\ lastBad \in Nat /\ last.end \in Nat
      BY DEF IInv, Values, Probe
    <2> QED BY <1>1, <1>2, <2>1, Numbers DEF IInv, Truthful
  <1>8. Waiting'
    <2> SUFFICES ASSUME NEW r \in Requests, pc[r] = "queued" PROVE Informed(r)'
      BY <1>1 DEF Waiting
    <2>1. Informed(r) /\ req[r].queuedAt \in Nat
      BY PatienceType DEF IInv, Waiting
    <2> QED BY <1>1, <2>1 DEF Informed
  <1>9. Checking'
    <2> SUFFICES ASSUME NEW r \in Requests, pc[r] \in Probing PROVE Underway(r)'
      BY <1>1 DEF Checking
    <2>1. Underway(r) /\ req[r].queuedAt \in Nat /\ req[r].from \in Nat
      BY PatienceType DEF IInv, Checking
    <2>2. health = "parked" /\ ~(now >= req[r].from + CheckTimeout)
      BY DEF Tick, ProbeDue
    <2>3. lastBad' = now'
      BY <1>1, <2>2 DEF Tick
    <2>4. now' <= req[r].from + CheckTimeout
      BY <1>1, <2>1, <2>2, Numbers
    <2> QED BY <1>1, <2>1, <2>3, <2>4 DEF Underway
  <1>10. NobodyWaitsLong'
    <2> SUFFICES ASSUME OneBackend, NEW r \in Requests, pc[r] \in Inside PROVE Patient(r)'
      BY <1>1 DEF NobodyWaitsLong, OneBackend
    <2>1. Patient(r)
      BY DEF IInv, NobodyWaitsLong
    <2>2. Patience(r)' = Patience(r)
      BY <1>1, SamePatience
    <2>3. pc[r] = "queued" => holder # Nobody
      BY DEF IInv, Queued, Tick
    <2> QED BY <1>1, <2>1, <2>2, <2>3 DEF Patient
  <1> QED BY <1>3, <1>4, <1>5, <1>6, <1>7, <1>8, <1>9, <1>10 DEF IInv

LEMMA ChangeKeeps ==
    ASSUME IInv, NEW h \in States, Change(h)
    PROVE  IInv'
  <1>1. /\ health' = h
        /\ UNCHANGED <<now, backend, made, holder, waiters, memo, generation, pc, req, last>>
        /\ h = "up" => lastUp' = now /\ lastBad' = lastBad
        /\ h # "up" => lastUp' = lastUp /\ lastBad' = now
    BY DEF Change, shared, memory
  <1>2. lastUp' \in lastUp .. now' /\ lastBad' \in lastBad .. now' /\ now \in Nat
    BY <1>1 DEF IInv, Values
  <1>3. changes' \in 0 .. MaxChanges
    BY ReadinessAssumption DEF IInv, Values, Change
  <1>4. Values' /\ Locked' /\ Creation'
    BY <1>1, <1>2, <1>3 DEF IInv, Values, Locked, Creation
  <1>5. Queued' /\ QueueInOrder'
    BY <1>1, QueueStays
  <1>6. Observed' /\ Recorded'
    BY <1>1 DEF IInv, Observed, Recorded
  <1>7. Truthful'
    <2>1. lastUp \in Nat /\ lastBad \in Nat /\ last.end \in Nat
      BY DEF IInv, Values, Probe
    <2> QED BY <1>1, <1>2, <2>1, Numbers DEF IInv, Truthful
  <1>8. Waiting'
    BY <1>1 DEF IInv, Waiting, Informed
  <1>9. Checking'
    <2> SUFFICES ASSUME NEW r \in Requests, pc[r] \in Probing PROVE Underway(r)'
      BY <1>1 DEF Checking
    <2>1. Underway(r) /\ req[r].from \in Nat /\ lastBad \in Nat
      BY PatienceType DEF IInv, Checking, Values
    <2>2. lastBad = now => lastBad' = now
      BY <1>1
    <2>3. lastBad >= req[r].from => lastBad' >= req[r].from
      BY <1>2, <2>1
    <2> QED BY <1>1, <2>1, <2>2, <2>3 DEF Underway
  <1>10. NobodyWaitsLong'
    <2> SUFFICES ASSUME OneBackend, NEW r \in Requests, pc[r] \in Inside PROVE Patient(r)'
      BY <1>1 DEF NobodyWaitsLong, OneBackend
    <2>1. Patient(r) /\ Patience(r)' = Patience(r)
      BY <1>1, SamePatience DEF IInv, NobodyWaitsLong
    <2> QED BY <1>1, <2>1 DEF Patient
  <1> QED BY <1>4, <1>5, <1>6, <1>7, <1>8, <1>9, <1>10 DEF IInv

LEMMA DrainKeeps ==
    ASSUME IInv, Drain
    PROVE  IInv'
  <1>1. /\ backend # 0 /\ backend' = 0
        /\ UNCHANGED <<now, health, changes, lastUp, lastBad, made, holder, waiters, memo,
                       generation, pc, req, last>>
    BY DEF Drain, service, memory
  <1>2. Values' /\ Locked' /\ Creation'
    BY <1>1 DEF IInv, Values, Locked, Creation
  <1>3. Queued' /\ QueueInOrder'
    BY <1>1, QueueStays
  <1>4. Observed' /\ Recorded' /\ Truthful' /\ Waiting' /\ Checking'
    BY <1>1 DEF IInv, Observed, Recorded, Truthful, Waiting, Informed, Checking, Underway
  <1>5. NobodyWaitsLong'
    <2>1. made # 0
      BY <1>1 DEF IInv, Values
    <2> QED BY <1>1, <2>1 DEF NobodyWaitsLong, OneBackend
  <1> QED BY <1>2, <1>3, <1>4, <1>5 DEF IInv

\* A request at the end of the queue.
LEMMA Joins ==
    ASSUME NEW q \in Seq(Requests), NEW r \in Requests
    PROVE  /\ Append(q, r) \in Seq(Requests)
           /\ \A d \in Requests : Holds(Append(q, r), d) <=> d = r \/ Holds(q, d)
           /\ \A i, j \in DOMAIN Append(q, r) : i < j =>
                /\ i \in DOMAIN q /\ Append(q, r)[i] = q[i]
                /\ (j \in DOMAIN q /\ Append(q, r)[j] = q[j]) \/ Append(q, r)[j] = r
  <1>1. PICK n \in Nat : n = Len(q)
    OBVIOUS
  <1>2. PICK p : p = Append(q, r)
    OBVIOUS
  <1>3. /\ p \in Seq(Requests) /\ DOMAIN p = 1 .. n + 1 /\ DOMAIN q = 1 .. n
        /\ p[n + 1] = r /\ \A i \in 1 .. n : p[i] = q[i]
    BY <1>1, <1>2
  <1>4. \A d \in Requests : Holds(p, d) <=> d = r \/ Holds(q, d)
    <2> SUFFICES ASSUME NEW d \in Requests PROVE Holds(p, d) <=> d = r \/ Holds(q, d)
      OBVIOUS
    <2>1. \A i \in 1 .. n + 1 : i \in 1 .. n \/ i = n + 1
      BY <1>1
    <2>2. n + 1 \in 1 .. n + 1 /\ \A i \in 1 .. n : i \in 1 .. n + 1
      BY <1>1
    <2> QED BY <1>3, <2>1, <2>2 DEF Holds
  <1>5. ASSUME NEW i \in DOMAIN p, NEW j \in DOMAIN p, i < j
        PROVE  /\ i \in DOMAIN q /\ p[i] = q[i]
               /\ (j \in DOMAIN q /\ p[j] = q[j]) \/ p[j] = r
    <2>1. i \in 1 .. n /\ (j \in 1 .. n \/ j = n + 1)
      BY <1>1, <1>3, <1>5
    <2> QED BY <2>1, <1>3
  <1> QED BY <1>2, <1>3, <1>4, <1>5

LEMMA EntersKeeps ==
    ASSUME IInv, NEW r \in Requests, pc[r] \in {"idle", "creating"}, made # 0,
           NEW since \in Nat, Enters(r, backend, since),
           UNCHANGED <<now, service, shared, holder, memory>>
    PROVE  IInv'
  <1>1. UNCHANGED <<now, health, changes, lastUp, lastBad, backend, made, holder, memo,
                    generation, last>>
    BY DEF service, shared, memory
  <1>2. Values /\ pc[r] \notin Inside
    BY DEF IInv, Inside
  <1>3. PICK e \in Req : /\ req' = [req EXCEPT ![r] = e]
                         /\ e.queuedAt = now /\ e.queuedGen = generation
                         /\ e.of = backend /\ e.aborted = 0
    <2>1. now \in Nat /\ generation \in Nat /\ backend \in Nat
      BY <1>2, ReadinessAssumption DEF Values
    <2>2. PICK e : e = [NewReq EXCEPT !.arrived = since, !.queuedAt = now,
                                      !.queuedGen = generation, !.of = backend]
      OBVIOUS
    <2>3. e \in Req /\ e.queuedAt = now /\ e.queuedGen = generation /\ e.of = backend /\ e.aborted = 0
      BY <2>1, <2>2, Numbers DEF Req, NewReq
    <2> QED BY <2>2, <2>3 DEF Enters
  <1>4. /\ pc' \in [Requests -> PCs] /\ req' \in [Requests -> Req]
        /\ pc'[r] = "queued" /\ req'[r] = e
        /\ \A d \in Requests : d # r => pc'[d] = pc[d] /\ req'[d] = req[d]
    <2>1. "queued" \in PCs /\ pc' = [pc EXCEPT ![r] = "queued"]
      BY DEF PCs, Inside, Enters
    <2> QED BY <2>1, <1>2, <1>3, Moves
  <1>5. Values' /\ Locked' /\ Creation'
    BY <1>1, <1>2, <1>4 DEF IInv, Values, Locked, Creation, Inside, Probing
  <1>6. /\ waiters' \in Seq(Requests)
        /\ \A d \in Requests : Holds(waiters', d) <=> d = r \/ Holds(waiters, d)
        /\ \A i, j \in DOMAIN waiters' : i < j =>
             /\ i \in DOMAIN waiters /\ waiters'[i] = waiters[i]
             /\ (j \in DOMAIN waiters /\ waiters'[j] = waiters[j]) \/ waiters'[j] = r
    BY Joins DEF IInv, Queued, Enters
  <1>7. Queued'
    BY <1>4, <1>6 DEF IInv, Queued, Holds
  <1>8. \A i \in DOMAIN waiters : /\ waiters[i] \in Requests /\ waiters[i] # r
                                  /\ pc[waiters[i]] = "queued"
    BY <1>2 DEF IInv, Queued, Inside
  <1>9. QueueInOrder'
    <2> SUFFICES ASSUME NEW i \in DOMAIN waiters', NEW j \in DOMAIN waiters', i < j
                 PROVE  /\ waiters'[i] # waiters'[j]
                        /\ req'[waiters'[i]].queuedGen <= req'[waiters'[j]].queuedGen
      BY DEF QueueInOrder
    <2>1. i \in DOMAIN waiters /\ waiters'[i] = waiters[i]
      BY <1>6
    <2>2. CASE j \in DOMAIN waiters /\ waiters'[j] = waiters[j]
      BY <1>4, <1>8, <2>1, <2>2 DEF IInv, QueueInOrder
    <2>3. CASE waiters'[j] = r
      BY <1>3, <1>4, <1>8, <2>1, <2>3 DEF IInv, Waiting, Informed
    <2> QED BY <1>6, <2>2, <2>3
  <1>10. Observed' /\ Recorded' /\ Truthful'
    BY <1>1 DEF IInv, Observed, Recorded, Truthful
  <1>11. Waiting'
    <2> SUFFICES ASSUME NEW d \in Requests, pc'[d] = "queued" PROVE Informed(d)'
      BY DEF Waiting
    <2>1. now \in Nat /\ generation \in Nat /\ last.end <= now
      BY DEF IInv, Values, Recorded
    <2>2. CASE d = r
      BY <1>1, <1>3, <1>4, <2>1, <2>2 DEF Informed
    <2>3. CASE d # r
      BY <1>1, <1>4, <2>3 DEF IInv, Waiting, Informed
    <2> QED BY <2>2, <2>3
  <1>12. Checking'
    BY <1>1, <1>4 DEF IInv, Checking, Underway, Probing
  <1>13. NobodyWaitsLong'
    <2> SUFFICES ASSUME OneBackend, NEW d \in Requests, pc'[d] \in Inside PROVE Patient(d)'
      BY <1>1 DEF NobodyWaitsLong, OneBackend
    <2>1. holder # r /\ (holder # Nobody => holder \in Requests /\ req'[holder] = req[holder]
                                            /\ req[holder].from <= now)
      BY <1>2, <1>4 DEF IInv, Locked, Checking, Underway, Inside, Probing
    <2>2. CASE d = r
      <3>1. backend = 1
        BY DEF OneBackend, IInv, Values
      <3>2. Patience(d)' = now /\ now \in Nat
        BY <1>3, <1>4, <2>2, Rounds DEF Patience, IInv, Values
      <3>3. req'[d].queuedGen = generation' /\ generation \in Nat
        BY <1>1, <1>3, <1>4, <2>2 DEF IInv, Values
      <3> QED BY <1>1, <1>3, <1>4, <2>1, <2>2, <3>1, <3>2, <3>3 DEF Patient, Probing
    <2>3. CASE d # r
      <3>1. Patient(d) /\ Patience(d)' = Patience(d)
        BY <1>4, <2>3, SamePatience DEF IInv, NobodyWaitsLong
      <3> QED BY <1>1, <1>4, <2>1, <2>3, <3>1 DEF Patient
    <2> QED BY <2>2, <2>3
  <1> QED BY <1>5, <1>7, <1>9, <1>10, <1>11, <1>12, <1>13 DEF IInv

LEMMA AskReusesKeeps ==
    ASSUME IInv, NEW r \in Requests, AskReuses(r)
    PROVE  IInv'
  <1>1. made # 0 /\ now \in Nat
    BY DEF AskReuses, IInv, Values
  <1> QED BY <1>1, EntersKeeps DEF AskReuses

LEMMA CreatedKeeps ==
    ASSUME IInv, NEW r \in Requests, Created(r)
    PROVE  IInv'
  <1>1. made # 0 /\ req[r].arrived \in Nat
    BY PatienceType DEF Created, IInv, Creation
  <1> QED BY <1>1, EntersKeeps DEF Created

LEMMA AskCreatesKeeps ==
    ASSUME IInv, NEW r \in Requests, AskCreates(r)
    PROVE  IInv'
  <1>1. /\ pc[r] = "idle" /\ backend = 0 /\ made' = made + 1 /\ backend' = made + 1
        /\ made < MaxBackends
        /\ UNCHANGED <<now, health, changes, lastUp, lastBad, holder, waiters, memo, generation,
                       last>>
    BY DEF AskCreates, service, memory
  <1>2. Values
    BY DEF IInv
  <1>3. PICK e \in Req : req' = [req EXCEPT ![r] = e]
    <2>1. now \in Nat
      BY <1>2 DEF Values
    <2> QED BY <2>1, Numbers DEF AskCreates, Req
  <1>4. /\ pc' \in [Requests -> PCs] /\ req' \in [Requests -> Req]
        /\ pc'[r] = "creating"
        /\ \A d \in Requests : d # r => pc'[d] = pc[d] /\ req'[d] = req[d]
    <2>1. "creating" \in PCs /\ pc' = [pc EXCEPT ![r] = "creating"]
      BY DEF PCs, AskCreates
    <2> QED BY <2>1, <1>2, <1>3, Moves
  <1>5. made' \in 1 .. MaxBackends
    BY <1>1, <1>2, ReadinessAssumption DEF Values
  <1>6. Values' /\ Creation'
    BY <1>1, <1>2, <1>4, <1>5 DEF Values, Creation
  <1>7. Locked' /\ Observed' /\ Recorded' /\ Truthful'
    BY <1>1, <1>4 DEF IInv, Locked, Observed, Recorded, Truthful, Probing
  <1>8. Queued' /\ QueueInOrder'
    BY <1>1, <1>4, QueueStays
  <1>9. Waiting' /\ Checking'
    BY <1>1, <1>4 DEF IInv, Waiting, Informed, Checking, Underway, Probing
  <1>10. NobodyWaitsLong'
    <2> SUFFICES ASSUME OneBackend', NEW d \in Requests, pc'[d] \in Inside PROVE Patient(d)'
      BY DEF NobodyWaitsLong
    <2>1. OneBackend /\ d # r
      BY <1>1, <1>2, <1>4 DEF OneBackend, Values, Inside
    <2>2. Patient(d) /\ Patience(d)' = Patience(d)
      BY <1>4, <2>1, SamePatience DEF IInv, NobodyWaitsLong
    <2>3. holder # Nobody => holder \in Requests /\ req'[holder] = req[holder]
      BY <1>1, <1>4 DEF IInv, Locked, Probing
    <2> QED BY <1>1, <1>4, <2>1, <2>2, <2>3 DEF Patient
  <1> QED BY <1>6, <1>7, <1>8, <1>9, <1>10 DEF IInv

\* Who gets the lock leaves the head of the queue, and nobody behind has read
\* an earlier generation.
LEMMA GetsTheLock ==
    ASSUME IInv, NEW r \in Requests, GetsLock(r)
    PROVE  /\ holder = Nobody /\ pc[r] = "queued"
           /\ Shorter(waiters', waiters, 1) /\ waiters[1] = r
           /\ \A d \in Requests : pc[d] = "queued" => req[r].queuedGen <= req[d].queuedGen
           /\ \A d \in Requests : pc[d] \notin Probing
  <1>1. waiters \in Seq(Requests) /\ waiters # <<>> /\ waiters' = Tail(waiters) /\ waiters[1] = r
    BY DEF IInv, Queued, GetsLock
  <1>2. Shorter(waiters', waiters, 1)
    BY <1>1, TailShortens
  <1>3. ASSUME NEW d \in Requests, pc[d] = "queued"
        PROVE  req[r].queuedGen <= req[d].queuedGen
    <2>1. PICK i \in DOMAIN waiters : waiters[i] = d
      BY <1>3 DEF IInv, Queued
    <2>2. 1 \in DOMAIN waiters /\ (i = 1 \/ 1 < i)
      BY <1>1
    <2>3. req[r].queuedGen \in Nat
      BY PatienceType DEF IInv
    <2> QED BY <1>1, <2>1, <2>2, <2>3 DEF IInv, QueueInOrder
  <1>4. \A d \in Requests : pc[d] \notin Probing
    BY ReadinessAssumption DEF IInv, Locked, GetsLock
  <1> QED BY <1>1, <1>2, <1>3, <1>4 DEF GetsLock

LEMMA FromMemoKeeps ==
    ASSUME IInv, NEW r \in Requests, FromMemo(r)
    PROVE  IInv'
  <1>1. UNCHANGED <<now, health, changes, lastUp, lastBad, backend, made, holder, memo,
                    generation, last>>
    BY DEF FromMemo, service, shared, memory
  <1>2. GetsLock(r) /\ Values /\ holder = Nobody
    BY DEF FromMemo, IInv, GetsLock
  <1>3. PICK c \in Answers : pc' = [pc EXCEPT ![r] = c]
    BY <1>2 DEF FromMemo, Ends, Values, Memo
  <1>4. /\ pc' \in [Requests -> PCs] /\ req' \in [Requests -> Req]
        /\ pc'[r] = c /\ c \notin Inside \cup {"creating"}
        /\ \A d \in Requests : d # r => pc'[d] = pc[d] /\ req'[d] = req[d]
    <2>1. c \in PCs /\ req' = [req EXCEPT ![r] = NewReq]
      BY <1>3 DEF PCs, FromMemo, Ends
    <2> QED BY <2>1, <1>2, <1>3, Moves, Numbers DEF Answers, Inside
  <1>5. Values' /\ Creation'
    BY <1>1, <1>2, <1>4 DEF IInv, Values, Creation
  <1>6. Locked'
    BY <1>1, <1>4, <1>2, GetsTheLock, ReadinessAssumption DEF Locked, Inside, Probing
  <1>7. Queued' /\ QueueInOrder'
    BY <1>2, <1>4, GetsTheLock, LeavesQueue DEF Inside
  <1>8. Observed' /\ Recorded' /\ Truthful'
    BY <1>1 DEF IInv, Observed, Recorded, Truthful
  <1>9. Waiting' /\ Checking'
    BY <1>1, <1>4 DEF IInv, Waiting, Informed, Checking, Underway, Probing, Inside
  <1>10. NobodyWaitsLong'
    <2> SUFFICES ASSUME OneBackend, NEW d \in Requests, pc'[d] \in Inside PROVE Patient(d)'
      BY <1>1 DEF NobodyWaitsLong, OneBackend
    <2>1. d # r /\ Patient(d) /\ Patience(d)' = Patience(d)
      BY <1>4, SamePatience DEF IInv, NobodyWaitsLong
    <2> QED BY <1>1, <1>2, <1>4, <2>1 DEF Patient
  <1> QED BY <1>5, <1>6, <1>7, <1>8, <1>9, <1>10 DEF IInv

\* A request whose generation has passed finds a memo it can use, unless the
\* backend was replaced meanwhile.
LEMMA SharesTheProbe ==
    ASSUME IInv, NEW r \in Requests, req[r].queuedGen < generation, memo.of = req[r].of
    PROVE  Reusable(r)
  <1>1. generation # 0
    BY PatienceType DEF IInv
  <1> QED BY <1>1 DEF IInv, Recorded, Reusable

LEMMA StartProbeKeeps ==
    ASSUME IInv, NEW r \in Requests, StartProbe(r)
    PROVE  IInv'
  <1>1. UNCHANGED <<now, health, changes, lastUp, lastBad, backend, made, memo, generation, last>>
    BY DEF StartProbe, service, shared, memory
  <1>2. /\ GetsLock(r) /\ Values /\ holder = Nobody /\ holder' = r /\ pc[r] = "queued"
        /\ now \in Nat /\ ~Reusable(r)
    BY DEF StartProbe, IInv, GetsLock, Values
  <1>3. PICK e \in Req : /\ req' = [req EXCEPT ![r] = e]
                         /\ e.from = now /\ e.of = req[r].of /\ e.queuedAt = req[r].queuedAt
                         /\ e.aborted = req[r].aborted
    <2>1. PICK q \in Req : q = req[r]
      BY <1>2 DEF Values
    <2>2. PICK e : e = [q EXCEPT !.from = now]
      OBVIOUS
    <2>3. /\ e \in Req /\ e.from = now /\ e.of = q.of /\ e.queuedAt = q.queuedAt
          /\ e.aborted = q.aborted
      BY <2>2, <1>2 DEF Req
    <2> QED BY <2>1, <2>2, <2>3 DEF StartProbe
  <1>4. /\ pc' \in [Requests -> PCs] /\ req' \in [Requests -> Req]
        /\ pc'[r] = "health" /\ req'[r] = e
        /\ \A d \in Requests : d # r => pc'[d] = pc[d] /\ req'[d] = req[d]
    <2>1. "health" \in PCs /\ pc' = [pc EXCEPT ![r] = "health"]
      BY DEF PCs, Inside, StartProbe
    <2> QED BY <2>1, <1>2, <1>3, Moves
  <1>5. Values' /\ Creation'
    BY <1>1, <1>2, <1>4 DEF IInv, Values, Creation
  <1>6. \A d \in Requests : pc[d] \notin Probing /\ d # Nobody
    BY <1>2, GetsTheLock, ReadinessAssumption
  <1>7. Locked'
    BY <1>2, <1>4, <1>6 DEF Locked, Probing
  <1>8. Queued' /\ QueueInOrder'
    BY <1>2, <1>4, GetsTheLock, LeavesQueue
  <1>9. Observed' /\ Recorded' /\ Truthful'
    BY <1>1 DEF IInv, Observed, Recorded, Truthful
  <1>10. Waiting'
    BY <1>1, <1>4 DEF IInv, Waiting, Informed
  <1>11. Checking'
    <2> SUFFICES ASSUME NEW d \in Requests, pc'[d] \in Probing PROVE Underway(d)'
      BY DEF Checking
    <2>1. d = r
      BY <1>4, <1>6
    <2>2. e.queuedAt <= now /\ now <= now /\ now <= now + CheckTimeout
      BY <1>2, <1>3, Numbers DEF IInv, Waiting, Informed
    <2>3. pc'[d] = "health" /\ req'[d] = e /\ now' = now
      BY <1>1, <1>4, <2>1
    <2> QED BY <1>3, <2>2, <2>3 DEF Underway
  <1>12. NobodyWaitsLong'
    <2> SUFFICES ASSUME OneBackend, NEW d \in Requests, pc'[d] \in Inside PROVE Patient(d)'
      BY <1>1 DEF NobodyWaitsLong, OneBackend
    <2>1. Patience(d)' = Patience(d)
      BY <1>3, <1>4, SamePatience DEF Patience
    <2>2. Patient(r) /\ Informed(r)
      BY <1>2 DEF IInv, NobodyWaitsLong, Waiting, Inside
    <2>3. req[r].queuedGen = generation
      <3>1. req[r].queuedGen < generation => Reusable(r)
        BY <1>2, <2>2, SharesTheProbe DEF Patient
      <3>2. req[r].queuedGen \in Nat /\ generation \in Nat
        BY <1>2, PatienceType DEF Values
      <3> QED BY <1>2, <2>2, <3>1, <3>2 DEF Informed
    <2>4. CASE d = r
      <3>1. now <= Patience(r)
        BY <1>2, <2>2, <2>3 DEF Patient
      <3> QED BY <1>1, <1>3, <1>4, <2>1, <2>2, <2>4, <3>1 DEF Patient
    <2>5. CASE d # r
      <3>1. pc[d] = "queued" /\ pc'[d] = "queued" /\ req'[d] = req[d]
        BY <1>4, <1>6, <2>5 DEF Inside, Probing
      <3>2. Patient(d) /\ Informed(d)
        BY <3>1 DEF IInv, NobodyWaitsLong, Waiting, Inside
      <3>3. req[d].queuedGen = generation
        <4>1. req[r].queuedGen <= req[d].queuedGen
          BY <1>2, <3>1, GetsTheLock
        <4>2. req[d].queuedGen \in Nat /\ generation \in Nat
          BY <1>2, PatienceType DEF Values
        <4> QED BY <2>3, <3>2, <4>1, <4>2 DEF Informed
      <3>4. now <= Patience(d) /\ req[d].of = 1
        BY <1>2, <3>1, <3>2, <3>3 DEF Patient
      <3>5. holder' # Nobody /\ req'[holder'].from = now /\ req'[d].of = 1
            /\ req'[d].queuedGen = generation' /\ ~(req'[d].queuedGen < generation')
        BY <1>1, <1>2, <1>3, <1>4, <1>6, <3>1, <3>3, <3>4, PatienceType
      <3> QED BY <1>1, <2>1, <3>1, <3>4, <3>5 DEF Patient, Probing
    <2> QED BY <2>4, <2>5
  <1> QED BY <1>5, <1>7, <1>8, <1>9, <1>10, <1>11, <1>12 DEF IInv

LEMMA HealthCheckedKeeps ==
    ASSUME IInv, NEW r \in Requests, HealthChecked(r)
    PROVE  IInv'
  <1>1. UNCHANGED <<now, health, changes, lastUp, lastBad, backend, made, holder, waiters, memo,
                    generation, last>>
    BY DEF HealthChecked, service, shared, memory
  <1>2. /\ Values /\ pc[r] = "health" /\ holder = r /\ r # Nobody
        /\ \A d \in Requests : pc[d] \in Probing => d = r
    BY ReadinessAssumption DEF HealthChecked, IInv, Locked, Probing
  <1>3. PICK e \in Req : /\ req' = [req EXCEPT ![r] = e]
                         /\ e.from = req[r].from /\ e.of = req[r].of
                         /\ e.queuedAt = req[r].queuedAt /\ e.queuedGen = req[r].queuedGen
                         /\ e.aborted = req[r].aborted /\ e.half = HealthSays(r)
    <2>1. PICK q \in Req : q = req[r]
      BY <1>2 DEF Values
    <2>2. PICK h \in Answers : h = HealthSays(r)
      BY DEF HealthSays, Answers
    <2>3. PICK e : e = [q EXCEPT !.half = h]
      OBVIOUS
    <2>4. /\ e \in Req /\ e.from = q.from /\ e.of = q.of /\ e.queuedAt = q.queuedAt
          /\ e.queuedGen = q.queuedGen /\ e.aborted = q.aborted /\ e.half = h
      BY <2>3 DEF Req
    <2> QED BY <2>1, <2>2, <2>3, <2>4 DEF HealthChecked
  <1>4. /\ pc' \in [Requests -> PCs] /\ req' \in [Requests -> Req]
        /\ pc'[r] = "services" /\ req'[r] = e
        /\ \A d \in Requests : d # r => pc'[d] = pc[d] /\ req'[d] = req[d]
    <2>1. "services" \in PCs /\ pc' = [pc EXCEPT ![r] = "services"]
      BY DEF PCs, Inside, HealthChecked
    <2> QED BY <2>1, <1>2, <1>3, Moves
  <1>5. Values' /\ Locked' /\ Creation'
    BY <1>1, <1>2, <1>4 DEF IInv, Values, Locked, Creation, Probing
  <1>6. Queued' /\ QueueInOrder'
    BY <1>1, <1>2, <1>4, QueueStays
  <1>7. Observed' /\ Recorded' /\ Truthful'
    BY <1>1 DEF IInv, Observed, Recorded, Truthful
  <1>8. Waiting'
    BY <1>1, <1>4 DEF IInv, Waiting, Informed
  <1>9. Underway(r) /\ req[r].from \in Nat /\ lastBad \in Nat
    BY <1>2, PatienceType DEF IInv, Checking, Probing, Values
  <1>10. Checking'
    <2> SUFFICES Underway(r)'
      BY <1>2, <1>4 DEF Checking
    <2>1. e.half = "not_ready" /\ e.of # 0 => lastBad = now /\ lastBad >= e.from
      BY <1>3, <1>9 DEF HealthSays, IInv, Observed, Underway
    <2>2. pc'[r] = "services" /\ req'[r] = e /\ now' = now /\ lastBad' = lastBad
      BY <1>1, <1>4
    <2> QED BY <1>3, <1>9, <2>1, <2>2 DEF Underway
  <1>11. NobodyWaitsLong'
    <2> SUFFICES ASSUME OneBackend, NEW d \in Requests, pc'[d] \in Inside PROVE Patient(d)'
      BY <1>1 DEF NobodyWaitsLong, OneBackend
    <2>1. Patience(d)' = Patience(d)
      BY <1>3, <1>4, SamePatience DEF Patience
    <2>2. req'[d].of = req[d].of /\ req'[d].from = req[d].from /\ req'[holder].from = req[holder].from
      BY <1>2, <1>3, <1>4
    <2>3. /\ pc[d] \in Inside
          /\ pc'[d] = "queued" => pc[d] = "queued" /\ req'[d].queuedGen = req[d].queuedGen
          /\ pc'[d] \in Probing => pc[d] \in Probing
      BY <1>2, <1>4 DEF Inside, Probing
    <2>4. Patient(d)
      BY <2>3 DEF IInv, NobodyWaitsLong
    <2> QED BY <1>1, <2>1, <2>2, <2>3, <2>4 DEF Patient
  <1> QED BY <1>5, <1>6, <1>7, <1>8, <1>10, <1>11 DEF IInv

\* A probe that ends with what the backend was like.
LEMMA ConcludesKeeps ==
    ASSUME IInv, NEW r \in Requests, pc[r] \in Probing, NEW result \in Answers,
           Concludes(r, result),
           result = "ready" => lastUp >= now,
           result = "not_ready" /\ req[r].of # 0 => lastBad >= now - CheckTimeout
    PROVE  IInv'
  <1>1. /\ UNCHANGED <<now, health, changes, lastUp, lastBad, backend, made, waiters>>
        /\ holder' = Nobody /\ generation' = generation + 1
        /\ memo' = [of |-> req[r].of, expires |-> now + TTL(result),
                    result |-> result, gen |-> generation + 1]
        /\ last' = [of |-> req[r].of, end |-> now, result |-> result]
    BY DEF Concludes, Remember, service, shared
  <1>2. /\ Values /\ holder = r /\ r # Nobody /\ now \in Nat /\ generation \in Nat
        /\ \A d \in Requests : pc[d] \in Probing => d = r
    BY ReadinessAssumption DEF IInv, Locked, Values
  <1>3. /\ pc' \in [Requests -> PCs] /\ req' \in [Requests -> Req]
        /\ pc'[r] = result /\ pc'[r] \notin Inside \cup {"creating"}
        /\ \A d \in Requests : d # r => pc'[d] = pc[d] /\ req'[d] = req[d]
    <2>1. result \in PCs /\ pc' = [pc EXCEPT ![r] = result] /\ req' = [req EXCEPT ![r] = NewReq]
      BY DEF PCs, Concludes, Ends
    <2> QED BY <2>1, <1>2, Moves, Numbers DEF Answers, Inside
  <1>4. memo' \in Memo /\ last' \in Probe
    BY <1>1, <1>2, PatienceType, Numbers DEF Memo, Probe
  <1>5. Values' /\ Creation'
    BY <1>1, <1>2, <1>3, <1>4 DEF IInv, Values, Creation
  <1>6. Locked'
    BY <1>1, <1>2, <1>3, ReadinessAssumption DEF Locked, Inside, Probing
  <1>7. Queued' /\ QueueInOrder'
    <2>1. pc[r] # "queued"
      BY DEF Probing
    <2> QED BY <1>1, <1>3, <2>1, QueueStays DEF Inside
  <1>8. Observed'
    BY <1>1 DEF IInv, Observed
  <1>9. Recorded'
    BY <1>1, <1>2 DEF Recorded
  <1>10. Truthful'
    BY <1>1 DEF Truthful
  <1>11. Waiting'
    <2> SUFFICES ASSUME NEW d \in Requests, pc'[d] = "queued" PROVE Informed(d)'
      BY DEF Waiting
    <2>1. d # r /\ pc[d] = "queued" /\ req'[d] = req[d]
      BY <1>3 DEF Inside
    <2>2. /\ req[d].queuedAt <= now /\ req[d].queuedGen <= generation
          /\ req[d].queuedGen \in Nat
      BY <2>1, PatienceType DEF IInv, Waiting, Informed
    <2>3. req[d].queuedGen < generation'
      BY <1>1, <1>2, <2>2
    <2>4. last'.end = now /\ now' = now
      BY <1>1
    <2> QED BY <1>1, <1>2, <2>1, <2>2, <2>3, <2>4 DEF Informed
  <1>12. Checking'
    BY <1>2, <1>3 DEF Checking, Inside, Probing
  <1>13. NobodyWaitsLong'
    <2> SUFFICES ASSUME OneBackend, NEW d \in Requests, pc'[d] \in Inside PROVE Patient(d)'
      BY <1>1 DEF NobodyWaitsLong, OneBackend
    <2>1. /\ d # r /\ pc[d] = "queued" /\ pc'[d] = "queued" /\ req'[d] = req[d]
          /\ Patience(d)' = Patience(d)
      BY <1>2, <1>3, SamePatience DEF Inside, Probing
    <2>2. Patient(d) /\ Patient(r) /\ Informed(d) /\ Underway(r)
      BY <2>1 DEF IInv, NobodyWaitsLong, Waiting, Checking, Inside, Probing
    <2>3. req[r].of = 1 /\ req[d].of = 1
      BY <2>2 DEF Patient
    <2>4. req[d].queuedGen \in Nat /\ req[r].from \in Nat /\ Patience(d) \in Nat
      BY <1>2, PatienceType
    <2>5. req[d].queuedGen = generation /\ req[d].queuedGen < generation'
      BY <1>1, <1>2, <2>1, <2>2, <2>4 DEF Patient, Informed
    <2>6. req[r].from <= Patience(d)
      BY <1>2, <2>1, <2>2, <2>5 DEF Patient
    <2>7. now <= Patience(d) + CheckTimeout
      BY <1>2, <2>2, <2>4, <2>6, Numbers DEF Underway
    <2>8. memo'.of = 1 /\ req'[d].queuedGen < generation' /\ ~(req'[d].queuedGen = generation')
      BY <1>1, <2>1, <2>3, <2>4, <2>5
    <2> QED BY <1>1, <2>1, <2>3, <2>7, <2>8 DEF Patient, Probing
  <1> QED BY <1>5, <1>6, <1>7, <1>8, <1>9, <1>10, <1>11, <1>12, <1>13 DEF IInv

\* What list_services found is so at this instant, or was so when the first
\* half failed.
LEMMA ServicesTruth ==
    ASSUME IInv, NEW r \in Requests, pc[r] = "services"
    PROVE  /\ ServicesSay(r) \in Answers
           /\ ServicesSay(r) = "ready" => lastUp >= now
           /\ ServicesSay(r) = "not_ready" /\ req[r].of # 0 => lastBad >= now - CheckTimeout
  <1>1. /\ Underway(r) /\ now \in Nat /\ lastUp \in Nat /\ lastBad \in Nat
        /\ req[r].from \in Nat /\ req[r].half \in Answers
    BY PatienceType DEF IInv, Checking, Probing, Values
  <1>2. ServicesSay(r) \in Answers
    BY <1>1 DEF ServicesSay, Answers
  <1>3. ServicesSay(r) = "ready" => lastUp >= now
    BY <1>1 DEF ServicesSay, IInv, Observed
  <1>4. ASSUME ServicesSay(r) = "not_ready", req[r].of # 0
        PROVE  lastBad >= now - CheckTimeout
    <2>1. CASE health # "up"
      BY <1>1, <2>1, Numbers DEF IInv, Observed
    <2>2. CASE health = "up"
      <3>1. lastBad >= req[r].from /\ now <= req[r].from + CheckTimeout
        BY <1>1, <1>4, <2>2 DEF ServicesSay, Underway
      <3> QED BY <1>1, <3>1, Numbers
    <2> QED BY <2>1, <2>2
  <1> QED BY <1>2, <1>3, <1>4

LEMMA ServicesListedKeeps ==
    ASSUME IInv, NEW r \in Requests, ServicesListed(r)
    PROVE  IInv'
  BY ServicesTruth, ConcludesKeeps DEF ServicesListed, Probing

\* A probe that timed out waited for a parked backend until now.
LEMMA TimeoutTruth ==
    ASSUME IInv, NEW r \in Requests, ProbeDue(r)
    PROVE  lastBad >= now - CheckTimeout
  <1>1. Underway(r) /\ now \in Nat /\ lastBad \in Nat /\ req[r].from \in Nat
    BY PatienceType DEF IInv, Checking, Values, ProbeDue
  <1>2. now # req[r].from
    BY <1>1, Numbers DEF ProbeDue
  <1> QED BY <1>1, <1>2, Numbers DEF Underway

LEMMA TimesOutKeeps ==
    ASSUME IInv, NEW r \in Requests, TimesOut(r)
    PROVE  IInv'
  <1>1. "not_ready" \in Answers /\ "not_ready" # "ready"
    BY DEF Answers
  <1> QED BY <1>1, TimeoutTruth, ConcludesKeeps DEF TimesOut, ProbeDue

\* The holder's probe is cancelled: who waits for it has one more to wait for.
LEMMA CancelHolderKeeps ==
    ASSUME IInv, NEW r \in Requests, Cancel(r), holder = r
    PROVE  IInv'
  <1>1. UNCHANGED <<now, health, changes, lastUp, lastBad, backend, made, waiters, memo,
                    generation, last>>
    BY DEF Cancel, service, shared, memory
  <1>2. /\ Values /\ pc[r] \in Probing /\ holder' = Nobody /\ r # Nobody
        /\ \A d \in Requests : pc[d] \in Probing => d = r
    BY ReadinessAssumption DEF IInv, Locked, Cancel
  <1>3. /\ pc' \in [Requests -> PCs] /\ pc'[r] = "cancelled"
        /\ \A d \in Requests : d # r => pc'[d] = pc[d]
    BY <1>2 DEF Values, Cancel, PCs
  <1>4. req' = [d \in Requests |->
                  CASE pc[d] = "queued" -> [req[d] EXCEPT !.aborted = @ + 1]
                    [] d = r -> NewReq
                    [] OTHER -> req[d]]
    BY DEF Cancel
  <1>5. ASSUME NEW d \in Requests, pc[d] = "queued"
        PROVE  /\ req'[d] \in Req /\ req'[d].of = req[d].of
               /\ req'[d].queuedAt = req[d].queuedAt /\ req'[d].queuedGen = req[d].queuedGen
               /\ req'[d].aborted = req[d].aborted + 1
    <2>1. PICK q \in Req : q = req[d]
      BY <1>2 DEF Values
    <2>2. PICK e : e = [q EXCEPT !.aborted = @ + 1]
      OBVIOUS
    <2>3. /\ e \in Req /\ e.of = q.of /\ e.queuedAt = q.queuedAt /\ e.queuedGen = q.queuedGen
          /\ e.aborted = q.aborted + 1
      BY <2>2 DEF Req
    <2>4. req'[d] = e
      <3>1. req'[d] = CASE pc[d] = "queued" -> [req[d] EXCEPT !.aborted = @ + 1]
                        [] d = r -> NewReq
                        [] OTHER -> req[d]
        BY <1>4
      <3>2. pc[d] = "queued" /\ d # r
        BY <1>2, <1>5 DEF Probing
      <3> QED BY <3>1, <3>2, <2>1, <2>2
    <2> QED BY <2>1, <2>3, <2>4
  <1>6. req' \in [Requests -> Req]
    <2>1. \A d \in Requests : pc[d] # "queued" => req'[d] \in {NewReq, req[d]}
      BY <1>4
    <2>2. \A d \in Requests : req'[d] \in Req
      BY <1>2, <1>5, <2>1, Numbers DEF Values
    <2>3. PICK f : f = req'
      OBVIOUS
    <2>4. f = [d \in Requests |-> f[d]]
      BY <1>4, <2>3
    <2>5. f \in [Requests -> Req]
      BY <2>2, <2>3, <2>4
    <2> QED BY <2>3, <2>5
  <1>7. Values' /\ Creation'
    BY <1>1, <1>2, <1>3, <1>6 DEF IInv, Values, Creation
  <1>8. Locked'
    BY <1>2, <1>3, ReadinessAssumption DEF Locked, Probing
  <1>9. Queued' /\ QueueInOrder'
    <2>1. pc[r] # "queued"
      BY <1>2 DEF Probing
    <2> QED BY <1>1, <1>3, <1>5, <2>1, QueueStays
  <1>10. Observed' /\ Recorded' /\ Truthful'
    BY <1>1 DEF IInv, Observed, Recorded, Truthful
  <1>11. Waiting'
    <2> SUFFICES ASSUME NEW d \in Requests, pc'[d] = "queued" PROVE Informed(d)'
      BY DEF Waiting
    <2>1. pc[d] = "queued"
      BY <1>3
    <2> QED BY <1>1, <1>5, <2>1 DEF IInv, Waiting, Informed
  <1>12. Checking'
    BY <1>2, <1>3 DEF Checking, Probing
  <1>13. NobodyWaitsLong'
    <2> SUFFICES ASSUME OneBackend, NEW d \in Requests, pc'[d] \in Inside PROVE Patient(d)'
      BY <1>1 DEF NobodyWaitsLong, OneBackend
    <2>1. pc[d] = "queued" /\ pc'[d] = "queued"
      BY <1>2, <1>3 DEF Inside, Probing
    <2>2. Patient(d) /\ Informed(d) /\ Underway(r)
      BY <1>2, <2>1 DEF IInv, NobodyWaitsLong, Waiting, Checking, Inside
    <2>3. /\ req[d].queuedGen \in Nat /\ req[r].from \in Nat /\ Patience(d) \in Nat
          /\ req[d].aborted \in Nat /\ req[d].queuedAt \in Nat /\ now \in Nat /\ generation \in Nat
      BY <1>2, PatienceType DEF Values
    <2>4. req[d].queuedGen = generation /\ req[r].from <= Patience(d) /\ req[d].of = 1
      BY <1>2, <2>1, <2>2, <2>3 DEF Patient, Informed
    <2>5. Patience(d)' = Patience(d) + CheckTimeout
      <3>1. CheckTimeout * (req[d].aborted + 1) = CheckTimeout * req[d].aborted + CheckTimeout
        BY <2>3, Rounds
      <3>2. CheckTimeout * req[d].aborted \in Nat
        BY <2>3, Rounds
      <3>3. Patience(d)' = req[d].queuedAt + (CheckTimeout * req[d].aborted + CheckTimeout)
        BY <1>5, <2>1, <3>1 DEF Patience
      <3> QED BY <2>3, <3>2, <3>3, Numbers DEF Patience
    <2>6. now <= Patience(d)'
      BY <2>2, <2>3, <2>4, <2>5, Numbers DEF Underway
    <2>7. req'[d].of = 1 /\ req'[d].queuedGen = generation' /\ ~(req'[d].queuedGen < generation')
      BY <1>1, <1>5, <2>1, <2>3, <2>4
    <2> QED BY <1>1, <1>2, <2>1, <2>6, <2>7 DEF Patient, Probing
  <1> QED BY <1>7, <1>8, <1>9, <1>10, <1>11, <1>12, <1>13 DEF IInv

\* A request that is cancelled while it creates the backend or queues.
LEMMA CancelWaiterKeeps ==
    ASSUME IInv, NEW r \in Requests, Cancel(r), holder # r
    PROVE  IInv'
  <1>1. /\ UNCHANGED <<now, health, changes, lastUp, lastBad, backend, made, holder, memo,
                       generation, last>>
        /\ pc' = [pc EXCEPT ![r] = "cancelled"] /\ req' = [req EXCEPT ![r] = NewReq]
    BY DEF Cancel, service, shared, memory
  <1>2. Values /\ pc[r] \notin Probing
    BY DEF IInv, Locked
  <1>3. /\ pc' \in [Requests -> PCs] /\ req' \in [Requests -> Req]
        /\ pc'[r] = "cancelled"
        /\ \A d \in Requests : d # r => pc'[d] = pc[d] /\ req'[d] = req[d]
    BY <1>1, <1>2, Moves, Numbers DEF PCs
  <1>4. Values' /\ Locked' /\ Creation'
    BY <1>1, <1>2, <1>3 DEF IInv, Values, Locked, Creation, Probing
  <1>5. Queued' /\ QueueInOrder'
    <2>1. CASE Unqueue(r)
      <3>1. PICK i \in DOMAIN waiters :
              /\ waiters[i] = r
              /\ waiters' = [j \in 1 .. Len(waiters) - 1 |->
                               waiters[IF j < i THEN j ELSE j + 1]]
        BY <2>1 DEF Unqueue
      <3>2. Shorter(waiters', waiters, i)
        BY <3>1, CutShortens DEF IInv, Queued
      <3> QED BY <1>3, <3>1, <3>2, LeavesQueue
    <2>2. CASE pc[r] = "creating" /\ UNCHANGED waiters
      BY <1>3, <2>2, QueueStays
    <2> QED BY <2>1, <2>2 DEF Cancel
  <1>6. Observed' /\ Recorded' /\ Truthful'
    BY <1>1 DEF IInv, Observed, Recorded, Truthful
  <1>7. Waiting' /\ Checking'
    BY <1>1, <1>3 DEF IInv, Waiting, Informed, Checking, Underway, Probing
  <1>8. NobodyWaitsLong'
    <2> SUFFICES ASSUME OneBackend, NEW d \in Requests, pc'[d] \in Inside PROVE Patient(d)'
      BY <1>1 DEF NobodyWaitsLong, OneBackend
    <2>1. d # r /\ Patient(d) /\ Patience(d)' = Patience(d)
      BY <1>3, SamePatience DEF IInv, NobodyWaitsLong, Inside
    <2>2. holder # Nobody => holder # r /\ holder \in Requests /\ req'[holder] = req[holder]
      BY <1>3 DEF IInv, Locked, Cancel
    <2> QED BY <1>1, <1>3, <2>1, <2>2 DEF Patient
  <1> QED BY <1>4, <1>5, <1>6, <1>7, <1>8 DEF IInv
-----------------------------------------------------------------------------
LEMMA StutterKeeps ==
    ASSUME IInv, UNCHANGED vars
    PROVE  IInv'
  <1>1. UNCHANGED <<now, health, changes, lastUp, lastBad, backend, made, holder, waiters, memo,
                    generation, pc, req, last>>
    BY DEF vars
  <1>2. Values' /\ Locked' /\ Creation' /\ Queued' /\ QueueInOrder'
    BY <1>1 DEF IInv, Values, Locked, Creation, Queued, QueueInOrder
  <1>3. Observed' /\ Recorded' /\ Truthful' /\ Waiting' /\ Checking' /\ NobodyWaitsLong'
    BY <1>1 DEF IInv, Observed, Recorded, Truthful, Waiting, Informed, Checking, Underway,
                NobodyWaitsLong, OneBackend, Patient, Patience
  <1> QED BY <1>2, <1>3 DEF IInv

LEMMA NextKeeps == IInv /\ [Next]_vars => IInv'
  <1> SUFFICES ASSUME IInv, [Next]_vars PROVE IInv'
    OBVIOUS
  <1>1. CASE Tick
    BY <1>1, TickKeeps
  <1>2. CASE \E h \in States : Change(h)
    BY <1>2, ChangeKeeps
  <1>3. CASE Drain
    BY <1>3, DrainKeeps
  <1>4. ASSUME NEW r \in Requests, AskReuses(r) \/ AskCreates(r) \/ Runs(r) \/ Cancel(r)
        PROVE  IInv'
    <2>1. CASE AskReuses(r)
      BY <2>1, AskReusesKeeps
    <2>2. CASE AskCreates(r)
      BY <2>2, AskCreatesKeeps
    <2>3. CASE Created(r)
      BY <2>3, CreatedKeeps
    <2>4. CASE FromMemo(r)
      BY <2>4, FromMemoKeeps
    <2>5. CASE StartProbe(r)
      BY <2>5, StartProbeKeeps
    <2>6. CASE HealthChecked(r)
      BY <2>6, HealthCheckedKeeps
    <2>7. CASE ServicesListed(r)
      BY <2>7, ServicesListedKeeps
    <2>8. CASE TimesOut(r)
      BY <2>8, TimesOutKeeps
    <2>9. CASE Cancel(r)
      BY <2>9, CancelHolderKeeps, CancelWaiterKeeps
    <2> QED BY <1>4, <2>1, <2>2, <2>3, <2>4, <2>5, <2>6, <2>7, <2>8, <2>9 DEF Runs
  <1>5. CASE UNCHANGED vars
    BY <1>5, StutterKeeps
  <1> QED BY <1>1, <1>2, <1>3, <1>4, <1>5 DEF Next

\* The inductive invariant: the queue is in the order of what its members have
\* read, the histories and the memo agree with the last probe, and nobody is
\* further from an answer than the probe ahead.
THEOREM Invariant == Spec => []IInv
  BY InitHolds, NextKeeps, PTL DEF Spec

\* Every variable keeps its type, whoever probes holds the lock, and the queue
\* of the lock holds exactly the requests that wait for it.
THEOREM TypeCorrect == Spec => []TypeOK
  <1>1. IInv => TypeOK
    BY TypeParts DEF IInv
  <1> QED BY <1>1, Invariant, PTL

\* While the backend is not replaced a request waits for one deadline, and for
\* one more per probe that was cancelled ahead of it.
THEOREM WaitIsBounded == Spec => []WaitBounded
  <1>1. ASSUME IInv PROVE WaitBounded
    <2> SUFFICES ASSUME OneBackend, NEW r \in Requests, pc[r] \in Inside
                 PROVE  now - req[r].queuedAt <= CheckTimeout * (1 + req[r].aborted)
      BY DEF WaitBounded, OneBackend
    <2>1. Values /\ Patient(r)
      BY <1>1 DEF IInv, NobodyWaitsLong
    <2>2. /\ Patience(r) \in Nat /\ now \in Nat /\ req[r].queuedAt \in Nat
          /\ req[r].aborted \in Nat /\ req[r].queuedGen \in Nat /\ generation \in Nat
      BY <2>1, PatienceType DEF Values
    <2>3. ASSUME NEW d \in Requests, pc[d] \in Probing, req[d].from <= Patience(r)
          PROVE  now <= Patience(r) + CheckTimeout
      <3>1. now <= req[d].from + CheckTimeout /\ req[d].from \in Nat
        BY <1>1, <2>1, <2>3, PatienceType DEF IInv, Checking, Underway
      <3> QED BY <2>2, <2>3, <3>1, Numbers
    <2>4. now <= Patience(r) + CheckTimeout
      <3>1. CASE pc[r] \in Probing
        BY <2>1, <2>3, <3>1 DEF Patient
      <3>2. CASE pc[r] = "queued"
        <4>1. req[r].queuedGen < generation \/ req[r].queuedGen = generation
          BY <1>1, <2>2, <3>2 DEF IInv, Waiting, Informed
        <4>2. CASE req[r].queuedGen < generation
          BY <2>1, <3>2, <4>2 DEF Patient
        <4>3. CASE req[r].queuedGen = generation /\ holder = Nobody
          BY <2>1, <2>2, <3>2, <4>3, Numbers DEF Patient
        <4>4. CASE req[r].queuedGen = generation /\ holder # Nobody
          <5>1. holder \in Requests /\ pc[holder] \in Probing
            BY <1>1, <4>4 DEF IInv, Locked
          <5>2. req[holder].from <= Patience(r)
            BY <2>1, <3>2, <4>4 DEF Patient
          <5> QED BY <2>3, <5>1, <5>2
        <4> QED BY <4>1, <4>2, <4>3, <4>4
      <3> QED BY <3>1, <3>2 DEF Inside, Probing
    <2>5. /\ CheckTimeout * (1 + req[r].aborted) = CheckTimeout * req[r].aborted + CheckTimeout
          /\ CheckTimeout * req[r].aborted \in Nat
      <3>1. 1 + req[r].aborted = req[r].aborted + 1
        BY <2>2
      <3> QED BY <2>2, <3>1, Rounds
    <2>6. PICK w \in Nat : w = CheckTimeout * req[r].aborted
      BY <2>5
    <2>7. now <= (req[r].queuedAt + w) + CheckTimeout
      BY <2>4, <2>6 DEF Patience
    <2>8. now - req[r].queuedAt <= w + CheckTimeout
      BY <2>2, <2>6, <2>7, Numbers
    <2> QED BY <2>5, <2>6, <2>8
  <1> QED BY <1>1, Invariant, PTL
-----------------------------------------------------------------------------
\* Where a request that has queued goes, and by which step.
LEMMA WhoMoves ==
    ASSUME IInv, Next, NEW r \in Requests, pc[r] \in Inside, pc'[r] # pc[r]
    PROVE  \/ FromMemo(r) /\ pc'[r] = memo.result
           \/ StartProbe(r) /\ pc'[r] = "health"
           \/ HealthChecked(r) /\ pc'[r] = "services"
           \/ ServicesListed(r) /\ pc'[r] = ServicesSay(r)
           \/ TimesOut(r) /\ pc'[r] = "not_ready"
           \/ Cancel(r) /\ pc'[r] = "cancelled"
  <1>1. pc \in [Requests -> PCs]
    BY DEF IInv, Values
  <1>2. ~Tick /\ ~Drain /\ ~\E h \in States : Change(h)
    BY DEF Tick, Drain, Change
  <1>3. PICK d \in Requests : AskReuses(d) \/ AskCreates(d) \/ Runs(d) \/ Cancel(d)
    BY <1>2 DEF Next
  <1>4. CASE AskReuses(d) \/ AskCreates(d) \/ Created(d)
    BY <1>1, <1>4 DEF AskReuses, AskCreates, Created, Enters, Inside
  <1>5. CASE FromMemo(d)
    BY <1>1, <1>5 DEF FromMemo, Ends
  <1>6. CASE StartProbe(d)
    BY <1>1, <1>6 DEF StartProbe
  <1>7. CASE HealthChecked(d)
    BY <1>1, <1>7 DEF HealthChecked
  <1>8. CASE ServicesListed(d)
    BY <1>1, <1>8 DEF ServicesListed, Concludes, Ends
  <1>9. CASE TimesOut(d)
    BY <1>1, <1>9 DEF TimesOut, Concludes, Ends
  <1>10. CASE Cancel(d)
    BY <1>1, <1>10 DEF Cancel
  <1> QED BY <1>3, <1>4, <1>5, <1>6, <1>7, <1>8, <1>9, <1>10 DEF Runs

\* What a reused memo says of the last probe.
LEMMA MemoSays ==
    ASSUME IInv, NEW r \in Requests, pc[r] = "queued", Reusable(r)
    PROVE  /\ generation # 0 /\ last.of = req[r].of /\ last.result = memo.result
           /\ last.end \in Nat
           /\ last.end + TTL(last.result) > now \/ req[r].queuedAt <= last.end
  <1>1. /\ now \in Nat /\ last.end \in Nat /\ generation \in Nat /\ req[r].queuedGen \in Nat
        /\ Informed(r)
    BY PatienceType DEF IInv, Values, Probe, Waiting
  <1>2. generation # 0
    BY <1>1, ReadinessAssumption DEF IInv, Recorded, Reusable, NoMemo
  <1>3. memo = [of |-> last.of, expires |-> last.end + TTL(last.result),
                result |-> last.result, gen |-> generation]
    BY <1>2 DEF IInv, Recorded
  <1>4. /\ memo.of = last.of /\ memo.expires = last.end + TTL(last.result)
        /\ memo.result = last.result /\ memo.gen = generation
    BY <1>3
  <1>5. memo.gen > req[r].queuedGen => req[r].queuedAt <= last.end
    BY <1>1, <1>4 DEF Informed
  <1> QED BY <1>1, <1>2, <1>4, <1>5 DEF Reusable

\* A second probe of a backend waits for the window of the first one's result,
\* and is made for a request that came after the first one ended.
THEOREM ProbesAreSpaced == Spec => ProbesSpaced
  <1>1. ASSUME IInv, [Next]_vars,
               NEW r \in Requests, pc[r] = "queued", pc'[r] = "health",
               last.of = req[r].of, req[r].of # 0
        PROVE  now >= last.end + TTL(last.result) /\ req[r].queuedAt >= last.end
    <2>1. StartProbe(r)
      <3>1. Next
        BY <1>1 DEF vars
      <3>2. pc[r] \in Inside /\ memo.result # "health" /\ ServicesSay(r) # "health"
        BY <1>1, PatienceType DEF Inside, IInv, Values, Memo, Answers, ServicesSay
      <3> QED BY <1>1, <3>1, <3>2, WhoMoves
    <2>2. /\ now \in Nat /\ last.end \in Nat /\ generation \in Nat /\ req[r].queuedGen \in Nat
          /\ TTL(last.result) \in Nat /\ Informed(r)
      BY <1>1, Numbers, PatienceType DEF IInv, Values, Probe, Waiting
    <2>3. generation # 0
      BY <1>1 DEF IInv, Recorded, NoProbe
    <2>4. memo = [of |-> last.of, expires |-> last.end + TTL(last.result),
                  result |-> last.result, gen |-> generation]
      BY <1>1, <2>3 DEF IInv, Recorded
    <2>5. /\ memo.of = req[r].of /\ memo.expires = last.end + TTL(last.result)
          /\ memo.gen = generation
      BY <1>1, <2>4
    <2>6. ~(memo.expires > now) /\ ~(memo.gen > req[r].queuedGen)
      BY <2>1, <2>5 DEF StartProbe, Reusable
    <2> QED BY <2>2, <2>5, <2>6 DEF Informed
  <1>2. IInv /\ [Next]_vars => [\A r \in Requests :
          /\ pc[r] = "queued" /\ pc'[r] = "health"
          /\ last.of = req[r].of /\ req[r].of # 0
          => /\ now >= last.end + TTL(last.result)
             /\ req[r].queuedAt >= last.end]_vars
    BY <1>1
  <1> QED BY <1>2, Invariant, PTL DEF Spec, ProbesSpaced

\* Nobody is told "ready" of a backend that has not been up for a window, or
\* not since the request came in.
THEOREM ReadyIsNotStale == Spec => NoStaleReady
  <1>1. ASSUME IInv, [Next]_vars, NEW r \in Requests, pc[r] \in Inside, pc'[r] = "ready"
        PROVE  lastUp > now - Window \/ lastUp >= req[r].queuedAt
    <2>1. Next /\ pc'[r] # pc[r]
      BY <1>1 DEF vars, Inside
    <2>2. now \in Nat /\ lastUp \in Nat /\ req[r].queuedAt \in Nat /\ req[r].from \in Nat
      BY <1>1, PatienceType DEF IInv, Values
    <2>3. CASE FromMemo(r) /\ memo.result = "ready"
      <3>1. pc[r] = "queued" /\ Reusable(r)
        BY <2>3 DEF FromMemo, GetsLock
      <3>2. /\ last.result = "ready" /\ last.end \in Nat
            /\ last.end + TTL(last.result) > now \/ req[r].queuedAt <= last.end
        BY <1>1, <2>3, <3>1, MemoSays
      <3>3. lastUp >= last.end /\ TTL(last.result) = Window
        BY <1>1, <3>2 DEF IInv, Truthful, TTL
      <3> QED BY <2>2, <3>2, <3>3, Numbers
    <2>4. CASE ServicesListed(r) /\ ServicesSay(r) = "ready"
      <3>1. pc[r] = "services" /\ lastUp >= now
        BY <1>1, <2>4, ServicesTruth DEF ServicesListed
      <3>2. req[r].queuedAt <= req[r].from /\ req[r].from <= now
        BY <1>1, <3>1 DEF IInv, Checking, Underway, Probing
      <3> QED BY <2>2, <3>1, <3>2
    <2> QED BY <1>1, <2>1, <2>3, <2>4, WhoMoves
  <1>2. IInv /\ [Next]_vars => [\A r \in Requests :
          pc[r] \in Inside /\ pc'[r] = "ready"
          => lastUp > now - Window \/ lastUp >= req[r].queuedAt]_vars
    BY <1>1
  <1> QED BY <1>2, Invariant, PTL DEF Spec, NoStaleReady

\* Nobody is told "not ready" of a backend that was last down longer ago than
\* a probe and the shorter window, or a probe before the request came in.
THEOREM RecoveryIsNoticed == Spec => RecoveryNoticed
  <1>1. ASSUME IInv, [Next]_vars, NEW r \in Requests, pc[r] \in Inside,
               pc'[r] = "not_ready", req[r].of # 0
        PROVE  \/ lastBad > now - FailureTTL - CheckTimeout
               \/ lastBad >= req[r].queuedAt - CheckTimeout
    <2>1. Next /\ pc'[r] # pc[r]
      BY <1>1 DEF vars, Inside
    <2>2. now \in Nat /\ lastBad \in Nat /\ req[r].queuedAt \in Nat /\ req[r].from \in Nat
      BY <1>1, PatienceType DEF IInv, Values
    <2>3. CASE FromMemo(r) /\ memo.result = "not_ready"
      <3>1. pc[r] = "queued" /\ Reusable(r)
        BY <2>3 DEF FromMemo, GetsLock
      <3>2. /\ last.result = "not_ready" /\ last.of # 0 /\ last.end \in Nat
            /\ last.end + TTL(last.result) > now \/ req[r].queuedAt <= last.end
        BY <1>1, <2>3, <3>1, MemoSays
      <3>3. lastBad >= last.end - CheckTimeout /\ TTL(last.result) = FailureTTL
        BY <1>1, <3>2 DEF IInv, Truthful, TTL
      <3> QED BY <2>2, <3>2, <3>3, Numbers
    <2>4. ASSUME pc[r] \in Probing, lastBad >= now - CheckTimeout
          PROVE  lastBad >= req[r].queuedAt - CheckTimeout
      <3>1. req[r].queuedAt <= req[r].from /\ req[r].from <= now
        BY <1>1, <2>4 DEF IInv, Checking, Underway
      <3> QED BY <2>2, <2>4, <3>1, Numbers
    <2>5. CASE ServicesListed(r) /\ ServicesSay(r) = "not_ready"
      BY <1>1, <2>4, <2>5, ServicesTruth DEF ServicesListed, Probing
    <2>6. CASE TimesOut(r)
      BY <1>1, <2>4, <2>6, TimeoutTruth DEF TimesOut, ProbeDue
    <2> QED BY <1>1, <2>1, <2>3, <2>5, <2>6, WhoMoves
  <1>2. IInv /\ [Next]_vars => [\A r \in Requests :
          /\ pc[r] \in Inside /\ pc'[r] = "not_ready"
          /\ req[r].of # 0
          => \/ lastBad > now - FailureTTL - CheckTimeout
             \/ lastBad >= req[r].queuedAt - CheckTimeout]_vars
    BY <1>1
  <1> QED BY <1>2, Invariant, PTL DEF Spec, RecoveryNoticed
=============================================================================
