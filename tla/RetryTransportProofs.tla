------------------------ MODULE RetryTransportProofs ------------------------
(***************************************************************************)
(* The bounds of RetryTransport for every number of attempts and hops,     *)
(* every ceiling, deadline, backoff and set of Retry-After values.         *)
(***************************************************************************)
EXTENDS RetryTransport, TLAPS

\* The budget is armed with one deadline, and before that nothing happened.
Armed ==
    /\ pc = "idle" => /\ budget = NoBudget
                      /\ now = 0 /\ attempt = 0 /\ sends = 0 /\ slept = 0
    /\ pc # "idle" => budget.deadline = Total
    /\ pc # "done" => outcome = "none"

\* Every send is paid for by a hop or by a booked retry; a retry is booked
\* before its sleep and sent after it.
SendsPaid ==
    /\ pc # "done" => /\ budget.hops <= MaxHops + 1
                      /\ sends <= budget.hops + budget.retriesUsed
    /\ pc = "sleeping" => /\ sends < budget.hops + budget.retriesUsed
                          /\ attempt <= budget.retriesUsed
    /\ attempt <= budget.retriesUsed + 1
    /\ pc \in Awaiting => attempt >= 1
    /\ SendsBounded

\* Every second asleep was booked before the sleep, which ends in time.
SleepPaid ==
    /\ budget.sleepUsed <= MaxSleep
    /\ slept <= budget.sleepUsed
    /\ pc = "sleeping" => /\ slept + (wakeAt - now) <= budget.sleepUsed
                          /\ now <= wakeAt
                          /\ wakeAt < Total

\* Whatever is awaited is awaited under a scope that fires at the deadline.
Timed ==
    /\ EndsByDeadline
    /\ pc \in Awaiting => scope = Total

\* While a body is read its decoded total is within the cap.
Reading ==
    /\ pc = "body" => decoded <= Cap
    /\ BodyBounded

\* The inductive invariant.
IInv ==
    /\ TypeOK
    /\ Armed
    /\ SendsPaid
    /\ SleepPaid
    /\ Timed
    /\ Reading
    /\ SentOnlyToOrigin
    /\ NoLeakedResponse
-----------------------------------------------------------------------------
USE DEF Awaiting, Targets, Outcomes, Codings

\* The initial state satisfies the invariant.
LEMMA InitIInv == Init => IInv
  <1> SUFFICES ASSUME Init PROVE IInv
    OBVIOUS
  <1> USE RetryAssumption DEF Init
  <1>1. budget \in Budget
    BY DEF NoBudget, Budget
  <1>2. TypeOK
    BY <1>1 DEF TypeOK, NoBudget
  <1>3. Armed /\ SendsPaid /\ SleepPaid
    BY DEF Armed, SendsPaid, SleepPaid, SendsBounded, NoBudget
  <1>4. Timed /\ Reading /\ SentOnlyToOrigin /\ NoLeakedResponse
    BY DEF Timed, EndsByDeadline, Reading, BodyBounded, SentOnlyToOrigin,
           NoLeakedResponse
  <1> QED
    BY <1>2, <1>3, <1>4 DEF IInv

\* The budget of a hop: the one there is with one more hop, or a fresh one.
LEMMA HopBudget ==
    ASSUME IInv, pc \in {"idle", "redirected"}
    PROVE  /\ Hop \in Budget
           /\ Hop.deadline = Total
           /\ Hop.hops = budget.hops + 1
           /\ Hop.retriesUsed = budget.retriesUsed
           /\ Hop.sleepUsed = budget.sleepUsed
  <1> USE RetryAssumption
  <1>1. budget \in Budget /\ now \in Nat
    BY DEF IInv, TypeOK
  <1>2. CASE pc = "idle"
    <2>1. budget = NoBudget /\ now = 0
      BY <1>2 DEF IInv, Armed
    <2>2. now + Total = Total
      BY <2>1
    <2>3. FreshBudget = [deadline |-> Total, hops |-> 0, retriesUsed |-> 0,
                         sleepUsed |-> 0]
      BY <2>2 DEF FreshBudget, NoBudget
    <2>4. Hop = [FreshBudget EXCEPT !.hops = @ + 1]
      BY <2>1 DEF Hop, BudgetFor
    <2>5. Hop = [deadline |-> Total, hops |-> 1, retriesUsed |-> 0,
                 sleepUsed |-> 0]
      BY <2>3, <2>4
    <2> QED
      BY <2>1, <2>5 DEF NoBudget, Budget
  <1>3. CASE pc = "redirected"
    <2>1. budget.deadline = Total /\ budget # NoBudget
      BY <1>3 DEF IInv, Armed, NoBudget
    <2>2. Hop = [budget EXCEPT !.hops = @ + 1]
      BY <2>1 DEF Hop, BudgetFor
    <2> QED
      BY <1>1, <2>1, <2>2 DEF Budget
  <1> QED
    BY <1>2, <1>3
-----------------------------------------------------------------------------
(* Every step preserves the invariant.                                     *)

\* The clock.
LEMMA StepTick == IInv /\ Tick => IInv'
  <1> SUFFICES ASSUME IInv, Tick PROVE IInv'
    OBVIOUS
  <1> USE RetryAssumption DEF IInv, Tick
  <1>1. now' = now + 1 /\ now < Total /\ now \in Nat /\ slept \in Nat
    BY DEF TypeOK, Timed, Overdue
  <1>2. TypeOK'
    BY DEF TypeOK
  <1>3. Armed' /\ SendsPaid'
    BY DEF Armed, SendsPaid, SendsBounded
  <1>4. SleepPaid'
    <2>1. CASE pc = "sleeping"
      <3>1. /\ slept' = slept + 1 /\ now < wakeAt /\ wakeAt \in Nat
            /\ budget.sleepUsed \in Nat
        BY <2>1 DEF TypeOK, Budget
      <3> QED
        BY <1>1, <3>1 DEF SleepPaid
    <2>2. CASE pc # "sleeping"
      BY <2>2 DEF SleepPaid
    <2> QED
      BY <2>1, <2>2
  <1>5. Timed'
    BY <1>1 DEF Timed, EndsByDeadline
  <1>6. Reading' /\ SentOnlyToOrigin' /\ NoLeakedResponse'
    BY DEF Reading, BodyBounded, SentOnlyToOrigin, NoLeakedResponse
  <1> QED
    BY <1>2, <1>3, <1>4, <1>5, <1>6

\* A hop that ends the request: too many, a blocked target, or too late.
LEMMA StepHopEnds ==
    ASSUME NEW target \in Targets, NEW why \in Outcomes,
           IInv, Enter(target), End(why),
           UNCHANGED <<attempt, scope, sends, sentTo>>
    PROVE  IInv'
  <1> USE RetryAssumption DEF IInv, Enter, End
  <1>1. /\ budget' \in Budget /\ budget'.deadline = Total
        /\ budget'.retriesUsed = budget.retriesUsed
        /\ budget'.sleepUsed = budget.sleepUsed
    BY HopBudget
  <1>2. TypeOK'
    BY <1>1 DEF TypeOK
  <1>3. Armed'
    BY <1>1 DEF Armed
  <1>4. SendsPaid' /\ SleepPaid'
    BY <1>1 DEF SendsPaid, SendsBounded, SleepPaid
  <1>5. Timed'
    BY DEF Timed, EndsByDeadline
  <1>6. Reading' /\ SentOnlyToOrigin' /\ NoLeakedResponse'
    BY DEF Reading, BodyBounded, SentOnlyToOrigin, NoLeakedResponse
  <1> QED
    BY <1>2, <1>3, <1>4, <1>5, <1>6

\* A hop that sends.
LEMMA StepFirstAttempt ==
    ASSUME NEW target \in Targets, IInv, FirstAttempt(target)
    PROVE  IInv'
  <1> USE RetryAssumption DEF IInv, FirstAttempt, Enter
  <1>1. /\ budget' \in Budget /\ budget'.deadline = Total
        /\ budget'.retriesUsed = budget.retriesUsed
        /\ budget'.sleepUsed = budget.sleepUsed
        /\ budget'.hops = budget.hops + 1
        /\ scope' = Total
    BY HopBudget DEF ScopeEnd
  <1>2. /\ budget'.hops <= MaxHops + 1
        /\ budget.hops \in Nat /\ budget.retriesUsed \in Nat
        /\ budget.retriesUsed < MaxAttempts
    BY <1>1 DEF TooManyHops, TypeOK, Budget
  <1>3. TypeOK'
    BY <1>1 DEF TypeOK
  <1>4. Armed'
    BY <1>1 DEF Armed
  <1>5. SendsPaid'
    <2>1. sends' <= budget'.hops + budget'.retriesUsed /\ sends' \in Nat
      BY <1>1, <1>2 DEF SendsPaid, TypeOK
    <2> QED
      BY <1>1, <1>2, <2>1 DEF SendsPaid, SendsBounded
  <1>6. SleepPaid' /\ Timed'
    BY <1>1 DEF SleepPaid, Timed, EndsByDeadline
  <1>7. Reading' /\ SentOnlyToOrigin' /\ NoLeakedResponse'
    BY DEF Reading, BodyBounded, SentOnlyToOrigin, NoLeakedResponse, Allowed
  <1> QED
    BY <1>3, <1>4, <1>5, <1>6, <1>7

\* What booking a retry does to a budget.
LEMMA BookedRetry ==
    ASSUME budget \in Budget, NEW s \in Nat
    PROVE  /\ SpendRetry(s) \in Budget
           /\ SpendRetry(s).deadline = budget.deadline
           /\ SpendRetry(s).hops = budget.hops
           /\ SpendRetry(s).retriesUsed = budget.retriesUsed + 1
           /\ SpendRetry(s).sleepUsed = budget.sleepUsed + s
  <1>1. budget.retriesUsed + 1 \in Nat /\ budget.sleepUsed + s \in Nat
    BY DEF Budget
  <1>2. SpendRetry(s) \in Budget
    BY <1>1 DEF SpendRetry, Budget
  <1>3. /\ SpendRetry(s).retriesUsed = budget.retriesUsed + 1
        /\ SpendRetry(s).sleepUsed = budget.sleepUsed + s
    BY DEF SpendRetry
  <1>4. /\ SpendRetry(s).deadline = budget.deadline
        /\ SpendRetry(s).hops = budget.hops
    BY DEF SpendRetry
  <1> QED
    BY <1>2, <1>3, <1>4

\* A retry is booked and its sleep begins.
LEMMA StepRetry ==
    ASSUME NEW s \in Nat, NEW result \in {"nothing", "response"},
           IInv, pc = "sending", Retry(s, result)
    PROVE  IInv'
  <1> USE RetryAssumption DEF IInv, Retry, CanAfford, HeldAfterRetry
  <1>1. budget \in Budget /\ now \in Nat /\ sends \in Nat /\ slept \in Nat
    BY DEF TypeOK
  <1>2. /\ budget' \in Budget /\ budget'.deadline = Total
        /\ budget'.retriesUsed = budget.retriesUsed + 1
        /\ budget'.sleepUsed = budget.sleepUsed + s
        /\ budget'.hops = budget.hops
    <2>1. budget' = SpendRetry(s)
      OBVIOUS
    <2>2. budget.deadline = Total
      BY DEF Armed
    <2> QED
      BY <1>1, <2>2, BookedRetry
  <1>3. budget.retriesUsed \in Nat /\ budget.sleepUsed \in Nat /\ budget.hops \in Nat
    BY <1>1 DEF Budget
  <1>4. TypeOK'
    BY <1>2, <1>3 DEF TypeOK
  <1>5. Armed'
    BY <1>2 DEF Armed
  <1>6. SendsPaid'
    <2>1. /\ attempt' = attempt /\ sends' = sends /\ pc' = "sleeping"
          /\ attempt \in Nat
      BY DEF TypeOK
    <2>2. /\ budget.hops <= MaxHops + 1
          /\ sends <= budget.hops + budget.retriesUsed
          /\ attempt <= budget.retriesUsed + 1
          /\ attempt >= 1
          /\ SendsBounded
      BY DEF SendsPaid
    <2>3. sends' < budget'.hops + budget'.retriesUsed
      BY <1>1, <1>2, <1>3, <2>1, <2>2
    <2>4. sends' <= budget'.hops + budget'.retriesUsed
      BY <1>1, <1>2, <1>3, <2>1, <2>2
    <2>5. attempt' <= budget'.retriesUsed /\ attempt' <= budget'.retriesUsed + 1
      BY <1>2, <1>3, <2>1, <2>2
    <2>6. SendsBounded'
      BY <2>2 DEF SendsBounded
    <2>7. budget'.hops <= MaxHops + 1
      BY <1>2, <2>2
    <2> HIDE DEF IInv, Retry, CanAfford, HeldAfterRetry
    <2> QED
      BY <2>1, <2>2, <2>3, <2>4, <2>5, <2>6, <2>7 DEF SendsPaid
  <1>7. SleepPaid'
    <2>1. wakeAt' = now + s /\ now' = now /\ slept' = slept
      OBVIOUS
    <2>2. wakeAt' < Total
      BY DEF Armed
    <2> QED
      BY <1>1, <1>2, <1>3, <2>1, <2>2 DEF SleepPaid
  <1>8. Timed' /\ Reading' /\ SentOnlyToOrigin' /\ NoLeakedResponse'
    BY DEF Timed, EndsByDeadline, Reading, BodyBounded, SentOnlyToOrigin,
           NoLeakedResponse
  <1> QED
    BY <1>4, <1>5, <1>6, <1>7, <1>8

\* A request that ends without entering another hop.
LEMMA StepGiveUp ==
    ASSUME NEW why \in Outcomes, IInv, pc # "idle", GiveUp(why)
    PROVE  IInv'
  <1> USE RetryAssumption DEF IInv, GiveUp, End
  <1>1. TypeOK'
    BY DEF TypeOK
  <1>2. Armed' /\ SendsPaid' /\ SleepPaid' /\ Timed'
    BY DEF Armed, SendsPaid, SendsBounded, SleepPaid, Timed, EndsByDeadline
  <1>3. Reading' /\ SentOnlyToOrigin' /\ NoLeakedResponse'
    BY DEF Reading, BodyBounded, SentOnlyToOrigin, NoLeakedResponse
  <1> QED
    BY <1>1, <1>2, <1>3

\* A response is delivered or refused.
LEMMA StepDeliver ==
    ASSUME IInv, pc = "sending", Deliver
    PROVE  IInv'
  <1> USE RetryAssumption DEF IInv
  <1>1. CASE GiveUp("refused")
    BY <1>1, StepGiveUp
  <1>2. CASE ~GiveUp("refused")
    <2>1. /\ pc' = "body" /\ held' = "response" /\ decoded' = 0
          /\ coding' \in Codings /\ scope' = Total
          /\ UNCHANGED <<now, budget, attempt, wakeAt, outcome,
                         sends, slept, sentTo>>
      BY <1>2 DEF Deliver, ScopeEnd, Armed
    <2>2. TypeOK'
      BY <2>1 DEF TypeOK
    <2>3. Armed' /\ SendsPaid' /\ SleepPaid' /\ Timed'
      BY <2>1
         DEF Armed, SendsPaid, SendsBounded, SleepPaid, Timed, EndsByDeadline
    <2>4. Reading' /\ SentOnlyToOrigin' /\ NoLeakedResponse'
      BY <2>1 DEF Reading, BodyBounded, SentOnlyToOrigin, NoLeakedResponse
    <2> QED
      BY <2>2, <2>3, <2>4
  <1> QED
    BY <1>1, <1>2

\* Whatever an attempt comes back with.
LEMMA StepAttemptEnds == IInv /\ AttemptEnds => IInv'
  <1> SUFFICES ASSUME IInv, AttemptEnds PROVE IInv'
    OBVIOUS
  <1>1. pc = "sending"
    BY DEF AttemptEnds, AttemptFails, AttemptFatal, RateLimited,
           RateLimitedFor, Answered
  <1>2. Backoff[attempt] \in Nat
    BY <1>1, RetryAssumption DEF IInv, TypeOK, SendsPaid
  <1>3. CASE AttemptFails
    <2>1. Retry(Backoff[attempt], "nothing") \/ GiveUp("error")
      BY <1>3 DEF AttemptFails
    <2> QED
      BY <1>1, <1>2, <2>1, StepRetry, StepGiveUp
  <1>4. CASE AttemptFatal
    BY <1>4, StepGiveUp DEF AttemptFatal
  <1>5. CASE RateLimited
    <2>1. Retry(Backoff[attempt], "response") \/ Deliver
      BY <1>5 DEF RateLimited
    <2> QED
      BY <1>1, <1>2, <2>1, StepRetry, StepDeliver
  <1>6. ASSUME NEW s \in RetryAfters, RateLimitedFor(s)
        PROVE  IInv'
    <2>1. s \in Nat
      BY RetryAssumption
    <2>2. Retry(s, "response") \/ Deliver
      BY <1>6 DEF RateLimitedFor
    <2> QED
      BY <1>1, <2>1, <2>2, StepRetry, StepDeliver
  <1>7. CASE Answered
    BY <1>7, StepDeliver DEF Answered
  <1> QED
    BY <1>3, <1>4, <1>5, <1>6, <1>7 DEF AttemptEnds

\* The retry's send.
LEMMA StepWake == IInv /\ Wake => IInv'
  <1> SUFFICES ASSUME IInv, Wake PROVE IInv'
    OBVIOUS
  <1> USE RetryAssumption DEF IInv, Wake
  <1>1. budget \in Budget /\ attempt \in Nat /\ sends \in Nat
    BY DEF TypeOK
  <1>2. budget.retriesUsed \in Nat /\ budget.hops \in Nat
    BY <1>1 DEF Budget
  <1>3. attempt' \in 0 .. MaxAttempts /\ sends' \in Nat
    BY <1>2 DEF SendsPaid, TypeOK
  <1>4. TypeOK'
    BY <1>3 DEF TypeOK
  <1>5. Armed'
    BY DEF Armed
  <1>6. SendsPaid'
    BY <1>2 DEF SendsPaid, SendsBounded, TypeOK
  <1>7. SleepPaid' /\ Timed'
    BY DEF SleepPaid, Timed, EndsByDeadline
  <1>8. Reading' /\ SentOnlyToOrigin' /\ NoLeakedResponse'
    BY DEF Reading, BodyBounded, SentOnlyToOrigin, NoLeakedResponse
  <1> QED
    BY <1>4, <1>5, <1>6, <1>7, <1>8

\* A chunk fits, or is the one byte or wire chunk too many.
LEMMA StepChunk ==
    ASSUME NEW n \in DecodedSizes, IInv, Chunk(n)
    PROVE  IInv'
  <1> USE RetryAssumption DEF IInv, Chunk
  <1>1. decoded \in Nat /\ decoded <= Cap /\ pc = "body"
    BY DEF TypeOK, Reading
  <1>2. n \in Nat /\ decoded + n <= Cap + WireChunk
    <2>1. CASE coding = "zlib"
      <3>1. PICK m \in Expansions : n = Inflate(m)
        BY <2>1 DEF DecodedSizes
      <3> QED
        BY <1>1, <3>1 DEF Inflate
    <2>2. CASE coding # "zlib"
      BY <1>1, <2>2 DEF DecodedSizes
    <2> QED
      BY <2>1, <2>2
  <1>3. decoded' \in Nat /\ decoded' <= Cap + WireChunk
    BY <1>1, <1>2
  <1>4. CASE decoded + n <= Cap
    <2>1. scope' = Total /\ UNCHANGED <<pc, held, outcome>>
      BY <1>4 DEF ScopeEnd, Armed
    <2>2. TypeOK'
      BY <1>3, <2>1 DEF TypeOK
    <2>3. Armed' /\ SendsPaid' /\ SleepPaid' /\ Timed'
      BY <2>1
         DEF Armed, SendsPaid, SendsBounded, SleepPaid, Timed, EndsByDeadline
    <2>4. Reading' /\ SentOnlyToOrigin' /\ NoLeakedResponse'
      BY <1>4 DEF Reading, BodyBounded, SentOnlyToOrigin, NoLeakedResponse
    <2> QED
      BY <2>2, <2>3, <2>4
  <1>5. CASE ~(decoded + n <= Cap)
    <2>1. pc' = "done" /\ outcome' = "refused" /\ held' = "nothing"
          /\ scope' = scope
      BY <1>5 DEF End
    <2>2. TypeOK'
      BY <2>1 DEF TypeOK
    <2>3. Armed' /\ SendsPaid' /\ SleepPaid' /\ Timed'
      BY <2>1
         DEF Armed, SendsPaid, SendsBounded, SleepPaid, Timed, EndsByDeadline
    <2>4. Reading' /\ SentOnlyToOrigin' /\ NoLeakedResponse'
      BY <1>3, <2>1
         DEF Reading, BodyBounded, SentOnlyToOrigin, NoLeakedResponse
    <2> QED
      BY <2>2, <2>3, <2>4
  <1> QED
    BY <1>4, <1>5

\* The rest of the body read.
LEMMA StepReadBody == IInv /\ ReadBody => IInv'
  <1> SUFFICES ASSUME IInv, ReadBody PROVE IInv'
    OBVIOUS
  <1>1. ASSUME NEW n \in DecodedSizes, Chunk(n) PROVE IInv'
    BY <1>1, StepChunk
  <1>2. CASE BodyFails
    BY <1>2, StepGiveUp DEF BodyFails
  <1>3. ASSUME NEW isRedirect \in BOOLEAN, BodyEnds(isRedirect) PROVE IInv'
    <2>1. CASE GiveUp("response")
      BY <1>3, <2>1, StepGiveUp DEF BodyEnds
    <2>2. CASE ~GiveUp("response")
      <3>1. /\ pc = "body" /\ pc' = "redirected" /\ held' = "nothing"
            /\ UNCHANGED <<now, budget, attempt, wakeAt, scope, coding,
                           decoded, outcome, sends, slept, sentTo>>
        BY <1>3, <2>2 DEF BodyEnds
      <3>2. TypeOK'
        BY <3>1 DEF IInv, TypeOK
      <3>3. Armed' /\ SendsPaid' /\ SleepPaid' /\ Timed'
        BY <3>1
           DEF IInv, Armed, SendsPaid, SendsBounded, SleepPaid, Timed,
               EndsByDeadline
      <3>4. Reading' /\ SentOnlyToOrigin' /\ NoLeakedResponse'
        BY <3>1
           DEF IInv, Reading, BodyBounded, SentOnlyToOrigin, NoLeakedResponse
      <3> QED
        BY <3>2, <3>3, <3>4 DEF IInv
    <2> QED
      BY <2>1, <2>2
  <1> QED
    BY <1>1, <1>2, <1>3 DEF ReadBody

\* A step that changes nothing.
LEMMA StepStutter == IInv /\ UNCHANGED vars => IInv'
  BY DEF vars, IInv, TypeOK, Armed, SendsPaid, SendsBounded, SleepPaid, Timed,
         EndsByDeadline, Reading, BodyBounded, SentOnlyToOrigin,
         NoLeakedResponse

\* Every step of the specification preserves the invariant.
LEMMA NextIInv == IInv /\ [Next]_vars => IInv'
  <1> SUFFICES ASSUME IInv, [Next]_vars PROVE IInv'
    OBVIOUS
  <1>1. CASE Tick
    BY <1>1, StepTick
  <1>2. CASE EnterHop
    <2>1. PICK target \in Targets :
             \/ TooManyRedirects(target)
             \/ Blocked(target)
             \/ EnteredLate(target)
             \/ FirstAttempt(target)
      BY <1>2 DEF EnterHop
    <2>2. CASE TooManyRedirects(target)
      BY <2>2, StepHopEnds DEF TooManyRedirects
    <2>3. CASE Blocked(target)
      BY <2>3, StepHopEnds DEF Blocked
    <2>4. CASE EnteredLate(target)
      BY <2>4, StepHopEnds DEF EnteredLate
    <2>5. CASE FirstAttempt(target)
      BY <2>5, StepFirstAttempt
    <2> QED
      BY <2>1, <2>2, <2>3, <2>4, <2>5
  <1>3. CASE AttemptEnds
    BY <1>3, StepAttemptEnds
  <1>4. CASE Wake
    BY <1>4, StepWake
  <1>5. CASE ReadBody
    BY <1>5, StepReadBody
  <1>6. CASE DeadlineFires
    BY <1>6, StepGiveUp DEF DeadlineFires, Overdue
  <1>7. CASE Cancelled
    BY <1>7, StepGiveUp DEF Cancelled
  <1>8. CASE UNCHANGED vars
    BY <1>8, StepStutter
  <1> QED
    BY <1>1, <1>2, <1>3, <1>4, <1>5, <1>6, <1>7, <1>8 DEF Next, Terminated

\* The invariant holds in every reachable state.
LEMMA Invariant == Spec => []IInv
  BY InitIInv, NextIInv, PTL DEF Spec
-----------------------------------------------------------------------------
(* The theorems.                                                           *)

\* Type correctness; the retry budget of base.py:360-392 is never overdrawn.
THEOREM TypeCorrect == Spec => []TypeOK
  <1>1. IInv => TypeOK
    BY DEF IInv
  <1> QED
    BY <1>1, Invariant, PTL

\* One logical request sends at most MaxHops + MaxAttempts times, whatever
\* its hops answer.
THEOREM SendsAreBounded == Spec => []SendsBounded
  <1>1. IInv => SendsBounded
    BY DEF IInv, SendsPaid
  <1> QED
    BY <1>1, Invariant, PTL

\* Its retry sleeps add up to at most MaxSleep over all its hops.
THEOREM SleepIsBounded == Spec => []SleepBounded
  <1>1. IInv => SleepBounded
    <2> SUFFICES ASSUME IInv PROVE SleepBounded
      OBVIOUS
    <2>1. budget \in Budget /\ slept \in Nat /\ MaxSleep \in Nat
      BY RetryAssumption DEF IInv, TypeOK
    <2>2. budget.sleepUsed \in Nat
      BY <2>1 DEF Budget
    <2> QED
      BY <2>1, <2>2 DEF IInv, SleepPaid, SleepBounded
  <1> QED
    BY <1>1, Invariant, PTL

\* No part of it goes on after the total deadline.
THEOREM DeadlineHolds == Spec => []EndsByDeadline
  <1>1. IInv => EndsByDeadline
    BY DEF IInv, Timed
  <1> QED
    BY <1>1, Invariant, PTL

\* Nothing is sent to an origin other than the configured one.
THEOREM OriginIsPinned == Spec => []SentOnlyToOrigin
  <1>1. IInv => SentOnlyToOrigin
    BY DEF IInv
  <1> QED
    BY <1>1, Invariant, PTL

\* No response is held held outside the read of its body.
THEOREM ConnectionsReturn == Spec => []NoLeakedResponse
  <1>1. IInv => NoLeakedResponse
    BY DEF IInv
  <1> QED
    BY <1>1, Invariant, PTL

\* A body costs at most the cap and one wire chunk of memory.
THEOREM BodyIsBounded == Spec => []BodyBounded
  <1>1. IInv => BodyBounded
    BY DEF IInv, Reading
  <1> QED
    BY <1>1, Invariant, PTL

\* The deadline never strikes during a retry sleep: only a sleep that ends
\* before it is ever begun.
THEOREM NoSleepIsInVain == Spec => NoIdleWait
  <1>1. IInv /\ [Next]_vars => [pc = "sleeping" => outcome' # "deadline"]_vars
    <2> SUFFICES ASSUME IInv, Next, pc = "sleeping", outcome' = "deadline"
                 PROVE  FALSE
      OBVIOUS
    <2>1. /\ outcome = "none" /\ now \in Nat /\ wakeAt \in Nat /\ Total \in Nat
          /\ now <= wakeAt /\ wakeAt < Total /\ scope = Total
      BY DEF IInv, TypeOK, Armed, SleepPaid, Timed
    <2>2. ~DeadlineFires
      BY <2>1 DEF DeadlineFires, Overdue
    <2>3. ~EnterHop
      BY DEF EnterHop, TooManyRedirects, Blocked, EnteredLate, FirstAttempt,
             Enter
    <2>4. ~AttemptEnds
      BY DEF AttemptEnds, AttemptFails, AttemptFatal, RateLimited,
             RateLimitedFor, Answered
    <2>5. ~ReadBody
      BY DEF ReadBody, Chunk, BodyFails, BodyEnds
    <2>6. ~Tick /\ ~Wake /\ ~Cancelled /\ ~Terminated
      BY <2>1 DEF Tick, Wake, Cancelled, GiveUp, End, Terminated
    <2> QED
      BY <2>2, <2>3, <2>4, <2>5, <2>6 DEF Next
  <1> QED
    BY <1>1, Invariant, PTL DEF Spec, NoIdleWait
=============================================================================
