--------------------------- MODULE RetryTransport ---------------------------
(***************************************************************************)
(* backends/base.py: one LOGICAL backend request through                   *)
(* _RetryingTransport - every attempt, retry sleep and redirect hop and    *)
(* the read of the body - under the one _RequestBudget that follows the    *)
(* request from hop to hop.                                                *)
(*                                                                         *)
(* The backend answers what it likes, when it likes, or never.  The clock  *)
(* counts seconds and the event loop runs a timer that is due before the   *)
(* clock goes on; between two awaits no time passes.                       *)
(***************************************************************************)
EXTENDS Integers

CONSTANTS
    MaxAttempts,  \* _MAX_ATTEMPTS
    MaxSleep,     \* _MAX_RETRY_AFTER_SECONDS
    MaxHops,      \* _MAX_REDIRECT_HOPS
    Total,        \* total_deadline_seconds
    Backoff,      \* _DEFAULT_RETRY_WAIT: the wait after the n-th attempt
    RetryAfters,  \* the Retry-After values a 429 may carry, in seconds
    Cap,          \* max_response_bytes
    WireChunk,    \* the largest chunk aiter_raw hands over
    Expansions,   \* the sizes an encoded chunk may inflate to
    MaxTime       \* bound: the clock stops here

ASSUME RetryAssumption ==
    /\ MaxAttempts \in Nat \ {0}
    /\ MaxSleep \in Nat
    /\ MaxHops \in Nat
    /\ Total \in Nat \ {0}
    /\ Backoff \in [1 .. MaxAttempts -> Nat]
    /\ RetryAfters \subseteq Nat
    /\ Cap \in Nat
    /\ WireChunk \in Nat \ {0}
    /\ Expansions \subseteq Nat
    /\ MaxTime \in Nat

VARIABLES
    now,      \* time.monotonic(), 0 when the request enters the transport
    pc,       \* where the request is
    budget,   \* the _RequestBudget in request.extensions
    attempt,  \* tenacity's attempt_number, counted per hop
    wakeAt,   \* when tenacity's sleep ends
    scope,    \* when the asyncio.timeout scope in force fires
    coding,   \* the Content-Encoding of the current body
    decoded,  \* decoded_total of the current body
    held,     \* whether a response is held whose connection is not released
    outcome,  \* what the request ended with
    sends,    \* history: requests put on the wire
    slept,    \* history: seconds spent in retry sleeps
    sentTo    \* history: the targets they were sent to

vars == <<now, pc, budget, attempt, wakeAt, scope, coding, decoded, held, outcome,
          sends, slept, sentTo>>
-----------------------------------------------------------------------------
\* The target of a hop: the configured origin, another one, or a cloud
\* metadata host (which may also be what the operator configured).
Targets == {"origin", "elsewhere", "metadata"}

Outcomes == {"response", "error", "refused", "redirects",
             "blocked", "deadline", "cancelled"}

Codings == {"identity", "zlib"}

\* The pcs at which the request awaits something under a timeout scope.
Awaiting == {"sending", "sleeping", "body"}

Budget == [deadline : Int, hops : Nat, retriesUsed : Nat, sleepUsed : Nat]

NoBudget == [deadline |-> 0, hops |-> 0, retriesUsed |-> 0, sleepUsed |-> 0]

FreshBudget == [NoBudget EXCEPT !.deadline = now + Total]

\* mutant: every hop gets a budget of its own
BudgetFor_PerHop == FreshBudget

\* _budget_for: created on the first hop, found again on every later one.
BudgetFor == IF budget = NoBudget THEN FreshBudget ELSE budget

\* mutant: the cumulative sleep is not added up
CanAfford_EachSleepAlone(s) ==
    /\ budget.retriesUsed < MaxAttempts - 1
    /\ s <= MaxSleep
    /\ now + s < budget.deadline

\* can_afford_retry
CanAfford(s) ==
    /\ budget.retriesUsed < MaxAttempts - 1
    /\ budget.sleepUsed + s <= MaxSleep
    /\ now + s < budget.deadline

\* spend_retry
SpendRetry(s) ==
    [budget EXCEPT !.retriesUsed = @ + 1, !.sleepUsed = @ + s]

\* remaining_seconds raises at this point.
DeadlinePassed(b) == b.deadline <= now

\* mutant: the wait for a chunk is a read timeout that every chunk renews
ScopeEnd_PerRead(b) == now + Total

\* A scope of remaining_seconds entered now fires at the deadline.
ScopeEnd(b) == b.deadline

\* mutant: the body is read outside any deadline scope
Overdue_NotInBody == pc \in Awaiting \ {"body"} /\ now >= scope

\* The scope around what is awaited is due.
Overdue == pc \in Awaiting /\ now >= scope

End(why) ==
    /\ pc' = "done"
    /\ outcome' = why
    /\ held' = "nothing"
-----------------------------------------------------------------------------
Init ==
    /\ now = 0
    /\ pc = "idle"
    /\ budget = NoBudget
    /\ attempt = 0
    /\ wakeAt = 0
    /\ scope = 0
    /\ coding = "identity"
    /\ decoded = 0
    /\ held = "nothing"
    /\ outcome = "none"
    /\ sends = 0
    /\ slept = 0
    /\ sentTo = {}

\* Time passes while the request waits, and never past a timer that is due.
Tick ==
    /\ now < MaxTime
    /\ pc \in Awaiting
    /\ ~Overdue
    /\ pc = "sleeping" => now < wakeAt
    /\ now' = now + 1
    /\ slept' = IF pc = "sleeping" THEN slept + 1 ELSE slept
    /\ UNCHANGED <<pc, budget, attempt, wakeAt, scope, coding, decoded, held, outcome,
                   sends, sentTo>>
-----------------------------------------------------------------------------
(* handle_async_request up to the first attempt of a hop.                  *)

Hop == [BudgetFor EXCEPT !.hops = @ + 1]

\* The client checks its max_redirects, the same number, just before.
TooManyHops == Hop.hops > MaxHops + 1

Allowed(target) == target = "origin"

Enter(target) ==
    /\ pc \in {"idle", "redirected"}
    /\ pc = "idle" => target # "elsewhere"
    /\ budget' = Hop
    /\ UNCHANGED <<now, wakeAt, coding, decoded, slept>>

TooManyRedirects(target) ==
    /\ Enter(target)
    /\ TooManyHops
    /\ End("redirects")
    /\ UNCHANGED <<attempt, scope, sends, sentTo>>

Blocked(target) ==
    /\ Enter(target)
    /\ ~TooManyHops
    /\ ~Allowed(target)
    /\ End("blocked")
    /\ UNCHANGED <<attempt, scope, sends, sentTo>>

\* remaining_seconds raises before anything is sent.
EnteredLate(target) ==
    /\ Enter(target)
    /\ ~TooManyHops
    /\ Allowed(target)
    /\ DeadlinePassed(Hop)
    /\ End("deadline")
    /\ UNCHANGED <<attempt, scope, sends, sentTo>>

FirstAttempt(target) ==
    /\ Enter(target)
    /\ ~TooManyHops
    /\ Allowed(target)
    /\ ~DeadlinePassed(Hop)
    /\ pc' = "sending"
    /\ attempt' = 1
    /\ scope' = ScopeEnd(Hop)
    /\ sends' = sends + 1
    /\ sentTo' = sentTo \cup {target}
    /\ UNCHANGED <<held, outcome>>
-----------------------------------------------------------------------------
(* An attempt's result and tenacity's decision: the wait is computed       *)
(* first, then whether the budget affords it, then the retry is booked.    *)

\* mutant: the 429 about to be discarded is left to the garbage collector
HeldAfterRetry_Kept(result) == result

\* _spend_budget_before_sleep closes the response tenacity discards.
HeldAfterRetry(result) == "nothing"

Retry(s, result) ==
    /\ CanAfford(s)
    /\ budget' = SpendRetry(s)
    /\ held' = HeldAfterRetry(result)
    /\ pc' = "sleeping"
    /\ wakeAt' = now + s
    /\ UNCHANGED <<now, attempt, scope, coding, decoded, outcome,
                   sends, slept, sentTo>>

GiveUp(why) ==
    /\ End(why)
    /\ UNCHANGED <<now, budget, attempt, wakeAt, scope, coding, decoded,
                   sends, slept, sentTo>>

\* A ConnectError or TimeoutException: the last one is raised as it is.
AttemptFails ==
    /\ pc = "sending"
    /\ \/ Retry(Backoff[attempt], "nothing")
       \/ ~CanAfford(Backoff[attempt]) /\ GiveUp("error")

\* Any other exception of the wrapped transport is not retried.
AttemptFatal ==
    /\ pc = "sending"
    /\ GiveUp("error")

\* The response goes back to httpx with its body unread, unless its declared
\* length or its encoding is refused.
Deliver ==
    \/ /\ pc' = "body"
       /\ held' = "response"
       /\ scope' = ScopeEnd(budget)
       /\ coding' \in Codings
       /\ decoded' = 0
       /\ UNCHANGED <<now, budget, attempt, wakeAt, outcome,
                      sends, slept, sentTo>>
    \/ GiveUp("refused")

\* A 429 without a usable Retry-After is retried after the backoff.
RateLimited ==
    /\ pc = "sending"
    /\ \/ Retry(Backoff[attempt], "response")
       \/ ~CanAfford(Backoff[attempt]) /\ Deliver

\* A 429 with a Retry-After: over the ceiling it is no retry condition.
RateLimitedFor(s) ==
    /\ pc = "sending"
    /\ \/ s <= MaxSleep /\ Retry(s, "response")
       \/ ~(s <= MaxSleep /\ CanAfford(s)) /\ Deliver

\* Any other response.
Answered ==
    /\ pc = "sending"
    /\ Deliver

\* tenacity's sleep ends and the same Request is sent again.
Wake ==
    /\ pc = "sleeping"
    /\ now >= wakeAt
    /\ pc' = "sending"
    /\ attempt' = attempt + 1
    /\ sends' = sends + 1
    /\ UNCHANGED <<now, budget, wakeAt, scope, coding, decoded, held, outcome,
                   slept, sentTo>>
-----------------------------------------------------------------------------
(* _BoundedResponse.aiter_bytes: chunk by chunk until the body ends.       *)

\* mutant: the chunk is inflated whole and counted afterwards
Inflate_Whole(n) == n

\* decompress(raw, max_length): at most one byte over what the cap leaves.
Inflate(n) == IF n <= Cap - decoded THEN n ELSE Cap - decoded + 1

\* The sizes the next chunk may have once decoded.
DecodedSizes ==
    IF coding = "zlib" THEN {Inflate(n) : n \in Expansions} ELSE 1 .. WireChunk

Chunk(n) ==
    /\ pc = "body"
    /\ ~DeadlinePassed(budget)
    /\ decoded' = decoded + n
    /\ \/ /\ decoded + n <= Cap
          /\ scope' = ScopeEnd(budget)
          /\ UNCHANGED <<pc, held, outcome>>
       \/ /\ decoded + n > Cap
          /\ End("refused")
          /\ UNCHANGED scope
    /\ UNCHANGED <<now, budget, attempt, wakeAt, coding, sends, slept, sentTo>>

\* The stream raises (a ReadError, a corrupt encoding).
BodyFails ==
    /\ pc = "body"
    /\ GiveUp("error")

\* The body is complete: httpx follows a redirect or returns the response.
BodyEnds(isRedirect) ==
    /\ pc = "body"
    /\ \/ /\ isRedirect
          /\ pc' = "redirected"
          /\ held' = "nothing"
          /\ UNCHANGED <<now, budget, attempt, wakeAt, scope, coding, decoded, outcome,
                         sends, slept, sentTo>>
       \/ ~isRedirect /\ GiveUp("response")

\* The scope in force fires.
DeadlineFires ==
    /\ Overdue
    /\ GiveUp("deadline")

\* The task that makes the request is cancelled (see QueryCache).
Cancelled ==
    /\ pc \in Awaiting
    /\ GiveUp("cancelled")
-----------------------------------------------------------------------------
EnterHop ==
    \E target \in Targets :
        \/ TooManyRedirects(target)
        \/ Blocked(target)
        \/ EnteredLate(target)
        \/ FirstAttempt(target)

AttemptEnds ==
    \/ AttemptFails
    \/ AttemptFatal
    \/ RateLimited
    \/ \E s \in RetryAfters : RateLimitedFor(s)
    \/ Answered

ReadBody ==
    \/ \E n \in DecodedSizes : Chunk(n)
    \/ BodyFails
    \/ \E isRedirect \in BOOLEAN : BodyEnds(isRedirect)

Terminated == pc = "done" /\ UNCHANGED vars

Next ==
    \/ Tick
    \/ EnterHop
    \/ AttemptEnds
    \/ Wake
    \/ ReadBody
    \/ DeadlineFires
    \/ Cancelled
    \/ Terminated

Spec == Init /\ [][Next]_vars
-----------------------------------------------------------------------------
(* Properties.                                                             *)

\* Every variable has its type and the budget is never overdrawn.
TypeOK ==
    /\ now \in Nat
    /\ pc \in Awaiting \cup {"idle", "redirected", "done"}
    /\ budget \in Budget
    /\ budget.retriesUsed < MaxAttempts
    /\ attempt \in 0 .. MaxAttempts
    /\ wakeAt \in Nat
    /\ scope \in Nat
    /\ coding \in Codings
    /\ decoded \in Nat
    /\ held \in {"nothing", "response"}
    /\ outcome \in Outcomes \cup {"none"}
    /\ sends \in Nat
    /\ slept \in Nat
    /\ sentTo \subseteq Targets

\* However a backend mixes redirects, 429s and failures, one logical request
\* puts at most MaxHops + 1 first attempts and MaxAttempts - 1 retries on the
\* wire: no hop re-arms the retry budget (base.py:523-536).
SendsBounded == sends <= MaxHops + MaxAttempts

\* The seconds one logical request spends asleep, over all its hops, stay
\* within the ceiling that also bounds a single Retry-After.
SleepBounded == slept <= MaxSleep

\* Whatever the backend does, nothing of the request goes on after the total
\* deadline: attempts, sleeps, hops and the body share it (base.py:630-635).
EndsByDeadline == now <= Total

\* A retry sleep that cannot end before the deadline is not taken: the
\* deadline never turns a real last outcome into a wait (base.py:383-389).
NoIdleWait == [][pc = "sleeping" => outcome' # "deadline"]_vars

\* Nothing is ever sent to another origin, whatever the redirects say.
SentOnlyToOrigin == sentTo \subseteq {"origin"}

\* A connection is held only while its body is being read: not during a
\* retry sleep, not by a refused, failed or discarded response.
NoLeakedResponse == held = "response" => pc = "body"

\* Reading a body materialises at most the cap and one wire chunk, however
\* far a chunk would expand (base.py:421-425).
BodyBounded == decoded <= Cap + WireChunk
=============================================================================
