--------------------------- MODULE BackendLifecycle ---------------------------
(***************************************************************************)
(* server.py: the two shared backends, created by the first call that      *)
(* needs one and closed by the shutdown drain; backends/base.py: the HTTP  *)
(* client each of them creates on demand and the loop that closes it.      *)
(*                                                                         *)
(* Calls run in tasks of the MCP session manager, which the drain runs     *)
(* inside of: they go on while it sleeps and closes.  A step is what a     *)
(* task runs between two awaits.                                           *)
(***************************************************************************)
EXTENDS Integers, Sequences

CONSTANTS
    Slots,         \* _backend and _secondary_backend
    Calls,         \* the tool calls and /ready requests
    DrainSeconds,  \* drain_seconds
    CloseTimeout,  \* close_timeout_seconds
    MaxTime,       \* bound: the clock stops here
    MaxBackends,   \* bound: how many backends are created
    MaxClients     \* bound: how many clients are opened

ASSUME LifecycleAssumption ==
    /\ DrainSeconds \in Nat
    /\ CloseTimeout \in Nat
    /\ MaxTime \in Nat
    /\ MaxBackends \in Nat
    /\ MaxClients \in Nat

VARIABLES
    now,       \* the clock
    current,   \* per slot, the global: 0 for None, or which backend
    slotOf,    \* the backends created so far, each by its slot
    client,    \* per backend, _client: 0 for None, or which client
    clients,   \* the clients opened so far
    pc,        \* per call, where it is
    slot,      \* per call, which backend it asks for
    mine,      \* per call, the backend it was given, 0 for None
    drain,     \* where _drain_and_close_backend is
    deadline,  \* when its sleep, then its closes, must end
    closer,    \* per backend, where its close() is
    target     \* per backend, client_to_close

vars == <<now, current, slotOf, client, clients, pc, slot, mine, drain,
          deadline, closer, target>>
httpx == <<client, clients>>
callers == <<pc, slot, mine>>
shutdown == <<drain, deadline, closer, target>>
-----------------------------------------------------------------------------
Backends == 1 .. MaxBackends
Client == [of : Backends, state : {"open", "closing", "closed"}]
Closing == {"loop", "aclose", "cache"}
Closers == {"none", "done", "failed", "abandoned"} \cup Closing

Created == 1 .. Len(slotOf)

\* is_closed, true from the first instant of aclose on
IsClosed(i) == clients[i].state # "open"

\* The drain is over its sleep: the globals have been taken and forgotten.
Taken == drain \in {"closing", "done"}

\* mutant: only the network is waited for with a timeout
CloseDue_OnlyAclose(b) == closer[b] = "aclose" /\ now >= deadline

\* asyncio.wait_for around the close of b is due.
CloseDue(b) == closer[b] \in Closing /\ now >= deadline
-----------------------------------------------------------------------------
Init ==
    /\ now = 0
    /\ current = [s \in Slots |-> 0]
    /\ slotOf = <<>>
    /\ client = [b \in Backends |-> 0]
    /\ clients = <<>>
    /\ pc = [c \in Calls |-> "idle"]
    /\ slot \in [Calls -> Slots]
    /\ mine = [c \in Calls |-> 0]
    /\ drain = "serving"
    /\ deadline = 0
    /\ closer = [b \in Backends |-> "none"]
    /\ target = [b \in Backends |-> 0]

\* Time passes while the drain sleeps or a close waits for the network.
Tick ==
    /\ now < MaxTime
    /\ drain = "sleeping" => now < deadline
    /\ drain = "closing" => \E b \in Backends : closer[b] \in Closing
    /\ \A b \in Backends : closer[b] # "loop" /\ ~CloseDue(b)
    /\ now' = now + 1
    /\ UNCHANGED <<current, slotOf, httpx, callers, shutdown>>
-----------------------------------------------------------------------------
(* _get_backend, _get_secondary_backend and the client property.           *)

\* mutant: the global is set when the health check is over
Published_Later(s) == [current EXCEPT ![s] = 0]

\* The global the creation leaves behind.
Published(s) == [current EXCEPT ![s] = Len(slotOf) + 1]

\* The global is set before the health check is awaited: a second call that
\* comes meanwhile finds the backend.
GetCreates(c) ==
    /\ pc[c] = "idle"
    /\ drain # "done"
    /\ current[slot[c]] = 0
    /\ Len(slotOf) < MaxBackends
    /\ slotOf' = Append(slotOf, slot[c])
    /\ current' = Published(slot[c])
    /\ pc' = [pc EXCEPT ![c] = "checking"]
    /\ mine' = [mine EXCEPT ![c] = Len(slotOf) + 1]
    /\ UNCHANGED <<now, httpx, slot, shutdown>>

GetReuses(c) ==
    /\ pc[c] = "idle"
    /\ drain # "done"
    /\ current[slot[c]] # 0
    /\ pc' = [pc EXCEPT ![c] = "using"]
    /\ mine' = [mine EXCEPT ![c] = current[slot[c]]]
    /\ UNCHANGED <<now, current, slotOf, httpx, slot, shutdown>>

\* The health check is over, healthy or not: the global is read once more.
HealthChecked(c) ==
    /\ pc[c] = "checking"
    /\ pc' = [pc EXCEPT ![c] = "using"]
    /\ mine' = [mine EXCEPT ![c] = current[slot[c]]]
    /\ UNCHANGED <<now, current, slotOf, httpx, slot, shutdown>>

\* A request of the health check or of the call opens a client if there is
\* none, or if the one there is has begun to close.
OpensClient(c) ==
    LET b == mine[c] IN
    /\ pc[c] \in {"checking", "using"}
    /\ b # 0
    /\ client[b] # 0 => IsClosed(client[b])
    /\ Len(clients) < MaxClients
    /\ clients' = Append(clients, [of |-> b, state |-> "open"])
    /\ client' = [client EXCEPT ![b] = Len(clients) + 1]
    /\ UNCHANGED <<now, current, slotOf, callers, shutdown>>

\* The call returns, fails or is cancelled.
Finish(c) ==
    /\ pc[c] \in {"checking", "using"}
    /\ pc' = [pc EXCEPT ![c] = "over"]
    /\ mine' = [mine EXCEPT ![c] = 0]
    /\ UNCHANGED <<now, current, slotOf, httpx, slot, shutdown>>
-----------------------------------------------------------------------------
(* _drain_and_close_backend.                                               *)

DrainStarts ==
    /\ drain = "serving"
    /\ drain' = "sleeping"
    /\ deadline' = now + DrainSeconds
    /\ UNCHANGED <<now, current, slotOf, httpx, callers, closer, target>>

\* What is taken to be closed: every backend in a global by now.
ToClose == {b \in Created : current[slotOf[b]] = b}

\* The globals are taken and forgotten in one step; the closes start together.
DrainTakes ==
    /\ drain = "sleeping"
    /\ now >= deadline
    /\ drain' = "closing"
    /\ deadline' = now + CloseTimeout
    /\ current' = [s \in Slots |-> 0]
    /\ closer' = [b \in Backends |-> IF b \in ToClose THEN "loop" ELSE "none"]
    /\ UNCHANGED <<now, slotOf, httpx, callers, target>>

DrainEnds ==
    /\ drain = "closing"
    /\ \A b \in Backends : closer[b] \notin Closing
    /\ drain' = "done"
    /\ UNCHANGED <<now, current, slotOf, httpx, callers, deadline, closer,
                   target>>
-----------------------------------------------------------------------------
(* BaseBackend.close, bounded by asyncio.wait_for.                         *)

\* The task of close() starts: aclose flips is_closed, then awaits the network.
CloseStarts(b) ==
    /\ closer[b] = "loop"
    /\ \/ /\ client[b] = 0
          /\ closer' = [closer EXCEPT ![b] = "cache"]
          /\ UNCHANGED <<clients, target>>
       \/ /\ client[b] # 0
          /\ closer' = [closer EXCEPT ![b] = "aclose"]
          /\ target' = [target EXCEPT ![b] = client[b]]
          /\ clients' = [clients EXCEPT ![client[b]].state = "closing"]
    /\ UNCHANGED <<now, current, slotOf, client, callers, drain, deadline>>

\* self._client is client_to_close
StillThere(b) == client[b] = target[b]

\* mutant: one turn only, a replacement is left to itself
CloseOn_Once(b) ==
    /\ clients' = [clients EXCEPT ![target[b]].state = "closed"]
    /\ closer' = [closer EXCEPT ![b] = "cache"]
    /\ UNCHANGED target

\* A replacement was opened meanwhile: the next turn closes that one.
CloseOn(b) ==
    /\ target' = [target EXCEPT ![b] = client[b]]
    /\ clients' = [clients EXCEPT ![target[b]].state = "closed",
                                  ![client[b]].state = "closing"]
    /\ UNCHANGED closer

AcloseReturns(b) ==
    /\ closer[b] = "aclose"
    /\ \/ /\ StillThere(b)
          /\ client' = [client EXCEPT ![b] = 0]
          /\ clients' = [clients EXCEPT ![target[b]].state = "closed"]
          /\ closer' = [closer EXCEPT ![b] = "cache"]
          /\ UNCHANGED target
       \/ /\ ~StillThere(b)
          /\ CloseOn(b)
          /\ UNCHANGED client
    /\ UNCHANGED <<now, current, slotOf, callers, drain, deadline>>

CloserEnds(b, how) ==
    /\ closer' = [closer EXCEPT ![b] = how]
    /\ UNCHANGED <<now, current, slotOf, httpx, callers, drain, deadline,
                   target>>

AcloseFails(b) == closer[b] = "aclose" /\ CloserEnds(b, "failed")

\* The query cache has been cleared, if there is one.
CacheCleared(b) == closer[b] = "cache" /\ CloserEnds(b, "done")

\* The close is abandoned, wherever it hangs.
CloseTimesOut(b) == CloseDue(b) /\ CloserEnds(b, "abandoned")
-----------------------------------------------------------------------------
Next ==
    \/ Tick
    \/ DrainStarts
    \/ DrainTakes
    \/ DrainEnds
    \/ \E c \in Calls :
        \/ GetCreates(c)
        \/ GetReuses(c)
        \/ HealthChecked(c)
        \/ OpensClient(c)
        \/ Finish(c)
    \/ \E b \in Backends :
        \/ CloseStarts(b)
        \/ AcloseReturns(b)
        \/ AcloseFails(b)
        \/ CacheCleared(b)
        \/ CloseTimesOut(b)

Spec == Init /\ [][Next]_vars
-----------------------------------------------------------------------------
(* Properties.                                                             *)

\* Every variable has its type; a global refers to a backend of its slot and
\* a backend to a client of its own.
TypeOK ==
    /\ now \in Nat /\ deadline \in Nat
    /\ slotOf \in Seq(Slots) /\ Len(slotOf) <= MaxBackends
    /\ \A s \in Slots : current[s] # 0 =>
        current[s] \in Created /\ slotOf[current[s]] = s
    /\ clients \in Seq(Client)
    /\ \A b \in Backends : client[b] # 0 =>
        client[b] \in DOMAIN clients /\ clients[client[b]].of = b
    /\ pc \in [Calls -> {"idle", "checking", "using", "over"}]
    /\ slot \in [Calls -> Slots]
    /\ mine \in [Calls -> {0} \cup Created]
    /\ drain \in {"serving", "sleeping", "closing", "done"}
    /\ closer \in [Backends -> Closers]
    /\ target \in [Backends -> {0} \cup DOMAIN clients]

\* Until the drain takes them there is one backend per slot, however many
\* calls come while the first one's health check is awaited.
OneBackendPerSlot ==
    ~Taken => \A a, b \in Created : slotOf[a] = slotOf[b] => a = b

\* When the loop of close() ends no client of its backend is open, whatever
\* calls opened meanwhile.
CloseLeavesNoneOpen ==
    [][\A b \in Backends :
         closer[b] # "cache" /\ closer'[b] = "cache"
         => \A i \in DOMAIN clients' :
              clients'[i].of = b => clients'[i].state # "open"]_vars

\* The closes end within one timeout, side by side: a hanging primary delays
\* neither the secondary nor the end of the process (server.py:2369-2374).
DrainBounded == drain = "closing" => now <= deadline
=============================================================================
