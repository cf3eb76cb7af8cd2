------------------------- MODULE BackendLifecycleProofs -------------------------
(***************************************************************************)
(* The shared backends and the drain, for any number of slots, calls,      *)
(* backends and clients and all durations.                                 *)
(***************************************************************************)
EXTENDS BackendLifecycle, TLAPS

\* Whatever has been created is what its global names, until the drain takes it.
Named == ~Taken => \A b \in Created : current[slotOf[b]] = b

\* A client that is open is the one its backend holds.
OpenIsHeld ==
    \A i \in DOMAIN clients : clients[i].state = "open" => client[clients[i].of] = i

\* A close that awaits the network has taken a client, and its backend holds one.
AtClient == \A b \in Backends : closer[b] = "aclose" => target[b] # 0 /\ client[b] # 0

\* The functions of TypeOK, as functions.
Functions ==
    /\ current \in [Slots -> Nat]
    /\ client \in [Backends -> Nat]

IInv == TypeOK /\ Functions /\ Named /\ OpenIsHeld /\ AtClient /\ DrainBounded
-----------------------------------------------------------------------------
LEMMA InitHolds == Init => IInv
  <1> SUFFICES ASSUME Init PROVE IInv
    OBVIOUS
  <1>1. TypeOK
    BY LifecycleAssumption DEF Init, TypeOK, Closers, Closing, Created
  <1>2. Functions /\ Named /\ OpenIsHeld /\ AtClient /\ DrainBounded
    BY DEF Init, Functions, Named, OpenIsHeld, AtClient, DrainBounded, Created
  <1> QED BY <1>1, <1>2 DEF IInv

LEMMA TickHolds == IInv /\ Tick => IInv'
  <1> SUFFICES ASSUME IInv, Tick PROVE IInv'
    OBVIOUS
  <1>1. UNCHANGED <<current, slotOf, client, clients, pc, slot, mine, drain,
                    deadline, closer, target>> /\ now' = now + 1
    BY DEF Tick, httpx, callers, shutdown
  <1>2. TypeOK' /\ Functions' /\ Named' /\ OpenIsHeld' /\ AtClient'
    BY <1>1 DEF IInv, TypeOK, Functions, Named, OpenIsHeld, AtClient, Taken, Created
  <1>3. DrainBounded'
    <2> SUFFICES ASSUME drain = "closing" PROVE now + 1 <= deadline
      BY <1>1 DEF DrainBounded
    <2>1. PICK b \in Backends : closer[b] \in Closing
      BY DEF Tick
    <2>2. ~(now >= deadline)
      BY <2>1 DEF Tick, CloseDue
    <2> QED BY <2>2 DEF IInv, TypeOK
  <1> QED BY <1>2, <1>3 DEF IInv

LEMMA CreationHolds ==
    ASSUME IInv, NEW c \in Calls, GetCreates(c)
    PROVE  IInv'
  <1> DEFINE s == slot[c]
             n == Len(slotOf)
  <1>1. /\ s \in Slots /\ n \in Nat /\ n < MaxBackends /\ MaxBackends \in Nat
        /\ slotOf \in Seq(Slots)
        /\ slotOf' = Append(slotOf, s) /\ current' = [current EXCEPT ![s] = n + 1]
        /\ current[s] = 0 /\ pc' = [pc EXCEPT ![c] = "checking"]
        /\ mine' = [mine EXCEPT ![c] = n + 1]
        /\ UNCHANGED <<now, client, clients, slot, drain, deadline, closer, target>>
    BY LifecycleAssumption DEF GetCreates, Published, IInv, TypeOK, httpx, shutdown
  <1>2. /\ Len(slotOf') = n + 1 /\ slotOf'[n + 1] = s
        /\ \A b \in 1 .. n : slotOf'[b] = slotOf[b] /\ slotOf[b] \in Slots
        /\ slotOf' \in Seq(Slots)
    BY <1>1
  <1>3. \A t \in Slots : current'[t] = IF t = s THEN n + 1 ELSE current[t]
    BY <1>1 DEF IInv, Functions
  <1>4. \A t \in Slots : current'[t] # 0 =>
          current'[t] \in 1 .. n + 1 /\ slotOf'[current'[t]] = t
    BY <1>1, <1>2, <1>3 DEF IInv, TypeOK, Created
  <1>5. TypeOK'
    <2>1. mine' \in [Calls -> {0} \cup 1 .. n + 1]
      BY <1>1 DEF IInv, TypeOK, Created
    <2>2. pc' \in [Calls -> {"idle", "checking", "using", "over"}]
      BY <1>1 DEF IInv, TypeOK
    <2> QED BY <1>1, <1>2, <1>4, <2>1, <2>2 DEF IInv, TypeOK, Created, Closers
  <1>6. Functions'
    BY <1>1 DEF IInv, Functions
  <1>7. Named'
    <2> SUFFICES ASSUME ~Taken, NEW b \in 1 .. n + 1 PROVE current'[slotOf'[b]] = b
      BY <1>1, <1>2 DEF Named, Taken, Created
    <2>1. CASE b = n + 1
      BY <2>1, <1>1, <1>2, <1>3
    <2>2. CASE b \in 1 .. n
      <3>1. current[slotOf[b]] = b
        BY <2>2 DEF IInv, Named, Created
      <3> QED BY <3>1, <2>2, <1>1, <1>2, <1>3
    <2> QED BY <2>1, <2>2, <1>1
  <1>8. OpenIsHeld' /\ AtClient' /\ DrainBounded'
    BY <1>1 DEF IInv, OpenIsHeld, AtClient, DrainBounded
  <1> QED BY <1>5, <1>6, <1>7, <1>8 DEF IInv

LEMMA CallHolds ==
    ASSUME IInv, NEW c \in Calls, GetReuses(c) \/ HealthChecked(c) \/ Finish(c)
    PROVE  IInv'
  <1>1. /\ UNCHANGED <<now, current, slotOf, client, clients, slot, drain, deadline,
                       closer, target>>
        /\ pc' \in [Calls -> {"idle", "checking", "using", "over"}]
        /\ mine' \in [Calls -> {0} \cup Created]
    <2>1. slot[c] \in Slots /\ current[slot[c]] \in {0} \cup Created
      BY DEF IInv, TypeOK
    <2> QED BY <2>1 DEF GetReuses, HealthChecked, Finish, IInv, TypeOK, httpx, shutdown
  <1> QED BY <1>1 DEF IInv, TypeOK, Functions, Named, OpenIsHeld, AtClient, DrainBounded,
                      Taken, Created

LEMMA OpeningHolds ==
    ASSUME IInv, NEW c \in Calls, OpensClient(c)
    PROVE  IInv'
  <1> DEFINE b == mine[c]
             n == Len(clients)
             new == [of |-> b, state |-> "open"]
  <1>1. /\ b \in Backends /\ n \in Nat /\ new \in Client
        /\ clients \in Seq(Client)
        /\ clients' = Append(clients, new)
        /\ client' = [client EXCEPT ![b] = n + 1]
        /\ client[b] # 0 => clients[client[b]].state # "open"
        /\ UNCHANGED <<now, current, slotOf, pc, slot, mine, drain, deadline, closer,
                       target>>
    BY LifecycleAssumption
       DEF OpensClient, IsClosed, IInv, TypeOK, Created, Backends, Client, callers, shutdown
  <1>2. /\ Len(clients') = n + 1 /\ clients'[n + 1] = new /\ clients' \in Seq(Client)
        /\ DOMAIN clients = 1 .. n /\ DOMAIN clients' = 1 .. n + 1
        /\ \A i \in 1 .. n : clients'[i] = clients[i] /\ clients[i] \in Client
    BY <1>1
  <1>3. \A a \in Backends : client'[a] = IF a = b THEN n + 1 ELSE client[a]
    BY <1>1 DEF IInv, Functions
  <1>4. \A a \in Backends : client'[a] # 0 =>
          client'[a] \in 1 .. n + 1 /\ clients'[client'[a]].of = a
    BY <1>1, <1>2, <1>3 DEF IInv, TypeOK
  <1>5. target' \in [Backends -> {0} \cup 1 .. n + 1]
    BY <1>1, <1>2 DEF IInv, TypeOK
  <1>6. TypeOK'
    BY <1>1, <1>2, <1>4, <1>5 DEF IInv, TypeOK, Created
  <1>7. Functions' /\ Named' /\ DrainBounded' /\ AtClient'
    <2>1. n + 1 \in Nat
      BY <1>1
    <2>2. client' \in [Backends -> Nat]
      BY <2>1, <1>1, <1>3 DEF IInv, Functions
    <2>3. \A a \in Backends : client[a] # 0 => client'[a] # 0
      BY <1>1, <1>3
    <2> QED BY <1>1, <2>2, <2>3
            DEF IInv, Functions, Named, DrainBounded, AtClient, Taken, Created
  <1>8. OpenIsHeld'
    <2> SUFFICES ASSUME NEW i \in 1 .. n + 1, clients'[i].state = "open"
                 PROVE  client'[clients'[i].of] = i
      BY <1>2 DEF OpenIsHeld
    <2>1. CASE i = n + 1
      BY <2>1, <1>1, <1>2, <1>3
    <2>2. CASE i \in 1 .. n
      <3>1. clients'[i] = clients[i] /\ clients[i].of \in Backends
        BY <2>2, <1>2 DEF Client
      <3>2. client[clients[i].of] = i
        BY <2>2, <3>1, <1>2 DEF IInv, OpenIsHeld
      <3>3. clients[i].of # b
        BY <3>1, <3>2, <1>1, <2>2
      <3> QED BY <3>1, <3>2, <3>3, <1>3
    <2> QED BY <2>1, <2>2, <1>1
  <1> QED BY <1>6, <1>7, <1>8 DEF IInv

LEMMA DrainHolds ==
    ASSUME IInv, DrainStarts \/ DrainTakes \/ DrainEnds
    PROVE  IInv'
  <1>1. UNCHANGED <<now, slotOf, client, clients, pc, slot, mine, target>>
    BY DEF DrainStarts, DrainTakes, DrainEnds, httpx, callers
  <1>2. CASE DrainStarts
    BY <1>1, <1>2, LifecycleAssumption
       DEF DrainStarts, IInv, TypeOK, Functions, Named, OpenIsHeld, AtClient, DrainBounded,
           Taken, Created
  <1>3. CASE DrainTakes
    <2>1. /\ current' = [s \in Slots |-> 0] /\ drain' = "closing"
          /\ deadline' = now + CloseTimeout
          /\ closer' \in [Backends -> Closers]
      BY <1>3 DEF DrainTakes, Closers, Closing
    <2>2. AtClient'
      BY <1>3 DEF DrainTakes, AtClient
    <2> QED BY <2>1, <2>2, <1>1, LifecycleAssumption
            DEF IInv, TypeOK, Functions, Named, OpenIsHeld, DrainBounded, Taken,
                Created
  <1>4. CASE DrainEnds
    BY <1>1, <1>4
       DEF DrainEnds, IInv, TypeOK, Functions, Named, OpenIsHeld, AtClient, DrainBounded,
           Taken, Created
  <1> QED BY <1>2, <1>3, <1>4

\* A step of a close, of which only the states of the clients matter here.
LEMMA ClosingHolds ==
    ASSUME IInv, NEW b \in Backends,
           UNCHANGED <<now, current, slotOf, pc, slot, mine, drain, deadline>>,
           closer' \in [Backends -> Closers],
           target' \in [Backends -> {0} \cup DOMAIN clients],
           clients' \in Seq(Client), DOMAIN clients' = DOMAIN clients,
           \A i \in DOMAIN clients :
             /\ clients'[i].of = clients[i].of
             /\ clients'[i].state = "open" => clients[i].state = "open",
           \/ client' = client
           \/ /\ client' = [client EXCEPT ![b] = 0]
              /\ client[b] # 0 => clients'[client[b]].state # "open",
           AtClient'
    PROVE  IInv'
  <1>1. client' \in [Backends -> Nat]
    BY DEF IInv, Functions
  <1>2. \A a \in Backends : client'[a] # 0 => client'[a] = client[a]
    BY DEF IInv, Functions
  <1>3. TypeOK'
    <2>1. \A a \in Backends : client'[a] # 0 =>
            client'[a] \in DOMAIN clients' /\ clients'[client'[a]].of = a
      <3> SUFFICES ASSUME NEW a \in Backends, client'[a] # 0
                   PROVE  client'[a] \in DOMAIN clients' /\ clients'[client'[a]].of = a
        OBVIOUS
      <3>1. client[a] \in DOMAIN clients /\ clients[client[a]].of = a /\ client'[a] = client[a]
        BY <1>2 DEF IInv, TypeOK
      <3> QED BY <3>1
    <2>2. target' \in [Backends -> {0} \cup DOMAIN clients']
      OBVIOUS
    <2> QED BY <2>1, <2>2 DEF IInv, TypeOK, Created
  <1>4. OpenIsHeld'
    <2> SUFFICES ASSUME NEW i \in DOMAIN clients, clients'[i].state = "open"
                 PROVE  client'[clients'[i].of] = i
      BY DEF OpenIsHeld
    <2>1. clients[i].state = "open" /\ clients'[i].of = clients[i].of
      OBVIOUS
    <2>2. client[clients[i].of] = i
      BY <2>1 DEF IInv, OpenIsHeld
    <2>3. i \in Nat /\ i # 0 /\ clients[i] \in Client
      BY DEF IInv, TypeOK
    <2>4. clients[i].of \in Backends
      BY <2>3 DEF Client
    <2>5. CASE client' = client
      BY <2>1, <2>2, <2>5
    <2>6. CASE /\ client' = [client EXCEPT ![b] = 0]
               /\ client[b] # 0 => clients'[client[b]].state # "open"
      <3>1. clients[i].of # b
        BY <2>2, <2>3, <2>6
      <3> QED BY <3>1, <2>1, <2>2, <2>4, <2>6 DEF IInv, Functions
    <2> QED BY <2>5, <2>6
  <1>5. Functions' /\ Named' /\ DrainBounded'
    BY <1>1 DEF IInv, Functions, Named, DrainBounded, Taken, Created
  <1> QED BY <1>3, <1>4, <1>5 DEF IInv

\* What a close does to the state of one client.
LEMMA Marked ==
    ASSUME NEW cs \in Seq(Client), NEW i \in DOMAIN cs, NEW st \in {"closing", "closed"},
           NEW new, new = [cs EXCEPT ![i].state = st]
    PROVE  /\ new \in Seq(Client) /\ DOMAIN new = DOMAIN cs
           /\ new[i].state = st
           /\ \A j \in DOMAIN cs :
                /\ new[j].of = cs[j].of
                /\ new[j].state = "open" => cs[j].state = "open"
                /\ j # i => new[j] = cs[j]
  <1>1. DOMAIN new = DOMAIN cs /\ \A j \in DOMAIN cs : j # i => new[j] = cs[j]
    OBVIOUS
  <1>2. cs[i] \in Client /\ new[i] = [cs[i] EXCEPT !.state = st]
    OBVIOUS
  <1>3. new[i] \in Client /\ new[i].state = st /\ new[i].of = cs[i].of
    BY <1>2 DEF Client
  <1>4. new \in [1 .. Len(cs) -> Client]
    BY <1>1, <1>3
  <1> QED BY <1>1, <1>3, <1>4

LEMMA EndingHolds ==
    ASSUME IInv, NEW b \in Backends,
           AcloseFails(b) \/ CacheCleared(b) \/ CloseTimesOut(b)
    PROVE  IInv'
  <1>1. /\ UNCHANGED <<now, current, slotOf, client, clients, pc, slot, mine, drain,
                       deadline, target>>
        /\ closer' \in [Backends -> Closers]
        /\ \A a \in Backends : closer'[a] = "aclose" => closer[a] = "aclose"
    <2>1. PICK how \in {"failed", "done", "abandoned"} : CloserEnds(b, how)
      BY DEF AcloseFails, CacheCleared, CloseTimesOut
    <2>2. closer' = [closer EXCEPT ![b] = how] /\ closer \in [Backends -> Closers]
          /\ how \in Closers /\ how # "aclose"
      BY <2>1 DEF CloserEnds, IInv, TypeOK, Closers
    <2>3. UNCHANGED <<now, current, slotOf, client, clients, pc, slot, mine, drain,
                      deadline, target>>
      BY <2>1 DEF CloserEnds, httpx, callers
    <2> QED BY <2>2, <2>3
  <1>2. AtClient'
    BY <1>1 DEF IInv, AtClient
  <1> QED BY <1>1, <1>2 DEF IInv, TypeOK, Functions, Named, OpenIsHeld, DrainBounded,
                            Taken, Created

\* The task of a close starts, and leaves no client of its backend open.
LEMMA StartHolds ==
    ASSUME IInv, NEW b \in Backends, CloseStarts(b)
    PROVE  IInv'
  <1>1. /\ UNCHANGED <<now, current, slotOf, client, pc, slot, mine, drain, deadline>>
        /\ closer' \in [Backends -> Closers]
    BY DEF CloseStarts, IInv, TypeOK, Closers, Closing, callers
  <1>2. clients \in Seq(Client) /\ target \in [Backends -> {0} \cup DOMAIN clients]
    BY DEF IInv, TypeOK
  <1>3. CASE client[b] = 0
    <2>1. UNCHANGED <<clients, target>>
      BY <1>3 DEF CloseStarts
    <2>2. AtClient'
      BY <1>1, <1>3, <2>1 DEF CloseStarts, IInv, AtClient, TypeOK
    <2> QED BY <1>1, <1>2, <2>1, <2>2, ClosingHolds
  <1>4. CASE client[b] # 0
    <2>1. /\ target' = [target EXCEPT ![b] = client[b]]
          /\ clients' = [clients EXCEPT ![client[b]].state = "closing"]
          /\ client[b] \in DOMAIN clients
      BY <1>4 DEF CloseStarts, IInv, TypeOK
    <2>2. target' \in [Backends -> {0} \cup DOMAIN clients]
      BY <1>2, <2>1
    <2>3. /\ clients' \in Seq(Client) /\ DOMAIN clients' = DOMAIN clients
          /\ \A i \in DOMAIN clients :
               /\ clients'[i].of = clients[i].of
               /\ clients'[i].state = "open" => clients[i].state = "open"
      BY <1>2, <2>1, Marked
    <2>4. AtClient'
      BY <1>1, <1>2, <1>4, <2>1 DEF CloseStarts, IInv, AtClient, TypeOK
    <2> QED BY <1>1, <2>2, <2>3, <2>4, ClosingHolds
  <1> QED BY <1>3, <1>4

\* A client is closed and the loop goes on or ends.
LEMMA ReturnHolds ==
    ASSUME IInv, NEW b \in Backends, AcloseReturns(b)
    PROVE  IInv'
  <1>1. /\ UNCHANGED <<now, current, slotOf, pc, slot, mine, drain, deadline>>
        /\ closer' \in [Backends -> Closers]
    <2>1. UNCHANGED <<now, current, slotOf, pc, slot, mine, drain, deadline>>
      BY DEF AcloseReturns, callers
    <2>2. closer' = closer \/ closer' = [closer EXCEPT ![b] = "cache"]
      BY DEF AcloseReturns, CloseOn
    <2>3. closer \in [Backends -> Closers] /\ "cache" \in Closers
      BY DEF IInv, TypeOK, Closers, Closing
    <2> QED BY <2>1, <2>2, <2>3
  <1>2. /\ clients \in Seq(Client) /\ target[b] \in DOMAIN clients
        /\ target \in [Backends -> {0} \cup DOMAIN clients]
        /\ client[b] # 0 /\ client[b] \in DOMAIN clients /\ target[b] # 0
        /\ closer \in [Backends -> Closers] /\ client \in [Backends -> Nat]
    BY DEF AcloseReturns, IInv, AtClient, TypeOK, Functions
  <1>s. PICK shut : shut = [clients EXCEPT ![target[b]].state = "closed"]
    OBVIOUS
  <1>3. /\ shut \in Seq(Client) /\ DOMAIN shut = DOMAIN clients
        /\ shut[target[b]].state = "closed"
        /\ \A i \in DOMAIN clients :
             /\ shut[i].of = clients[i].of
             /\ shut[i].state = "open" => clients[i].state = "open"
    <2>1. clients \in Seq(Client) /\ target[b] \in DOMAIN clients
      BY <1>2
    <2>2. PICK i : i = target[b]
      OBVIOUS
    <2>3. i \in DOMAIN clients /\ shut = [clients EXCEPT ![i].state = "closed"]
      BY <2>1, <2>2, <1>s
    <2> QED BY <2>1, <2>2, <2>3, Marked
  <1>4. CASE StillThere(b)
    <2>1. /\ clients' = shut /\ client' = [client EXCEPT ![b] = 0]
          /\ target' = target /\ client[b] = target[b]
      BY <1>4, <1>s DEF AcloseReturns, StillThere
    <2>2. clients'[client[b]].state # "open"
      BY <2>1, <1>3
    <2>3. closer' = [closer EXCEPT ![b] = "cache"]
      BY <1>4 DEF AcloseReturns
    <2>4. AtClient'
      BY <1>2, <2>1, <2>3 DEF IInv, AtClient
    <2> QED BY <1>1, <1>2, <1>3, <2>1, <2>2, <2>4, ClosingHolds
  <1>5. CASE ~StillThere(b)
    <2>1. /\ client' = client
          /\ target' = [target EXCEPT ![b] = client[b]]
          /\ clients' = [clients EXCEPT ![target[b]].state = "closed",
                                        ![client[b]].state = "closing"]
          /\ closer' = closer
      BY <1>5 DEF AcloseReturns, CloseOn
    <2>2. clients' = [shut EXCEPT ![client[b]].state = "closing"]
      BY <1>2, <1>s, <2>1
    <2>3. /\ clients' \in Seq(Client) /\ DOMAIN clients' = DOMAIN shut
          /\ \A i \in DOMAIN shut :
               /\ clients'[i].of = shut[i].of
               /\ clients'[i].state = "open" => shut[i].state = "open"
      <3>1. /\ client[b] \in DOMAIN shut
            /\ "closing" \in {"closing", "closed"}
        BY <1>2, <1>3
      <3> QED BY <1>3, <2>2, <3>1, Marked
    <2>4. target' \in [Backends -> {0} \cup DOMAIN clients]
      BY <1>2, <2>1
    <2>5. AtClient'
      BY <1>2, <2>1 DEF IInv, AtClient
    <2>6. /\ DOMAIN clients' = DOMAIN clients
          /\ \A i \in DOMAIN clients :
               /\ clients'[i].of = clients[i].of
               /\ clients'[i].state = "open" => clients[i].state = "open"
      BY <1>3, <2>3
    <2> QED BY <1>1, <2>1, <2>3, <2>4, <2>5, <2>6, ClosingHolds
  <1> QED BY <1>4, <1>5

LEMMA NextHolds == IInv /\ [Next]_vars => IInv'
  <1> SUFFICES ASSUME IInv, [Next]_vars PROVE IInv'
    OBVIOUS
  <1>1. CASE Tick
    BY <1>1, TickHolds
  <1>2. CASE DrainStarts \/ DrainTakes \/ DrainEnds
    BY <1>2, DrainHolds
  <1>3. ASSUME NEW c \in Calls,
               \/ GetCreates(c) \/ GetReuses(c) \/ HealthChecked(c)
               \/ OpensClient(c) \/ Finish(c)
        PROVE  IInv'
    BY <1>3, CreationHolds, CallHolds, OpeningHolds
  <1>4. ASSUME NEW b \in Backends,
               \/ CloseStarts(b) \/ AcloseReturns(b) \/ AcloseFails(b)
               \/ CacheCleared(b) \/ CloseTimesOut(b)
        PROVE  IInv'
    BY <1>4, StartHolds, ReturnHolds, EndingHolds
  <1>5. CASE UNCHANGED vars
    BY <1>5 DEF vars, httpx, callers, shutdown, IInv, TypeOK, Functions, Named, OpenIsHeld,
                AtClient, DrainBounded, Taken, Created
  <1> QED BY <1>1, <1>2, <1>3, <1>4, <1>5 DEF Next

THEOREM Invariance == Spec => []IInv
  <1> QED BY InitHolds, NextHolds, PTL DEF Spec

\* Every variable keeps its type; a global names a backend of its slot and a
\* backend a client of its own.
THEOREM TypeCorrect == Spec => []TypeOK
  <1>1. IInv => TypeOK
    BY DEF IInv
  <1> QED BY <1>1, Invariance, PTL

\* Two backends of one slot would both be named by its global.
THEOREM OneBackend == Spec => []OneBackendPerSlot
  <1>1. IInv => OneBackendPerSlot
    BY DEF IInv, Named, OneBackendPerSlot
  <1> QED BY <1>1, Invariance, PTL

\* A close that hangs is given up at the timeout and delays no other.
THEOREM DrainIsBounded == Spec => []DrainBounded
  <1>1. IInv => DrainBounded
    BY DEF IInv
  <1> QED BY <1>1, Invariance, PTL

\* A closing loop ends only when its backend holds no client; as an open client
\* is always the one its backend holds, none is left open.
THEOREM ClosesAll == Spec => CloseLeavesNoneOpen
  <1> DEFINE Quiet(b) ==
        \A i \in DOMAIN clients' : clients'[i].of = b => clients'[i].state # "open"
  <1>1. ASSUME IInv, Next, NEW b \in Backends, closer[b] # "cache", closer'[b] = "cache"
        PROVE  client'[b] = 0
    <2>1. closer \in [Backends -> Closers] /\ client \in [Backends -> Nat]
      BY <1>1 DEF IInv, TypeOK, Functions
    <2>2. closer' # closer
      BY <1>1
    <2>3. ~DrainTakes
      BY <1>1 DEF DrainTakes
    <2>4. PICK a \in Backends :
            \/ CloseStarts(a) \/ AcloseReturns(a) \/ AcloseFails(a)
            \/ CacheCleared(a) \/ CloseTimesOut(a)
      BY <1>1, <2>2, <2>3
         DEF Next, Tick, DrainStarts, DrainEnds, GetCreates, GetReuses, HealthChecked,
             OpensClient, Finish, shutdown
    <2>5. ~AcloseFails(a) /\ ~CacheCleared(a) /\ ~CloseTimesOut(a)
      BY <1>1, <2>1 DEF AcloseFails, CacheCleared, CloseTimesOut, CloserEnds
    <2>6. CASE CloseStarts(a)
      BY <1>1, <2>1, <2>6 DEF CloseStarts
    <2>7. CASE AcloseReturns(a)
      BY <1>1, <2>1, <2>7 DEF AcloseReturns, CloseOn
    <2> QED BY <2>4, <2>5, <2>6, <2>7
  <1>2. ASSUME IInv', NEW b \in Backends, client'[b] = 0
        PROVE  Quiet(b)
    <2>1. \A i \in DOMAIN clients' : i # 0
      BY <1>2 DEF IInv, TypeOK
    <2> QED BY <1>2, <2>1 DEF IInv, OpenIsHeld
  <1>3. IInv /\ IInv' /\ [Next]_vars
        => [\A b \in Backends :
              closer[b] # "cache" /\ closer'[b] = "cache" => Quiet(b)]_vars
    BY <1>1, <1>2 DEF vars, shutdown
  <1> QED BY <1>3, Invariance, PTL DEF Spec, CloseLeavesNoneOpen
=============================================================================
