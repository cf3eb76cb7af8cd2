--------------------------- MODULE RequestPathProofs ---------------------------
(***************************************************************************)
(* The limit on a peer's rate and the accounts of the pool, for every      *)
(* number of peers, tasks and permits, every cap and every window.         *)
(***************************************************************************)
EXTENDS RequestPath, FiniteSetTheorems, TLAPS

-----------------------------------------------------------------------------
(* The limiter: what a peer's entry says of its requests.  s is the times  *)
(* of the requests let through, b the entry, t the time.                   *)

Sorted(s, t) ==
    \A i, j \in DOMAIN s : i <= j => s[i] <= s[j] /\ s[j] <= t

\* The requests of the window that were let through.
Share(b) == IF b.count <= MaxRequests THEN b.count ELSE MaxRequests

\* A window that opens now is a whole window after the one before opened.
Clear(s, t) ==
    \A i \in DOMAIN s : i + MaxRequests <= Len(s) + 1 => t - s[i] >= WindowSeconds

\* The window was opened by a request let through, a whole window after the
\* one before.
InWindow(s, b, t) ==
    /\ Share(b) <= Len(s)
    /\ s[Len(s) - Share(b) + 1] = b.start
    /\ b.start <= t
    /\ \A i \in DOMAIN s :
        i + MaxRequests + Share(b) <= Len(s) + 1 => b.start - s[i] >= WindowSeconds

Account(s, b, t) ==
    \/ b.count = 0 /\ Clear(s, t)
    \/ b.count > 0 /\ InWindow(s, b, t)

Rate(s) ==
    \A i \in DOMAIN s :
        i + 2 * MaxRequests - 1 \in DOMAIN s
        => s[i + 2 * MaxRequests - 1] - s[i] >= WindowSeconds

\* A time that is now goes to the end.
LEMMA SortedAppend ==
    ASSUME NEW s \in Seq(Nat), NEW t \in Nat, Sorted(s, t)
    PROVE  Sorted(Append(s, t), t)
  <1>1. PICK r : r = Append(s, t)
    OBVIOUS
  <1>2. PICK n \in Nat : n = Len(s)
    OBVIOUS
  <1>3. /\ DOMAIN s = 1 .. n /\ DOMAIN r = 1 .. n + 1
        /\ r[n + 1] = t
        /\ \A i \in 1 .. n : r[i] = s[i] /\ s[i] \in Nat
    BY <1>1, <1>2
  <1>4. \A i, j \in 1 .. n : i <= j => s[i] <= s[j] /\ s[j] <= t
    BY <1>3 DEF Sorted
  <1>5. ASSUME NEW i \in 1 .. n + 1, NEW j \in 1 .. n + 1, i <= j
        PROVE  r[i] <= r[j] /\ r[j] <= t
    <2>1. CASE i <= n /\ j <= n
      <3>1. i \in 1 .. n /\ j \in 1 .. n
        BY <2>1
      <3>2. r[i] = s[i] /\ r[j] = s[j]
        BY <1>3, <3>1
      <3> QED BY <1>5, <1>4, <3>1, <3>2
    <2>2. CASE i <= n /\ j = n + 1
      <3>1. i \in 1 .. n /\ i <= i
        BY <2>2
      <3>2. r[i] = s[i] /\ r[j] = t /\ s[i] <= t
        BY <1>3, <1>4, <2>2, <3>1
      <3> QED BY <3>2
    <2>3. CASE i = n + 1 /\ j = n + 1
      BY <1>3, <2>3
    <2> QED BY <1>5, <2>1, <2>2, <2>3
  <1> QED BY <1>1, <1>3, <1>5 DEF Sorted

\* A window that is over leaves the way free for the next.
LEMMA OverIsClear ==
    ASSUME NEW s \in Seq(Nat), NEW b \in Bucket, NEW t \in Nat,
           Sorted(s, t), b.count > 0, InWindow(s, b, t),
           t - b.start >= WindowSeconds
    PROVE  Clear(s, t)
  <1> SUFFICES ASSUME NEW i \in DOMAIN s, i + MaxRequests <= Len(s) + 1
               PROVE  t - s[i] >= WindowSeconds
    BY DEF Clear
  <1>1. PICK n \in 1 .. MaxRequests : n = Share(b)
    BY WindowAssumption DEF Share, Bucket
  <1>2. n <= Len(s) /\ s[Len(s) - n + 1] = b.start
    BY <1>1 DEF InWindow
  <1> DEFINE len == Len(s)
             first == len - n + 1
  <1>a. first \in 1 .. len /\ i <= first
    <2>1. len \in Nat /\ MaxRequests \in Nat /\ n \in Nat /\ i \in Nat
      BY WindowAssumption
    <2>2. 1 <= n /\ n <= MaxRequests /\ n <= len /\ i + MaxRequests <= len + 1
      BY <1>2, WindowAssumption
    <2> HIDE DEF len
    <2> QED BY <2>1, <2>2
  <1>3. s[i] <= b.start
    BY <1>2, <1>a DEF Sorted
  <1> QED BY SMTT(30), <1>3, WindowAssumption DEF Bucket

\* The first request of a window.
LEMMA OpensWindow ==
    ASSUME NEW s \in Seq(Nat), NEW t \in Nat, Sorted(s, t), Rate(s), Clear(s, t)
    PROVE  /\ Rate(Append(s, t))
           /\ Account(Append(s, t), [start |-> t, count |-> 1], t)
  <1> DEFINE b == [start |-> t, count |-> 1]
             r == Append(s, t)
  <1>1. Len(r) = Len(s) + 1 /\ r[Len(s) + 1] = t
        /\ \A i \in 1 .. Len(s) : r[i] = s[i]
    OBVIOUS
  <1>2. Share(b) = 1
    BY WindowAssumption DEF Share
  <1>3. InWindow(r, b, t)
    <2>1. \A i \in DOMAIN r : i + MaxRequests + 1 <= Len(r) + 1
                              => t - r[i] >= WindowSeconds
      BY <1>1, WindowAssumption DEF Clear
    <2> QED BY <2>1, <1>1, <1>2 DEF InWindow
  <1>4. Rate(r)
    <2> SUFFICES ASSUME NEW i \in DOMAIN r, i + 2 * MaxRequests - 1 \in DOMAIN r
                 PROVE  r[i + 2 * MaxRequests - 1] - r[i] >= WindowSeconds
      BY DEF Rate
    <2>1. CASE i + 2 * MaxRequests - 1 <= Len(s)
      <3>1. i \in DOMAIN s /\ i + 2 * MaxRequests - 1 \in DOMAIN s
        BY <2>1, WindowAssumption
      <3> QED BY <3>1, <1>1 DEF Rate
    <2>2. CASE i + 2 * MaxRequests - 1 = Len(s) + 1
      <3>1. i \in DOMAIN s \/ i = Len(s) + 1
        BY <1>1
      <3>2. i \in DOMAIN s /\ i + MaxRequests <= Len(s) + 1
        BY <2>2, <3>1, WindowAssumption
      <3>3. t - s[i] >= WindowSeconds
        BY <3>2 DEF Clear
      <3> QED BY <3>2, <3>3, <2>2, <1>1
    <2> QED BY <2>1, <2>2, <1>1, WindowAssumption
  <1> QED BY <1>3, <1>4 DEF Account

\* A further request of a window, let through.
LEMMA StaysInWindow ==
    ASSUME NEW s \in Seq(Nat), NEW b \in Bucket, NEW t \in Nat,
           Sorted(s, t), Rate(s), b.count > 0, InWindow(s, b, t),
           b.count + 1 <= MaxRequests
    PROVE  /\ Rate(Append(s, t))
           /\ Account(Append(s, t), [start |-> b.start, count |-> b.count + 1], t)
  <1> DEFINE d == [start |-> b.start, count |-> b.count + 1]
             r == Append(s, t)
             L == Len(s)
             n == b.count
             u == b.start
  <1>1. /\ L \in Nat /\ Len(r) = L + 1 /\ r[L + 1] = t
        /\ DOMAIN r = 1 .. L + 1 /\ DOMAIN s = 1 .. L
        /\ \A i \in 1 .. L : r[i] = s[i] /\ s[i] \in Nat
    OBVIOUS
  <1>2. n \in Nat /\ n > 0 /\ u \in Nat /\ MaxRequests \in Nat /\ n + 1 <= MaxRequests
        /\ WindowSeconds \in Nat
    BY WindowAssumption DEF Bucket
  <1>3. Share(b) = n /\ Share(d) = n + 1 /\ d.start = u /\ d.count = n + 1
    BY <1>2 DEF Share
  <1>4. /\ n <= L /\ s[L - n + 1] = u /\ u <= t
        /\ \A i \in 1 .. L : i + MaxRequests + n <= L + 1 => u - s[i] >= WindowSeconds
    BY <1>3 DEF InWindow
  <1>5. \A i \in 1 .. L :
            i + 2 * MaxRequests - 1 \in 1 .. L
            => s[i + 2 * MaxRequests - 1] - s[i] >= WindowSeconds
    BY <1>1 DEF Rate
  <1> HIDE DEF L, n, u, r, d
  <1>6. InWindow(r, d, t)
    <2>1. r[L + 1 - (n + 1) + 1] = u
      <3>1. L - n + 1 \in 1 .. L
        BY <1>1, <1>2, <1>4
      <3>2. L + 1 - (n + 1) + 1 = L - n + 1
        BY <1>1, <1>2
      <3> QED BY <3>1, <3>2, <1>1, <1>4
    <2>2. ASSUME NEW i \in 1 .. L + 1, i + MaxRequests + (n + 1) <= L + 1 + 1
          PROVE  u - r[i] >= WindowSeconds
      <3>1. i \in 1 .. L /\ i + MaxRequests + n <= L + 1
        BY <2>2, <1>1, <1>2
      <3> QED BY <3>1, <1>1, <1>4
    <2>3. n + 1 <= L + 1
      BY <1>1, <1>2, <1>4
    <2>4. Len(r) = L + 1 /\ Share(d) = n + 1 /\ d.start = u /\ DOMAIN r = 1 .. L + 1
      BY <1>1, <1>3
    <2>5. \A i \in DOMAIN r :
            i + MaxRequests + Share(d) <= Len(r) + 1 => d.start - r[i] >= WindowSeconds
      BY <2>2, <2>4
    <2>6. r[Len(r) - Share(d) + 1] = d.start
      <3>1. Len(r) - Share(d) + 1 = L + 1 - (n + 1) + 1
        BY <2>4, <1>1, <1>2
      <3> QED BY <2>1, <2>4, <3>1
    <2>7. Share(d) <= Len(r) /\ d.start <= t
      BY <2>3, <2>4, <1>4
    <2> QED BY <2>5, <2>6, <2>7 DEF InWindow
  <1>7. ASSUME NEW i \in 1 .. L + 1, i + 2 * MaxRequests - 1 \in 1 .. L + 1
        PROVE  r[i + 2 * MaxRequests - 1] - r[i] >= WindowSeconds
    <2>1. i \in 1 .. L
      BY <1>7, <1>1, <1>2
    <2>2. CASE i + 2 * MaxRequests - 1 \in 1 .. L
      BY <2>1, <2>2, <1>1, <1>5
    <2>3. CASE i + 2 * MaxRequests - 1 = L + 1
      <3>1. i + MaxRequests + n <= L + 1
        BY <2>1, <2>3, <1>1, <1>2
      <3>2. u - s[i] >= WindowSeconds
        BY <3>1, <2>1, <1>4
      <3>3. r[i + 2 * MaxRequests - 1] = t /\ r[i] = s[i] /\ s[i] \in Nat
        BY <2>1, <2>3, <1>1
      <3> QED BY SMTT(30), <3>2, <3>3, <1>2, <1>4
    <2> QED BY <2>2, <2>3, <2>1, <1>7, <1>1, <1>2
  <1>8. Rate(r)
    BY <1>7, <1>1 DEF Rate
  <1>9. Account(r, d, t)
    BY <1>2, <1>3, <1>6 DEF Account
  <1> QED BY <1>8, <1>9 DEF r, d, n, u
-----------------------------------------------------------------------------
GateInv ==
    /\ now \in Nat /\ lastSwept \in Nat
    /\ buckets \in [Peers -> Bucket]
    /\ served \in [Peers -> Seq(Nat)]
    /\ \A p \in Peers :
        /\ Sorted(served[p], now)
        /\ Rate(served[p])
        /\ Account(served[p], buckets[p], now)

\* The sweep drops an entry only when its window is over.
LEMMA SweepKeepsAccounts ==
    ASSUME GateInv, NEW p \in Peers
    PROVE  Swept(p) \in Bucket /\ Account(served[p], Swept(p), now)
  <1>1. CASE Swept(p) = buckets[p]
    BY <1>1 DEF GateInv
  <1>2. CASE Swept(p) = NoBucket /\ Over(buckets[p].start)
    <2>1. Clear(served[p], now)
      <3>1. CASE buckets[p].count = 0
        BY <3>1 DEF GateInv, Account
      <3>2. CASE buckets[p].count > 0
        BY <1>2, <3>2, OverIsClear DEF GateInv, Account, Over
      <3> QED BY <3>1, <3>2 DEF GateInv, Bucket
    <2> QED BY <1>2, <2>1 DEF NoBucket, Bucket, Account
  <1> QED BY <1>1, <1>2 DEF Swept

\* The window a hit is counted in: a new one, or the one that runs.
LEMMA WhereCounted ==
    ASSUME GateInv, NEW p \in Peers
    PROVE  \/ /\ Counted(p) = [start |-> now, count |-> 1]
              /\ Clear(served[p], now)
           \/ /\ Counted(p) = [start |-> Swept(p).start, count |-> Swept(p).count + 1]
              /\ Swept(p).count > 0
              /\ ~Over(Swept(p).start)
              /\ InWindow(served[p], Swept(p), now)
  <1>1. Swept(p) \in Bucket /\ Account(served[p], Swept(p), now)
    BY SweepKeepsAccounts
  <1>2. CASE Swept(p).count = 0
    BY <1>1, <1>2 DEF Counted, Account
  <1>3. CASE Swept(p).count > 0 /\ Over(Swept(p).start)
    <2>1. Clear(served[p], now)
      BY <1>1, <1>3, OverIsClear DEF GateInv, Account, Over
    <2> QED BY <2>1, <1>3 DEF Counted
  <1>4. CASE Swept(p).count > 0 /\ ~Over(Swept(p).start)
    BY <1>1, <1>4 DEF Counted, Account, Bucket
  <1> QED BY <1>1, <1>2, <1>3, <1>4 DEF Bucket

LEMMA CountedIsBucket ==
    ASSUME GateInv, NEW p \in Peers
    PROVE  Counted(p) \in Bucket
  <1>1. Swept(p) \in Bucket /\ now \in Nat
    BY SweepKeepsAccounts DEF GateInv
  <1> QED BY <1>1 DEF Counted, Bucket

LEMMA PassKeeps ==
    ASSUME GateInv, NEW p \in Peers, Pass(p)
    PROVE  GateInv'
  <1>1. /\ now' = now /\ now \in Nat
        /\ \A q \in Peers : buckets'[q] = IF q = p THEN Counted(q) ELSE Swept(q)
        /\ buckets' \in [Peers -> Bucket]
        /\ lastSwept' \in Nat
    BY CountedIsBucket, SweepKeepsAccounts DEF Pass, Hit, GateInv
  <1>2. /\ served' \in [Peers -> Seq(Nat)]
        /\ served'[p] = Append(served[p], now)
        /\ \A q \in Peers \ {p} : served'[q] = served[q]
    BY DEF Pass, GateInv
  <1>3. ASSUME NEW q \in Peers, q # p
        PROVE  Sorted(served[q], now) /\ Rate(served[q])
               /\ Account(served[q], Swept(q), now)
    BY <1>3, SweepKeepsAccounts DEF GateInv
  <1>4. Sorted(Append(served[p], now), now)
    <2>1. served[p] \in Seq(Nat) /\ Sorted(served[p], now) /\ now \in Nat
      BY DEF GateInv
    <2> QED BY <2>1, SortedAppend
  <1>5. Rate(Append(served[p], now)) /\ Account(Append(served[p], now), Counted(p), now)
    <2>1. /\ served[p] \in Seq(Nat) /\ Sorted(served[p], now) /\ Rate(served[p])
          /\ Swept(p) \in Bucket
      BY SweepKeepsAccounts DEF GateInv
    <2>2. CASE /\ Counted(p) = [start |-> now, count |-> 1]
               /\ Clear(served[p], now)
      BY <2>1, <2>2, <1>1, OpensWindow
    <2>3. CASE /\ Counted(p) = [start |-> Swept(p).start, count |-> Swept(p).count + 1]
               /\ Swept(p).count > 0
               /\ InWindow(served[p], Swept(p), now)
      <3>1. Swept(p).count + 1 <= MaxRequests
        BY <2>3 DEF Pass
      <3> QED BY <2>1, <2>3, <3>1, <1>1, StaysInWindow
    <2> QED BY <2>2, <2>3, WhereCounted
  <1>6. ASSUME NEW q \in Peers
        PROVE  Sorted(served'[q], now') /\ Rate(served'[q])
               /\ Account(served'[q], buckets'[q], now')
    <2>1. CASE q = p
      BY <2>1, <1>1, <1>2, <1>4, <1>5
    <2>2. CASE q # p
      BY <2>2, <1>1, <1>2, <1>3
    <2> QED BY <2>1, <2>2
  <1> QED BY <1>1, <1>2, <1>6 DEF GateInv

LEMMA BreachKeeps ==
    ASSUME GateInv, NEW p \in Peers, Breach(p)
    PROVE  GateInv'
  <1>1. /\ now' = now /\ now \in Nat /\ served' = served
        /\ \A q \in Peers : buckets'[q] = IF q = p THEN Counted(q) ELSE Swept(q)
        /\ buckets' \in [Peers -> Bucket]
        /\ lastSwept' \in Nat
    BY CountedIsBucket, SweepKeepsAccounts DEF Breach, Hit, GateInv
  <1>2. Account(served[p], Counted(p), now)
    <2>1. /\ Counted(p) = [start |-> Swept(p).start, count |-> Swept(p).count + 1]
          /\ Swept(p).count > 0
          /\ InWindow(served[p], Swept(p), now)
      BY WhereCounted, WindowAssumption DEF Breach
    <2>2. Swept(p) \in Bucket
      BY SweepKeepsAccounts
    <2>3. Share(Swept(p)) = MaxRequests /\ Share(Counted(p)) = MaxRequests
      BY <2>1, <2>2, WindowAssumption DEF Breach, Share, Bucket
    <2>4. Counted(p).count > 0 /\ Counted(p).start = Swept(p).start
      BY <2>1, <2>2 DEF Bucket
    <2> QED BY <2>1, <2>3, <2>4 DEF Account, InWindow
  <1>3. ASSUME NEW q \in Peers
        PROVE  Sorted(served'[q], now') /\ Rate(served'[q])
               /\ Account(served'[q], buckets'[q], now')
    <2>1. Sorted(served[q], now) /\ Rate(served[q]) /\ Account(served[q], Swept(q), now)
      BY SweepKeepsAccounts DEF GateInv
    <2>2. CASE q = p
      BY <2>1, <2>2, <1>1, <1>2
    <2>3. CASE q # p
      BY <2>1, <2>3, <1>1
    <2> QED BY <2>2, <2>3
  <1>4. served' \in [Peers -> Seq(Nat)]
    BY <1>1 DEF GateInv
  <1> QED BY <1>1, <1>3, <1>4 DEF GateInv

LEMMA TimeKeeps ==
    ASSUME GateInv, Tick
    PROVE  GateInv'
  <1>1. now' = now + 1 /\ buckets' = buckets /\ served' = served /\ lastSwept' = lastSwept
    BY DEF Tick, gate
  <1>2. ASSUME NEW q \in Peers
        PROVE  Sorted(served'[q], now') /\ Rate(served'[q])
               /\ Account(served'[q], buckets'[q], now')
    <2>1. /\ Sorted(served[q], now) /\ Rate(served[q])
          /\ Account(served[q], buckets[q], now)
          /\ now \in Nat /\ served[q] \in Seq(Nat) /\ buckets[q] \in Bucket
      BY DEF GateInv
    <2>2. Sorted(served[q], now + 1)
      BY <2>1 DEF Sorted
    <2>3. Clear(served[q], now) => Clear(served[q], now + 1)
      BY SMTT(30), <2>1, WindowAssumption DEF Clear
    <2>4. InWindow(served[q], buckets[q], now) => InWindow(served[q], buckets[q], now + 1)
      BY <2>1 DEF InWindow, Bucket
    <2> QED BY <1>1, <2>1, <2>2, <2>3, <2>4 DEF Account
  <1> QED BY <1>1, <1>2 DEF GateInv

THEOREM GateHolds == Spec => []GateInv
  <1>1. Init => GateInv
    <2> SUFFICES ASSUME Init PROVE GateInv
      OBVIOUS
    <2>1. ASSUME NEW p \in Peers
          PROVE  Sorted(served[p], now) /\ Rate(served[p])
                 /\ Account(served[p], buckets[p], now)
      BY DEF Init, GateInit, NoBucket, Sorted, Rate, Account, Clear
    <2> QED BY <2>1 DEF Init, GateInit, GateInv, NoBucket, Bucket
  <1>2. GateInv /\ [Next]_vars => GateInv'
    <2> SUFFICES ASSUME GateInv, [Next]_vars PROVE GateInv'
      OBVIOUS
    <2>1. CASE Tick
      BY <2>1, TimeKeeps
    <2>2. ASSUME NEW c \in Callers, Arrive(c) PROVE GateInv'
      BY <2>2, PassKeeps, BreachKeeps, PathAssumption DEF Arrive, Admit, TurnAway
    <2>3. CASE UNCHANGED <<now, gate>>
      BY <2>3 DEF gate, GateInv
    <2> QED BY <2>1, <2>2, <2>3 DEF Next, vars
  <1> QED BY <1>1, <1>2, PTL DEF Spec

\* No interval as long as a window sees twice the cap of a peer's requests.
THEOREM RateHolds == Spec => []PeerRate
  <1>1. GateInv => PeerRate
    BY DEF GateInv, PeerRate, Rate
  <1> QED BY <1>1, GateHolds, PTL

-----------------------------------------------------------------------------
(* The pool: permits and threads.                                          *)

\* Work that is the executor's is awaited, but for threads that go on.
PoolInv ==
    /\ free \in Nat
    /\ pc \in [Callers -> Stages]
    /\ work \in [Callers -> Works]
    /\ closed \in BOOLEAN
    /\ free + Cardinality(Holders) = Permits
    /\ Cardinality(Running) <= Permits
    /\ \A c \in Callers : work[c] \in {"pending", "done", "dropped"} => pc[c] = "calling"
    /\ NothingBeginsClosed

LEMMA SetsAreFinite ==
    /\ IsFiniteSet(Holders) /\ IsFiniteSet(Running)
    /\ IsFiniteSet(Pending) /\ IsFiniteSet(Orphans)
    /\ Cardinality(Holders) \in Nat /\ Cardinality(Running) \in Nat
    /\ Cardinality(Pending) \in Nat /\ Cardinality(Orphans) \in Nat
  <1>1. /\ Holders \subseteq Callers /\ Running \subseteq Callers
        /\ Pending \subseteq Callers /\ Orphans \subseteq Callers
    BY DEF Holders, Running, Pending, Orphans
  <1> QED BY <1>1, PoolAssumption, FS_Subset, FS_CardinalityType

\* A permit given back is free or somebody else's.
LEMMA ReleaseCounts ==
    ASSUME PoolInv, NEW c \in Holders, NEW to \in Stages \ {"granted", "calling"},
           Release(c, to)
    PROVE  /\ free' \in Nat
           /\ free' + Cardinality(Holders') = Permits
           /\ pc' \in [Callers -> Stages]
           /\ pc'[c] = to
           /\ \A d \in Callers \ {c} : pc[d] = "calling" <=> pc'[d] = "calling"
  <1>1. /\ c \in Callers /\ pc[c] \in {"granted", "calling"}
        /\ IsFiniteSet(Holders) /\ Cardinality(Holders) \in Nat
    BY SetsAreFinite DEF Holders
  <1>2. CASE free' = free + 1 /\ pc' = [pc EXCEPT ![c] = to]
    <2>1. Holders' = Holders \ {c}
      BY <1>1, <1>2 DEF Holders, PoolInv
    <2>2. Cardinality(Holders') = Cardinality(Holders) - 1
      BY <2>1, <1>1, FS_RemoveElement
    <2> QED BY <1>1, <1>2, <2>2, PoolAssumption DEF PoolInv
  <1>3. CASE \E d \in Callers : /\ First(d)
                                /\ pc' = [pc EXCEPT ![c] = to, ![d] = "granted"]
                                /\ free' = free
    <2>1. PICK d \in Callers : /\ pc[d] = "waiting"
                               /\ pc' = [pc EXCEPT ![c] = to, ![d] = "granted"]
                               /\ free' = free
      BY <1>3 DEF First
    <2>2. d # c /\ d \notin Holders
      BY <1>1, <2>1 DEF Holders
    <2>3. Holders' = (Holders \ {c}) \cup {d}
      BY <1>1, <2>1, <2>2 DEF Holders, PoolInv
    <2>4. /\ IsFiniteSet(Holders \ {c}) /\ d \notin Holders \ {c}
          /\ Cardinality(Holders \ {c}) = Cardinality(Holders) - 1
      BY <1>1, <2>2, FS_RemoveElement
    <2>5. Cardinality(Holders') = Cardinality(Holders)
      <3> DEFINE rest == Holders \ {c}
      <3>1. IsFiniteSet(rest) /\ d \notin rest
        BY <2>4
      <3> HIDE DEF rest
      <3>2. Cardinality(rest \cup {d}) = Cardinality(rest) + 1
        BY <3>1, FS_AddElement
      <3> QED BY <3>2, <2>3, <2>4, <1>1 DEF rest
    <2>6. pc' \in [Callers -> Stages] /\ pc'[c] = to
          /\ \A e \in Callers \ {c} : pc[e] = "calling" <=> pc'[e] = "calling"
      BY <1>1, <2>1, <2>2 DEF PoolInv, Stages
    <2> QED BY <2>1, <2>5, <2>6 DEF PoolInv
  <1> QED BY <1>2, <1>3 DEF Release

\* A task that submits its work holds a permit, taken now or handed over.
LEMMA SubmitCounts ==
    ASSUME PoolInv, NEW c \in Callers, Submit(c),
           pc' = [pc EXCEPT ![c] = "calling"],
           \/ pc[c] = "granted" /\ free' = free
           \/ pc[c] = "ready" /\ free > 0 /\ free' = free - 1,
           UNCHANGED closed
    PROVE  PoolInv'
  <1>1. IsFiniteSet(Holders) /\ Cardinality(Holders) \in Nat
    BY SetsAreFinite
  <1>2. free' \in Nat /\ free' + Cardinality(Holders') = Permits
    <2>1. CASE pc[c] = "granted" /\ free' = free
      <3>1. Holders' = Holders
        BY <2>1 DEF Holders, PoolInv
      <3> QED BY <2>1, <3>1 DEF PoolInv
    <2>2. CASE pc[c] = "ready" /\ free > 0 /\ free' = free - 1
      <3>1. Holders' = Holders \cup {c} /\ c \notin Holders
        BY <2>2 DEF Holders, PoolInv
      <3>2. Cardinality(Holders') = Cardinality(Holders) + 1
        BY <3>1, <1>1, FS_AddElement
      <3> QED BY <2>2, <3>2, <1>1 DEF PoolInv
    <2> QED BY <2>1, <2>2
  <1>3. Cardinality(Running') <= Permits
    <2>1. Running' \subseteq Running
      BY DEF Running, Submit, PoolInv
    <2>2. Cardinality(Running') <= Cardinality(Running) /\ Cardinality(Running') \in Nat
      BY <2>1, SetsAreFinite, FS_Subset, FS_CardinalityType
    <2> QED BY <2>2, SetsAreFinite, PoolAssumption DEF PoolInv
  <1>4. /\ pc' \in [Callers -> Stages] /\ work' \in [Callers -> Works]
        /\ closed' = closed /\ closed = FALSE
        /\ \A d \in Callers :
             work'[d] \in {"pending", "done", "dropped"} => pc'[d] = "calling"
    BY DEF Submit, PoolInv, Stages, Works
  <1> QED BY <1>2, <1>3, <1>4 DEF PoolInv, NothingBeginsClosed

\* Nobody awaits c's work any more, and its permit is given back.
LEMMA LeaveCounts ==
    ASSUME PoolInv, NEW c \in Callers, pc[c] \in {"granted", "calling"},
           NEW to \in Stages \ {"granted", "calling"},
           Release(c, to), UNCHANGED closed,
           \/ work' = work /\ pc[c] = "granted"
           \/ \E w \in {"none", "running"} :
                (w = "running" => work[c] = w) /\ work' = [work EXCEPT ![c] = w]
    PROVE  PoolInv'
  <1>1. c \in Holders
    BY DEF Holders
  <1>2. /\ free' \in Nat
        /\ free' + Cardinality(Holders') = Permits
        /\ pc' \in [Callers -> Stages]
        /\ pc'[c] = to
        /\ \A d \in Callers \ {c} : pc[d] = "calling" <=> pc'[d] = "calling"
    BY <1>1, ReleaseCounts
  <1>3. /\ work' \in [Callers -> Works]
        /\ \A d \in Callers \ {c} : work'[d] = work[d]
        /\ work'[c] \in {"none", "running"}
        /\ work'[c] = "running" => work[c] = "running"
    BY DEF PoolInv, Works
  <1>4. Cardinality(Running') <= Permits
    <2>1. Running' \subseteq Running
      BY <1>3 DEF Running, PoolInv
    <2>2. Cardinality(Running') <= Cardinality(Running) /\ Cardinality(Running') \in Nat
      BY <2>1, SetsAreFinite, FS_Subset, FS_CardinalityType
    <2> QED BY <2>2, SetsAreFinite, PoolAssumption DEF PoolInv
  <1>5. \A d \in Callers :
            work'[d] \in {"pending", "done", "dropped"} => pc'[d] = "calling"
    BY <1>2, <1>3 DEF PoolInv
  <1>6. NothingBeginsClosed'
    BY <1>3 DEF PoolInv, NothingBeginsClosed, Pending
  <1> QED BY <1>2, <1>3, <1>4, <1>5, <1>6 DEF PoolInv

\* c moves between stages in which it holds no permit.
LEMMA IdleCounts ==
    ASSUME PoolInv, NEW c \in Callers, pc[c] \notin {"granted", "calling"},
           NEW to \in Stages \ {"granted", "calling"},
           pc' = [pc EXCEPT ![c] = to], UNCHANGED <<free, work, closed>>
    PROVE  PoolInv'
  <1>1. Holders' = Holders /\ Running' = Running /\ Pending' = Pending
    BY DEF Holders, Running, Pending, PoolInv
  <1>2. pc' \in [Callers -> Stages]
        /\ \A d \in Callers : pc'[d] = "calling" <=> pc[d] = "calling"
    BY DEF PoolInv
  <1> QED BY <1>1, <1>2 DEF PoolInv, NothingBeginsClosed

LEMMA ThreadCounts ==
    ASSUME PoolInv, NEW c \in Callers, Thread(c)
    PROVE  PoolInv'
  <1>1. /\ UNCHANGED <<free, pc, closed>> /\ Holders' = Holders
    BY DEF Thread, ThreadTakes, ThreadEnds, Holders
  <1>2. CASE ThreadTakes(c)
    <2>1. Running' = Running \cup {c} /\ c \notin Running
      BY <1>2 DEF ThreadTakes, Running, PoolInv
    <2>2. Cardinality(Running') = Cardinality(Running) + 1
      BY <2>1, SetsAreFinite, FS_AddElement
    <2>3. Cardinality(Running') <= Permits
      BY <2>2, <1>2, SetsAreFinite, PoolAssumption DEF ThreadTakes
    <2>4. /\ work' \in [Callers -> Works] /\ Pending' \subseteq Pending
          /\ \A d \in Callers :
               work'[d] \in {"pending", "done", "dropped"} => pc'[d] = "calling"
      BY <1>1, <1>2 DEF ThreadTakes, PoolInv, Works, Pending
    <2> QED BY <1>1, <2>3, <2>4 DEF PoolInv, NothingBeginsClosed
  <1>3. CASE ThreadEnds(c)
    <2>1. Running' \subseteq Running
      BY <1>3 DEF ThreadEnds, Running, PoolInv
    <2>2. Cardinality(Running') <= Cardinality(Running) /\ Cardinality(Running') \in Nat
      BY <2>1, SetsAreFinite, FS_Subset, FS_CardinalityType
    <2>3. Cardinality(Running') <= Permits
      BY <2>2, SetsAreFinite, PoolAssumption DEF PoolInv
    <2>4. /\ work' \in [Callers -> Works] /\ Pending' \subseteq Pending
          /\ \A d \in Callers :
               work'[d] \in {"pending", "done", "dropped"} => pc'[d] = "calling"
      BY <1>1, <1>3 DEF ThreadEnds, PoolInv, Works, Pending
    <2> QED BY <1>1, <2>3, <2>4 DEF PoolInv, NothingBeginsClosed
  <1> QED BY <1>2, <1>3 DEF Thread

LEMMA RunCounts ==
    ASSUME PoolInv, NEW c \in Callers, Runs(c) \/ Cancel(c)
    PROVE  PoolInv'
  <1>1. CASE TakePermit(c)
    <2>1. CASE Submit(c) /\ free' = free - 1 /\ pc' = [pc EXCEPT ![c] = "calling"]
      BY <1>1, <2>1, SubmitCounts DEF TakePermit
    <2>2. CASE pc' = [pc EXCEPT ![c] = "shut"] /\ UNCHANGED <<free, made, work>>
      BY <1>1, <2>2, IdleCounts DEF TakePermit, Stages, Ends
    <2> QED BY <1>1, <2>1, <2>2 DEF TakePermit
  <1>2. CASE Queue(c)
    BY <1>2, IdleCounts DEF Queue, Stages
  <1>3. CASE UsePermit(c)
    <2>1. CASE Submit(c) /\ pc' = [pc EXCEPT ![c] = "calling"] /\ free' = free
      BY <1>3, <2>1, SubmitCounts DEF UsePermit
    <2>2. CASE Release(c, "shut") /\ work' = work
      BY <1>3, <2>2, LeaveCounts DEF UsePermit, Stages, Ends
    <2> QED BY <1>3, <2>1, <2>2 DEF UsePermit
  <1>4. CASE Return(c) \/ Dropped(c)
    <2>1. PICK to \in {"ready", "served", "raised", "dropped"} : Release(c, to)
      BY <1>4 DEF Return, Dropped
    <2> QED BY <1>4, <2>1, LeaveCounts DEF Return, Dropped, Stages, Ends
  <1>5. CASE Cancel(c)
    <2>1. CASE /\ pc[c] \in {"ready", "waiting"}
               /\ pc' = [pc EXCEPT ![c] = "cancelled"]
               /\ UNCHANGED <<free, work>>
      BY <1>5, <2>1, IdleCounts DEF Cancel, Stages, Ends
    <2>2. CASE pc[c] = "granted" /\ Release(c, "cancelled") /\ work' = work
      BY <1>5, <2>2, LeaveCounts DEF Cancel, Stages, Ends
    <2>3. CASE /\ pc[c] = "calling" /\ Release(c, "cancelled")
               /\ work' = [work EXCEPT ![c] = IF @ = "running" THEN @ ELSE "none"]
      <3>1. \E w \in {"none", "running"} :
                (w = "running" => work[c] = w) /\ work' = [work EXCEPT ![c] = w]
        BY <2>3 DEF PoolInv
      <3> QED BY <1>5, <2>3, <3>1, LeaveCounts DEF Cancel, Stages, Ends
    <2> QED BY <1>5, <2>1, <2>2, <2>3 DEF Cancel
  <1> QED BY <1>1, <1>2, <1>3, <1>4, <1>5 DEF Runs

LEMMA CloseCounts ==
    ASSUME PoolInv, Close
    PROVE  PoolInv'
  <1>1. UNCHANGED <<free, pc>> /\ Holders' = Holders
    BY DEF Close, Holders
  <1>2. Running' = Running /\ Pending' = {} /\ work' \in [Callers -> Works]
        /\ \A d \in Callers :
               work'[d] \in {"pending", "done", "dropped"} => pc'[d] = "calling"
    BY DEF Close, Running, Pending, PoolInv, Works
  <1> QED BY <1>1, <1>2 DEF PoolInv, NothingBeginsClosed, Close

THEOREM PoolHolds == Spec => []PoolInv
  <1>1. Init => PoolInv
    <2> SUFFICES ASSUME Init PROVE PoolInv
      OBVIOUS
    <2>1. Holders = {} /\ Running = {} /\ Pending = {}
      BY DEF Init, PoolInit, Holders, Running, Pending
    <2>2. Cardinality({}) = 0
      BY FS_EmptySet
    <2>3. free + Cardinality(Holders) = Permits /\ free \in Nat
      BY <2>1, <2>2, PoolAssumption DEF Init, PoolInit
    <2>4. Cardinality(Running) <= Permits
      BY <2>1, <2>2, PoolAssumption
    <2> QED BY <2>1, <2>3, <2>4
            DEF Init, PoolInit, PoolInv, NothingBeginsClosed, Stages, Works
  <1>2. PoolInv /\ [Next]_vars => PoolInv'
    <2> SUFFICES ASSUME PoolInv, [Next]_vars PROVE PoolInv'
      OBVIOUS
    <2>1. CASE Tick \/ UNCHANGED vars
      BY <2>1 DEF Tick, vars, pool, PoolInv, Holders, Running, Pending, NothingBeginsClosed
    <2>2. ASSUME NEW c \in Callers, Arrive(c) PROVE PoolInv'
      BY <2>2, IdleCounts DEF Arrive, Admit, Enter, TurnAway, Stages, Ends
    <2>3. CASE Close
      BY <2>3, CloseCounts
    <2>4. ASSUME NEW c \in Callers, Moves(c) PROVE PoolInv'
      BY <2>4, RunCounts, ThreadCounts DEF Moves
    <2> QED BY <2>1, <2>2, <2>3, <2>4 DEF Next
  <1> QED BY <1>1, <1>2, PTL DEF Spec

QueueOK == waiters \in Seq(Callers) /\ made \in [Callers -> Nat]

\* Every variable of the limiter and of the pool has its type.
THEOREM TypeCorrect == Spec => []TypeOK
  <1>1. Init => QueueOK
    BY DEF Init, PoolInit, QueueOK
  <1>2. QueueOK /\ [Next]_vars => QueueOK'
    <2> SUFFICES ASSUME QueueOK, [Next]_vars PROVE QueueOK'
      OBVIOUS
    <2>1. CASE UNCHANGED <<waiters, made>>
      BY <2>1 DEF QueueOK
    <2>2. CASE Tick \/ Close \/ UNCHANGED vars \/ \E c \in Callers : Arrive(c)
      BY <2>2 DEF QueueOK, Tick, Close, vars, pool, Arrive, Admit, Enter, TurnAway
    <2>3. ASSUME NEW c \in Callers, NEW to, Release(c, to), made' = made
          PROVE  QueueOK'
      <3>1. CASE UNCHANGED waiters
        BY <2>3, <3>1 DEF QueueOK
      <3>2. CASE waiters # <<>> /\ waiters' = Tail(waiters)
        BY <2>3, <3>2 DEF QueueOK
      <3> QED BY <2>3, <3>1, <3>2 DEF Release, First
    <2>4. ASSUME NEW c \in Callers, Thread(c) \/ TakePermit(c) \/ Queue(c)
          PROVE  QueueOK'
      <3>1. CASE Thread(c)
        BY <3>1 DEF QueueOK, Thread, ThreadTakes, ThreadEnds
      <3>2. CASE TakePermit(c)
        BY <3>2 DEF QueueOK, TakePermit, Submit
      <3>3. CASE Queue(c)
        BY <3>3 DEF QueueOK, Queue
      <3> QED BY <2>4, <3>1, <3>2, <3>3
    <2>5. ASSUME NEW c \in Callers, UsePermit(c) \/ Return(c) \/ Dropped(c)
          PROVE  QueueOK'
      BY <2>3, <2>5 DEF QueueOK, UsePermit, Submit, Return, Dropped
    <2>6. ASSUME NEW c \in Callers, Cancel(c)
          PROVE  QueueOK'
      <3>1. CASE Unqueue(c) /\ made' = made
        <4>1. PICK i \in DOMAIN waiters :
                waiters' = SubSeq(waiters, 1, i - 1) \o SubSeq(waiters, i + 1, Len(waiters))
          BY <3>1 DEF Unqueue
        <4>2. waiters \in Seq(Callers) /\ i \in 1 .. Len(waiters)
          BY DEF QueueOK
        <4>3. SubSeq(waiters, 1, i - 1) \in Seq(Callers)
          BY <4>2
        <4>4. SubSeq(waiters, i + 1, Len(waiters)) \in Seq(Callers)
          BY <4>2
        <4>5. waiters' \in Seq(Callers)
          BY <4>1, <4>3, <4>4
        <4> QED BY <3>1, <4>5 DEF QueueOK
      <3>2. CASE Release(c, "cancelled") /\ made' = made
        BY <2>3, <3>2
      <3>3. CASE UNCHANGED <<waiters, made>>
        BY <3>3 DEF QueueOK
      <3> QED BY <2>6, <3>1, <3>2, <3>3 DEF Cancel
    <2> QED BY <2>2, <2>4, <2>5, <2>6 DEF Next, Moves, Runs
  <1>3. GateInv /\ PoolInv /\ QueueOK => TypeOK
    BY DEF GateInv, PoolInv, QueueOK, TypeOK
  <1> QED BY <1>1, <1>2, <1>3, GateHolds, PoolHolds, PTL DEF Spec

\* Work waits for a thread only behind the work of tasks that have gone.
THEOREM PermitsMeanThreads == Spec => []PermitMeansThread
  <1>1. PoolInv => PermitMeansThread
    <2> SUFFICES ASSUME PoolInv, Cardinality(Running) = Permits
                 PROVE  Cardinality(Pending) <= Cardinality(Orphans)
      BY DEF PermitMeansThread
    <2> DEFINE awaited == Running \ Orphans
    <2>1. /\ IsFiniteSet(awaited) /\ Cardinality(awaited) \in Nat
          /\ Cardinality(Running) = Cardinality(awaited) + Cardinality(Orphans)
      <3>1. awaited \subseteq Running /\ Orphans \subseteq Running
        BY DEF Orphans
      <3>2. IsFiniteSet(awaited) /\ Cardinality(awaited) \in Nat
        BY <3>1, SetsAreFinite, FS_Subset, FS_CardinalityType
      <3>3. awaited \cup Orphans = Running /\ awaited \cap Orphans = {}
        BY <3>1
      <3>4. Cardinality(awaited \cup Orphans)
              = Cardinality(awaited) + Cardinality(Orphans) - Cardinality(awaited \cap Orphans)
        BY <3>2, SetsAreFinite, FS_Union
      <3>5. Cardinality(awaited \cap Orphans) = 0
        BY <3>3, FS_EmptySet
      <3>6. Cardinality(awaited \cup Orphans) = Cardinality(Running)
        BY <3>3
      <3> HIDE DEF awaited
      <3> QED BY <3>2, <3>4, <3>5, <3>6, SetsAreFinite
    <2>2. /\ IsFiniteSet(awaited \cup Pending)
          /\ Cardinality(awaited \cup Pending) = Cardinality(awaited) + Cardinality(Pending)
      <3>1. awaited \cap Pending = {}
        BY DEF Running, Pending
      <3>2. /\ IsFiniteSet(awaited \cup Pending)
            /\ Cardinality(awaited \cup Pending)
                 = Cardinality(awaited) + Cardinality(Pending) - Cardinality(awaited \cap Pending)
        BY <2>1, SetsAreFinite, FS_Union
      <3> QED BY <2>1, <3>1, <3>2, SetsAreFinite, FS_EmptySet
    <2>3. Cardinality(awaited \cup Pending) <= Cardinality(Holders)
      <3>1. awaited \cup Pending \subseteq Holders
        BY DEF Running, Orphans, Pending, Holders, PoolInv
      <3> QED BY <3>1, SetsAreFinite, FS_Subset
    <2>4. Cardinality(Holders) <= Permits
      BY SetsAreFinite, PoolAssumption DEF PoolInv
    <2> QED BY <2>1, <2>2, <2>3, <2>4, SetsAreFinite, PoolAssumption
  <1> QED BY <1>1, PoolHolds, PTL

\* No boto3 call begins once the backend is closed.
THEOREM ClosedIsQuiet == Spec => []NothingBeginsClosed
  <1>1. PoolInv => NothingBeginsClosed
    BY DEF PoolInv
  <1> QED BY <1>1, PoolHolds, PTL
-----------------------------------------------------------------------------

\* Nothing but the limiter refuses.
LEMMA MovesRefuseNobody ==
    ASSUME PoolInv, NEW c \in Callers, NEW d \in Callers, Moves(d), pc[c] # "refused"
    PROVE  pc'[c] # "refused"
  <1>1. ASSUME NEW to \in Stages \ {"refused"}, pc' = [pc EXCEPT ![d] = to]
        PROVE  pc'[c] # "refused"
    BY <1>1 DEF PoolInv
  <1>2. ASSUME NEW to \in Stages \ {"refused"}, Release(d, to)
        PROVE  pc'[c] # "refused"
    BY <1>2 DEF Release, PoolInv
  <1>3. CASE Thread(d)
    BY <1>3 DEF Thread, ThreadTakes, ThreadEnds
  <1>4. CASE TakePermit(d) \/ Queue(d) \/ UsePermit(d)
    BY <1>1, <1>2, <1>4 DEF TakePermit, Queue, UsePermit, Stages, Ends
  <1>5. CASE Return(d) \/ Dropped(d) \/ Cancel(d)
    BY <1>1, <1>2, <1>5 DEF Return, Dropped, Cancel, Stages, Ends
  <1> QED BY <1>3, <1>4, <1>5 DEF Moves, Runs

\* Who is answered 429 has used its cap up within the last window.
THEOREM RefusalsHaveCause == Spec => RefusedWithCause
  <1>1. GateInv /\ PoolInv /\ [Next]_vars =>
          [\A c \in Callers : pc[c] # "refused" /\ pc'[c] = "refused" =>
             LET past == served[Peer[c]] IN
             /\ Len(past) >= MaxRequests
             /\ now - past[Len(past) - MaxRequests + 1] < WindowSeconds]_vars
    <2> SUFFICES ASSUME GateInv, PoolInv, Next, NEW c \in Callers,
                        pc[c] # "refused", pc'[c] = "refused"
                 PROVE  LET past == served[Peer[c]] IN
                        /\ Len(past) >= MaxRequests
                        /\ now - past[Len(past) - MaxRequests + 1] < WindowSeconds
      BY DEF vars
    <2> DEFINE p == Peer[c]
    <2>1. Breach(p)
      <3>1. PICK d \in Callers : Arrive(d) \/ Moves(d)
        <4>1. ~Tick /\ ~Close
          BY DEF Tick, Close, pool
        <4> QED BY <4>1 DEF Next
      <3>2. CASE Arrive(d)
        <4>1. d = c
          BY <3>2 DEF PoolInv, Arrive, Admit, Enter, TurnAway
        <4> QED BY <3>2, <4>1 DEF PoolInv, Arrive, Admit, Enter, TurnAway
      <3>3. CASE Moves(d)
        BY <3>3, MovesRefuseNobody
      <3> QED BY <3>1, <3>2, <3>3
    <2>2. /\ Swept(p).count + 1 > MaxRequests
          /\ ~Over(Swept(p).start)
          /\ InWindow(served[p], Swept(p), now)
      BY <2>1, WhereCounted, PathAssumption, WindowAssumption DEF Breach
    <2>3. Swept(p) \in Bucket /\ served[p] \in Seq(Nat) /\ now \in Nat
      BY SweepKeepsAccounts, PathAssumption DEF GateInv
    <2>4. Share(Swept(p)) = MaxRequests
      BY <2>2, <2>3, WindowAssumption DEF Share, Bucket
    <2> DEFINE first == Len(served[p]) - MaxRequests + 1
    <2>5. Len(served[p]) >= MaxRequests /\ served[p][first] = Swept(p).start
      BY <2>2, <2>4 DEF InWindow
    <2>6. now - Swept(p).start < WindowSeconds
      BY <2>2, <2>3, WindowAssumption DEF Over, Bucket
    <2> QED BY <2>5, <2>6
  <1> QED BY <1>1, GateHolds, PoolHolds, PTL DEF Spec, RefusedWithCause
=============================================================================
