-------------------------- MODULE BackendSearchProofs --------------------------
(***************************************************************************)
(* For stores, calls and caps of any size: what a search asks of the       *)
(* service is bounded, Tempo's outage is told from an empty result,        *)
(* opposite filters split the traces, parameters keep what they describe,  *)
(* and every call keeps the promises of the base class.                    *)
(***************************************************************************)
EXTENDS BackendSearch, FiniteSetTheorems, WellFoundedInduction, TLAPS

\* What all steps leave alone but those named.
Ends == step' = "done" /\ UNCHANGED <<store, call, filters, read, pages, todo, found, failed>>

-----------------------------------------------------------------------------
(* The steps of the backends, by what they do to the call.                 *)

LEMMA DatadogSteps ==
    ASSUME DatadogNext
    PROVE  \/ Ask("paging")
           \/ Ends
           \/ step = "paging" /\ DatadogMorePages /\ Read(DatadogHits, DatadogPageLimit)
           \/ step = "paging" /\ StopReading(DatadogHits)
           \/ FetchTraces(First(TraceIds(read), MaxHydrate))
           \/ (todo # <<>> /\ \E t, w : Fetched(<<t>>, w)) \/ NotFetched
  <1>1. ASSUME DatadogStart
        PROVE  Ask("paging")
    BY <1>1 DEF DatadogStart
  <1>2. ASSUME Reject \/ DatadogReadFails \/ DatadogReturnTraces \/
              DatadogReturnSpans \/ DatadogReturnTrace \/
              DatadogReturnServices \/ DatadogReturnOperations \/
              DatadogReturnHealth
        PROVE  Ends
    BY <1>2 DEF Reject, DatadogReadFails, DatadogReturnTraces, DatadogReturnSpans,
           DatadogReturnTrace, DatadogReturnServices, DatadogReturnOperations,
           DatadogReturnHealth, Raise, Return, Ends
  <1>3. ASSUME DatadogReadPage
        PROVE  step = "paging" /\ DatadogMorePages /\ Read(DatadogHits, DatadogPageLimit)
    BY <1>3 DEF DatadogReadPage
  <1>4. ASSUME DatadogEndOfPages
        PROVE  step = "paging" /\ StopReading(DatadogHits)
    BY <1>4 DEF DatadogEndOfPages
  <1>5. ASSUME DatadogFindTraces
        PROVE  FetchTraces(First(TraceIds(read), MaxHydrate))
    BY <1>5 DEF DatadogFindTraces
  <1>6. ASSUME DatadogFetchTrace
        PROVE  (todo # <<>> /\ \E t, w : Fetched(<<t>>, w)) \/ NotFetched
    BY <1>6 DEF DatadogFetchTrace
  <1> QED
    BY <1>1, <1>2, <1>3, <1>4, <1>5, <1>6 DEF DatadogNext

LEMMA SentrySteps ==
    ASSUME SentryNext
    PROVE  \/ (Ask("values") \/ Ask("paging"))
           \/ Ends
           \/ step \in {"paging", "values"} /\ SentryMorePages /\ Read(SentryHits, SentryPageLimit)
           \/ step \in {"paging", "values"} /\ StopReading(SentryHits)
           \/ SentrySample
           \/ FetchTraces(First(TraceIds(read), MaxHydrate))
           \/ (todo # <<>> /\ \E t, w : Fetched(<<t>>, w)) \/ NotFetched
  <1>1. ASSUME SentryStart
        PROVE  (Ask("values") \/ Ask("paging"))
    BY <1>1 DEF SentryStart
  <1>2. ASSUME Reject \/ SentryRequestFails \/ SentryReturnTraces \/
              SentryReturnSpans \/ SentryReturnTrace \/
              SentryReturnServices \/ SentryReturnOperations \/
              SentryReturnHealth
        PROVE  Ends
    BY <1>2 DEF Reject, SentryRequestFails, SentryReturnTraces, SentryReturnSpans,
           SentryReturnTrace, SentryReturnServices, SentryReturnOperations,
           SentryReturnHealth, Raise, Return, Ends
  <1>3. ASSUME SentryReadPage \/ SentryReadValues
        PROVE  step \in {"paging", "values"} /\ SentryMorePages /\ Read(SentryHits, SentryPageLimit)
    BY <1>3 DEF SentryReadPage, SentryReadValues
  <1>4. ASSUME SentryEndOfPages \/ SentryEndOfValues
        PROVE  step \in {"paging", "values"} /\ StopReading(SentryHits)
    BY <1>4 DEF SentryEndOfPages, SentryEndOfValues
  <1>6. ASSUME SentryFindTraces
        PROVE  FetchTraces(First(TraceIds(read), MaxHydrate))
    BY <1>6 DEF SentryFindTraces
  <1>7. ASSUME SentryFetchTrace
        PROVE  (todo # <<>> /\ \E t, w : Fetched(<<t>>, w)) \/ NotFetched
    BY <1>7 DEF SentryFetchTrace
  <1> QED
    BY <1>1, <1>2, <1>3, <1>4, <1>6, <1>7 DEF SentryNext

LEMMA NewRelicSteps ==
    ASSUME NewRelicNext
    PROVE  \/ Ask("paging")
           \/ Ends
           \/ step = "paging" /\ ReadOnce(NewRelicHits, NewRelicRowLimit)
           \/ FetchTraces(First(TraceIds(read), MaxHydrate))
           \/ (todo # <<>> /\ \E t, w : Fetched(<<t>>, w)) \/ NotFetched
  <1>1. ASSUME NewRelicStart
        PROVE  Ask("paging")
    BY <1>1 DEF NewRelicStart
  <1>2. ASSUME Reject \/ NewRelicRequestFails \/
              NewRelicReturnTraces \/ NewRelicReturnSpans \/
              NewRelicReturnTrace \/ NewRelicReturnServices \/
              NewRelicReturnOperations \/ NewRelicReturnHealth
        PROVE  Ends
    BY <1>2 DEF Reject, NewRelicRequestFails, NewRelicReturnTraces,
           NewRelicReturnSpans, NewRelicReturnTrace, NewRelicReturnServices,
           NewRelicReturnOperations, NewRelicReturnHealth, Raise, Return, Ends
  <1>3. ASSUME NewRelicSearch
        PROVE  step = "paging" /\ ReadOnce(NewRelicHits, NewRelicRowLimit)
    BY <1>3 DEF NewRelicSearch
  <1>4. ASSUME NewRelicFindTraces
        PROVE  FetchTraces(First(TraceIds(read), MaxHydrate))
    BY <1>4 DEF NewRelicFindTraces
  <1>5. ASSUME NewRelicFetchTrace
        PROVE  (todo # <<>> /\ \E t, w : Fetched(<<t>>, w)) \/ NotFetched
    BY <1>5 DEF NewRelicFetchTrace
  <1> QED
    BY <1>1, <1>2, <1>3, <1>4, <1>5 DEF NewRelicNext

LEMMA TempoSteps ==
    ASSUME TempoNext
    PROVE  \/ Ask("paging")
           \/ Ends
           \/ step = "paging" /\ call.op # "get_trace" /\ ReadOnce(TempoHits, TempoRowLimit)
           \/ IsSearch /\ FetchTraces(TempoAttempted)
           \/ (todo # <<>> /\ \E w : Fetched(<<>>, w) \/ \E t : Fetched(<<t>>, w)) \/ NotFetched
  <1>1. ASSUME TempoStart
        PROVE  Ask("paging")
    BY <1>1 DEF TempoStart
  <1>2. ASSUME Reject \/ TempoRequestFails \/ TempoAllFetchesFailed \/
              TempoReturnTraces \/ TempoReturnSpans \/ TempoReturnTrace \/
              TempoReturnServices \/ TempoReturnOperations \/
              TempoReturnHealth
        PROVE  Ends
    BY <1>2 DEF Reject, TempoRequestFails, TempoAllFetchesFailed,
           TempoReturnTraces, TempoReturnSpans, TempoReturnTrace, TempoReturnServices,
           TempoReturnOperations, TempoReturnHealth, Raise, Return, Ends
  <1>3. ASSUME TempoSearch
        PROVE  step = "paging" /\ call.op # "get_trace" /\ ReadOnce(TempoHits, TempoRowLimit)
    BY <1>3 DEF TempoSearch
  <1>4. ASSUME TempoFindTraces
        PROVE  IsSearch /\ FetchTraces(TempoAttempted)
    BY <1>4 DEF TempoFindTraces
  <1>5. ASSUME TempoFetchTrace
        PROVE  (todo # <<>> /\ \E w : Fetched(<<>>, w) \/ \E t : Fetched(<<t>>, w)) \/ NotFetched
    BY <1>5 DEF TempoFetchTrace, TempoParsed
  <1> QED
    BY <1>1, <1>2, <1>3, <1>4, <1>5 DEF TempoNext

LEMMA XRaySteps ==
    ASSUME XRayNext
    PROVE  \/ (Ask("graph") \/ Ask("paging"))
           \/ Ends
           \/ XRaySample
           \/ step = "paging" /\ call.op # "get_trace" /\ XRayMorePages /\ Read(XRayHits, Len(XRayHits))
           \/ step = "paging" /\ call.op # "get_trace" /\ StopReading(XRayHits)
           \/ FetchTraces(First(TraceIds(read), MaxHydrate))
           \/ XRayFindTrace
           \/ XRayReadBatch
  <1>1. ASSUME XRayStart
        PROVE  (Ask("graph") \/ Ask("paging"))
    BY <1>1 DEF XRayStart
  <1>2. ASSUME Reject \/ XRayShowGraph \/ XRayRequestFails \/
              XRayReturnTraces \/ XRayReturnSpans \/ XRayReturnTrace \/
              XRayReturnServices \/ XRayReturnOperations \/
              XRayReturnHealth
        PROVE  Ends
    BY <1>2 DEF Reject, XRayShowGraph, XRayRequestFails, XRayReturnTraces,
           XRayReturnSpans, XRayReturnTrace, XRayReturnServices, XRayReturnOperations,
           XRayReturnHealth, XRayAnswered, Raise, Return, Ends
  <1>4. ASSUME XRayReadPage
        PROVE  step = "paging" /\ call.op # "get_trace" /\ XRayMorePages /\ Read(XRayHits, Len(XRayHits))
    BY <1>4 DEF XRayReadPage
  <1>5. ASSUME XRayEndOfPages
        PROVE  step = "paging" /\ call.op # "get_trace" /\ StopReading(XRayHits)
    BY <1>5 DEF XRayEndOfPages
  <1>6. ASSUME XRayFindTraces
        PROVE  FetchTraces(First(TraceIds(read), MaxHydrate))
    BY <1>6 DEF XRayFindTraces
  <1> QED
    BY <1>1, <1>2, <1>4, <1>5, <1>6 DEF XRayNext

LEMMA JaegerSteps ==
    ASSUME JaegerNext
    PROVE  \/ Ask("paging")
           \/ Ends
           \/ step = "paging" /\ \E hits, most : ReadOnce(hits, most)
  <1>1. ASSUME JaegerStart
        PROVE  Ask("paging")
    BY <1>1 DEF JaegerStart
  <1>2. ASSUME Reject \/ JaegerRefuseNoService \/ JaegerRequestFails \/
              JaegerReturnTraces \/ JaegerReturnSpans \/
              JaegerReturnTrace \/ JaegerReturnServices \/
              JaegerReturnOperations \/ JaegerReturnHealth
        PROVE  Ends
    BY <1>2 DEF Reject, JaegerRefuseNoService, JaegerRequestFails,
           JaegerReturnTraces, JaegerReturnSpans, JaegerReturnTrace,
           JaegerReturnServices, JaegerReturnOperations, JaegerReturnHealth, Raise,
           Return, Ends
  <1>3. ASSUME JaegerSearch
        PROVE  step = "paging" /\ \E hits, most : ReadOnce(hits, most)
    BY <1>3 DEF JaegerSearch
  <1> QED
    BY <1>1, <1>2, <1>3 DEF JaegerNext

LEMMA TraceloopSteps ==
    ASSUME TraceloopNext
    PROVE  \/ Ask("paging")
           \/ Ends
           \/ step = "paging" /\ \E hits, most : ReadOnce(hits, most)
  <1>1. ASSUME TraceloopStart
        PROVE  Ask("paging")
    BY <1>1 DEF TraceloopStart
  <1>2. ASSUME Reject \/ TraceloopRequestFails \/
              TraceloopReturnTraces \/ TraceloopReturnSpans \/
              TraceloopReturnTrace \/ TraceloopReturnServices \/
              TraceloopReturnOperations \/ TraceloopReturnHealth
        PROVE  Ends
    BY <1>2 DEF Reject, TraceloopRequestFails, TraceloopReturnTraces,
           TraceloopReturnSpans, TraceloopReturnTrace, TraceloopReturnServices,
           TraceloopReturnOperations, TraceloopReturnHealth, Raise, Return, Ends
  <1>3. ASSUME TraceloopSearch
        PROVE  step = "paging" /\ \E hits, most : ReadOnce(hits, most)
    BY <1>3 DEF TraceloopSearch
  <1> QED
    BY <1>1, <1>2, <1>3 DEF TraceloopNext

-----------------------------------------------------------------------------
(* Numbers and lists.                                                      *)

IsSeq(s) == \E S : s \in Seq(S)

LEMMA MinIs ==
    ASSUME NEW a \in Int, NEW b \in Int
    PROVE  Min({a, b}) = IF a < b THEN a ELSE b
  <1>1. PICK m : m = IF a < b THEN a ELSE b
    OBVIOUS
  <1>2. m \in {a, b} /\ \A y \in {a, b} : m <= y
    BY <1>1
  <1>3. PICK c : c = Min({a, b})
    OBVIOUS
  <1>4. c \in {a, b} /\ \A y \in {a, b} : c <= y
    BY <1>2, <1>3, Zenon DEF Min
  <1> QED
    BY <1>1, <1>3, <1>4

LEMMA MaxIs ==
    ASSUME NEW a \in Int, NEW b \in Int
    PROVE  Max({a, b}) = IF a > b THEN a ELSE b
  <1>1. PICK m : m = IF a > b THEN a ELSE b
    OBVIOUS
  <1>2. m \in {a, b} /\ \A y \in {a, b} : m >= y
    BY <1>1
  <1>3. PICK c : c = Max({a, b})
    OBVIOUS
  <1>4. c \in {a, b} /\ \A y \in {a, b} : c >= y
    BY <1>2, <1>3, Zenon DEF Max
  <1> QED
    BY <1>1, <1>3, <1>4

\* The first n of a list.
LEMMA FirstIs ==
    ASSUME NEW s, Len(s) \in Nat, NEW n \in Nat
    PROVE  IsSeq(First(s, n)) /\ Len(First(s, n)) \in Nat /\ Len(First(s, n)) <= n
  <1>1. PICK m : m = Min({Len(s), n})
    OBVIOUS
  <1>2. m \in Nat /\ m <= n
    BY <1>1, MinIs
  <1>3. PICK t : t = First(s, n)
    OBVIOUS
  <1>4. t = SubSeq(s, 1, m)
    BY <1>1, <1>3 DEF First
  <1>5. Len(t) = m /\ DOMAIN t = 1 .. m
    BY <1>2, <1>4
  <1>6. t \in Seq({s[i] : i \in 1 .. m})
    <2>1. t = [i \in 1 .. m |-> s[i]]
      BY <1>2, <1>4
    <2> QED
      BY <1>2, <2>1
  <1> QED
    BY <1>2, <1>3, <1>5, <1>6 DEF IsSeq

\* Induction over the natural numbers, for the members of a set.
LEMMA SetInduction ==
    ASSUME NEW S, 0 \in S, \A n \in Nat : n \in S => n + 1 \in S
    PROVE  Nat \subseteq S
  <1> SUFFICES ASSUME Nat \ S # {} PROVE FALSE
    OBVIOUS
  <1>1. PICK R : R = OpToRel(<, Nat)
    BY Zenon
  <1>2. IsWellFoundedOn(R, Nat)
    BY <1>1, NatLessThanWellFounded, Zenon
  <1>3. \A x, y \in Nat : x < y => <<x, y>> \in R
    BY <1>1, Zenon DEF OpToRel
  <1>4. PICK T : T = Nat \ S
    OBVIOUS
  <1>5. PICK m \in T : \A y \in T : ~ (<<y, m>> \in R)
    <2>1. \E x \in T : \A y \in T : ~ (<<y, x>> \in R)
      BY <1>2, <1>4, WFMin
    <2> QED
      BY <2>1
  <1>6. m \in Nat /\ m # 0
    BY <1>4, <1>5
  <1>7. m - 1 \in Nat /\ m - 1 < m /\ m - 1 + 1 = m
    BY <1>6
  <1>8. m - 1 \in T
    BY <1>4, <1>5, <1>7
  <1> QED
    BY <1>3, <1>5, <1>6, <1>7, <1>8

\* f[n] is what is kept of the first n members of s.
Keeps(f, s, P) ==
    f = [n \in 0 .. Len(s) |->
            IF n = 0 THEN <<>>
            ELSE IF n \in P THEN Append(f[n - 1], s[n]) ELSE f[n - 1]]

KeepsTo(f, m, s, P) ==
    /\ DOMAIN f = 0 .. m
    /\ \A n \in 0 .. m :
        f[n] = IF n = 0 THEN <<>>
               ELSE IF n \in P THEN Append(f[n - 1], s[n]) ELSE f[n - 1]

LEMMA KeepsExists ==
    ASSUME NEW S, NEW s \in Seq(S), NEW P
    PROVE  \E f : Keeps(f, s, P)
  <1>1. PICK N \in Nat : N = Len(s)
    OBVIOUS
  <1>2. PICK T : T = {m \in Nat : \E g : KeepsTo(g, m, s, P)}
    OBVIOUS
  <1>3. 0 \in T
    <2>1. PICK g : g = [n \in 0 .. 0 |-> <<>>]
      OBVIOUS
    <2>2. KeepsTo(g, 0, s, P)
      BY <2>1 DEF KeepsTo
    <2> QED
      BY <1>2, <2>2
  <1>4. ASSUME NEW m \in Nat, m \in T
        PROVE  m + 1 \in T
    <2>1. PICK g : KeepsTo(g, m, s, P)
      BY <1>2, <1>4
    <2>2. PICK h : h = [n \in 0 .. m + 1 |->
                          IF n = m + 1
                          THEN IF m + 1 \in P THEN Append(g[m], s[m + 1]) ELSE g[m]
                          ELSE g[n]]
      OBVIOUS
    <2>3. DOMAIN h = 0 .. m + 1 /\ \A n \in 0 .. m : h[n] = g[n]
      BY <2>2
    <2>4. h[m + 1] = IF m + 1 \in P THEN Append(h[m], s[m + 1]) ELSE h[m]
      BY <2>2, <2>3
    <2>5. ASSUME NEW n \in 0 .. m + 1
          PROVE  h[n] = IF n = 0 THEN <<>>
                        ELSE IF n \in P THEN Append(h[n - 1], s[n]) ELSE h[n - 1]
      <3>1. CASE n = m + 1
        <4>1. n - 1 = m /\ n # 0
          BY <3>1
        <4> QED
          BY <2>4, <3>1, <4>1
      <3>2. CASE n \in 0 .. m
        <4>1. n # 0 => n - 1 \in 0 .. m
          BY <3>2
        <4>2. n # 0 => h[n - 1] = g[n - 1]
          BY <2>3, <4>1
        <4> QED
          BY <2>1, <2>3, <3>2, <4>2 DEF KeepsTo
      <3> QED
        BY <3>1, <3>2
    <2>6. KeepsTo(h, m + 1, s, P)
      BY <2>3, <2>5 DEF KeepsTo
    <2> QED
      BY <1>2, <2>6
  <1>5. PICK f : KeepsTo(f, N, s, P)
    <2>1. N \in T
      BY <1>3, <1>4, SetInduction
    <2> QED
      BY <1>2, <2>1
  <1>6. f = [n \in 0 .. N |-> f[n]]
    BY <1>5 DEF KeepsTo
  <1> QED
    BY <1>1, <1>5, <1>6 DEF KeepsTo, Keeps

\* At keeps members of s, no more than there are.
LEMMA AtIs ==
    ASSUME NEW S, NEW s \in Seq(S), NEW P
    PROVE  At(s, P) \in Seq(S) /\ Len(At(s, P)) <= Len(s)
  <1>1. PICK N \in Nat : N = Len(s)
    OBVIOUS
  <1>2. PICK f : f = CHOOSE x : Keeps(x, s, P)
    OBVIOUS
  <1>3. Keeps(f, s, P)
    <2>1. \E x : Keeps(x, s, P)
      BY KeepsExists
    <2> QED
      BY <1>2, <2>1, Zenon
  <1>4. KeepsTo(f, N, s, P)
    BY <1>1, <1>3 DEF Keeps, KeepsTo
  <1>5. PICK T : T = {m \in Nat : m <= N => f[m] \in Seq(S) /\ Len(f[m]) <= m}
    OBVIOUS
  <1>6. 0 \in T
    <2>1. f[0] = <<>>
      BY <1>1, <1>4 DEF KeepsTo
    <2>2. <<>> \in Seq(S) /\ Len(<<>>) = 0
      OBVIOUS
    <2>3. f[0] \in Seq(S) /\ Len(f[0]) <= 0
      BY <2>1, <2>2
    <2> QED
      BY <1>5, <2>3
  <1>7. ASSUME NEW m \in Nat, m \in T
        PROVE  m + 1 \in T
    <2> SUFFICES ASSUME m + 1 <= N
                 PROVE  f[m + 1] \in Seq(S) /\ Len(f[m + 1]) <= m + 1
      BY <1>5
    <2>1. PICK v : v = f[m]
      OBVIOUS
    <2>2. v \in Seq(S) /\ Len(v) \in Nat /\ Len(v) <= m
      BY <1>5, <1>7, <2>1
    <2>3. PICK n \in Nat : n = m + 1
      OBVIOUS
    <2>4. n \in 0 .. N /\ n # 0 /\ n - 1 = m /\ n \in 1 .. N
      BY <1>1, <2>3
    <2>5. f[n] = IF n \in P THEN Append(v, s[n]) ELSE v
      <3>1. f[n] = IF n = 0 THEN <<>>
                   ELSE IF n \in P THEN Append(f[n - 1], s[n]) ELSE f[n - 1]
        BY <1>4, <2>4 DEF KeepsTo
      <3> QED
        BY <2>1, <2>4, <3>1
    <2>6. s[n] \in S
      BY <1>1, <2>4
    <2>7. Append(v, s[n]) \in Seq(S) /\ Len(Append(v, s[n])) = Len(v) + 1
      BY <2>2, <2>6
    <2> QED
      BY <2>2, <2>3, <2>5, <2>7
  <1>8. N \in T
    BY <1>6, <1>7, SetInduction
  <1>9. At(s, P) = f[N]
    BY <1>1, <1>2 DEF At, Keeps
  <1> QED
    BY <1>1, <1>5, <1>8, <1>9

\* The trace ids of rows, and those that Tempo tries.
LEMMA TraceIdsAre ==
    ASSUME NEW rows, IsSeq(rows)
    PROVE  Len(TraceIds(rows)) \in Nat
  <1>1. PICK ids : ids = [i \in DOMAIN rows |-> rows[i].trace]
    OBVIOUS
  <1>2. DOMAIN rows = 1 .. Len(rows) /\ Len(rows) \in Nat
    BY DEF IsSeq
  <1>3. PICK S : S = {ids[i] : i \in DOMAIN rows}
    OBVIOUS
  <1>4. ids \in Seq(S)
    BY <1>1, <1>2, <1>3
  <1>5. At(ids, {i \in DOMAIN ids : \A j \in 1 .. i - 1 : ids[j] # ids[i]}) \in Seq(S)
    BY <1>4, AtIs
  <1> QED
    BY <1>1, <1>5 DEF TraceIds

LEMMA AttemptedIs ==
    ASSUME IsSeq(read)
    PROVE  IsSeq(TempoAttempted) /\ Len(TempoAttempted) <= MaxHydrate
  <1>1. PICK rows : rows = First(read, MaxHydrate)
    OBVIOUS
  <1>2. First(read, MaxHydrate) = rows
    BY <1>1 DEF First, Min
  <1>3. Len(read) \in Nat /\ MaxHydrate \in Nat
    BY SearchAssumption DEF IsSeq
  <1>4. IsSeq(rows) /\ Len(rows) \in Nat /\ Len(rows) <= MaxHydrate
    BY <1>1, <1>3, FirstIs
  <1>5. DOMAIN rows = 1 .. Len(rows)
    BY <1>4 DEF IsSeq
  <1>6. PICK ids : ids = [i \in DOMAIN rows |-> read[i].trace]
    OBVIOUS
  <1>7. PICK S : S = {ids[i] : i \in DOMAIN rows}
    BY Zenon
  <1>8. ids \in Seq(S) /\ Len(ids) = Len(rows)
    BY <1>4, <1>5, <1>6, <1>7
  <1>9. PICK P : P = {i \in DOMAIN ids : ids[i] \notin OddIds}
    OBVIOUS
  <1>10. TempoAttempted = At(ids, P)
    BY <1>2, <1>6, <1>9 DEF TempoAttempted, At
  <1>11. At(ids, P) \in Seq(S) /\ Len(At(ids, P)) <= Len(ids)
    BY <1>8, AtIs
  <1> QED
    BY <1>3, <1>4, <1>8, <1>10, <1>11 DEF IsSeq

-----------------------------------------------------------------------------
(* What a search asks of the service.                                      *)

\* The steps before traces are fetched.
Early == {"asked", "paging", "graph", "values", "read"}

OneRequest == {"newrelic", "tempo", "jaeger", "traceloop"}
Hydrating == {"datadog", "sentry", "newrelic", "tempo"}
Paging == {"datadog", "sentry"}
\* Whose rows are looked at again.
Reading == Hydrating \cup {"xray"}

\* The rows that the pages of a search may bring together.
RowCap == Limit * IF call.op = "search_traces" THEN 5 ELSE 2

\* What was fetched comes out of what was to be fetched, which is empty before;
\* who asks once has not asked before; a page or a batch is asked for below its
\* cap.
Bounded ==
    /\ call.limit \in Nat \ {0} /\ call.op \in Methods
    /\ pages \in Nat /\ (pages <= MaxPages \/ pages <= MaxBatchPages)
    /\ failed \in Nat
    /\ call.backend \in Reading => IsSeq(read)
    /\ step \in Early => failed = 0 /\ todo = <<>> /\ found = <<>>
    /\ step = "asked" => read = <<>>
    /\ step \in {"asked", "graph"} => pages = 0
    /\ step = "paging" /\ call.backend \in OneRequest => pages = 0
    /\ step = "paging" /\ call.backend = "xray" /\ call.op = "get_trace" => pages = 0
    /\ step = "fetching" /\ call.backend = "xray" => pages < MaxBatchPages
    /\ IsSearch /\ call.backend \in Paging => Len(read) <= RowCap
    /\ call.backend \in Hydrating =>
        IsSeq(todo) /\ IsSeq(found) /\ failed + Len(todo) + Len(found) <= MaxHydrate

LEMMA LimitIs ==
    ASSUME call.limit \in Nat \ {0}
    PROVE  Limit \in Nat \ {0} /\ RowCap \in Nat
  <1>1. Limit = IF call.limit < MaxQueryLimit THEN call.limit ELSE MaxQueryLimit
    BY MinIs, CallsAssumption DEF Limit
  <1>2. Limit \in Nat \ {0}
    BY <1>1, CallsAssumption
  <1>3. Limit * 5 \in Nat /\ Limit * 2 \in Nat
    BY <1>2
  <1> QED
    BY <1>2, <1>3 DEF RowCap

LEMMA BoundedInit == Init => Bounded
  <1> SUFFICES ASSUME Init PROVE Bounded
    OBVIOUS
  <1>1. call.limit \in Nat \ {0} /\ call.op \in Methods
    BY CallsAssumption DEF Init
  <1>2. RowCap \in Nat
    BY <1>1, LimitIs
  <1>3. read = <<>> /\ todo = <<>> /\ found = <<>> /\ failed = 0 /\ pages = 0
    BY DEF Init
  <1>4. IsSeq(<<>>) /\ Len(<<>>) = 0
    <2>1. <<>> \in Seq({})
      OBVIOUS
    <2> QED
      BY <2>1 DEF IsSeq
  <1>5. {MaxPages, MaxBatchPages, MaxHydrate} \subseteq Nat \ {0}
    BY SearchAssumption
  <1> QED
    BY <1>1, <1>2, <1>3, <1>4, <1>5 DEF Bounded

\* Limits and the kind of the call do not change.
LEMMA SameCall ==
    ASSUME call' = call
    PROVE  IsSearch' = IsSearch /\ RowCap' = RowCap /\ Limit' = Limit
  BY DEF IsSearch, RowCap, Limit

LEMMA BoundedAsk ==
    ASSUME Bounded, NEW first \in Early \ {"asked"}, Ask(first)
    PROVE  Bounded'
  <1>1. step = "asked" /\ step' = first
        /\ UNCHANGED <<call, read, pages, todo, found, failed>>
    BY DEF Ask
  <1> QED
    BY <1>1, SameCall DEF Bounded, Early, IsSeq

LEMMA BoundedEnds ==
    ASSUME Bounded, Ends
    PROVE  Bounded'
  BY SameCall DEF Bounded, Ends, Early, IsSeq

\* A page.
LEMMA BoundedRead ==
    ASSUME Bounded, NEW hits, Len(hits) \in Nat, NEW most \in Nat,
           Read(hits, most), step \in {"paging", "values"}, pages < MaxPages,
           call.backend \in Paging \cup {"xray"},
           call.backend = "xray" => call.op # "get_trace",
           IsSearch /\ call.backend \in Paging => Len(read) + most <= RowCap
    PROVE  Bounded'
  <1>1. PICK n \in 0 .. Min({most, Len(hits) - Len(read)}) :
           read' = First(hits, Len(read) + n)
    BY DEF Read
  <1>2. Len(read) \in Nat /\ Len(hits) - Len(read) \in Int
    BY DEF Bounded, IsSeq, Reading, Hydrating, Paging
  <1>3. n \in Nat /\ n <= most
    <2>1. PICK m : m = Min({most, Len(hits) - Len(read)})
      OBVIOUS
    <2>2. m \in Int /\ m <= most
      BY <1>2, <2>1, MinIs
    <2> QED
      BY <1>1, <2>1, <2>2
  <1>4. IsSeq(read') /\ Len(read') \in Nat /\ Len(read') <= Len(read) + n
    BY <1>1, <1>2, <1>3, FirstIs
  <1>5. IsSearch /\ call.backend \in Paging => Len(read') <= RowCap
    <2>1. RowCap \in Nat
      BY LimitIs DEF Bounded
    <2> QED
      BY <1>2, <1>3, <1>4, <2>1
  <1>6. /\ pages' = pages + 1 /\ step' \in {"read", "paging", "values"}
        /\ UNCHANGED <<call, todo, found, failed>>
    BY DEF Read
  <1>7. pages' \in Nat /\ pages' <= MaxPages
    BY <1>6, SearchAssumption DEF Bounded
  <1>8. failed = 0 /\ todo = <<>> /\ found = <<>>
    BY DEF Bounded, Early
  <1>9. call.backend \notin OneRequest
    BY DEF OneRequest, Paging
  <1> QED
    BY <1>4, <1>5, <1>6, <1>7, <1>8, <1>9, SameCall DEF Bounded, IsSeq

\* The only request for rows.
LEMMA BoundedReadOnce ==
    ASSUME Bounded, NEW hits, NEW most,
           call.backend \in Reading => Len(hits) \in Nat /\ most \in Nat,
           ReadOnce(hits, most), step = "paging", call.backend \in OneRequest
    PROVE  Bounded'
  <1>1. call.backend \in Reading => IsSeq(read')
    BY FirstIs DEF ReadOnce
  <1>2. /\ pages' = pages + 1 /\ step' = "read"
        /\ UNCHANGED <<call, todo, found, failed>>
    BY DEF ReadOnce
  <1>3. pages = 0 /\ failed = 0 /\ todo = <<>> /\ found = <<>>
    BY DEF Bounded, Early
  <1>4. pages' \in Nat /\ pages' <= MaxPages
    BY <1>2, <1>3, SearchAssumption
  <1>5. call.backend \notin Paging /\ call.backend # "xray"
    BY DEF OneRequest, Paging
  <1> QED
    BY <1>1, <1>2, <1>3, <1>4, <1>5, SameCall DEF Bounded, IsSeq

LEMMA BoundedStop ==
    ASSUME Bounded, NEW hits, StopReading(hits), step \in {"paging", "values"}
    PROVE  Bounded'
  <1>1. step' = "read" /\ UNCHANGED <<call, read, pages, todo, found, failed>>
    BY DEF StopReading
  <1>2. failed = 0 /\ todo = <<>> /\ found = <<>>
    BY DEF Bounded, Early
  <1> QED
    BY <1>1, <1>2, SameCall DEF Bounded, IsSeq

\* Traces are to be fetched: no more than the cap.
LEMMA BoundedFetchTraces ==
    ASSUME Bounded, NEW ids, IsSeq(ids), Len(ids) <= MaxHydrate, FetchTraces(ids)
    PROVE  Bounded'
  <1>1. /\ step = "read" /\ step' = "fetching" /\ todo' = ids /\ pages' = 0
        /\ UNCHANGED <<call, read, found, failed>>
    BY DEF FetchTraces
  <1>2. failed = 0 /\ found = <<>>
    BY <1>1 DEF Bounded, Early
  <1>3. Len(ids) \in Nat /\ Len(<<>>) = 0 /\ IsSeq(<<>>)
    BY DEF IsSeq
  <1>4. failed' + Len(todo') + Len(found') <= MaxHydrate
    BY <1>1, <1>2, <1>3, SearchAssumption
  <1>5. 0 <= MaxPages /\ 0 < MaxBatchPages
    BY SearchAssumption
  <1> QED
    BY <1>1, <1>2, <1>3, <1>4, <1>5, SameCall DEF Bounded, Early, IsSeq

\* One fetch: what comes of it is at most one item.
LEMMA BoundedFetched ==
    ASSUME Bounded, NEW traces, NEW whole, Fetched(traces, whole), todo # <<>>,
           traces = <<>> \/ \E t : traces = <<t>>, call.backend \in Hydrating
    PROVE  Bounded'
  <1>1. /\ step = "fetching" /\ step' = "fetching" /\ todo' = Tail(todo)
        /\ found' = found \o traces /\ UNCHANGED <<call, read, pages, failed>>
    BY DEF Fetched
  <1>2. PICK S : todo \in Seq(S)
    BY DEF Bounded, IsSeq
  <1>3. Tail(todo) \in Seq(S) /\ Len(Tail(todo)) = Len(todo) - 1 /\ Len(todo) \in Nat
    BY <1>2
  <1>4. PICK T : found \in Seq(T)
    BY DEF Bounded, IsSeq
  <1>5. PICK U : traces \in Seq(U) /\ Len(traces) <= 1
    <2>1. CASE traces = <<>>
      <3>1. traces \in Seq({}) /\ Len(traces) = 0
        BY <2>1
      <3> QED
        BY <3>1
    <2>2. CASE \E t : traces = <<t>>
      <3>1. PICK t : traces = <<t>>
        BY <2>2
      <3>2. traces \in Seq({t}) /\ Len(traces) = 1
        BY <3>1
      <3> QED
        BY <3>2
    <2> QED
      BY <2>1, <2>2
  <1>6. PICK V : V = T \cup U
    OBVIOUS
  <1>7. found \in Seq(V) /\ traces \in Seq(V)
    BY <1>4, <1>5, <1>6
  <1>8. /\ found \o traces \in Seq(V) /\ Len(found \o traces) = Len(found) + Len(traces)
        /\ Len(found) \in Nat /\ Len(traces) \in Nat
    BY <1>7
  <1>9. /\ IsSeq(todo') /\ IsSeq(found') /\ failed' = failed
        /\ failed' + Len(todo') + Len(found') <= MaxHydrate
    <2>1. failed \in Nat /\ failed + Len(todo) + Len(found) <= MaxHydrate /\ MaxHydrate \in Nat
      BY SearchAssumption DEF Bounded
    <2> QED
      BY <1>1, <1>3, <1>5, <1>8, <2>1 DEF IsSeq
  <1> QED
    BY <1>1, <1>9, SameCall DEF Bounded, Early

LEMMA BoundedNotFetched ==
    ASSUME Bounded, NotFetched, call.backend \in Hydrating
    PROVE  Bounded'
  <1>1. /\ step = "fetching" /\ step' = "fetching" /\ todo' = Tail(todo) /\ todo # <<>>
        /\ failed' = failed + 1 /\ UNCHANGED <<call, read, pages, found>>
    BY DEF NotFetched
  <1>2. PICK S : todo \in Seq(S)
    BY DEF Bounded, IsSeq
  <1>3. Tail(todo) \in Seq(S) /\ Len(Tail(todo)) = Len(todo) - 1 /\ Len(todo) \in Nat
    BY <1>1, <1>2
  <1>4. IsSeq(todo') /\ failed' \in Nat
    BY <1>1, <1>3 DEF Bounded, IsSeq
  <1>5. call.backend \in Hydrating => failed' + Len(todo') + Len(found') <= MaxHydrate
    <2>1. failed \in Nat
      BY DEF Bounded
    <2>2. ASSUME call.backend \in Hydrating
          PROVE  failed + Len(todo) + Len(found) <= MaxHydrate /\ Len(found) \in Nat
      BY <2>2 DEF Bounded, IsSeq
    <2> QED
      BY <1>1, <1>3, <2>1, <2>2, SearchAssumption
  <1> QED
    BY <1>1, <1>4, <1>5, SameCall DEF Bounded, Early, IsSeq

LEMMA TracesFit ==
    ASSUME Bounded, call.backend \in Reading
    PROVE  LET ids == First(TraceIds(read), MaxHydrate)
           IN  IsSeq(ids) /\ Len(ids) <= MaxHydrate
  <1>1. Len(TraceIds(read)) \in Nat
    BY TraceIdsAre DEF Bounded
  <1> QED
    BY <1>1, FirstIs, SearchAssumption

\* Each backend.
LEMMA PageFits ==
    ASSUME Bounded, call.backend \in Reading, NEW target \in Nat, Len(read) < target, NEW size \in Nat \ {0}
    PROVE  LET most == Min({Max({target - Len(read), 1}), size})
           IN  most \in Nat /\ Len(read) + most <= target
  <1>1. PICK l \in Nat : l = Len(read)
    BY DEF Bounded, IsSeq
  <1>2. target - l \in Int /\ target - l >= 1
    BY <1>1
  <1>3. Max({target - l, 1}) = target - l
    BY <1>2, MaxIs
  <1>4. PICK m : m = Min({target - l, size})
    OBVIOUS
  <1>5. m \in Nat /\ m <= target - l
    BY <1>2, <1>4, MinIs
  <1>6. l + m <= target
    BY <1>2, <1>5
  <1> QED
    BY <1>1, <1>3, <1>4, <1>5, <1>6

LEMMA DatadogPageFits ==
    ASSUME Bounded, call.backend = "datadog", DatadogMorePages
    PROVE  /\ DatadogPageLimit \in Nat
           /\ IsSearch => Len(read) + DatadogPageLimit <= RowCap
  <1>1. pages < MaxPages /\ Len(read) < DatadogTarget
    BY DEF DatadogMorePages
  <1>2. Limit \in Nat \ {0} /\ Limit = Limit
    BY LimitIs DEF Bounded, Limit, Min
  <1>3. {PageSize, MaxPages} \subseteq Nat \ {0}
    BY SearchAssumption
  <1>4. /\ call.op = "search_traces" => DatadogTarget = 5 * Limit
        /\ call.op = "search_spans" => DatadogTarget = 2 * Limit
    BY <1>2 DEF DatadogTarget
  <1>5. IsSearch => DatadogTarget = RowCap /\ RowCap \in Nat
    BY <1>2, <1>4 DEF IsSearch, RowCap
  <1>6. PICK m : m = DatadogPageLimit
    OBVIOUS
  <1>7. m = Min({Max({DatadogTarget - Len(read), 1}), PageSize})
    BY <1>6 DEF DatadogPageLimit, Min, Max
  <1>8. DatadogTarget \in Nat
    <2>1. MaxPages * PageSize \in Nat /\ 5 * Limit \in Nat /\ 2 * Limit \in Nat
      BY <1>2, <1>3
    <2>2. call.op \in Methods
      BY DEF Bounded
    <2> QED
      BY <1>2, <1>3, <2>1, <2>2 DEF DatadogTarget, Methods
  <1>9. m \in Nat /\ Len(read) + m <= DatadogTarget
    BY <1>1, <1>3, <1>7, <1>8, PageFits DEF Reading, Hydrating
  <1> QED
    BY <1>5, <1>6, <1>9

LEMMA BoundedDatadog ==
    ASSUME Bounded, DatadogNext, call.backend = "datadog"
    PROVE  Bounded'
  <1>1. CASE Ask("paging")
    BY <1>1, BoundedAsk DEF Early
  <1>2. CASE Ends
    BY <1>2, BoundedEnds
  <1>3. CASE step = "paging" /\ DatadogMorePages /\ Read(DatadogHits, DatadogPageLimit)
    <2>1. pages < MaxPages
      BY <1>3 DEF DatadogMorePages
    <2>2. Len(DatadogHits) \in Nat
      OBVIOUS
    <2> QED
      BY <1>3, <2>1, <2>2, DatadogPageFits, BoundedRead DEF Paging
  <1>4. CASE step = "paging" /\ StopReading(DatadogHits)
    BY <1>4, BoundedStop
  <1>5. CASE FetchTraces(First(TraceIds(read), MaxHydrate))
    BY <1>5, TracesFit, BoundedFetchTraces DEF Reading, Hydrating
  <1>6. CASE todo # <<>> /\ \E t, w : Fetched(<<t>>, w)
    BY <1>6, BoundedFetched DEF Hydrating
  <1>7. CASE NotFetched
    BY <1>7, BoundedNotFetched DEF Hydrating
  <1> QED
    BY <1>1, <1>2, <1>3, <1>4, <1>5, <1>6, <1>7, DatadogSteps

LEMMA SentryPageFits ==
    ASSUME Bounded, call.backend = "sentry", SentryMorePages
    PROVE  /\ SentryPageLimit \in Nat
           /\ IsSearch => Len(read) + SentryPageLimit <= RowCap
  <1>1. pages < MaxPages /\ (SentryLimited => Len(read) < SentryTarget)
    BY DEF SentryMorePages
  <1>2. Limit \in Nat \ {0} /\ Limit = Limit
    BY LimitIs DEF Bounded, Limit, Min
  <1>3. {PageSize, MaxPages} \subseteq Nat \ {0}
    BY SearchAssumption
  <1>4. /\ call.op = "search_traces" => SentryTarget = 5 * Limit
        /\ call.op = "search_spans" => SentryTarget = 2 * Limit
    BY <1>2 DEF SentryTarget
  <1>5. IsSearch => SentryTarget = RowCap /\ RowCap \in Nat
    BY <1>2, <1>4 DEF IsSearch, RowCap
  <1>6. PICK m : m = SentryPageLimit
    OBVIOUS
  <1>7. /\ SentryLimited => m = Min({Max({SentryTarget - Len(read), 1}), PageSize})
        /\ ~SentryLimited => m = PageSize
    BY <1>6 DEF SentryPageLimit, Min, Max
  <1>8. SentryTarget \in Nat
    <2>1. MaxPages * PageSize \in Nat /\ 5 * Limit \in Nat /\ 2 * Limit \in Nat
      BY <1>2, <1>3
    <2>2. call.op \in Methods
      BY DEF Bounded
    <2> QED
      BY <1>2, <1>3, <2>1, <2>2 DEF SentryTarget, Methods
  <1>9. m \in Nat /\ (SentryLimited => Len(read) + m <= SentryTarget)
    BY <1>1, <1>3, <1>7, <1>8, PageFits DEF Reading, Hydrating
  <1> QED
    BY <1>5, <1>6, <1>9 DEF IsSearch, SentryLimited

LEMMA BoundedSentry ==
    ASSUME Bounded, SentryNext, call.backend = "sentry"
    PROVE  Bounded'
  <1>1. CASE Ask("values") \/ Ask("paging")
    BY <1>1, BoundedAsk DEF Early
  <1>2. CASE Ends
    BY <1>2, BoundedEnds
  <1>3. CASE step \in {"paging", "values"} /\ SentryMorePages /\ Read(SentryHits, SentryPageLimit)
    <2>1. pages < MaxPages
      BY <1>3 DEF SentryMorePages
    <2>2. Len(SentryHits) \in Nat
      OBVIOUS
    <2> QED
      BY <1>3, <2>1, <2>2, SentryPageFits, BoundedRead DEF Paging
  <1>4. CASE step \in {"paging", "values"} /\ StopReading(SentryHits)
    BY <1>4, BoundedStop
  <1>8. CASE SentrySample
    <2>1. /\ step = "values" /\ step' = "paging" /\ read' = <<>> /\ pages' = 0
          /\ UNCHANGED <<call, todo, found, failed>>
      BY <1>8 DEF SentrySample
    <2>2. failed = 0 /\ todo = <<>> /\ found = <<>>
      BY <2>1 DEF Bounded, Early
    <2>3. IsSeq(<<>>) /\ Len(<<>>) = 0
      <3>1. <<>> \in Seq({})
        OBVIOUS
      <3> QED
        BY <3>1 DEF IsSeq
    <2>4. RowCap \in Nat /\ 0 <= MaxPages
      BY LimitIs, SearchAssumption DEF Bounded
    <2> QED
      BY <2>1, <2>2, <2>3, <2>4, SameCall DEF Bounded, OneRequest
  <1>5. CASE FetchTraces(First(TraceIds(read), MaxHydrate))
    BY <1>5, TracesFit, BoundedFetchTraces DEF Reading, Hydrating
  <1>6. CASE todo # <<>> /\ \E t, w : Fetched(<<t>>, w)
    BY <1>6, BoundedFetched DEF Hydrating
  <1>7. CASE NotFetched
    BY <1>7, BoundedNotFetched DEF Hydrating
  <1> QED
    BY <1>1, <1>2, <1>3, <1>4, <1>5, <1>6, <1>7, <1>8, SentrySteps

LEMMA NewRelicRowsFit ==
    ASSUME Bounded
    PROVE  NewRelicRowLimit \in Nat
  <1>1. Limit \in Nat \ {0} /\ Limit = Limit
    BY LimitIs DEF Bounded, Limit, Min
  <1>2. PICK n : n = Limit * IF call.op = "search_traces" THEN 5 ELSE 2
    OBVIOUS
  <1>3. n \in Nat
    BY <1>1, <1>2
  <1>4. NewRelicRowLimit = Min({MaxRows, Max({1, n})})
    BY <1>1, <1>2 DEF NewRelicRowLimit, Min, Max
  <1> QED
    BY <1>3, <1>4, MinIs, MaxIs, SearchAssumption

LEMMA BoundedNewRelic ==
    ASSUME Bounded, NewRelicNext, call.backend = "newrelic"
    PROVE  Bounded'
  <1>1. CASE Ask("paging")
    BY <1>1, BoundedAsk DEF Early
  <1>2. CASE Ends
    BY <1>2, BoundedEnds
  <1>3. CASE step = "paging" /\ ReadOnce(NewRelicHits, NewRelicRowLimit)
    <2>1. Len(NewRelicHits) \in Nat
      OBVIOUS
    <2> QED
      BY <1>3, <2>1, NewRelicRowsFit, BoundedReadOnce DEF OneRequest
  <1>4. CASE FetchTraces(First(TraceIds(read), MaxHydrate))
    BY <1>4, TracesFit, BoundedFetchTraces DEF Reading, Hydrating
  <1>5. CASE todo # <<>> /\ \E t, w : Fetched(<<t>>, w)
    BY <1>5, BoundedFetched DEF Hydrating
  <1>6. CASE NotFetched
    BY <1>6, BoundedNotFetched DEF Hydrating
  <1> QED
    BY <1>1, <1>2, <1>3, <1>4, <1>5, <1>6, NewRelicSteps

LEMMA TempoRowsFit ==
    ASSUME Bounded, call.op # "get_trace"
    PROVE  TempoRowLimit \in Nat
  <1>1. Limit \in Nat \ {0} /\ Limit = Limit
    BY LimitIs DEF Bounded, Limit, Min
  <1>2. PICK n : n = Min({2 * Limit, 1000})
    OBVIOUS
  <1>3. n \in Nat
    BY <1>1, <1>2, MinIs
  <1>4. call.op \in Methods
    BY DEF Bounded
  <1>5. Min({2 * Limit, 1000}) = n
    BY <1>2 DEF Min
  <1> QED
    BY <1>1, <1>3, <1>4, <1>5, SearchAssumption DEF TempoRowLimit, Methods

LEMMA BoundedTempo ==
    ASSUME Bounded, TempoNext, call.backend = "tempo"
    PROVE  Bounded'
  <1>1. CASE Ask("paging")
    BY <1>1, BoundedAsk DEF Early
  <1>2. CASE Ends
    BY <1>2, BoundedEnds
  <1>3. CASE step = "paging" /\ call.op # "get_trace" /\ ReadOnce(TempoHits, TempoRowLimit)
    <2>1. Len(TempoHits) \in Nat
      OBVIOUS
    <2> QED
      BY <1>3, <2>1, TempoRowsFit, BoundedReadOnce DEF OneRequest
  <1>4. CASE FetchTraces(TempoAttempted)
    BY <1>4, AttemptedIs, BoundedFetchTraces DEF Bounded, Reading, Hydrating
  <1>5. CASE todo # <<>> /\ \E w : Fetched(<<>>, w) \/ \E t : Fetched(<<t>>, w)
    BY <1>5, BoundedFetched DEF Hydrating
  <1>6. CASE NotFetched
    BY <1>6, BoundedNotFetched DEF Hydrating
  <1> QED
    BY <1>1, <1>2, <1>3, <1>4, <1>5, <1>6, TempoSteps

LEMMA BoundedXRay ==
    ASSUME Bounded, XRayNext, call.backend = "xray"
    PROVE  Bounded'
  <1>1. CASE Ask("graph") \/ Ask("paging")
    BY <1>1, BoundedAsk DEF Early
  <1>2. CASE Ends
    BY <1>2, BoundedEnds
  <1> call.backend \notin OneRequest /\ call.backend \notin Hydrating /\ call.backend \notin Paging
    BY DEF OneRequest, Hydrating, Paging
  <1>3. CASE XRaySample
    <2>1. /\ step = "graph" /\ step' = "paging"
          /\ UNCHANGED <<call, read, pages, todo, found, failed>>
      BY <1>3 DEF XRaySample
    <2> QED
      BY <2>1, SameCall DEF Bounded, Early, IsSeq
  <1>4. CASE step = "paging" /\ call.op # "get_trace" /\ XRayMorePages /\ Read(XRayHits, Len(XRayHits))
    <2>1. pages < MaxPages
      BY <1>4 DEF XRayMorePages
    <2>2. Len(XRayHits) \in Nat
      OBVIOUS
    <2> QED
      BY <1>4, <2>1, <2>2, BoundedRead
  <1>5. CASE step = "paging" /\ call.op # "get_trace" /\ StopReading(XRayHits)
    BY <1>5, BoundedStop
  <1>6. CASE FetchTraces(First(TraceIds(read), MaxHydrate))
    BY <1>6, TracesFit, BoundedFetchTraces DEF Reading
  <1>7. CASE XRayFindTrace
    <2>1. /\ step = "paging" /\ call.op = "get_trace"
          /\ step' = "fetching" /\ todo' = <<call.subject>>
          /\ UNCHANGED <<call, read, pages, found, failed>>
      BY <1>7 DEF XRayFindTrace
    <2>2. pages = 0 /\ 0 < MaxBatchPages
      BY <2>1, SearchAssumption DEF Bounded
    <2>3. todo' \in Seq({call.subject})
      BY <2>1
    <2> QED
      BY <2>1, <2>2, <2>3, SameCall DEF Bounded, Early, IsSeq
  <1>8. CASE XRayReadBatch
    <2>1. step = "fetching" /\ UNCHANGED <<call, step, read, failed>>
      BY <1>8 DEF XRayReadBatch
    <2>2. pages < MaxBatchPages /\ pages \in Nat /\ 0 < MaxBatchPages /\ MaxBatchPages \in Nat
      BY <2>1, SearchAssumption DEF Bounded
    <2>3. \/ todo' = XRayRest /\ pages' = 0
          \/ pages' = pages + 1 /\ pages + 1 # MaxBatchPages /\ todo' = todo
      BY <1>8 DEF XRayReadBatch, XRayBatchEnds
    <2>4. pages' \in Nat /\ pages' < MaxBatchPages
      BY <2>2, <2>3
    <2> QED
      BY <2>1, <2>2, <2>4, SameCall DEF Bounded, Early, IsSeq
  <1> QED
    BY <1>1, <1>2, <1>3, <1>4, <1>5, <1>6, <1>7, <1>8, XRaySteps

LEMMA BoundedJaeger ==
    ASSUME Bounded, JaegerNext, call.backend = "jaeger"
    PROVE  Bounded'
  <1>1. CASE Ask("paging")
    BY <1>1, BoundedAsk DEF Early
  <1>2. CASE Ends
    BY <1>2, BoundedEnds
  <1>3. CASE step = "paging" /\ \E hits, most : ReadOnce(hits, most)
    BY <1>3, BoundedReadOnce DEF OneRequest, Reading, Hydrating
  <1> QED
    BY <1>1, <1>2, <1>3, JaegerSteps

LEMMA BoundedTraceloop ==
    ASSUME Bounded, TraceloopNext, call.backend = "traceloop"
    PROVE  Bounded'
  <1>1. CASE Ask("paging")
    BY <1>1, BoundedAsk DEF Early
  <1>2. CASE Ends
    BY <1>2, BoundedEnds
  <1>3. CASE step = "paging" /\ \E hits, most : ReadOnce(hits, most)
    BY <1>3, BoundedReadOnce DEF OneRequest, Reading, Hydrating
  <1> QED
    BY <1>1, <1>2, <1>3, TraceloopSteps

LEMMA BoundedStep ==
    ASSUME Bounded, [Next]_vars
    PROVE  Bounded'
  <1>1. CASE UNCHANGED vars
    BY <1>1, SameCall DEF vars, Bounded, IsSeq
  <1>3. CASE Done
    BY <1>3, SameCall DEF Done, vars, Bounded, IsSeq
  <1>2. CASE Next
    BY <1>2, <1>3, BoundedDatadog, BoundedSentry, BoundedNewRelic, BoundedTempo, BoundedXRay,
       BoundedJaeger, BoundedTraceloop DEF Next
  <1> QED
    BY <1>1, <1>2

LEMMA BoundedInvariance == Spec => []Bounded
  BY BoundedInit, BoundedStep, PTL DEF Spec

LEMMA BoundedRequests == Bounded => RequestsBounded
  <1> SUFFICES ASSUME Bounded PROVE RequestsBounded
    OBVIOUS
  <1>1. pages <= Max({MaxPages, MaxBatchPages})
    <2>1. /\ MaxPages \in Int /\ MaxBatchPages \in Int
      BY SearchAssumption
    <2>2. pages \in Nat /\ (pages <= MaxPages \/ pages <= MaxBatchPages)
      BY DEF Bounded
    <2> QED
      BY <2>1, <2>2, MaxIs
  <1>2. IsSearch /\ call.backend \in Paging => Len(read) <= RowCap
    BY DEF Bounded
  <1>3. call.backend \in Hydrating => failed + Len(todo) + Len(found) <= MaxHydrate
    BY DEF Bounded
  <1> QED
    BY <1>1, <1>2, <1>3 DEF RequestsBounded, RowCap, Paging, Hydrating

\* No search, whatever the service answers, reads more pages than allowed, brings
\* more rows than its target or fetches more traces than the cap
\* (datadog.py:437-446, xray.py:665).
THEOREM RequestsAreBounded == Spec => []RequestsBounded
  BY BoundedInvariance, BoundedRequests, PTL

-----------------------------------------------------------------------------
(* What all backends leave alone.                                          *)

Asked ==
    /\ step = "asked" /\ (IsSearch => ValidQuery)
    /\ filters' = IF IsSearch THEN AllFilters ELSE <<>>

\* The call and the store stay as they are, and the filters once they are read.
LEMMA NextKeeps ==
    ASSUME Next
    PROVE  UNCHANGED <<store, call>> /\ (UNCHANGED filters \/ Asked)
  <1>1. ASSUME NEW first, Ask(first)
        PROVE  UNCHANGED <<store, call>> /\ Asked
    BY <1>1 DEF Ask, Asked
  <1>2. Ends => UNCHANGED <<store, call, filters>>
    BY DEF Ends
  <1>3. ASSUME NEW hits, NEW most, Read(hits, most) \/ ReadOnce(hits, most) \/ StopReading(hits)
        PROVE  UNCHANGED <<store, call, filters>>
    BY <1>3 DEF Read, ReadOnce, StopReading
  <1>4. ASSUME NEW ids, NEW w, FetchTraces(ids) \/ Fetched(ids, w) \/ NotFetched
        PROVE  UNCHANGED <<store, call, filters>>
    BY <1>4 DEF FetchTraces, Fetched, NotFetched
  <1>5. SentrySample => UNCHANGED <<store, call, filters>>
    BY DEF SentrySample
  <1>6. XRaySample \/ XRayFindTrace \/ XRayReadBatch => UNCHANGED <<store, call, filters>>
    BY DEF XRaySample, XRayFindTrace, XRayReadBatch
  <1>14. CASE Done
    BY <1>14 DEF Done, vars
  <1>7. CASE DatadogNext
    BY <1>1, <1>2, <1>3, <1>4, <1>7, DatadogSteps
  <1>8. CASE SentryNext
    BY <1>1, <1>2, <1>3, <1>4, <1>5, <1>8, SentrySteps
  <1>9. CASE NewRelicNext
    BY <1>1, <1>2, <1>3, <1>4, <1>9, NewRelicSteps
  <1>10. CASE TempoNext
    BY <1>1, <1>2, <1>3, <1>4, <1>10, TempoSteps
  <1>11. CASE XRayNext
    BY <1>1, <1>2, <1>3, <1>4, <1>6, <1>11, XRaySteps
  <1>12. CASE JaegerNext
    BY <1>1, <1>2, <1>3, <1>12, JaegerSteps
  <1>13. CASE TraceloopNext
    BY <1>1, <1>2, <1>3, <1>13, TraceloopSteps
  <1> QED
    BY <1>7, <1>8, <1>9, <1>10, <1>11, <1>12, <1>13, <1>14 DEF Next

-----------------------------------------------------------------------------
(* An outage of Tempo's lookups.                                           *)

\* What failed and what is still to be fetched was attempted.
Accounted ==
    call.backend = "tempo" =>
        /\ step # "done" => answer = {}
        /\ step = "fetching" => failed + Len(todo) <= Len(TempoAttempted)
        /\ OutageIsNotEmpty

LEMMA AccountedInit == Init => Accounted
  BY DEF Init, Accounted, OutageIsNotEmpty

\* The rows are the same, and so are the traces that were attempted.
LEMMA SameAttempted ==
    ASSUME UNCHANGED <<call, read>>
    PROVE  UNCHANGED <<TempoAttempted, IsSearch>>
  BY DEF TempoAttempted, First, Min, At, IsSearch

\* What has no answer meets the promise.
LEMMA NoAnswer ==
    ASSUME answer' = {}
    PROVE  OutageIsNotEmpty'
  BY DEF OutageIsNotEmpty

LEMMA AccountedTempo ==
    ASSUME Bounded, Accounted, TempoNext, call.backend = "tempo"
    PROVE  Accounted'
  <1>1. call' = call /\ call.op \in Methods
    BY NextKeeps DEF Next, Bounded
  <1>2. step # "done"
    BY DEF TempoNext, TempoStart, Ask, Reject, TempoSearch, TempoRequestFails,
           TempoFindTraces, FetchTraces, TempoFetchTrace, Fetched,
           NotFetched, TempoAllFetchesFailed, TempoReturnTraces, TempoReturnSpans,
           TempoReturnTrace, TempoReturnServices, TempoReturnOperations, TempoReturnHealth
  <1>3. answer = {}
    BY <1>2 DEF Accounted
  <1>4. CASE step' \in {"paging", "read"} /\ answer' = answer
    BY <1>3, <1>4, NoAnswer DEF Accounted
  <1>5. CASE TempoFindTraces
    <2>1. /\ step' = "fetching" /\ todo' = TempoAttempted /\ failed' = failed
          /\ answer' = answer /\ read' = read /\ step = "read"
      BY <1>5 DEF TempoFindTraces, FetchTraces
    <2>2. failed = 0
      BY <2>1 DEF Bounded, Early
    <2>3. TempoAttempted' = TempoAttempted
      BY <1>1, <2>1, SameAttempted
    <2>4. Len(TempoAttempted) \in Nat
      OBVIOUS
    <2>5. failed' + Len(todo') <= Len(TempoAttempted)'
      BY <2>1, <2>2, <2>3, <2>4
    <2> QED
      BY <1>3, <2>1, <2>5, NoAnswer DEF Accounted
  <1>6. CASE TempoFetchTrace
    <2>1. /\ step = "fetching" /\ step' = "fetching" /\ todo # <<>> /\ todo' = Tail(todo)
          /\ failed' \in {failed, failed + 1} /\ answer' = answer /\ read' = read
      BY <1>6 DEF TempoFetchTrace, Fetched, NotFetched
    <2>2. PICK S : todo \in Seq(S)
      BY DEF Bounded, Hydrating, IsSeq
    <2>3. Len(Tail(todo)) = Len(todo) - 1 /\ Len(todo) \in Nat
      BY <2>1, <2>2
    <2>4. TempoAttempted' = TempoAttempted
      BY <1>1, <2>1, SameAttempted
    <2>5. failed + Len(todo) <= Len(TempoAttempted)
      BY <2>1 DEF Accounted
    <2>6. failed \in Nat /\ Len(TempoAttempted) \in Nat
      BY DEF Bounded
    <2>7. failed' + Len(todo') <= Len(TempoAttempted)'
      BY <2>1, <2>3, <2>4, <2>5, <2>6
    <2> QED
      BY <1>3, <2>1, <2>7, NoAnswer DEF Accounted
  <1>7. CASE TempoReturnTraces \/ TempoReturnSpans
    <2>1. /\ step = "fetching" /\ step' = "done" /\ todo = <<>> /\ ~TempoOutage
          /\ failed' = failed /\ read' = read
      BY <1>7 DEF TempoReturnTraces, TempoReturnSpans, Return
    <2>2. TempoAttempted' = TempoAttempted
      BY <1>1, <2>1, SameAttempted
    <2>3. failed + 0 <= Len(TempoAttempted) /\ failed \in Nat
      <3>1. Len(<<>>) = 0
        OBVIOUS
      <3> QED
        BY <2>1, <3>1 DEF Accounted, Bounded
    <2>4. failed > 0 => TempoAttempted # <<>>
      <3>1. Len(<<>>) = 0
        OBVIOUS
      <3> QED
        BY <2>3, <3>1
    <2>5. failed > 0 => failed < Len(TempoAttempted)
      <3>1. Len(TempoAttempted) \in Nat
        OBVIOUS
      <3>2. failed > 0 => failed # Len(TempoAttempted)
        BY <2>1, <2>4 DEF TempoOutage
      <3> QED
        BY <2>3, <3>1, <3>2
    <2> QED
      BY <2>1, <2>2, <2>5 DEF Accounted, OutageIsNotEmpty
  <1>8. CASE step' = "done" /\ (answer' = answer \/ call.op \notin {"search_traces", "search_spans"})
    <2>1. answer' = {} \/ ~IsSearch'
      BY <1>1, <1>3, <1>8 DEF IsSearch
    <2> QED
      BY <1>8, <2>1 DEF Accounted, OutageIsNotEmpty
  <1>9. ASSUME TempoStart \/ TempoSearch
        PROVE  step' \in {"paging", "read"} /\ answer' = answer
    BY <1>9 DEF TempoStart, Ask, TempoSearch, ReadOnce
  <1>10. ASSUME Reject \/ TempoRequestFails \/ TempoAllFetchesFailed
                \/ TempoReturnTrace \/ TempoReturnServices \/ TempoReturnOperations
                \/ TempoReturnHealth
         PROVE  /\ step' = "done"
                /\ answer' = answer \/ call.op \notin {"search_traces", "search_spans"}
    BY <1>10 DEF Reject, TempoRequestFails, TempoAllFetchesFailed, TempoReturnTrace,
                 TempoReturnServices, TempoReturnOperations, TempoReturnHealth,
                 Return, Raise
  <1> QED
    BY <1>4, <1>5, <1>6, <1>7, <1>8, <1>9, <1>10 DEF TempoNext

LEMMA AccountedStep ==
    ASSUME Bounded, Accounted, [Next]_vars
    PROVE  Accounted'
  <1>1. CASE UNCHANGED vars \/ Done
    <2>1. UNCHANGED <<step, call, read, todo, failed, answer>>
      BY <1>1 DEF vars, Done
    <2>2. UNCHANGED <<TempoAttempted, IsSearch>>
      BY <2>1, SameAttempted
    <2> QED
      BY <2>1, <2>2 DEF Accounted, OutageIsNotEmpty
  <1>2. CASE Next /\ ~Done
    <2>1. call' = call
      BY <1>2, NextKeeps
    <2>2. CASE call.backend # "tempo"
      BY <2>1, <2>2 DEF Accounted
    <2>3. CASE call.backend = "tempo"
      BY <1>2, <2>3, AccountedTempo DEF Next
    <2> QED
      BY <2>2, <2>3
  <1> QED
    BY <1>1, <1>2

\* A search on Tempo of which every lookup failed never answers: what it answers
\* after failures rests on a lookup that worked, for any number of rows
\* (tempo.py:251-261).
THEOREM OutageIsNoEmptyResult == Spec => []OutageIsNotEmpty
  <1>1. Spec => [](Bounded /\ Accounted)
    BY BoundedInit, BoundedStep, AccountedInit, AccountedStep, PTL DEF Spec
  <1>2. Accounted => OutageIsNotEmpty
    BY DEF Accounted, OutageIsNotEmpty
  <1> QED
    BY <1>1, <1>2, PTL
-----------------------------------------------------------------------------
(* Filters and their opposites.                                            *)

\* What the comparison of a filter relies on: its operands can be compared, and
\* an order has one.
Good(f) ==
    /\ f = [field |-> f.field, operator |-> f.operator, type |-> f.type, value |-> f.value,
            values |-> f.values]
    /\ f.type \in {"number", "string", "boolean"}
    /\ f.type = "number" =>
        /\ \A v \in f.value : v.reads = "finite"
        /\ \A s \in f.values : \A i \in DOMAIN s : s[i].reads = "finite"
    /\ f.type = "number" /\ f.operator \in {"gt", "lt"} =>
        f.value # {} /\ \A v \in f.value : v.number \in Int

\* A list of such filters.
Goods(s) == \E S : s \in Seq(S) /\ \A f \in S : Good(f)

LEMMA GoodsJoin ==
    ASSUME NEW s, NEW t, Goods(s), Goods(t)
    PROVE  Goods(s \o t)
  <1>1. PICK S : s \in Seq(S) /\ \A f \in S : Good(f)
    BY DEF Goods
  <1>2. PICK T : t \in Seq(T) /\ \A f \in T : Good(f)
    BY DEF Goods
  <1>3. PICK U : U = S \cup T
    OBVIOUS
  <1>4. s \in Seq(U) /\ t \in Seq(U) /\ \A f \in U : Good(f)
    BY <1>1, <1>2, <1>3
  <1>5. s \o t \in Seq(U)
    BY <1>4
  <1> QED
    BY <1>4, <1>5 DEF Goods

LEMMA GoodsNone == Goods(<<>>)
  <1>1. PICK S : S = {}
    OBVIOUS
  <1>2. <<>> \in Seq(S) /\ \A f \in S : Good(f)
    BY <1>1
  <1> QED
    BY <1>2 DEF Goods

LEMMA GoodsOne ==
    ASSUME NEW f, Good(f)
    PROVE  Goods(<<f>>)
  <1>1. PICK S : S = {f}
    OBVIOUS
  <1>2. <<f>> \in Seq(S) /\ \A g \in S : Good(g)
    BY <1>1
  <1> QED
    BY <1>2 DEF Goods

\* Filters made of parameters.
LEMMA GoodWhere ==
    ASSUME NEW field, NEW operator \in {"equals", "not_equals", "gte", "lte"},
           NEW type \in {"number", "string"}, NEW v, v.reads = "finite" \/ type = "string"
    PROVE  Good(Where(field, operator, type, v))
  BY DEF Good, Where

Params(p) == p.hasError \in {{}, {TRUE}, {FALSE}} /\ p.tags \in Seq(ToSet(p.tags))

\* What tags become.
WhereTags(tags) ==
    [i \in DOMAIN tags |-> Where(tags[i][1], "equals", "string", Str(tags[i][2]))]

LEMMA GoodsParts ==
    ASSUME NEW p, Params(p)
    PROVE  /\ \A field, text : Goods(WhereText(field, text))
           /\ \A bound : Goods(WhereDuration("gte", bound)) /\ Goods(WhereDuration("lte", bound))
           /\ Goods(WhereStatus(p.hasError))
           /\ Goods(WhereTags(p.tags))
  <1> p.hasError \in {{}, {TRUE}, {FALSE}} /\ p.tags \in Seq(ToSet(p.tags))
    BY DEF Params
  <1>1. ASSUME NEW field, NEW text
        PROVE  Goods(WhereText(field, text))
    <2>1. Good(Where(field, "equals", "string", Str(text)))
      BY GoodWhere
    <2> QED
      BY <2>1, GoodsOne, GoodsNone DEF WhereText
  <1>2. ASSUME NEW operator \in {"gte", "lte"}, NEW bound
        PROVE  Goods(WhereDuration(operator, bound))
    <2>1. PICK n : n = CHOOSE m \in bound : TRUE
      OBVIOUS
    <2>2. Number(n).reads = "finite"
      BY DEF Number
    <2>3. Good(Where("duration", operator, "number", Number(n)))
      BY <2>2, GoodWhere
    <2> QED
      BY <2>1, <2>3, GoodsOne, GoodsNone DEF WhereDuration
  <1>3. Goods(WhereStatus(p.hasError))
    <2>1. /\ Good(Where("status", "equals", "string", Str(<<"ERROR">>)))
          /\ Good(Where("status", "not_equals", "string", Str(<<"ERROR">>)))
      BY GoodWhere
    <2>2. {TRUE} # {FALSE} /\ {TRUE} # {} /\ {FALSE} # {}
      OBVIOUS
    <2> QED
      BY <2>1, <2>2, GoodsOne, GoodsNone DEF WhereStatus
  <1>4. PICK tags : tags = WhereTags(p.tags)
    OBVIOUS
  <1>5. Goods(tags)
    <2>1. PICK S : S = {tags[i] : i \in DOMAIN p.tags}
      OBVIOUS
    <2>2. DOMAIN p.tags = 1 .. Len(p.tags) /\ Len(p.tags) \in Nat
      OBVIOUS
    <2>3. tags \in Seq(S)
      BY <1>4, <2>1, <2>2 DEF WhereTags
    <2>4. \A i \in DOMAIN p.tags : Good(tags[i])
      BY <1>4, GoodWhere DEF WhereTags
    <2> QED
      BY <2>1, <2>3, <2>4 DEF Goods
  <1> QED
    BY <1>1, <1>2, <1>3, <1>4, <1>5

LEMMA GoodsConverted ==
    ASSUME NEW p, Params(p)
    PROVE  Goods(Converted(p))
  BY GoodsParts, GoodsJoin DEF Converted, WhereTags

\* A filter of the caller's that was accepted.
LEMMA GoodNormalized ==
    ASSUME NEW f, IsFilter(f), Accepted(f)
    PROVE  Good(Normalized(f))
  <1>1. PICK value : value = UNION {Normal(v, f.type) : v \in f.value}
    OBVIOUS
  <1>2. PICK values : values = {[i \in DOMAIN s |-> CHOOSE v \in Normal(s[i], f.type) : TRUE]
                                : s \in f.values}
    OBVIOUS
  <1>3. Normalized(f) = [field |-> f.field, operator |-> f.operator, type |-> f.type,
                         value |-> value, values |-> values]
    <2>1. Normalized(f) = [f EXCEPT !.value = value, !.values = values]
      BY <1>1, <1>2, Zenon DEF Normalized
    <2>2. f = [field |-> f.field, operator |-> f.operator, type |-> f.type,
               value |-> f.value, values |-> f.values]
      BY DEF IsFilter
    <2> QED
      BY <2>1, <2>2
  <1>4. ASSUME NEW v, IsValue(v), f.type = "number", NEW w \in Normal(v, f.type)
        PROVE  w.reads = "finite" /\ w.number \in Int
    <2>1. NumberOperand(v) /\ w = [v EXCEPT !.type = "float"]
      BY <1>4 DEF Normal
    <2> QED
      BY <1>4, <2>1 DEF NumberOperand, IsValue
  <1>5. f.type = "number" => \A v \in value : v.reads = "finite" /\ v.number \in Int
    BY <1>1, <1>4 DEF IsFilter
  <1>6. ASSUME f.type = "number", NEW s \in f.values, NEW i \in DOMAIN s
        PROVE  (CHOOSE v \in Normal(s[i], f.type) : TRUE).reads = "finite"
    <2>1. PICK v : v = CHOOSE w \in Normal(s[i], f.type) : TRUE
      OBVIOUS
    <2>2. v \in Normal(s[i], f.type)
      BY <1>6, <2>1 DEF Accepted
    <2>3. IsValue(s[i])
      BY <1>6 DEF IsFilter
    <2> QED
      BY <1>4, <1>6, <2>1, <2>2, <2>3
  <1>7. f.type = "number" => \A s \in values : \A i \in DOMAIN s : s[i].reads = "finite"
    <2> SUFFICES ASSUME f.type = "number", NEW s \in values, NEW i \in DOMAIN s
                 PROVE  s[i].reads = "finite"
      OBVIOUS
    <2>1. PICK t \in f.values : s = [j \in DOMAIN t |-> CHOOSE v \in Normal(t[j], f.type) : TRUE]
      BY <1>2
    <2>2. i \in DOMAIN t /\ s[i] = CHOOSE v \in Normal(t[i], f.type) : TRUE
      BY <2>1
    <2> QED
      BY <1>6, <2>2
  <1>8. f.operator \in {"gt", "lt"} => value # {}
    BY <1>1 DEF Accepted, OperandsFit
  <1>9. f.type \in {"number", "string", "boolean"}
    BY DEF IsFilter
  <1> QED
    BY <1>3, <1>5, <1>7, <1>8, <1>9 DEF Good

\* Which the filters of a call are.
KnownCall == \E c \in Cases : call \in c.calls /\ store \in c.stores

Filtering == filters = <<>> \/ (ValidQuery /\ filters = AllFilters)

LEMMA GoodsExplicit ==
    ASSUME KnownCall, ValidQuery
    PROVE  Goods(Explicit)
  <1>1. PICK c \in Cases : call \in c.calls
    BY DEF KnownCall
  <1>2. call.filters \in Seq(ToSet(call.filters)) /\ \A f \in ToSet(call.filters) : IsFilter(f)
    BY <1>1, CallsAssumption
  <1>3. PICK own : own = [i \in DOMAIN call.filters |-> Normalized(call.filters[i])]
    OBVIOUS
  <1>4. PICK S : S = {own[i] : i \in DOMAIN call.filters}
    OBVIOUS
  <1>5. DOMAIN call.filters = 1 .. Len(call.filters) /\ Len(call.filters) \in Nat
    BY <1>2
  <1>6. own \in Seq(S)
    BY <1>3, <1>4, <1>5
  <1>7. ASSUME NEW i \in DOMAIN call.filters
        PROVE  Good(own[i])
    <2>1. IsFilter(call.filters[i])
      BY <1>2
    <2>2. Accepted(call.filters[i])
      BY DEF ValidQuery
    <2> QED
      BY <1>3, <2>1, <2>2, GoodNormalized
  <1>8. Goods(own)
    BY <1>4, <1>6, <1>7 DEF Goods
  <1>9. Explicit = own
    BY <1>3, Zenon DEF Explicit
  <1> QED
    BY <1>8, <1>9

LEMMA GoodsAllFilters ==
    ASSUME KnownCall, ValidQuery
    PROVE  Goods(AllFilters)
  <1>1. PICK c \in Cases : call \in c.calls
    BY DEF KnownCall
  <1>2. Params(call.params)
    BY <1>1, CallsAssumption DEF Params, IsParams
  <1>3. Goods(Converted(call.params)) /\ Goods(Explicit)
    BY <1>2, GoodsConverted, GoodsExplicit
  <1>4. AllFilters = Converted(call.params) \o Explicit
    BY Zenon DEF AllFilters, Explicit
  <1> QED
    BY <1>3, <1>4, GoodsJoin

LEMMA KnownCallInvariance == Spec => [](KnownCall /\ Filtering)
  <1>1. Init => KnownCall /\ Filtering
    BY DEF Init, KnownCall, Filtering
  <1>2. KnownCall /\ Filtering /\ [Next]_vars => KnownCall' /\ Filtering'
    <2> SUFFICES ASSUME KnownCall, Filtering, [Next]_vars
                 PROVE  KnownCall' /\ Filtering'
      OBVIOUS
    <2>1. UNCHANGED <<store, call>> /\ (UNCHANGED filters \/ Asked)
      BY NextKeeps DEF vars
    <2>2. ValidQuery' = ValidQuery /\ AllFilters' = AllFilters
      BY <2>1 DEF ValidQuery, AllFilters
    <2> QED
      BY <2>1, <2>2 DEF KnownCall, Filtering, Asked
  <1> QED
    BY <1>1, <1>2, PTL DEF Spec

-----------------------------------------------------------------------------
(* The values of a trace.                                                  *)

\* Of the first n of a list of numbers one is the greatest.
HasGreatest(s, n) == \E i \in 1 .. n : \A j \in 1 .. n : s[j] <= s[i]

LEMMA GreatestOfFirst ==
    ASSUME NEW s \in Seq(Int), NEW m \in Nat \ {0}, m + 1 <= Len(s), HasGreatest(s, m)
    PROVE  HasGreatest(s, m + 1)
  <1>1. PICK a \in 1 .. m : \A j \in 1 .. m : s[j] <= s[a]
    BY DEF HasGreatest
  <1>2. PICK n \in Nat : n = m + 1
    OBVIOUS
  <1>3. \A j \in 1 .. n : s[j] \in Int
    BY <1>2
  <1>4. PICK x \in Int : x = s[a]
    BY <1>2, <1>3
  <1>5. PICK y \in Int : y = s[n]
    BY <1>2, <1>3
  <1>6. PICK b \in 1 .. n : s[b] = (IF y <= x THEN x ELSE y)
    <2>1. a \in 1 .. n /\ n \in 1 .. n
      BY <1>2
    <2>2. CASE y <= x
      BY <1>4, <2>1, <2>2
    <2>3. CASE ~(y <= x)
      BY <1>5, <2>1, <2>3
    <2> QED
      BY <2>2, <2>3
  <1>7. PICK z \in Int : z = s[b] /\ x <= z /\ y <= z
    <2>1. s[b] \in Int
      BY <1>3
    <2>2. x <= s[b] /\ y <= s[b]
      BY <1>6
    <2> QED
      BY <2>1, <2>2
  <1>8. ASSUME NEW j \in 1 .. n
        PROVE  s[j] <= z
    <2>1. CASE j = n
      BY <1>5, <1>7, <2>1
    <2>2. CASE j \in 1 .. m
      <3>1. s[j] \in Int /\ s[j] <= x
        BY <1>1, <1>3, <1>4, <2>2
      <3> QED
        BY <1>4, <1>7, <3>1
    <2> QED
      BY <1>2, <2>1, <2>2
  <1> QED
    BY <1>2, <1>7, <1>8 DEF HasGreatest

LEMMA GreatestExists ==
    ASSUME NEW s \in Seq(Int), s # <<>>
    PROVE  HasGreatest(s, Len(s))
  <1>1. PICK N \in Nat : N = Len(s) /\ N # 0
    OBVIOUS
  <1>2. PICK T : T = {m \in Nat : m + 1 <= N => HasGreatest(s, m + 1)}
    OBVIOUS
  <1>3. 0 \in T
    <2>1. s[1] \in Int /\ 1 .. 1 = {1}
      BY <1>1
    <2>2. HasGreatest(s, 1)
      BY <2>1 DEF HasGreatest
    <2> QED
      BY <1>2, <2>2
  <1>4. ASSUME NEW m \in Nat, m \in T
        PROVE  m + 1 \in T
    <2>1. PICK n \in Nat \ {0} : n = m + 1
      OBVIOUS
    <2>2. n + 1 <= N => HasGreatest(s, n)
      BY <1>1, <1>2, <1>4, <2>1
    <2>3. n + 1 <= N => HasGreatest(s, n + 1)
      BY <1>1, <2>2, GreatestOfFirst
    <2> QED
      BY <1>2, <2>1, <2>3
  <1>5. PICK k \in Nat : k + 1 = N
    BY <1>1
  <1>6. k \in T
    BY <1>3, <1>4, SetInduction
  <1> QED
    BY <1>1, <1>2, <1>5, <1>6

\* The least is the greatest of the negative numbers.
LEMMA LeastExists ==
    ASSUME NEW s \in Seq(Int), s # <<>>
    PROVE  \E i \in 1 .. Len(s) : \A j \in 1 .. Len(s) : s[i] <= s[j]
  <1>1. PICK N \in Nat : N = Len(s) /\ N # 0
    OBVIOUS
  <1>2. PICK t : t = [i \in 1 .. N |-> 0 - s[i]]
    OBVIOUS
  <1>3. \A i \in 1 .. N : s[i] \in Int /\ t[i] = 0 - s[i]
    BY <1>1, <1>2
  <1>4. t \in Seq(Int) /\ t # <<>> /\ Len(t) = N
    BY <1>1, <1>2, <1>3
  <1>5. PICK i \in 1 .. N : \A j \in 1 .. N : t[j] <= t[i]
    BY <1>4, GreatestExists DEF HasGreatest
  <1>6. \A j \in 1 .. N : s[i] <= s[j]
    BY <1>3, <1>5
  <1> QED
    BY <1>1, <1>6

LEMMA ExtentIs ==
    ASSUME NEW spans, spans \in Seq(ToSet(spans)) \ {<<>>}, \A s \in ToSet(spans) : IsSpan(s)
    PROVE  Extent(spans) \in Int
  <1>1. DOMAIN spans = 1 .. Len(spans) /\ Len(spans) \in Nat /\ Len(spans) # 0
    OBVIOUS
  <1>2. \A i \in DOMAIN spans : spans[i].start \in Int /\ spans[i].duration \in Int
    BY DEF IsSpan
  <1>3. PICK ends : ends = [i \in DOMAIN spans |-> spans[i].start + spans[i].duration]
    OBVIOUS
  <1>4. PICK starts : starts = [i \in DOMAIN spans |-> spans[i].start]
    OBVIOUS
  <1>5. ends \in Seq(Int) /\ ends # <<>> /\ DOMAIN ends = DOMAIN spans
    BY <1>1, <1>2, <1>3
  <1>6. starts \in Seq(Int) /\ starts # <<>> /\ DOMAIN starts = DOMAIN spans
    BY <1>1, <1>2, <1>4
  <1>7. PICK S : S = {spans[i].start + spans[i].duration : i \in DOMAIN spans}
    OBVIOUS
  <1>8. PICK T : T = {spans[i].start : i \in DOMAIN spans}
    OBVIOUS
  <1>9. S \subseteq Int /\ \E x \in S : \A y \in S : x >= y
    <2>1. PICK i \in DOMAIN ends : \A j \in DOMAIN ends : ends[j] <= ends[i]
      <3>1. DOMAIN ends = 1 .. Len(ends) /\ HasGreatest(ends, Len(ends))
        BY <1>5, GreatestExists
      <3> QED
        BY <3>1 DEF HasGreatest
    <2>2. \A j \in DOMAIN spans : ends[j] \in Int /\ ends[j] = spans[j].start + spans[j].duration
      BY <1>2, <1>3
    <2>3. S = {ends[j] : j \in DOMAIN spans}
      BY <1>7, <2>2
    <2>4. ends[i] \in S /\ \A y \in S : y \in Int /\ ends[i] >= y
      BY <1>5, <2>1, <2>2, <2>3
    <2> QED
      BY <2>4
  <1>10. T \subseteq Int /\ \E x \in T : \A y \in T : x <= y
    <2>1. PICK i \in DOMAIN starts : \A j \in DOMAIN starts : starts[i] <= starts[j]
      <3>1. DOMAIN starts = 1 .. Len(starts)
        BY <1>6
      <3>2. \E i \in 1 .. Len(starts) : \A j \in 1 .. Len(starts) : starts[i] <= starts[j]
        BY <1>6, LeastExists
      <3> QED
        BY <3>1, <3>2
    <2>2. \A j \in DOMAIN spans : starts[j] \in Int /\ starts[j] = spans[j].start
      BY <1>2, <1>4
    <2>3. T = {starts[j] : j \in DOMAIN spans}
      BY <1>8, <2>2
    <2>4. starts[i] \in T /\ \A y \in T : y \in Int /\ starts[i] <= y
      BY <1>6, <2>1, <2>2, <2>3
    <2> QED
      BY <2>4
  <1>11. Max(S) \in S
    BY <1>9, Zenon DEF Max
  <1>12. Min(T) \in T
    BY <1>10, Zenon DEF Min
  <1>13. Extent(spans) = Max(S) - Min(T)
    BY <1>7, <1>8, Zenon DEF Extent
  <1>14. Max(S) \in Int /\ Min(T) \in Int
    BY <1>9, <1>10, <1>11, <1>12, Zenon
  <1>15. PICK a \in Int, b \in Int : a = Max(S) /\ b = Min(T)
    BY <1>14, Zenon
  <1>16. Extent(spans) = a - b
    BY <1>13, <1>15, Zenon
  <1> QED
    BY <1>16

\* All that is compared as a number is one.
LEMMA ValuesAre ==
    ASSUME NEW trace, trace \in Seq(ToSet(trace)) \ {<<>>}, \A s \in ToSet(trace) : IsSpan(s),
           NEW field, NEW v \in FieldValues(Grouped(trace), field)
    PROVE  v.number \in Int
  <1>1. \A text : Str(text).number = 0
    BY DEF Str
  <1>2. \A n : Number(n).number = n
    BY DEF Number
  <1>4. ASSUME NEW s, IsSpan(s), v \in SpanValues(s, field)
        PROVE  v.number \in Int
    BY <1>1, <1>2, <1>4 DEF SpanValues, IsSpan, IsValue
  <1>5. PICK item : item = Grouped(trace)
    OBVIOUS
  <1>6. item.level = "trace" /\ item.spans = trace /\ item.duration = Extent(trace)
    BY <1>5 DEF Grouped
  <1>7. v \in {Str(item.root.service), Str(item.root.operation), Number(item.duration),
               Str(item.status), Number(Len(item.spans)),
               Bool(\E i \in DOMAIN item.spans : IsError(item.spans[i]))}
        \/ \E i \in DOMAIN item.spans : v \in SpanValues(item.spans[i], field)
    BY <1>5, <1>6 DEF FieldValues
  <1>8. Extent(trace) \in Int /\ Len(trace) \in Nat
    BY ExtentIs
  <1>9. CASE \E i \in DOMAIN item.spans : v \in SpanValues(item.spans[i], field)
    <2>1. PICK i \in DOMAIN trace : v \in SpanValues(trace[i], field)
      BY <1>6, <1>9
    <2>2. IsSpan(trace[i])
      OBVIOUS
    <2> QED
      BY <1>4, <2>1, <2>2
  <1>10. CASE v \in {Str(item.root.service), Str(item.root.operation), Str(item.status)}
    BY <1>1, <1>10
  <1>11. CASE v \in {Number(item.duration), Number(Len(item.spans))}
    <2>1. v \in {Number(Extent(trace)), Number(Len(trace))}
      BY <1>6, <1>11
    <2> QED
      BY <1>2, <1>8, <2>1
  <1>12. CASE v = Bool(\E i \in DOMAIN item.spans : IsError(item.spans[i]))
    <2>1. v.number = IF \E i \in DOMAIN item.spans : IsError(item.spans[i]) THEN 1 ELSE 0
      BY <1>12 DEF Bool
    <2> QED
      BY <2>1
  <1> QED
    BY <1>7, <1>9, <1>10, <1>11, <1>12

-----------------------------------------------------------------------------
(* A filter and its opposite.                                              *)

\* Of a value that can be compared exactly one of them holds.
LEMMA OppositeCompares ==
    ASSUME NEW f, Good(f), Knows(f.type, f.operator),
           NEW g, g = [f EXCEPT !.operator = Opposites[@]],
           NEW v, f.type = "number" => v.number \in Int
    PROVE  /\ ~(Compares(v, f) /\ Compares(v, g))
           /\ (f.type = "number" => Comparable(v)) => Compares(v, f) \/ Compares(v, g)
  <1>1. f = [field |-> f.field, operator |-> f.operator, type |-> f.type, value |-> f.value,
             values |-> f.values]
    BY DEF Good
  <1>2. /\ g.type = f.type /\ g.value = f.value /\ g.values = f.values
        /\ g.operator = Opposites[f.operator]
    BY <1>1
  <1>3. f.type \in {"number", "string", "boolean"}
    BY DEF Good
  <1>4. f.operator \in {"not_equals", "not_in", "not_contains", "gt", "lt"}
    BY <1>3 DEF Knows
  <1>5. /\ f.operator = "not_equals" => g.operator = "equals"
        /\ f.operator = "not_in" => g.operator = "in"
        /\ f.operator = "not_contains" => g.operator = "contains"
        /\ f.operator = "gt" => g.operator = "lte"
        /\ f.operator = "lt" => g.operator = "gte"
    BY <1>2 DEF Opposites
  <1>6. ~Invalid(f) /\ ~Invalid(g)
    BY <1>2 DEF Good, Invalid, Comparable
  <1>7. Operand(g) = Operand(f) /\ Members(g) = Members(f)
    BY <1>2 DEF Operand, Members
  <1>8. CASE f.type = "number"
    <2>1. f.operator \in {"not_equals", "not_in", "gt", "lt"}
      BY <1>8 DEF Knows
    <2>2. PICK n \in Int : n = v.number
      BY <1>8
    <2>3. NumberMatches(n, g) <=> ~NumberMatches(n, f)
      <3>1. CASE f.operator = "not_equals"
        BY <1>5, <1>7, <3>1 DEF NumberMatches
      <3>2. CASE f.operator = "not_in"
        BY <1>5, <1>7, <3>2 DEF NumberMatches
      <3>3. CASE f.operator \in {"gt", "lt"}
        <4>1. f.value # {} /\ \A w \in f.value : w.number \in Int
          BY <1>8, <3>3 DEF Good
        <4>2. Operand(f) \in f.value
          BY <4>1, Zenon DEF Operand
        <4>3. PICK m \in Int : m = Operand(f).number
          BY <4>1, <4>2
        <4>4. (n > m <=> ~(n <= m)) /\ (n < m <=> ~(n >= m))
          OBVIOUS
        <4> QED
          BY <1>5, <1>7, <3>3, <4>3, <4>4 DEF NumberMatches
      <3> QED
        BY <2>1, <3>1, <3>2, <3>3
    <2> QED
      BY <1>2, <1>6, <1>8, <2>2, <2>3 DEF Compares
  <1>9. CASE f.type = "boolean"
    <2>1. f.operator = "not_equals"
      BY <1>9 DEF Knows
    <2>2. BoolMatches(Truth(v), g) <=> ~BoolMatches(Truth(v), f)
      BY <1>5, <1>7, <2>1 DEF BoolMatches
    <2> QED
      BY <1>2, <1>6, <1>9, <2>2 DEF Compares
  <1>10. CASE f.type = "string"
    <2>1. f.operator \in {"not_equals", "not_in", "not_contains"}
      BY <1>10 DEF Knows
    <2>2. TextMatches(v.text, g) <=> ~TextMatches(v.text, f)
      <3>1. CASE f.operator = "not_equals"
        BY <1>5, <1>7, <3>1 DEF TextMatches
      <3>2. CASE f.operator = "not_in"
        BY <1>5, <1>7, <3>2 DEF TextMatches
      <3>3. CASE f.operator = "not_contains"
        BY <1>5, <1>7, <3>3 DEF TextMatches
      <3> QED
        BY <2>1, <3>1, <3>2, <3>3
    <2> QED
      BY <1>2, <1>6, <1>10, <2>2 DEF Compares
  <1> QED
    BY <1>3, <1>8, <1>9, <1>10

LEMMA OppositeSatisfied ==
    ASSUME NEW f, Good(f), Knows(f.type, f.operator),
           NEW g, g = [f EXCEPT !.operator = Opposites[@]],
           NEW vs, f.type = "number" => \A v \in vs : v.number \in Int,
           f.operator \in {"gt", "lt"} => \A v, w \in vs : v = w
    PROVE  /\ ~(Satisfied(vs, f) /\ Satisfied(vs, g))
           /\ vs # {} /\ (f.type = "number" => \A v \in vs : Comparable(v))
              => Satisfied(vs, f) \/ Satisfied(vs, g)
  <1>1. f.operator \in {"not_equals", "not_in", "not_contains", "gt", "lt"}
    BY DEF Good, Knows
  <1>2. /\ f.operator \in {"not_equals", "not_in", "not_contains"} =>
            g.operator \in {"equals", "in", "contains"}
        /\ f.operator \in {"gt", "lt"} => g.operator \in {"lte", "gte"}
    <2>1. f = [field |-> f.field, operator |-> f.operator, type |-> f.type,
               value |-> f.value, values |-> f.values]
      BY DEF Good
    <2>2. g.operator = Opposites[f.operator]
      BY <2>1
    <2> QED
      BY <1>1, <2>2 DEF Opposites
  <1>3. \A v \in vs :
           /\ ~(Compares(v, f) /\ Compares(v, g))
           /\ (f.type = "number" => Comparable(v)) => Compares(v, f) \/ Compares(v, g)
    <2> TAKE v \in vs
    <2>1. f.type = "number" => v.number \in Int
      OBVIOUS
    <2> QED
      BY <2>1, OppositeCompares
  <1>4. Satisfied(vs, g) <=> \E v \in vs : Compares(v, g)
    BY <1>1, <1>2 DEF Satisfied, Negative
  <1>5. CASE f.operator \in {"not_equals", "not_in", "not_contains"}
    <2>1. Satisfied(vs, f) <=> vs # {} /\ \A v \in vs : Compares(v, f)
      BY <1>5 DEF Satisfied, Negative
    <2> QED
      BY <1>3, <1>4, <2>1
  <1>6. CASE f.operator \in {"gt", "lt"}
    <2>1. Satisfied(vs, f) <=> \E v \in vs : Compares(v, f)
      BY <1>6 DEF Satisfied, Negative
    <2> QED
      BY <1>3, <1>4, <1>6, <2>1
  <1> QED
    BY <1>1, <1>5, <1>6

\* A filter that was accepted and the one with the opposite operator split the
\* traces of any store, whatever their spans (filter_engine.py:272-277).
THEOREM OppositeFiltersSplit == Spec => []OppositesSplit
  <1>1. KnownCall /\ Filtering => OppositesSplit
    <2> SUFFICES ASSUME KnownCall, Filtering, NEW i \in DOMAIN filters, NEW trace \in ToSet(store)
                 PROVE  LET f == filters[i]
                            vs == FieldValues(Grouped(trace), f.field)
                            g == [f EXCEPT !.operator = Opposites[@]]
                        IN  Knows(f.type, f.operator)
                            /\ (f.operator \in {"gt", "lt"} => \A v, w \in vs : v = w) =>
                                /\ ~(Satisfied(vs, f) /\ Satisfied(vs, g))
                                /\ vs # {} /\ (f.type = "number" => \A v \in vs : Comparable(v))
                                   => Satisfied(vs, f) \/ Satisfied(vs, g)
      BY DEF OppositesSplit
    <2> DEFINE f == filters[i]
               vs == FieldValues(Grouped(trace), f.field)
    <2>1. Good(f)
      <3>1. filters # <<>>
        OBVIOUS
      <3>2. Goods(filters)
        BY <3>1, GoodsAllFilters DEF Filtering
      <3> QED
        BY <3>2 DEF Goods
    <2>2. trace \in Seq(ToSet(trace)) \ {<<>>} /\ \A s \in ToSet(trace) : IsSpan(s)
      BY CallsAssumption DEF KnownCall
    <2>3. \A v \in vs : v.number \in Int
      BY <2>2, ValuesAre
    <2> HIDE DEF f, vs
    <2> QED
      BY <2>1, <2>3, OppositeSatisfied DEF f, vs
  <1> QED
    BY <1>1, KnownCallInvariance, PTL

-----------------------------------------------------------------------------
(* What the parameters of a search say.                                    *)

\* The filters of a search keep exactly the traces that its parameters describe
\* and the filters given with them match; a tag named like a field that a span
\* has of its own means that field (models.py:227-367, filter_engine.py:167-250).
ParametersDescribed ==
    filters # <<>> /\ (\A i \in DOMAIN call.params.tags : call.params.tags[i][1] \notin OwnFields) =>
        \A trace \in ToSet(store) :
            LET item == Grouped(trace)
            IN  MatchesAll(item, filters)
                <=> Wanted(item, call.params) /\ MatchesAll(item, Explicit)

LEMMA MatchesJoin ==
    ASSUME NEW item, NEW s, NEW t, Goods(s), Goods(t)
    PROVE  MatchesAll(item, s \o t) <=> MatchesAll(item, s) /\ MatchesAll(item, t)
  <1>1. PICK S : s \in Seq(S)
    BY DEF Goods
  <1>2. PICK T : t \in Seq(T)
    BY DEF Goods
  <1>3. PICK U : U = S \cup T
    OBVIOUS
  <1>4. s \in Seq(U) /\ t \in Seq(U)
    BY <1>1, <1>2, <1>3
  <1>5. PICK m \in Nat, n \in Nat : m = Len(s) /\ n = Len(t)
    BY <1>4
  <1>6. DOMAIN s = 1 .. m /\ DOMAIN t = 1 .. n /\ DOMAIN (s \o t) = 1 .. m + n
    BY <1>4, <1>5
  <1>7. \A i \in 1 .. m : i \in 1 .. m + n /\ (s \o t)[i] = s[i]
    BY <1>4, <1>5
  <1>8. \A i \in 1 .. n : m + i \in 1 .. m + n /\ (s \o t)[m + i] = t[i]
    BY <1>4, <1>5
  <1>9. ASSUME MatchesAll(item, s \o t)
        PROVE  MatchesAll(item, s) /\ MatchesAll(item, t)
    BY <1>6, <1>7, <1>8, <1>9 DEF MatchesAll
  <1>10. ASSUME MatchesAll(item, s), MatchesAll(item, t)
         PROVE  MatchesAll(item, s \o t)
    <2> SUFFICES ASSUME NEW k \in 1 .. m + n
                 PROVE  Matches(item, (s \o t)[k])
      BY <1>6 DEF MatchesAll
    <2>1. CASE k \in 1 .. m
      BY <1>6, <1>7, <1>10, <2>1 DEF MatchesAll
    <2>2. CASE k \notin 1 .. m
      <3>1. PICK i \in 1 .. n : k = m + i
        BY <2>2
      <3> QED
        BY <1>6, <1>8, <1>10, <3>1 DEF MatchesAll
    <2> QED
      BY <2>1, <2>2
  <1> QED
    BY <1>9, <1>10

LEMMA MatchesNone ==
    ASSUME NEW item
    PROVE  MatchesAll(item, <<>>)
  <1>1. DOMAIN <<>> = {}
    OBVIOUS
  <1> QED
    BY <1>1 DEF MatchesAll

LEMMA MatchesOne ==
    ASSUME NEW item, NEW f
    PROVE  MatchesAll(item, <<f>>) <=> Matches(item, f)
  <1>1. DOMAIN <<f>> = {1} /\ <<f>>[1] = f
    OBVIOUS
  <1> QED
    BY <1>1 DEF MatchesAll

\* A text that is asked for is the text of a value.
LEMMA MatchesWhere ==
    ASSUME NEW item, NEW field, NEW text
    PROVE  /\ Matches(item, Where(field, "equals", "string", Str(text)))
              <=> \E v \in FieldValues(item, field) : v.text = text
           /\ Matches(item, Where(field, "not_equals", "string", Str(text)))
              <=> /\ FieldValues(item, field) # {}
                  /\ \A v \in FieldValues(item, field) : v.text # text
  <1>1. ASSUME NEW operator
        PROVE  LET f == Where(field, operator, "string", Str(text))
               IN  /\ f.field = field /\ f.operator = operator /\ f.type = "string"
                   /\ Operand(f).text = text /\ ~Invalid(f)
    <2>1. PICK v : v = Str(text)
      OBVIOUS
    <2>2. PICK f : f = Where(field, operator, "string", v)
      OBVIOUS
    <2>3. f.field = field /\ f.operator = operator /\ f.type = "string" /\ f.value = {v}
      BY <2>2 DEF Where
    <2>4. Operand(f) = v
      <3>1. Operand(f) \in {v}
        BY <2>3, Zenon DEF Operand
      <3> QED
        BY <3>1
    <2>5. v.text = text
      BY <2>1 DEF Str
    <2>6. ~Invalid(f)
      BY <2>3 DEF Invalid
    <2> QED
      BY <2>1, <2>2, <2>3, <2>4, <2>5, <2>6
  <1>2. PICK vs : vs = FieldValues(item, field)
    OBVIOUS
  <1>3. PICK f : f = Where(field, "equals", "string", Str(text))
    OBVIOUS
  <1>4. PICK g : g = Where(field, "not_equals", "string", Str(text))
    OBVIOUS
  <1>5. /\ f.field = field /\ f.operator = "equals" /\ f.type = "string"
        /\ Operand(f).text = text /\ ~Invalid(f)
    BY <1>1, <1>3
  <1>6. /\ g.field = field /\ g.operator = "not_equals" /\ g.type = "string"
        /\ Operand(g).text = text /\ ~Invalid(g)
    BY <1>1, <1>4
  <1>7. \A v : Compares(v, f) <=> v.text = text
    BY <1>5 DEF Compares, TextMatches
  <1>8. \A v : Compares(v, g) <=> v.text # text
    BY <1>6 DEF Compares, TextMatches
  <1>9. Matches(item, f) <=> \E v \in vs : v.text = text
    BY <1>2, <1>5, <1>7 DEF Matches, Satisfied, Negative
  <1>10. Matches(item, g) <=> vs # {} /\ \A v \in vs : v.text # text
    BY <1>2, <1>6, <1>8 DEF Matches, Satisfied, Negative
  <1> QED
    BY <1>2, <1>3, <1>4, <1>9, <1>10

\* Where a value of a trace with such a text comes from.
LEMMA BearsIs ==
    ASSUME NEW item, item.level = "trace", NEW field, field \notin OwnFields, NEW text
    PROVE  (\E v \in FieldValues(item, field) : v.text = text) <=> Bears(item, field, text)
  <1>1. FieldValues(item, field)
        = UNION {SpanValues(item.spans[i], field) : i \in DOMAIN item.spans}
    BY DEF FieldValues, OwnFields
  <1>2. \A s : SpanValues(s, field) = IF field \in DOMAIN s.attributes THEN s.attributes[field] ELSE {}
    BY DEF SpanValues, OwnFields
  <1>3. ASSUME NEW v \in FieldValues(item, field), v.text = text
        PROVE  Bears(item, field, text)
    <2>1. PICK i \in DOMAIN item.spans : v \in SpanValues(item.spans[i], field)
      BY <1>1
    <2>2. PICK s : s = item.spans[i]
      OBVIOUS
    <2>3. s \in ToSet(item.spans)
      BY <2>2 DEF ToSet
    <2>4. field \in DOMAIN s.attributes /\ v \in s.attributes[field]
      BY <1>2, <2>1, <2>2
    <2> QED
      BY <1>3, <2>3, <2>4 DEF Bears
  <1>4. ASSUME Bears(item, field, text)
        PROVE  \E v \in FieldValues(item, field) : v.text = text
    <2>1. PICK s \in ToSet(item.spans) :
             field \in DOMAIN s.attributes /\ \E v \in s.attributes[field] : v.text = text
      BY <1>4 DEF Bears
    <2>2. PICK i \in DOMAIN item.spans : s = item.spans[i]
      BY DEF ToSet
    <2>3. PICK v \in s.attributes[field] : v.text = text
      BY <2>1
    <2>4. v \in SpanValues(item.spans[i], field)
      BY <1>2, <2>1, <2>2, <2>3
    <2> QED
      BY <1>1, <2>3, <2>4
  <1> QED
    BY <1>3, <1>4

LEMMA MatchesText ==
    ASSUME NEW item, NEW field, NEW text
    PROVE  MatchesAll(item, WhereText(field, text))
           <=> (text # <<>> => \E v \in FieldValues(item, field) : v.text = text)
  <1>1. CASE text = <<>>
    BY <1>1, MatchesNone DEF WhereText
  <1>2. CASE text # <<>>
    BY <1>2, MatchesOne, MatchesWhere DEF WhereText
  <1> QED
    BY <1>1, <1>2

LEMMA MatchesDuration ==
    ASSUME NEW item, item.level = "trace", NEW bound, \A a, b \in bound : a = b
    PROVE  /\ MatchesAll(item, WhereDuration("gte", bound)) <=> \A n \in bound : item.duration >= n
           /\ MatchesAll(item, WhereDuration("lte", bound)) <=> \A n \in bound : item.duration <= n
  <1>1. CASE bound = {}
    BY <1>1, MatchesNone DEF WhereDuration
  <1>2. CASE bound # {}
    <2>1. PICK n : n = CHOOSE m \in bound : TRUE
      OBVIOUS
    <2>2. n \in bound
      BY <1>2, <2>1, Zenon
    <2>3. bound = {n}
      BY <2>2
    <2>4. PICK v : v = Number(n)
      OBVIOUS
    <2>5. v.reads = "finite" /\ v.number = n
      BY <2>4 DEF Number
    <2>6. PICK w : w = Number(item.duration)
      OBVIOUS
    <2>7. Comparable(w) /\ w.number = item.duration
      BY <2>6 DEF Number, Comparable
    <2>8. FieldValues(item, "duration") = {w}
      BY <2>6 DEF FieldValues
    <2>9. ASSUME NEW operator \in {"gte", "lte"}
          PROVE  Matches(item, Where("duration", operator, "number", v))
                 <=> IF operator = "gte" THEN item.duration >= n ELSE item.duration <= n
      <3>1. PICK f : f = Where("duration", operator, "number", v)
        OBVIOUS
      <3>2. /\ f.field = "duration" /\ f.operator = operator /\ f.type = "number"
            /\ f.value = {v} /\ f.values = {}
        BY <3>1 DEF Where
      <3>3. Operand(f) = v
        <4>1. Operand(f) \in {v}
          BY <3>2, Zenon DEF Operand
        <4> QED
          BY <4>1
      <3>4. ~Invalid(f)
        BY <2>5, <3>2 DEF Invalid, Comparable
      <3>5. NumberMatches(w.number, f)
            <=> IF operator = "gte" THEN item.duration >= n ELSE item.duration <= n
        BY <2>5, <2>7, <3>2, <3>3 DEF NumberMatches
      <3>6. Compares(w, f) <=> NumberMatches(w.number, f)
        BY <2>7, <3>2, <3>4 DEF Compares
      <3>7. Matches(item, f) <=> Compares(w, f)
        BY <2>8, <3>2 DEF Matches, Satisfied, Negative
      <3> QED
        BY <3>1, <3>5, <3>6, <3>7
    <2>10. /\ WhereDuration("gte", bound) = <<Where("duration", "gte", "number", v)>>
           /\ WhereDuration("lte", bound) = <<Where("duration", "lte", "number", v)>>
      BY <1>2, <2>1, <2>4, Zenon DEF WhereDuration
    <2> QED
      BY <2>3, <2>9, <2>10, MatchesOne
  <1> QED
    BY <1>1, <1>2

LEMMA MatchesStatus ==
    ASSUME NEW item, item.level = "trace", NEW hasError \in {{}, {TRUE}, {FALSE}}
    PROVE  MatchesAll(item, WhereStatus(hasError))
           <=> \A b \in hasError : b = (item.status = <<"ERROR">>)
  <1>1. PICK v : v = Str(item.status)
    OBVIOUS
  <1>2. FieldValues(item, "status") = {v}
    BY <1>1 DEF FieldValues
  <1>3. v.text = item.status
    BY <1>1 DEF Str
  <1>4. {TRUE} # {FALSE} /\ {TRUE} # {} /\ {FALSE} # {}
    OBVIOUS
  <1>5. CASE hasError = {}
    BY <1>5, MatchesNone DEF WhereStatus
  <1>6. CASE hasError = {TRUE}
    <2>1. WhereStatus(hasError) = <<Where("status", "equals", "string", Str(<<"ERROR">>))>>
      BY <1>4, <1>6 DEF WhereStatus
    <2>2. MatchesAll(item, WhereStatus(hasError)) <=> item.status = <<"ERROR">>
      BY <1>2, <1>3, <2>1, MatchesOne, MatchesWhere
    <2> QED
      BY <1>6, <2>2
  <1>7. CASE hasError = {FALSE}
    <2>1. WhereStatus(hasError) = <<Where("status", "not_equals", "string", Str(<<"ERROR">>))>>
      BY <1>4, <1>7 DEF WhereStatus
    <2>2. MatchesAll(item, WhereStatus(hasError)) <=> item.status # <<"ERROR">>
      BY <1>2, <1>3, <2>1, MatchesOne, MatchesWhere
    <2> QED
      BY <1>7, <2>2
  <1> QED
    BY <1>5, <1>6, <1>7

LEMMA MatchesTags ==
    ASSUME NEW item, item.level = "trace", NEW tags, tags \in Seq(ToSet(tags)),
           \A i \in DOMAIN tags : tags[i][1] \notin OwnFields
    PROVE  MatchesAll(item, WhereTags(tags))
           <=> \A i \in DOMAIN tags : Bears(item, tags[i][1], tags[i][2])
  <1>1. PICK fs : fs = WhereTags(tags)
    OBVIOUS
  <1>2. DOMAIN fs = DOMAIN tags
    BY <1>1 DEF WhereTags
  <1>3. ASSUME NEW i \in DOMAIN tags
        PROVE  Matches(item, fs[i]) <=> Bears(item, tags[i][1], tags[i][2])
    <2>1. fs[i] = Where(tags[i][1], "equals", "string", Str(tags[i][2]))
      BY <1>1 DEF WhereTags
    <2>2. Matches(item, fs[i])
          <=> \E v \in FieldValues(item, tags[i][1]) : v.text = tags[i][2]
      BY <2>1, MatchesWhere
    <2> QED
      BY <2>2, BearsIs
  <1> QED
    BY <1>1, <1>2, <1>3 DEF MatchesAll

\* The filters made of parameters keep what the parameters describe.
LEMMA ConvertedDescribes ==
    ASSUME NEW item, item.level = "trace", NEW p, Params(p),
           \A o \in {p.least, p.most} : \A a, b \in o : a = b,
           \A i \in DOMAIN p.tags : p.tags[i][1] \notin OwnFields
    PROVE  MatchesAll(item, Converted(p)) <=> Wanted(item, p)
  <1>1. PICK s1, s2, s3, s4 :
           /\ s1 = WhereText("service.name", p.service)
           /\ s2 = WhereText("operation_name", p.operation)
           /\ s3 = WhereDuration("gte", p.least)
           /\ s4 = WhereDuration("lte", p.most)
    OBVIOUS
  <1>2. PICK s5, s6, s7, s8, s9 :
           /\ s5 = WhereStatus(p.hasError)
           /\ s6 = WhereText("gen_ai.system", p.system)
           /\ s7 = WhereText("gen_ai.request.model", p.requestModel)
           /\ s8 = WhereText("gen_ai.response.model", p.responseModel)
           /\ s9 = WhereTags(p.tags)
    OBVIOUS
  <1>3. Converted(p) = s1 \o s2 \o s3 \o s4 \o s5 \o s6 \o s7 \o s8 \o s9
    BY <1>1, <1>2, Zenon DEF Converted, WhereTags
  <1>4. /\ Goods(s1) /\ Goods(s2) /\ Goods(s3) /\ Goods(s4) /\ Goods(s5)
        /\ Goods(s6) /\ Goods(s7) /\ Goods(s8) /\ Goods(s9)
    BY <1>1, <1>2, GoodsParts
  <1>5. PICK t3 : t3 = s1 \o s2 \o s3
    OBVIOUS
  <1>6. Goods(t3) /\ (MatchesAll(item, t3)
                      <=> MatchesAll(item, s1) /\ MatchesAll(item, s2) /\ MatchesAll(item, s3))
    <2>1. Goods(s1 \o s2)
          /\ (MatchesAll(item, s1 \o s2) <=> MatchesAll(item, s1) /\ MatchesAll(item, s2))
      BY <1>4, GoodsJoin, MatchesJoin
    <2> QED
      BY <1>4, <1>5, <2>1, GoodsJoin, MatchesJoin
  <1>7. PICK t6 : t6 = t3 \o s4 \o s5 \o s6
    OBVIOUS
  <1>8. Goods(t6) /\ (MatchesAll(item, t6)
                      <=> /\ MatchesAll(item, t3) /\ MatchesAll(item, s4)
                          /\ MatchesAll(item, s5) /\ MatchesAll(item, s6))
    <2>1. Goods(t3 \o s4)
          /\ (MatchesAll(item, t3 \o s4) <=> MatchesAll(item, t3) /\ MatchesAll(item, s4))
      BY <1>4, <1>6, GoodsJoin, MatchesJoin
    <2>2. Goods(t3 \o s4 \o s5)
          /\ (MatchesAll(item, t3 \o s4 \o s5)
              <=> MatchesAll(item, t3 \o s4) /\ MatchesAll(item, s5))
      BY <1>4, <2>1, GoodsJoin, MatchesJoin
    <2> QED
      BY <1>4, <1>7, <2>1, <2>2, GoodsJoin, MatchesJoin
  <1>9. MatchesAll(item, t6 \o s7 \o s8 \o s9)
        <=> /\ MatchesAll(item, t6) /\ MatchesAll(item, s7)
            /\ MatchesAll(item, s8) /\ MatchesAll(item, s9)
    <2>1. Goods(t6 \o s7)
          /\ (MatchesAll(item, t6 \o s7) <=> MatchesAll(item, t6) /\ MatchesAll(item, s7))
      BY <1>4, <1>8, GoodsJoin, MatchesJoin
    <2>2. Goods(t6 \o s7 \o s8)
          /\ (MatchesAll(item, t6 \o s7 \o s8)
              <=> MatchesAll(item, t6 \o s7) /\ MatchesAll(item, s8))
      BY <1>4, <2>1, GoodsJoin, MatchesJoin
    <2> QED
      BY <1>4, <2>1, <2>2, MatchesJoin
  <1>10. Converted(p) = t6 \o s7 \o s8 \o s9
    BY <1>3, <1>5, <1>7, Zenon
  <1>11. /\ MatchesAll(item, s1) <=> (p.service # <<>> => item.root.service = p.service)
         /\ MatchesAll(item, s2) <=> (p.operation # <<>> => item.root.operation = p.operation)
    <2>1. \A text : Str(text).text = text
      BY DEF Str
    <2>2. /\ FieldValues(item, "service.name") = {Str(item.root.service)}
          /\ FieldValues(item, "operation_name") = {Str(item.root.operation)}
      BY DEF FieldValues
    <2> QED
      BY <1>1, <2>1, <2>2, MatchesText
  <1>12. /\ MatchesAll(item, s3) <=> \A n \in p.least : item.duration >= n
         /\ MatchesAll(item, s4) <=> \A n \in p.most : item.duration <= n
    BY <1>1, MatchesDuration
  <1>13. MatchesAll(item, s5) <=> \A b \in p.hasError : b = (item.status = <<"ERROR">>)
    BY <1>2, MatchesStatus DEF Params
  <1>14. /\ MatchesAll(item, s6) <=> (p.system # <<>> => Bears(item, "gen_ai.system", p.system))
         /\ MatchesAll(item, s7)
            <=> (p.requestModel # <<>> => Bears(item, "gen_ai.request.model", p.requestModel))
         /\ MatchesAll(item, s8)
            <=> (p.responseModel # <<>> => Bears(item, "gen_ai.response.model", p.responseModel))
    <2>1. /\ "gen_ai.system" \notin OwnFields /\ "gen_ai.request.model" \notin OwnFields
          /\ "gen_ai.response.model" \notin OwnFields
      BY DEF OwnFields
    <2> QED
      BY <1>2, <2>1, MatchesText, BearsIs
  <1>15. MatchesAll(item, s9) <=> \A i \in DOMAIN p.tags : Bears(item, p.tags[i][1], p.tags[i][2])
    BY <1>2, MatchesTags DEF Params
  <1> QED
    BY <1>6, <1>8, <1>9, <1>10, <1>11, <1>12, <1>13, <1>14, <1>15 DEF Wanted

\* The parameters and the filters of any search, as its backend reads them, keep
\* exactly the traces they describe, whatever the spans are: no parameter is
\* lost, doubled or turned into another condition on the way (models.py:227-367).
THEOREM ParametersKeepTheWanted == Spec => []ParametersDescribed
  <1>1. KnownCall /\ Filtering => ParametersDescribed
    <2> SUFFICES ASSUME KnownCall, Filtering, filters # <<>>,
                        \A i \in DOMAIN call.params.tags : call.params.tags[i][1] \notin OwnFields,
                        NEW trace \in ToSet(store), NEW item, item = Grouped(trace)
                 PROVE  MatchesAll(item, filters)
                        <=> Wanted(item, call.params) /\ MatchesAll(item, Explicit)
      BY DEF ParametersDescribed
    <2>1. PICK c \in Cases : call \in c.calls
      BY DEF KnownCall
    <2>2. PICK p : p = call.params
      OBVIOUS
    <2>3. Params(p) /\ \A o \in {p.least, p.most} : \A a, b \in o : a = b
      BY <2>1, <2>2, CallsAssumption DEF Params, IsParams
    <2>4. item.level = "trace"
      BY DEF Grouped
    <2>5. MatchesAll(item, Converted(p)) <=> Wanted(item, p)
      BY <2>2, <2>3, <2>4, ConvertedDescribes
    <2>6. ValidQuery /\ filters = AllFilters
      BY DEF Filtering
    <2>7. AllFilters = Converted(p) \o Explicit
      BY <2>2, Zenon DEF AllFilters, Explicit
    <2>8. Goods(Converted(p)) /\ Goods(Explicit)
      BY <2>3, <2>6, GoodsConverted, GoodsExplicit
    <2> QED
      BY <2>2, <2>5, <2>6, <2>7, <2>8, MatchesJoin
  <1> QED
    BY <1>1, KnownCallInvariance, PTL
-----------------------------------------------------------------------------
(* What is picked from lists.                                              *)

\* t has the value v[i] of each place i of I, once.
Lists(t, I, v) ==
    /\ IsSeq(t)
    /\ \E o \in [DOMAIN t -> I] :
        /\ \A k \in DOMAIN t : t[k] = v[o[k]]
        /\ \A j, k \in DOMAIN t : o[j] = o[k] => j = k
        /\ \A i \in I : \E k \in DOMAIN t : o[k] = i

LEMMA SeqsJoin ==
    ASSUME NEW s, NEW t, IsSeq(s), IsSeq(t)
    PROVE  /\ IsSeq(s \o t) /\ Len(s \o t) = Len(s) + Len(t)
           /\ DOMAIN s = 1 .. Len(s) /\ DOMAIN t = 1 .. Len(t)
           /\ Len(s) \in Nat /\ Len(t) \in Nat
           /\ DOMAIN (s \o t) = 1 .. Len(s) + Len(t)
           /\ \A i \in DOMAIN s : (s \o t)[i] = s[i]
           /\ \A i \in DOMAIN t : (s \o t)[Len(s) + i] = t[i]
  <1>1. PICK S : s \in Seq(S)
    BY DEF IsSeq
  <1>2. PICK T : t \in Seq(T)
    BY DEF IsSeq
  <1>3. PICK U : U = S \cup T
    OBVIOUS
  <1>4. s \in Seq(U) /\ t \in Seq(U)
    BY <1>1, <1>2, <1>3
  <1>5. s \o t \in Seq(U) /\ Len(s \o t) = Len(s) + Len(t)
    BY <1>4
  <1> QED
    BY <1>4, <1>5 DEF IsSeq

LEMMA ListsJoin ==
    ASSUME NEW t, NEW u, NEW I, NEW J, NEW v, Lists(t, I, v), Lists(u, J, v), I \cap J = {}
    PROVE  Lists(t \o u, I \cup J, v)
  <1>1. PICK o \in [DOMAIN t -> I] :
           /\ \A k \in DOMAIN t : t[k] = v[o[k]]
           /\ \A j, k \in DOMAIN t : o[j] = o[k] => j = k
           /\ \A i \in I : \E k \in DOMAIN t : o[k] = i
    BY DEF Lists
  <1>2. PICK p \in [DOMAIN u -> J] :
           /\ \A k \in DOMAIN u : u[k] = v[p[k]]
           /\ \A j, k \in DOMAIN u : p[j] = p[k] => j = k
           /\ \A i \in J : \E k \in DOMAIN u : p[k] = i
    BY DEF Lists
  <1>3. PICK m \in Nat, n \in Nat : m = Len(t) /\ n = Len(u)
    BY SeqsJoin DEF Lists
  <1>4. PICK w : w = t \o u
    OBVIOUS
  <1>5. /\ IsSeq(w) /\ DOMAIN w = 1 .. m + n /\ DOMAIN t = 1 .. m /\ DOMAIN u = 1 .. n
        /\ \A i \in 1 .. m : w[i] = t[i]
        /\ \A i \in 1 .. n : w[m + i] = u[i]
    BY <1>3, <1>4, SeqsJoin DEF Lists
  <1>6. PICK r : r = [k \in 1 .. m + n |-> IF k <= m THEN o[k] ELSE p[k - m]]
    OBVIOUS
  <1>7. \A k \in 1 .. m : k \in 1 .. m + n /\ r[k] = o[k] /\ r[k] \in I
    BY <1>1, <1>5, <1>6
  <1>8. \A k \in 1 .. n : m + k \in 1 .. m + n /\ r[m + k] = p[k] /\ r[m + k] \in J
    <2> TAKE k \in 1 .. n
    <2>1. m + k \in 1 .. m + n /\ ~(m + k <= m) /\ m + k - m = k
      OBVIOUS
    <2> QED
      BY <1>2, <1>5, <1>6, <2>1
  <1>9. \A k \in 1 .. m + n : k \in 1 .. m \/ \E j \in 1 .. n : k = m + j
    <2> TAKE k \in 1 .. m + n
    <2>1. CASE k <= m
      BY <2>1
    <2>2. CASE ~(k <= m)
      <3>1. k - m \in 1 .. n /\ k = m + (k - m)
        BY <2>2
      <3> QED
        BY <3>1
    <2> QED
      BY <2>1, <2>2
  <1>10. r \in [1 .. m + n -> I \cup J]
    <2>1. ASSUME NEW k \in 1 .. m + n
          PROVE  r[k] \in I \cup J
      <3>1. CASE k \in 1 .. m
        BY <1>7, <3>1
      <3>2. CASE \E j \in 1 .. n : k = m + j
        <4>1. PICK j \in 1 .. n : k = m + j
          BY <3>2
        <4> QED
          BY <1>8, <4>1
      <3> QED
        BY <1>9, <3>1, <3>2
    <2> QED
      BY <1>6, <2>1
  <1>11. \A k \in 1 .. m + n : w[k] = v[r[k]]
    <2> TAKE k \in 1 .. m + n
    <2>1. CASE k \in 1 .. m
      BY <1>1, <1>5, <1>7, <2>1
    <2>2. CASE \E j \in 1 .. n : k = m + j
      <3>1. PICK j \in 1 .. n : k = m + j
        BY <2>2
      <3>2. w[k] = u[j] /\ r[k] = p[j] /\ u[j] = v[p[j]]
        BY <1>2, <1>5, <1>8, <3>1
      <3> QED
        BY <3>2
    <2> QED
      BY <1>9, <2>1, <2>2
  <1>12. ASSUME NEW j \in 1 .. m + n, NEW k \in 1 .. m + n, r[j] = r[k]
         PROVE  j = k
    <2>1. CASE j \in 1 .. m /\ k \in 1 .. m
      BY <1>1, <1>5, <1>7, <1>12, <2>1
    <2>2. CASE j \in 1 .. m /\ \E l \in 1 .. n : k = m + l
      BY <1>7, <1>8, <1>12, <2>2
    <2>3. CASE k \in 1 .. m /\ \E l \in 1 .. n : j = m + l
      BY <1>7, <1>8, <1>12, <2>3
    <2>4. CASE (\E l \in 1 .. n : k = m + l) /\ (\E l \in 1 .. n : j = m + l)
      <3>1. PICK a \in 1 .. n, b \in 1 .. n : j = m + a /\ k = m + b
        BY <2>4
      <3>2. p[a] = p[b]
        BY <1>8, <1>12, <3>1
      <3> QED
        BY <1>2, <1>5, <3>1, <3>2
    <2> QED
      BY <1>9, <2>1, <2>2, <2>3, <2>4
  <1>13. \A i \in I \cup J : \E k \in 1 .. m + n : r[k] = i
    <2> TAKE i \in I \cup J
    <2>1. CASE i \in I
      <3>1. PICK k \in 1 .. m : o[k] = i
        BY <1>1, <1>5, <2>1
      <3> QED
        BY <1>7, <3>1
    <2>2. CASE i \in J
      <3>1. PICK k \in 1 .. n : p[k] = i
        BY <1>2, <1>5, <2>2
      <3> QED
        BY <1>8, <3>1
    <2> QED
      BY <2>1, <2>2
  <1>14. /\ r \in [DOMAIN w -> I \cup J]
         /\ \A k \in DOMAIN w : w[k] = v[r[k]]
         /\ \A j, k \in DOMAIN w : r[j] = r[k] => j = k
         /\ \A i \in I \cup J : \E k \in DOMAIN w : r[k] = i
    BY <1>5, <1>10, <1>11, <1>12, <1>13
  <1>15. IsSeq(w)
    BY <1>5
  <1>16. Lists(w, I \cup J, v)
    BY <1>14, <1>15, Zenon DEF Lists
  <1> QED
    BY <1>4, <1>16

LEMMA ListsNone ==
    ASSUME NEW v
    PROVE  Lists(<<>>, {}, v)
  <1>1. PICK S : S = {}
    OBVIOUS
  <1>2. <<>> \in Seq(S) /\ DOMAIN <<>> = {}
    BY <1>1
  <1>3. PICK o : o = [k \in {} |-> 0]
    OBVIOUS
  <1>4. o \in [DOMAIN <<>> -> {}]
    BY <1>2, <1>3
  <1> QED
    BY <1>2, <1>4 DEF Lists, IsSeq

LEMMA ListsOne ==
    ASSUME NEW v, NEW i
    PROVE  Lists(<<v[i]>>, {i}, v)
  <1>1. PICK t : t = <<v[i]>>
    OBVIOUS
  <1>2. t \in Seq({v[i]}) /\ DOMAIN t = {1} /\ t[1] = v[i]
    BY <1>1
  <1>3. PICK o : o = [k \in {1} |-> i]
    OBVIOUS
  <1>4. o \in [DOMAIN t -> {i}] /\ o[1] = i
    BY <1>2, <1>3
  <1> QED
    BY <1>1, <1>2, <1>4 DEF Lists, IsSeq

\* All of a list.
LEMMA ListsWhole ==
    ASSUME NEW s, IsSeq(s)
    PROVE  Lists(s, DOMAIN s, s)
  <1>1. PICK o : o = [k \in DOMAIN s |-> k]
    OBVIOUS
  <1>2. o \in [DOMAIN s -> DOMAIN s] /\ \A k \in DOMAIN s : o[k] = k
    BY <1>1
  <1> QED
    BY <1>2 DEF Lists

LEMMA AtLists ==
    ASSUME NEW s, IsSeq(s), NEW P
    PROVE  Lists(At(s, P), DOMAIN s \cap P, s) /\ Len(At(s, P)) <= Len(s)
  <1>1. PICK S : s \in Seq(S)
    BY DEF IsSeq
  <1>2. PICK N \in Nat : N = Len(s) /\ DOMAIN s = 1 .. N
    BY <1>1
  <1>3. PICK f : f = CHOOSE x : Keeps(x, s, P)
    OBVIOUS
  <1>4. Keeps(f, s, P)
    <2>1. \E x : Keeps(x, s, P)
      BY <1>1, KeepsExists
    <2> QED
      BY <1>3, <2>1, Zenon
  <1>5. KeepsTo(f, N, s, P)
    BY <1>2, <1>4 DEF Keeps, KeepsTo
  <1>6. PICK T : T = {m \in Nat : m <= N => Lists(f[m], (1 .. m) \cap P, s)}
    OBVIOUS
  <1>7. 0 \in T
    <2>1. f[0] = <<>>
      BY <1>2, <1>5 DEF KeepsTo
    <2>2. (1 .. 0) \cap P = {}
      OBVIOUS
    <2>3. Lists(f[0], (1 .. 0) \cap P, s)
      BY <2>1, <2>2, ListsNone
    <2> QED
      BY <1>6, <2>3
  <1>8. ASSUME NEW m \in Nat, m \in T
        PROVE  m + 1 \in T
    <2>1. PICK n \in Nat : n = m + 1
      OBVIOUS
    <2> SUFFICES ASSUME n <= N
                 PROVE  Lists(f[n], (1 .. n) \cap P, s)
      BY <1>6, <2>1
    <2>2. Lists(f[m], (1 .. m) \cap P, s)
      BY <1>6, <1>8, <2>1
    <2>3. n \in 0 .. N /\ n # 0 /\ n - 1 = m
      BY <2>1
    <2>4. f[n] = IF n \in P THEN Append(f[m], s[n]) ELSE f[m]
      <3>1. f[n] = IF n = 0 THEN <<>>
                   ELSE IF n \in P THEN Append(f[n - 1], s[n]) ELSE f[n - 1]
        BY <1>5, <2>3 DEF KeepsTo
      <3> QED
        BY <2>3, <3>1
    <2>5. CASE n \in P
      <3>1. Lists(<<s[n]>>, {n}, s)
        BY ListsOne
      <3>2. /\ ((1 .. m) \cap P) \cap {n} = {}
            /\ ((1 .. m) \cap P) \cup {n} = (1 .. n) \cap P
        BY <2>1, <2>5
      <3>3. f[m] \o <<s[n]>> = Append(f[m], s[n])
        BY <2>2 DEF Lists, IsSeq
      <3>4. Lists(f[m] \o <<s[n]>>, ((1 .. m) \cap P) \cup {n}, s)
        BY <2>2, <3>1, <3>2, ListsJoin
      <3> QED
        BY <2>4, <2>5, <3>2, <3>3, <3>4
    <2>6. CASE n \notin P
      <3>1. (1 .. m) \cap P = (1 .. n) \cap P
        BY <2>1, <2>6
      <3> QED
        BY <2>2, <2>4, <2>6, <3>1
    <2> QED
      BY <2>5, <2>6
  <1>9. N \in T
    BY <1>7, <1>8, SetInduction
  <1>10. At(s, P) = f[N]
    BY <1>2, <1>3 DEF At, Keeps
  <1>11. Lists(At(s, P), DOMAIN s \cap P, s)
    BY <1>2, <1>6, <1>9, <1>10
  <1> QED
    BY <1>1, <1>11, AtIs

\* The places of the first m of a list of lists, and what is there.
Places(q, m) == {p \in Nat \X Nat : p[1] \in 1 .. m /\ p[2] \in DOMAIN q[p[1]]}
Value(q) == [p \in Nat \X Nat |-> q[p[1]][p[2]]]

IsSeqs(q) == IsSeq(q) /\ \A i \in DOMAIN q : IsSeq(q[i])

LEMMA RowLists ==
    ASSUME NEW q, NEW i \in Nat, IsSeq(q[i])
    PROVE  Lists(q[i], {p \in Nat \X Nat : p[1] = i /\ p[2] \in DOMAIN q[i]}, Value(q))
  <1>1. PICK t : t = q[i]
    OBVIOUS
  <1>2. PICK n \in Nat : DOMAIN t = 1 .. n
    BY <1>1 DEF IsSeq
  <1>3. PICK I : I = {p \in Nat \X Nat : p[1] = i /\ p[2] \in 1 .. n}
    OBVIOUS
  <1>4. PICK o : o = [k \in 1 .. n |-> <<i, k>>]
    OBVIOUS
  <1>5. o \in [1 .. n -> I]
    BY <1>3, <1>4
  <1>6. \A k \in 1 .. n : t[k] = Value(q)[o[k]]
    <2> TAKE k \in 1 .. n
    <2>1. <<i, k>> \in Nat \X Nat /\ <<i, k>>[1] = i /\ <<i, k>>[2] = k
      OBVIOUS
    <2>2. Value(q)[<<i, k>>] = q[i][k]
      BY <2>1 DEF Value
    <2> QED
      BY <1>1, <1>4, <2>2
  <1>7. \A j, k \in 1 .. n : o[j] = o[k] => j = k
    BY <1>4
  <1>8. \A p \in I : \E k \in 1 .. n : o[k] = p
    BY <1>3, <1>4
  <1>9. /\ o \in [DOMAIN t -> I]
        /\ \A k \in DOMAIN t : t[k] = Value(q)[o[k]]
        /\ \A j, k \in DOMAIN t : o[j] = o[k] => j = k
        /\ \A p \in I : \E k \in DOMAIN t : o[k] = p
    BY <1>2, <1>5, <1>6, <1>7, <1>8
  <1>10. Lists(t, I, Value(q))
    BY <1>1, <1>9, Zenon DEF Lists
  <1>11. I = {p \in Nat \X Nat : p[1] = i /\ p[2] \in DOMAIN q[i]}
    BY <1>1, <1>2, <1>3
  <1> QED
    BY <1>1, <1>10, <1>11

\* f[n] is what the first n lists of q hold.
Joins(f, q) == f = [i \in 1 .. Len(q) |-> IF i = 1 THEN q[i] ELSE f[i - 1] \o q[i]]

JoinsTo(f, m, q) ==
    /\ f = [i \in 1 .. m |-> f[i]]
    /\ \A i \in 1 .. m : f[i] = IF i = 1 THEN q[i] ELSE f[i - 1] \o q[i]

LEMMA JoinsExists ==
    ASSUME NEW q, IsSeq(q)
    PROVE  \E f : Joins(f, q)
  <1>1. PICK N \in Nat : N = Len(q)
    BY DEF IsSeq
  <1>2. PICK T : T = {m \in Nat : \E g : JoinsTo(g, m, q)}
    OBVIOUS
  <1>3. 0 \in T
    <2>1. PICK g : g = [i \in {} |-> 0]
      OBVIOUS
    <2>2. 1 .. 0 = {} /\ g = [i \in {} |-> g[i]]
      BY <2>1
    <2>3. JoinsTo(g, 0, q)
      BY <2>2 DEF JoinsTo
    <2> QED
      BY <1>2, <2>3
  <1>4. ASSUME NEW m \in Nat, m \in T
        PROVE  m + 1 \in T
    <2>1. PICK g : JoinsTo(g, m, q)
      BY <1>2, <1>4
    <2>2. PICK h : h = [i \in 1 .. m + 1 |->
                          IF i = m + 1 THEN IF i = 1 THEN q[i] ELSE g[m] \o q[i]
                          ELSE g[i]]
      OBVIOUS
    <2>3. DOMAIN h = 1 .. m + 1 /\ \A i \in 1 .. m : h[i] = g[i]
      <3>1. \A i \in 1 .. m : i \in 1 .. m + 1 /\ i # m + 1
        OBVIOUS
      <3> QED
        BY <2>2, <3>1
    <2>4. h[m + 1] = IF m + 1 = 1 THEN q[m + 1] ELSE h[m] \o q[m + 1]
      BY <2>2, <2>3
    <2>5. ASSUME NEW i \in 1 .. m + 1
          PROVE  h[i] = IF i = 1 THEN q[i] ELSE h[i - 1] \o q[i]
      <3>1. CASE i = m + 1
        <4>1. i - 1 = m
          BY <3>1
        <4> QED
          BY <2>4, <3>1, <4>1
      <3>2. CASE i \in 1 .. m
        <4>1. i # 1 => i - 1 \in 1 .. m
          BY <3>2
        <4>2. i # 1 => h[i - 1] = g[i - 1]
          BY <2>3, <4>1
        <4> QED
          BY <2>1, <2>3, <3>2, <4>2 DEF JoinsTo
      <3> QED
        BY <3>1, <3>2
    <2>6. JoinsTo(h, m + 1, q)
      <3>1. h = [i \in 1 .. m + 1 |-> h[i]]
        BY <2>2
      <3> QED
        BY <2>5, <3>1, Zenon DEF JoinsTo
    <2> QED
      BY <1>2, <2>6
  <1>5. PICK f : JoinsTo(f, N, q)
    <2>1. N \in T
      BY <1>3, <1>4, SetInduction
    <2> QED
      BY <1>2, <2>1
  <1>6. f = [i \in 1 .. N |-> IF i = 1 THEN q[i] ELSE f[i - 1] \o q[i]]
    <2>1. DOMAIN f = 1 .. N /\ \A i \in 1 .. N : f[i] = IF i = 1 THEN q[i] ELSE f[i - 1] \o q[i]
      BY <1>5 DEF JoinsTo
    <2>2. f = [i \in 1 .. N |-> f[i]]
      BY <1>5 DEF JoinsTo
    <2> QED
      BY <2>1, <2>2, Zenon
  <1> QED
    BY <1>1, <1>6, Zenon DEF Joins

LEMMA FlattenLists ==
    ASSUME NEW q, IsSeqs(q)
    PROVE  /\ Lists(FlattenSeq(q), Places(q, Len(q)), Value(q))
           /\ (\A i \in DOMAIN q : Len(q[i]) <= 1) => Len(FlattenSeq(q)) <= Len(q)
  <1>1. PICK N \in Nat : N = Len(q) /\ DOMAIN q = 1 .. N
    BY DEF IsSeqs, IsSeq
  <1>2. CASE N = 0
    <2>1. FlattenSeq(q) = q
      BY <1>1, <1>2, Zenon DEF FlattenSeq
    <2>2. q = <<>>
      BY <1>1, <1>2 DEF IsSeqs, IsSeq
    <2>3. Places(q, Len(q)) = {}
      BY <1>1, <1>2 DEF Places
    <2> QED
      BY <1>1, <2>1, <2>2, <2>3, ListsNone
  <1>3. CASE N # 0
    <2>1. PICK f : f = CHOOSE x : Joins(x, q)
      OBVIOUS
    <2>2. Joins(f, q)
      <3>1. \E x : Joins(x, q)
        BY JoinsExists DEF IsSeqs
      <3> QED
        BY <2>1, <3>1, Zenon
    <2>3. JoinsTo(f, N, q)
      BY <1>1, <2>2 DEF Joins, JoinsTo
    <2>4. FlattenSeq(q) = f[N]
      BY <1>1, <1>3, <2>1, Zenon DEF FlattenSeq, Joins
    <2>5. PICK T : T = {m \in Nat : m + 1 <= N =>
                          /\ Lists(f[m + 1], Places(q, m + 1), Value(q))
                          /\ (\A i \in DOMAIN q : Len(q[i]) <= 1) => Len(f[m + 1]) <= m + 1}
      OBVIOUS
    <2>6. 0 \in T
      <3>1. 1 \in 1 .. N /\ IsSeq(q[1])
        BY <1>1, <1>3 DEF IsSeqs
      <3>2. f[1] = q[1]
        BY <2>3, <3>1 DEF JoinsTo
      <3>3. Places(q, 1) = {p \in Nat \X Nat : p[1] = 1 /\ p[2] \in DOMAIN q[1]}
        BY DEF Places
      <3>4. Lists(f[1], Places(q, 1), Value(q))
        BY <3>1, <3>2, <3>3, RowLists
      <3> QED
        BY <1>1, <2>5, <3>1, <3>2, <3>4
    <2>7. ASSUME NEW m \in Nat, m \in T
          PROVE  m + 1 \in T
      <3>1. PICK n \in Nat : n = m + 2
        OBVIOUS
      <3> SUFFICES ASSUME n <= N
                   PROVE  /\ Lists(f[n], Places(q, n), Value(q))
                          /\ (\A i \in DOMAIN q : Len(q[i]) <= 1) => Len(f[n]) <= n
        BY <2>5, <3>1
      <3>2. n \in 1 .. N /\ n # 1 /\ n - 1 = m + 1 /\ n - 1 \in 1 .. N /\ n - 1 \in Nat
        BY <3>1
      <3>3. f[n] = f[n - 1] \o q[n]
        BY <2>3, <3>2 DEF JoinsTo
      <3>4. /\ Lists(f[n - 1], Places(q, n - 1), Value(q))
            /\ (\A i \in DOMAIN q : Len(q[i]) <= 1) => Len(f[n - 1]) <= n - 1
        BY <2>5, <2>7, <3>1, <3>2
      <3>5. IsSeq(q[n]) /\ IsSeq(f[n - 1])
        BY <1>1, <3>2, <3>4 DEF IsSeqs, Lists
      <3>6. PICK R : R = {p \in Nat \X Nat : p[1] = n /\ p[2] \in DOMAIN q[n]}
        OBVIOUS
      <3>7. Lists(q[n], R, Value(q))
        BY <3>5, <3>6, RowLists
      <3>8. Places(q, n - 1) \cap R = {}
        BY <3>2, <3>6 DEF Places
      <3>9. Places(q, n - 1) \cup R = Places(q, n)
        BY <3>2, <3>6 DEF Places
      <3>10. Lists(f[n - 1] \o q[n], Places(q, n - 1) \cup R, Value(q))
        BY <3>4, <3>7, <3>8, ListsJoin
      <3>11. /\ Len(f[n - 1] \o q[n]) = Len(f[n - 1]) + Len(q[n])
             /\ Len(f[n - 1]) \in Nat /\ Len(q[n]) \in Nat
        BY <3>5, SeqsJoin
      <3>12. (\A i \in DOMAIN q : Len(q[i]) <= 1) => Len(f[n]) <= n
        <4>1. SUFFICES ASSUME \A i \in DOMAIN q : Len(q[i]) <= 1
                       PROVE  Len(f[n]) <= n
          OBVIOUS
        <4>2. PICK a \in Nat, b \in Nat : a = Len(f[n - 1]) /\ b = Len(q[n]) /\ Len(f[n]) = a + b
          BY <3>3, <3>11
        <4>3. a <= n - 1 /\ b <= 1
          BY <1>1, <3>2, <3>4, <4>1, <4>2
        <4>4. a + b <= n
          BY <4>3
        <4> QED
          BY <4>2, <4>4
      <3> QED
        BY <3>3, <3>9, <3>10, <3>12
    <2>8. PICK k \in Nat : k + 1 = N
      BY <1>1, <1>3
    <2>9. k \in T
      BY <2>6, <2>7, SetInduction
    <2> QED
      BY <1>1, <2>4, <2>5, <2>8, <2>9
  <1> QED
    BY <1>2, <1>3

\* What is in t comes from a place in the lists of q, no two from the same.
FromOnce(t, q) ==
    \E a, b :
        /\ \A k \in DOMAIN t :
            a[k] \in DOMAIN q /\ b[k] \in DOMAIN q[a[k]] /\ t[k] = q[a[k]][b[k]]
        /\ \A j, k \in DOMAIN t : a[j] = a[k] /\ b[j] = b[k] => j = k

\* Each member of the lists is in the flat one, once.
LEMMA FlattenIs ==
    ASSUME NEW q, IsSeqs(q)
    PROVE  LET t == FlattenSeq(q)
           IN  /\ IsSeq(t)
               /\ FromOnce(t, q)
               /\ \A i \in DOMAIN q : \A j \in DOMAIN q[i] : \E k \in DOMAIN t : t[k] = q[i][j]
               /\ (\A i \in DOMAIN q : Len(q[i]) <= 1) => Len(t) <= Len(q)
  <1>1. PICK t : t = FlattenSeq(q)
    OBVIOUS
  <1>2. PICK N \in Nat : N = Len(q) /\ DOMAIN q = 1 .. N
    BY DEF IsSeqs, IsSeq
  <1>3. Lists(t, Places(q, N), Value(q))
    BY <1>1, <1>2, FlattenLists
  <1>4. PICK o \in [DOMAIN t -> Places(q, N)] :
           /\ \A k \in DOMAIN t : t[k] = Value(q)[o[k]]
           /\ \A j, k \in DOMAIN t : o[j] = o[k] => j = k
           /\ \A i \in Places(q, N) : \E k \in DOMAIN t : o[k] = i
    BY <1>3 DEF Lists
  <1>5. PICK a : a = [k \in DOMAIN t |-> o[k][1]]
    OBVIOUS
  <1>6. PICK b : b = [k \in DOMAIN t |-> o[k][2]]
    OBVIOUS
  <1>7. ASSUME NEW k \in DOMAIN t
        PROVE  /\ a[k] \in DOMAIN q /\ b[k] \in DOMAIN q[a[k]] /\ t[k] = q[a[k]][b[k]]
               /\ o[k] = <<a[k], b[k]>>
    <2>1. o[k] \in Nat \X Nat /\ o[k][1] \in 1 .. N /\ o[k][2] \in DOMAIN q[o[k][1]]
      BY <1>4 DEF Places
    <2>2. a[k] = o[k][1] /\ b[k] = o[k][2]
      BY <1>5, <1>6
    <2>3. Value(q)[o[k]] = q[o[k][1]][o[k][2]]
      BY <2>1 DEF Value
    <2>4. t[k] = Value(q)[o[k]]
      BY <1>4
    <2> QED
      BY <1>2, <2>1, <2>2, <2>3, <2>4
  <1>8. \A j, k \in DOMAIN t : a[j] = a[k] /\ b[j] = b[k] => j = k
    BY <1>4, <1>7
  <1>9. ASSUME NEW i \in DOMAIN q, NEW j \in DOMAIN q[i]
        PROVE  \E k \in DOMAIN t : t[k] = q[i][j]
    <2>1. i \in Nat /\ j \in Nat
      BY <1>2 DEF IsSeqs, IsSeq
    <2>2. <<i, j>> \in Places(q, N)
      BY <1>2, <2>1 DEF Places
    <2>3. PICK k \in DOMAIN t : o[k] = <<i, j>>
      BY <1>4, <2>2
    <2>4. a[k] = i /\ b[k] = j
      BY <1>5, <1>6, <2>3
    <2> QED
      BY <1>7, <2>4
  <1>10. FromOnce(t, q)
    BY <1>7, <1>8 DEF FromOnce
  <1>11. IsSeq(t)
    BY <1>3 DEF Lists
  <1>12. (\A i \in DOMAIN q : Len(q[i]) <= 1) => Len(t) <= Len(q)
    BY <1>1, FlattenLists
  <1> QED
    BY <1>1, <1>9, <1>10, <1>11, <1>12

\* t has members of s, each place of s at most once.
Picks(t, s) ==
    /\ IsSeq(t) /\ Len(t) <= Len(s)
    /\ \E o \in [DOMAIN t -> DOMAIN s] :
        /\ \A k \in DOMAIN t : t[k] = s[o[k]]
        /\ \A j, k \in DOMAIN t : o[j] = o[k] => j = k

LEMMA ListsPicks ==
    ASSUME NEW s, NEW t, NEW I, I \subseteq DOMAIN s, Lists(t, I, s), Len(t) <= Len(s)
    PROVE  Picks(t, s)
  <1>1. PICK o \in [DOMAIN t -> I] :
           /\ \A k \in DOMAIN t : t[k] = s[o[k]]
           /\ \A j, k \in DOMAIN t : o[j] = o[k] => j = k
    BY DEF Lists
  <1>2. o \in [DOMAIN t -> DOMAIN s]
    BY <1>1
  <1>3. IsSeq(t)
    BY DEF Lists
  <1> QED
    BY <1>1, <1>2, <1>3, Zenon DEF Picks

Distinct(s) == \A i, j \in DOMAIN s : s[i] = s[j] => i = j

LEMMA AmongPicks ==
    ASSUME NEW s, IsSeq(s), NEW X
    PROVE  /\ Picks(Among(s, X), s)
           /\ ToSet(Among(s, X)) = ToSet(s) \cap X
  <1>1. PICK P : P = {i \in DOMAIN s : s[i] \in X}
    OBVIOUS
  <1>2. PICK t : t = At(s, P)
    OBVIOUS
  <1>3. Among(s, X) = t
    BY <1>1, <1>2 DEF Among
  <1>4. Lists(t, P, s) /\ Len(t) <= Len(s)
    <2>1. DOMAIN s \cap P = P
      BY <1>1
    <2> QED
      BY <1>2, <2>1, AtLists
  <1>5. Picks(t, s)
    BY <1>1, <1>4, ListsPicks
  <1>6. PICK o \in [DOMAIN t -> P] :
           /\ \A k \in DOMAIN t : t[k] = s[o[k]]
           /\ \A i \in P : \E k \in DOMAIN t : o[k] = i
    BY <1>4 DEF Lists
  <1>7. ToSet(t) \subseteq ToSet(s) \cap X
    BY <1>1, <1>6 DEF ToSet
  <1>8. ToSet(s) \cap X \subseteq ToSet(t)
    BY <1>1, <1>6 DEF ToSet
  <1> QED
    BY <1>3, <1>5, <1>7, <1>8

LEMMA FirstPicks ==
    ASSUME NEW s, IsSeq(s), NEW n \in Nat
    PROVE  Picks(First(s, n), s)
  <1>1. PICK S : s \in Seq(S)
    BY DEF IsSeq
  <1>2. PICK m : m = Min({Len(s), n})
    OBVIOUS
  <1>3. m \in Nat /\ m <= Len(s) /\ DOMAIN s = 1 .. Len(s)
    BY <1>1, <1>2, MinIs
  <1>4. PICK t : t = First(s, n)
    OBVIOUS
  <1>5. t = SubSeq(s, 1, m)
    BY <1>2, <1>4 DEF First
  <1>6. DOMAIN t = 1 .. m /\ Len(t) = m /\ \A k \in 1 .. m : t[k] = s[k]
    BY <1>1, <1>3, <1>5
  <1>7. PICK o : o = [k \in DOMAIN t |-> k]
    OBVIOUS
  <1>8. o \in [DOMAIN t -> 1 .. m] /\ \A k \in DOMAIN t : o[k] = k
    BY <1>6, <1>7
  <1>9. /\ \A k \in DOMAIN t : t[k] = s[o[k]]
        /\ \A j, k \in DOMAIN t : o[j] = o[k] => j = k
        /\ \A i \in 1 .. m : \E k \in DOMAIN t : o[k] = i
    BY <1>6, <1>8
  <1>10. IsSeq(t)
    <2>1. Len(s) \in Nat
      BY <1>1
    <2> QED
      BY <1>4, <2>1, FirstIs
  <1>11. o \in [DOMAIN t -> DOMAIN s]
    BY <1>1, <1>3, <1>8
  <1>12. Len(t) <= Len(s)
    BY <1>3, <1>6
  <1>13. Picks(t, s)
    BY <1>9, <1>10, <1>11, <1>12, Zenon DEF Picks
  <1> QED
    BY <1>4, <1>13

LEMMA PicksTwice ==
    ASSUME NEW s, NEW t, NEW u, Picks(t, s), Picks(u, t), IsSeq(s)
    PROVE  Picks(u, s)
  <1>1. PICK o \in [DOMAIN t -> DOMAIN s] :
           /\ \A k \in DOMAIN t : t[k] = s[o[k]]
           /\ \A j, k \in DOMAIN t : o[j] = o[k] => j = k
    BY DEF Picks
  <1>2. PICK p \in [DOMAIN u -> DOMAIN t] :
           /\ \A k \in DOMAIN u : u[k] = t[p[k]]
           /\ \A j, k \in DOMAIN u : p[j] = p[k] => j = k
    BY DEF Picks
  <1>3. IsSeq(u) /\ IsSeq(t)
    BY DEF Picks
  <1>4. Len(u) <= Len(s)
    <2>1. Len(u) \in Nat /\ Len(t) \in Nat /\ Len(s) \in Nat /\ Len(u) <= Len(t) /\ Len(t) <= Len(s)
      BY <1>3 DEF Picks, IsSeq
    <2> QED
      BY <2>1
  <1>5. PICK r : r = [k \in DOMAIN u |-> o[p[k]]]
    OBVIOUS
  <1>6. \A k \in DOMAIN u : p[k] \in DOMAIN t /\ r[k] = o[p[k]] /\ o[p[k]] \in DOMAIN s
    BY <1>1, <1>2, <1>5
  <1>7. r \in [DOMAIN u -> DOMAIN s]
    BY <1>5, <1>6
  <1>8. /\ \A k \in DOMAIN u : u[k] = s[r[k]]
        /\ \A j, k \in DOMAIN u : r[j] = r[k] => j = k
    BY <1>1, <1>2, <1>6
  <1> QED
    BY <1>3, <1>4, <1>7, <1>8, Zenon DEF Picks

\* What is true of lists is true of what is picked from them.
LEMMA PicksKeep ==
    ASSUME NEW s, NEW t, Picks(t, s)
    PROVE  /\ IsSeq(t) /\ Len(t) <= Len(s)
           /\ ToSet(t) \subseteq ToSet(s)
           /\ Source!Once(s) => Source!Once(t)
           /\ Source!NoneTwice(s) => Source!NoneTwice(t)
           /\ Distinct(s) => Distinct(t)
  <1>1. PICK o \in [DOMAIN t -> DOMAIN s] :
           /\ \A k \in DOMAIN t : t[k] = s[o[k]]
           /\ \A j, k \in DOMAIN t : o[j] = o[k] => j = k
    BY DEF Picks
  <1>2. \A k \in DOMAIN t : o[k] \in DOMAIN s /\ t[k] = s[o[k]]
    BY <1>1
  <1>3. IsSeq(t) /\ Len(t) <= Len(s)
    BY DEF Picks
  <1>4. ToSet(t) \subseteq ToSet(s)
    BY <1>2 DEF ToSet
  <1>5. Source!Once(s) => Source!Once(t)
    BY <1>1, <1>2 DEF Source!Once, Source!Same
  <1>6. Source!NoneTwice(s) => Source!NoneTwice(t)
    BY <1>1, <1>2 DEF Source!NoneTwice, Source!Same
  <1>7. Distinct(s) => Distinct(t)
    BY <1>1, <1>2 DEF Distinct
  <1> QED
    BY <1>3, <1>4, <1>5, <1>6, <1>7

\* No span of s is in t.
Apart(s, t) == \A i \in DOMAIN s, j \in DOMAIN t : ~Source!Same(s[i], t[j])

LEMMA JoinMembers ==
    ASSUME NEW s, NEW t, IsSeq(s), IsSeq(t)
    PROVE  IsSeq(s \o t) /\ ToSet(s \o t) = ToSet(s) \cup ToSet(t)
  <1>1. PICK m \in Nat, n \in Nat : m = Len(s) /\ n = Len(t)
    BY SeqsJoin
  <1>2. PICK w : w = s \o t
    OBVIOUS
  <1>3. /\ IsSeq(w) /\ DOMAIN w = 1 .. m + n /\ DOMAIN s = 1 .. m /\ DOMAIN t = 1 .. n
        /\ \A i \in 1 .. m : w[i] = s[i]
        /\ \A i \in 1 .. n : w[m + i] = t[i]
    BY <1>1, <1>2, SeqsJoin
  <1>4. \A k \in 1 .. m + n : k \in 1 .. m \/ \E j \in 1 .. n : k = m + j
    <2> TAKE k \in 1 .. m + n
    <2>1. CASE ~(k <= m)
      <3>1. k - m \in 1 .. n /\ k = m + (k - m)
        BY <2>1
      <3> QED
        BY <3>1
    <2> QED
      BY <2>1
  <1>5. \A i \in 1 .. m : i \in 1 .. m + n
    OBVIOUS
  <1>6. \A i \in 1 .. n : m + i \in 1 .. m + n
    OBVIOUS
  <1>7. ToSet(w) \subseteq ToSet(s) \cup ToSet(t)
    <2> SUFFICES ASSUME NEW k \in 1 .. m + n
                 PROVE  w[k] \in ToSet(s) \cup ToSet(t)
      BY <1>3 DEF ToSet
    <2>1. CASE k \in 1 .. m
      BY <1>3, <2>1 DEF ToSet
    <2>2. CASE \E j \in 1 .. n : k = m + j
      <3>1. PICK j \in 1 .. n : k = m + j
        BY <2>2
      <3> QED
        BY <1>3, <3>1 DEF ToSet
    <2> QED
      BY <1>4, <2>1, <2>2
  <1>8. ToSet(s) \subseteq ToSet(w)
    BY <1>3, <1>5 DEF ToSet
  <1>9. ToSet(t) \subseteq ToSet(w)
    BY <1>3, <1>6 DEF ToSet
  <1> QED
    BY <1>2, <1>3, <1>7, <1>8, <1>9

LEMMA JoinOnce ==
    ASSUME NEW s, NEW t, IsSeq(s), IsSeq(t), Source!Once(s), Source!Once(t), Apart(s, t)
    PROVE  Source!Once(s \o t)
  <1>1. PICK m \in Nat, n \in Nat : m = Len(s) /\ n = Len(t)
    BY SeqsJoin
  <1>2. PICK w : w = s \o t
    OBVIOUS
  <1>3. /\ DOMAIN w = 1 .. m + n /\ DOMAIN s = 1 .. m /\ DOMAIN t = 1 .. n
        /\ \A i \in 1 .. m : w[i] = s[i]
        /\ \A i \in 1 .. n : w[m + i] = t[i]
    BY <1>1, <1>2, SeqsJoin
  <1>4. \A k \in 1 .. m + n : k \in 1 .. m \/ \E j \in 1 .. n : k = m + j
    <2> TAKE k \in 1 .. m + n
    <2>1. CASE ~(k <= m)
      <3>1. k - m \in 1 .. n /\ k = m + (k - m)
        BY <2>1
      <3> QED
        BY <3>1
    <2> QED
      BY <2>1
  <1>5. \A i, j \in 1 .. m : Source!Same(s[i], s[j]) => i = j
    BY <1>3 DEF Source!Once
  <1>6. \A i, j \in 1 .. n : Source!Same(t[i], t[j]) => i = j
    BY <1>3 DEF Source!Once
  <1>7. \A i \in 1 .. m, j \in 1 .. n : ~Source!Same(s[i], t[j]) /\ ~Source!Same(t[j], s[i])
    BY <1>3 DEF Apart, Source!Same
  <1>8. ASSUME NEW j \in 1 .. m + n, NEW k \in 1 .. m + n, Source!Same(w[j], w[k])
        PROVE  j = k
    <2>1. CASE j \in 1 .. m /\ k \in 1 .. m
      BY <1>3, <1>5, <1>8, <2>1
    <2>2. CASE j \in 1 .. m /\ \E l \in 1 .. n : k = m + l
      BY <1>3, <1>7, <1>8, <2>2
    <2>3. CASE k \in 1 .. m /\ \E l \in 1 .. n : j = m + l
      BY <1>3, <1>7, <1>8, <2>3
    <2>4. CASE (\E l \in 1 .. n : k = m + l) /\ (\E l \in 1 .. n : j = m + l)
      <3>1. PICK a \in 1 .. n, b \in 1 .. n : j = m + a /\ k = m + b
        BY <2>4
      <3>2. Source!Same(t[a], t[b])
        BY <1>3, <1>8, <3>1
      <3> QED
        BY <1>6, <3>1, <3>2
    <2> QED
      BY <1>4, <2>1, <2>2, <2>3, <2>4
  <1> QED
    BY <1>2, <1>3, <1>8 DEF Source!Once

\* Spans as items.
LEMMA AsSpansAre ==
    ASSUME NEW q, IsSeq(q)
    PROVE  /\ IsSeq(AsSpans(q)) /\ Len(AsSpans(q)) = Len(q) /\ DOMAIN AsSpans(q) = DOMAIN q
           /\ \A k \in DOMAIN q : AsSpans(q)[k] = OfSpan(q[k])
           /\ Source!Once(q) => Source!NoneTwice(AsSpans(q))
  <1>1. PICK t : t = AsSpans(q)
    OBVIOUS
  <1>2. DOMAIN t = DOMAIN q /\ \A k \in DOMAIN q : t[k] = OfSpan(q[k])
    BY <1>1 DEF AsSpans
  <1>3. PICK n \in Nat : DOMAIN q = 1 .. n /\ Len(q) = n
    BY DEF IsSeq
  <1>4. IsSeq(t) /\ Len(t) = n
    <2>1. PICK S : S = {OfSpan(q[i]) : i \in DOMAIN q}
      OBVIOUS
    <2>2. t \in Seq(S) /\ Len(t) = n
      BY <1>1, <1>3, <2>1 DEF AsSpans
    <2> QED
      BY <2>2 DEF IsSeq
  <1>5. \A k \in DOMAIN q : DOMAIN t[k].spans = {1} /\ t[k].spans[1] = q[k]
    BY <1>2 DEF OfSpan
  <1>6. Source!Once(q) => Source!NoneTwice(t)
    BY <1>2, <1>5 DEF Source!Once, Source!NoneTwice
  <1> QED
    BY <1>1, <1>2, <1>3, <1>4, <1>6

-----------------------------------------------------------------------------
(* What comes off the stack of nested items.                               *)

\* Where the loop starts, and a turn of it.
Untaken(items, nested) ==
    [flat |-> <<>>, stack |-> Among(items, ToSet(items) \ nested)]

Turn(st, items, nested) ==
    IF st.stack = <<>> THEN st
    ELSE [flat |-> Append(st.flat, Last(st.stack)),
          stack |-> Front(st.stack) \o Under(items, nested, Last(st.stack))]

Turns(f, items, nested) ==
    f = [n \in 0 .. Len(items) |->
            IF n = 0 THEN Untaken(items, nested) ELSE Turn(f[n - 1], items, nested)]

TurnsTo(f, m, items, nested) ==
    /\ f = [n \in 0 .. m |-> f[n]]
    /\ \A n \in 0 .. m :
        f[n] = IF n = 0 THEN Untaken(items, nested) ELSE Turn(f[n - 1], items, nested)

LEMMA TurnsExist ==
    ASSUME NEW items, IsSeq(items), NEW nested
    PROVE  \E f : Turns(f, items, nested)
  <1>1. PICK N \in Nat : N = Len(items)
    BY DEF IsSeq
  <1>2. PICK T : T = {m \in Nat : \E g : TurnsTo(g, m, items, nested)}
    OBVIOUS
  <1>3. 0 \in T
    <2>1. PICK g : g = [n \in 0 .. 0 |-> Untaken(items, nested)]
      OBVIOUS
    <2>2. g = [n \in 0 .. 0 |-> g[n]] /\ \A n \in 0 .. 0 : n = 0 /\ g[n] = Untaken(items, nested)
      BY <2>1
    <2>3. TurnsTo(g, 0, items, nested)
      BY <2>2, Zenon DEF TurnsTo
    <2> QED
      BY <1>2, <2>3
  <1>4. ASSUME NEW m \in Nat, m \in T
        PROVE  m + 1 \in T
    <2>1. PICK g : TurnsTo(g, m, items, nested)
      BY <1>2, <1>4
    <2>2. PICK x : x = Turn(g[m], items, nested)
      OBVIOUS
    <2>3. PICK h : h = [n \in 0 .. m + 1 |-> IF n = m + 1 THEN x ELSE g[n]]
      OBVIOUS
    <2>4. h = [n \in 0 .. m + 1 |-> h[n]] /\ h[m + 1] = x /\ \A n \in 0 .. m : h[n] = g[n]
      <3>1. \A n \in 0 .. m : n \in 0 .. m + 1 /\ n # m + 1
        OBVIOUS
      <3> QED
        BY <2>3, <3>1
    <2>5. ASSUME NEW n \in 0 .. m + 1
          PROVE  h[n] = IF n = 0 THEN Untaken(items, nested) ELSE Turn(h[n - 1], items, nested)
      <3>1. CASE n = m + 1
        <4>1. n - 1 = m /\ n # 0 /\ m \in 0 .. m
          BY <3>1
        <4>2. h[n - 1] = g[m] /\ h[n] = x
          BY <2>4, <3>1, <4>1
        <4> QED
          BY <2>2, <4>1, <4>2, Zenon
      <3>2. CASE n \in 0 .. m
        <4>1. n # 0 => n - 1 \in 0 .. m
          BY <3>2
        <4>2. n # 0 => h[n - 1] = g[n - 1]
          BY <2>4, <4>1
        <4>3. h[n] = g[n]
          BY <2>4, <3>2
        <4>4. g[n] = IF n = 0 THEN Untaken(items, nested) ELSE Turn(g[n - 1], items, nested)
          BY <2>1, <3>2, Zenon DEF TurnsTo
        <4> QED
          BY <4>2, <4>3, <4>4, Zenon
      <3> QED
        BY <3>1, <3>2
    <2>6. TurnsTo(h, m + 1, items, nested)
      BY <2>4, <2>5, Zenon DEF TurnsTo
    <2> QED
      BY <1>2, <2>6
  <1>5. PICK f : TurnsTo(f, N, items, nested)
    <2>1. N \in T
      BY <1>3, <1>4, SetInduction
    <2> QED
      BY <1>2, <2>1
  <1>6. f = [n \in 0 .. N |-> IF n = 0 THEN Untaken(items, nested)
                              ELSE Turn(f[n - 1], items, nested)]
    <2>1. PICK h : h = [n \in 0 .. N |-> IF n = 0 THEN Untaken(items, nested)
                                         ELSE Turn(f[n - 1], items, nested)]
      OBVIOUS
    <2>2. \A n \in 0 .. N : f[n] = IF n = 0 THEN Untaken(items, nested)
                                   ELSE Turn(f[n - 1], items, nested)
      BY <1>5, Zenon DEF TurnsTo
    <2>3. \A n \in 0 .. N : f[n] = h[n]
      BY <2>1, <2>2
    <2>4. f = [n \in 0 .. N |-> f[n]] /\ h = [n \in 0 .. N |-> h[n]]
      <3>1. f = [n \in 0 .. N |-> f[n]]
        BY <1>5, Zenon DEF TurnsTo
      <3>2. h = [n \in 0 .. N |-> h[n]]
        BY <2>1
      <3> QED
        BY <3>1, <3>2
    <2>5. f = h
      BY <2>3, <2>4
    <2> QED
      BY <2>1, <2>5
  <1> QED
    BY <1>1, <1>6, Zenon DEF Turns

\* No item comes off twice: each that was put on the stack has its parent among
\* those that came off before, and each comes off once.
Loop(st, items, nested) ==
    /\ IsSeq(st.flat) /\ IsSeq(st.stack)
    /\ ToSet(st.flat) \subseteq ToSet(items) /\ ToSet(st.stack) \subseteq ToSet(items)
    /\ Source!Once(st.flat) /\ Source!Once(st.stack)
    /\ \A x \in ToSet(st.flat), y \in ToSet(st.stack) : ~Source!Same(x, y)
    /\ \A t \in ToSet(st.flat) \cup ToSet(st.stack) :
        t \in nested => \E u \in ToSet(st.flat) : t.parent = {u.id}

OneTrace(items) == \A s, t \in ToSet(items) : s.trace = t.trace

LEMMA SameIsEqual ==
    ASSUME NEW q, Source!Once(q), NEW s \in ToSet(q), NEW t \in ToSet(q), Source!Same(s, t)
    PROVE  s = t
  BY DEF Source!Once, ToSet

LEMMA FrontIs ==
    ASSUME NEW s, IsSeq(s), s # <<>>
    PROVE  /\ Last(s) \in ToSet(s)
           /\ Picks(Front(s), s)
           /\ Source!Once(s) => \A x \in ToSet(Front(s)) : ~Source!Same(x, Last(s))
  <1>1. PICK S : s \in Seq(S)
    BY DEF IsSeq
  <1>2. PICK n \in Nat : n + 1 = Len(s) /\ DOMAIN s = 1 .. n + 1
    BY <1>1
  <1>3. PICK t : t = Front(s)
    OBVIOUS
  <1>4. t = SubSeq(s, 1, n)
    BY <1>2, <1>3 DEF Front
  <1>5. DOMAIN t = 1 .. n /\ Len(t) = n /\ \A k \in 1 .. n : t[k] = s[k]
    BY <1>1, <1>2, <1>4
  <1>6. PICK o : o = [k \in DOMAIN t |-> k]
    OBVIOUS
  <1>7. o \in [DOMAIN t -> DOMAIN s] /\ \A k \in DOMAIN t : o[k] = k
    BY <1>2, <1>5, <1>6
  <1>8. /\ \A k \in DOMAIN t : t[k] = s[o[k]]
        /\ \A j, k \in DOMAIN t : o[j] = o[k] => j = k
    BY <1>5, <1>7
  <1>9. IsSeq(t) /\ Len(t) <= Len(s)
    BY <1>1, <1>2, <1>4, <1>5 DEF IsSeq
  <1>10. Picks(t, s)
    BY <1>7, <1>8, <1>9, Zenon DEF Picks
  <1>11. Last(s) = s[n + 1] /\ n + 1 \in DOMAIN s
    BY <1>2 DEF Last
  <1>12. Source!Once(s) => \A x \in ToSet(t) : ~Source!Same(x, s[n + 1])
    <2> SUFFICES ASSUME Source!Once(s), NEW k \in 1 .. n, Source!Same(t[k], s[n + 1])
                 PROVE  FALSE
      BY <1>5 DEF ToSet
    <2>1. k \in DOMAIN s /\ k # n + 1 /\ t[k] = s[k]
      BY <1>2, <1>5
    <2> QED
      BY <1>11, <2>1 DEF Source!Once
  <1> QED
    BY <1>3, <1>10, <1>11, <1>12 DEF ToSet

LEMMA ApartSets ==
    ASSUME NEW s, NEW t, \A x \in ToSet(s), y \in ToSet(t) : ~Source!Same(x, y)
    PROVE  Apart(s, t)
  BY DEF Apart, ToSet

LEMMA OneItem ==
    ASSUME NEW x
    PROVE  IsSeq(<<x>>) /\ ToSet(<<x>>) = {x} /\ Source!Once(<<x>>) /\ Len(<<x>>) = 1
  <1>1. PICK t : t = <<x>>
    OBVIOUS
  <1>2. t \in Seq({x}) /\ DOMAIN t = {1} /\ t[1] = x /\ Len(t) = 1
    BY <1>1
  <1> QED
    BY <1>1, <1>2 DEF IsSeq, ToSet, Source!Once

LEMMA NoItem == IsSeq(<<>>) /\ ToSet(<<>>) = {} /\ Source!Once(<<>>) /\ Len(<<>>) = 0
  <1>1. PICK t : t = <<>>
    OBVIOUS
  <1>2. t \in Seq({}) /\ DOMAIN t = {} /\ Len(t) = 0
    BY <1>1
  <1> QED
    BY <1>1, <1>2 DEF IsSeq, ToSet, Source!Once

LEMMA LoopTurn ==
    ASSUME NEW items, IsSeq(items), Source!Once(items), OneTrace(items), NEW nested,
           NEW st, Loop(st, items, nested)
    PROVE  Loop(Turn(st, items, nested), items, nested)
  <1>1. CASE st.stack = <<>>
    BY <1>1, Zenon DEF Turn
  <1>2. CASE st.stack # <<>>
    <2>1. PICK flat, stack : flat = st.flat /\ stack = st.stack
      OBVIOUS
    <2>2. /\ IsSeq(flat) /\ IsSeq(stack)
          /\ ToSet(flat) \subseteq ToSet(items) /\ ToSet(stack) \subseteq ToSet(items)
          /\ Source!Once(flat) /\ Source!Once(stack)
          /\ \A x \in ToSet(flat), y \in ToSet(stack) : ~Source!Same(x, y)
          /\ \A t \in ToSet(flat) \cup ToSet(stack) :
              t \in nested => \E u \in ToSet(flat) : t.parent = {u.id}
      BY <2>1, Zenon DEF Loop
    <2>3. PICK top : top = Last(stack)
      OBVIOUS
    <2>4. PICK front : front = Front(stack)
      OBVIOUS
    <2>5. PICK under : under = Under(items, nested, top)
      OBVIOUS
    <2>6. /\ top \in ToSet(stack) /\ Picks(front, stack)
          /\ \A x \in ToSet(front) : ~Source!Same(x, top)
      BY <1>2, <2>1, <2>2, <2>3, <2>4, FrontIs
    <2>7. /\ IsSeq(front) /\ ToSet(front) \subseteq ToSet(stack) /\ Source!Once(front)
      BY <2>2, <2>6, PicksKeep
    <2>8. /\ IsSeq(under) /\ Source!Once(under) /\ ToSet(under) \subseteq ToSet(items)
          /\ \A t \in ToSet(under) : t \in nested /\ t.parent = {top.id}
      <3>1. PICK X : X = {t \in nested : t.parent = {top.id}}
        OBVIOUS
      <3>2. under = Among(items, X)
        BY <2>5, <3>1 DEF Under
      <3>3. Picks(under, items) /\ ToSet(under) = ToSet(items) \cap X
        BY <3>2, AmongPicks
      <3> QED
        BY <3>1, <3>3, PicksKeep
    <2>9. \A t \in ToSet(flat) \cup ToSet(stack), y \in ToSet(under) : ~Source!Same(t, y)
      <3> SUFFICES ASSUME NEW t \in ToSet(flat) \cup ToSet(stack), NEW y \in ToSet(under),
                          Source!Same(t, y)
                   PROVE  FALSE
        OBVIOUS
      <3>1. t = y
        BY <2>2, <2>8, SameIsEqual
      <3>2. PICK u \in ToSet(flat) : t.parent = {u.id}
        BY <2>2, <2>8, <3>1
      <3>3. u.id = top.id
        BY <2>8, <3>1, <3>2
      <3>4. u.trace = top.trace
        BY <2>2, <2>6, <3>2 DEF OneTrace
      <3> QED
        BY <2>2, <2>6, <3>2, <3>3, <3>4 DEF Source!Same
    <2>10. PICK done : done = flat \o <<top>>
      OBVIOUS
    <2>11. PICK rest : rest = front \o under
      OBVIOUS
    <2>12. IsSeq(done) /\ ToSet(done) = ToSet(flat) \cup {top} /\ Source!Once(done)
      <3>1. \A x \in ToSet(flat), y \in ToSet(<<top>>) : ~Source!Same(x, y)
        BY <2>2, <2>6, OneItem
      <3>2. Apart(flat, <<top>>)
        BY <3>1, ApartSets
      <3> QED
        BY <2>2, <2>10, <3>2, OneItem, JoinMembers, JoinOnce
    <2>13. IsSeq(rest) /\ ToSet(rest) = ToSet(front) \cup ToSet(under) /\ Source!Once(rest)
      <3>1. \A x \in ToSet(front), y \in ToSet(under) : ~Source!Same(x, y)
        BY <2>7, <2>9
      <3>2. Apart(front, under)
        BY <3>1, ApartSets
      <3> QED
        BY <2>7, <2>8, <2>11, <3>2, JoinMembers, JoinOnce
    <2>14. \A x \in ToSet(done), y \in ToSet(rest) : ~Source!Same(x, y)
      <3> SUFFICES ASSUME NEW x \in ToSet(done), NEW y \in ToSet(rest), Source!Same(x, y)
                   PROVE  FALSE
        OBVIOUS
      <3>1. x \in ToSet(flat) \/ x = top
        BY <2>12
      <3>2. CASE y \in ToSet(under)
        BY <2>6, <2>9, <3>1, <3>2
      <3>3. CASE y \in ToSet(front)
        <4>1. CASE x = top
          BY <2>6, <3>3, <4>1 DEF Source!Same
        <4>2. CASE x \in ToSet(flat)
          BY <2>2, <2>7, <3>3, <4>2
        <4> QED
          BY <3>1, <4>1, <4>2
      <3> QED
        BY <2>13, <3>2, <3>3
    <2>15. \A t \in ToSet(done) \cup ToSet(rest) :
              t \in nested => \E u \in ToSet(done) : t.parent = {u.id}
      <3> SUFFICES ASSUME NEW t \in ToSet(done) \cup ToSet(rest), t \in nested
                   PROVE  \E u \in ToSet(done) : t.parent = {u.id}
        OBVIOUS
      <3>1. CASE t \in ToSet(under)
        BY <2>8, <2>12, <3>1
      <3>2. CASE t \in ToSet(flat) \cup ToSet(stack)
        BY <2>2, <2>12, <3>2
      <3> QED
        BY <2>6, <2>7, <2>12, <2>13, <3>1, <3>2
    <2>16. PICK new : new = [flat |-> done, stack |-> rest]
      OBVIOUS
    <2>17. Turn(st, items, nested) = new
      <3>1. flat \o <<top>> = Append(flat, top)
        BY <2>2 DEF IsSeq
      <3>2. Turn(st, items, nested) = [flat |-> Append(flat, top), stack |-> front \o under]
        BY <1>2, <2>1, <2>3, <2>4, <2>5, Zenon DEF Turn
      <3> QED
        BY <2>10, <2>11, <2>16, <3>1, <3>2
    <2>18. new.flat = done /\ new.stack = rest
      BY <2>16
    <2>19. ToSet(done) \subseteq ToSet(items) /\ ToSet(rest) \subseteq ToSet(items)
      BY <2>2, <2>6, <2>7, <2>8, <2>12, <2>13
    <2>20. Loop(new, items, nested)
      BY <2>12, <2>13, <2>14, <2>15, <2>18, <2>19, Zenon DEF Loop
    <2> QED
      BY <2>17, <2>20
  <1> QED
    BY <1>1, <1>2

LEMMA UnstackedIs ==
    ASSUME NEW items, IsSeq(items), Source!Once(items), OneTrace(items), NEW nested
    PROVE  LET t == Unstacked(items, nested)
           IN  IsSeq(t) /\ Source!Once(t) /\ ToSet(t) \subseteq ToSet(items)
  <1>1. PICK N \in Nat : N = Len(items)
    BY DEF IsSeq
  <1>2. PICK f : f = CHOOSE x : Turns(x, items, nested)
    OBVIOUS
  <1>3. Turns(f, items, nested)
    <2>1. \E x : Turns(x, items, nested)
      BY TurnsExist
    <2> QED
      BY <1>2, <2>1, Zenon
  <1>4. /\ f[0] = Untaken(items, nested)
        /\ \A m \in Nat : m + 1 <= N => f[m + 1] = Turn(f[m], items, nested)
    <2>1. \A n \in 0 .. N : f[n] = IF n = 0 THEN Untaken(items, nested)
                                   ELSE Turn(f[n - 1], items, nested)
      BY <1>1, <1>3 DEF Turns
    <2>2. 0 \in 0 .. N
      OBVIOUS
    <2>3. ASSUME NEW m \in Nat, m + 1 <= N
          PROVE  f[m + 1] = Turn(f[m], items, nested)
      <3>1. PICK n \in 0 .. N : n = m + 1 /\ n # 0 /\ n - 1 = m
        BY <2>3
      <3>2. f[n] = Turn(f[n - 1], items, nested)
        BY <2>1, <3>1, Zenon
      <3> QED
        BY <3>1, <3>2
    <2> QED
      BY <2>1, <2>2, <2>3, Zenon
  <1>5. PICK T : T = {m \in Nat : m <= N => Loop(f[m], items, nested)}
    OBVIOUS
  <1>6. 0 \in T
    <2>1. PICK X : X = ToSet(items) \ nested
      OBVIOUS
    <2>2. PICK tops : tops = Among(items, X)
      OBVIOUS
    <2>3. Picks(tops, items) /\ ToSet(tops) = ToSet(items) \cap X
      BY <2>2, AmongPicks
    <2>4. IsSeq(tops) /\ Source!Once(tops)
      BY <2>3, PicksKeep
    <2>5. PICK st : st = Untaken(items, nested)
      OBVIOUS
    <2>6. st.flat = <<>> /\ st.stack = tops
      BY <2>1, <2>2, <2>5 DEF Untaken
    <2>7. Loop(st, items, nested)
      BY <2>1, <2>3, <2>4, <2>6, NoItem DEF Loop
    <2> QED
      BY <1>4, <1>5, <2>5, <2>7
  <1>7. ASSUME NEW m \in Nat, m \in T
        PROVE  m + 1 \in T
    <2>1. m + 1 <= N => Loop(f[m], items, nested) /\ f[m + 1] = Turn(f[m], items, nested)
      BY <1>4, <1>5, <1>7
    <2>2. m + 1 <= N => Loop(f[m + 1], items, nested)
      BY <2>1, LoopTurn
    <2> QED
      BY <1>5, <2>2
  <1>8. N \in T
    BY <1>6, <1>7, SetInduction
  <1>9. Unstacked(items, nested) = f[N].flat
    BY <1>1, <1>2, Zenon DEF Unstacked, Turns, Turn, Untaken
  <1>10. Loop(f[N], items, nested)
    BY <1>5, <1>8
  <1> QED
    BY <1>9, <1>10 DEF Loop

-----------------------------------------------------------------------------
(* Spans as they are read.                                                 *)

Shaped(s) ==
    s = [id |-> s.id, trace |-> s.trace, parent |-> s.parent, service |-> s.service,
         operation |-> s.operation, start |-> s.start, duration |-> s.duration,
         attributes |-> s.attributes, status |-> s.status, hint |-> s.hint,
         sound |-> s.sound, thin |-> s.thin]

\* r is s but for the attributes, the status and a lost parent.
Like(r, s) == Shaped(r) /\ Source!ReadsAs(s, r)

LEMMA LikeItself ==
    ASSUME NEW s, Shaped(s)
    PROVE  Like(s, s)
  BY DEF Like, Source!ReadsAs

LEMMA LikeTwice ==
    ASSUME NEW r, NEW s, NEW t, Like(r, s), Like(s, t)
    PROVE  Like(r, t)
  BY DEF Like, Source!ReadsAs

LEMMA LikeUpdated ==
    ASSUME NEW s, Shaped(s), NEW v, NEW w
    PROVE  /\ Like([s EXCEPT !.status = v], s)
           /\ Like([s EXCEPT !.attributes = v], s)
           /\ Like([s EXCEPT !.parent = {}], s)
           /\ Like([s EXCEPT !.attributes = v, !.status = w], s)
           /\ Like([s EXCEPT !.status = v, !.attributes = w], s)
  <1>1. ASSUME NEW r, NEW parent \in {s.parent, {}}, NEW attributes, NEW status,
               r = [id |-> s.id, trace |-> s.trace, parent |-> parent, service |-> s.service,
                    operation |-> s.operation, start |-> s.start, duration |-> s.duration,
                    attributes |-> attributes, status |-> status, hint |-> s.hint,
                    sound |-> s.sound, thin |-> s.thin]
        PROVE  Like(r, s)
    BY <1>1 DEF Like, Shaped, Source!ReadsAs
  <1>2. s = [id |-> s.id, trace |-> s.trace, parent |-> s.parent, service |-> s.service,
             operation |-> s.operation, start |-> s.start, duration |-> s.duration,
             attributes |-> s.attributes, status |-> s.status, hint |-> s.hint,
             sound |-> s.sound, thin |-> s.thin]
    BY DEF Shaped
  <1>3. Like([s EXCEPT !.status = v], s)
    <2>1. PICK r : r = [s EXCEPT !.status = v]
      OBVIOUS
    <2>2. r = [id |-> s.id, trace |-> s.trace, parent |-> s.parent, service |-> s.service,
               operation |-> s.operation, start |-> s.start, duration |-> s.duration,
               attributes |-> s.attributes, status |-> v, hint |-> s.hint,
               sound |-> s.sound, thin |-> s.thin]
      BY <1>2, <2>1
    <2> QED
      BY <1>1, <2>1, <2>2
  <1>4. Like([s EXCEPT !.attributes = v], s)
    <2>1. PICK r : r = [s EXCEPT !.attributes = v]
      OBVIOUS
    <2>2. r = [id |-> s.id, trace |-> s.trace, parent |-> s.parent, service |-> s.service,
               operation |-> s.operation, start |-> s.start, duration |-> s.duration,
               attributes |-> v, status |-> s.status, hint |-> s.hint,
               sound |-> s.sound, thin |-> s.thin]
      BY <1>2, <2>1
    <2> QED
      BY <1>1, <2>1, <2>2
  <1>5. Like([s EXCEPT !.parent = {}], s)
    <2>1. PICK r : r = [s EXCEPT !.parent = {}]
      OBVIOUS
    <2>2. r = [id |-> s.id, trace |-> s.trace, parent |-> {}, service |-> s.service,
               operation |-> s.operation, start |-> s.start, duration |-> s.duration,
               attributes |-> s.attributes, status |-> s.status, hint |-> s.hint,
               sound |-> s.sound, thin |-> s.thin]
      BY <1>2, <2>1
    <2> QED
      BY <1>1, <2>1, <2>2
  <1>6. ASSUME NEW a, NEW b
        PROVE  [[s EXCEPT !.status = a] EXCEPT !.attributes = b]
               = [id |-> s.id, trace |-> s.trace, parent |-> s.parent, service |-> s.service,
                  operation |-> s.operation, start |-> s.start, duration |-> s.duration,
                  attributes |-> b, status |-> a, hint |-> s.hint,
                  sound |-> s.sound, thin |-> s.thin]
    <2>1. PICK r : r = [s EXCEPT !.status = a]
      OBVIOUS
    <2>2. r = [id |-> s.id, trace |-> s.trace, parent |-> s.parent, service |-> s.service,
               operation |-> s.operation, start |-> s.start, duration |-> s.duration,
               attributes |-> s.attributes, status |-> a, hint |-> s.hint,
               sound |-> s.sound, thin |-> s.thin]
      BY <1>2, <2>1
    <2>3. [r EXCEPT !.attributes = b]
          = [id |-> s.id, trace |-> s.trace, parent |-> s.parent, service |-> s.service,
             operation |-> s.operation, start |-> s.start, duration |-> s.duration,
             attributes |-> b, status |-> a, hint |-> s.hint,
             sound |-> s.sound, thin |-> s.thin]
      BY <2>2
    <2> QED
      BY <2>1, <2>3
  <1>7. ASSUME NEW a, NEW b
        PROVE  [[s EXCEPT !.attributes = b] EXCEPT !.status = a]
               = [id |-> s.id, trace |-> s.trace, parent |-> s.parent, service |-> s.service,
                  operation |-> s.operation, start |-> s.start, duration |-> s.duration,
                  attributes |-> b, status |-> a, hint |-> s.hint,
                  sound |-> s.sound, thin |-> s.thin]
    <2>1. PICK r : r = [s EXCEPT !.attributes = b]
      OBVIOUS
    <2>2. r = [id |-> s.id, trace |-> s.trace, parent |-> s.parent, service |-> s.service,
               operation |-> s.operation, start |-> s.start, duration |-> s.duration,
               attributes |-> b, status |-> s.status, hint |-> s.hint,
               sound |-> s.sound, thin |-> s.thin]
      BY <1>2, <2>1
    <2>3. [r EXCEPT !.status = a]
          = [id |-> s.id, trace |-> s.trace, parent |-> s.parent, service |-> s.service,
             operation |-> s.operation, start |-> s.start, duration |-> s.duration,
             attributes |-> b, status |-> a, hint |-> s.hint,
             sound |-> s.sound, thin |-> s.thin]
      BY <2>2
    <2> QED
      BY <2>1, <2>3
  <1>8. Like([s EXCEPT !.attributes = v, !.status = w], s)
    <2>1. PICK r : r = [[s EXCEPT !.attributes = v] EXCEPT !.status = w]
      OBVIOUS
    <2>2. r = [id |-> s.id, trace |-> s.trace, parent |-> s.parent, service |-> s.service,
               operation |-> s.operation, start |-> s.start, duration |-> s.duration,
               attributes |-> v, status |-> w, hint |-> s.hint,
               sound |-> s.sound, thin |-> s.thin]
      BY <1>7, <2>1
    <2>3. Like(r, s)
      BY <1>1, <2>2
    <2> QED
      BY <2>1, <2>3
  <1>9. Like([s EXCEPT !.status = v, !.attributes = w], s)
    <2>1. PICK r : r = [[s EXCEPT !.status = v] EXCEPT !.attributes = w]
      OBVIOUS
    <2>2. r = [id |-> s.id, trace |-> s.trace, parent |-> s.parent, service |-> s.service,
               operation |-> s.operation, start |-> s.start, duration |-> s.duration,
               attributes |-> w, status |-> v, hint |-> s.hint,
               sound |-> s.sound, thin |-> s.thin]
      BY <1>6, <2>1
    <2>3. Like(r, s)
      BY <1>1, <2>2
    <2> QED
      BY <2>1, <2>3
  <1> QED
    BY <1>3, <1>4, <1>5, <1>8, <1>9

\* Spans of X as they are read, each once; those of one trace.
Copies(q, X) ==
    /\ IsSeq(q) /\ Source!Once(q)
    /\ \A r \in ToSet(q) : \E s \in X : Like(r, s)

Piece(q, id, X) == Copies(q, X) /\ \A r \in ToSet(q) : r.trace = id

LEMMA PiecePick ==
    ASSUME NEW q, NEW t, NEW X, Picks(t, q)
    PROVE  /\ Copies(q, X) => Copies(t, X)
           /\ \A id : Piece(q, id, X) => Piece(t, id, X)
  BY PicksKeep DEF Copies, Piece

LEMMA PieceAmong ==
    ASSUME NEW q, NEW X, Copies(q, X), NEW Y
    PROVE  /\ Copies(Among(q, Y), X)
           /\ \A id : Piece(q, id, X) => Piece(Among(q, Y), id, X)
  BY AmongPicks, PiecePick DEF Copies

LEMMA PieceMap ==
    ASSUME NEW q, NEW t, NEW X, Copies(q, X), DOMAIN t = DOMAIN q, IsSeq(t),
           \A i \in DOMAIN q : Like(t[i], q[i])
    PROVE  /\ Copies(t, X)
           /\ \A id : Piece(q, id, X) => Piece(t, id, X)
  <1>1. \A i \in DOMAIN q : t[i].trace = q[i].trace /\ t[i].id = q[i].id
    BY DEF Like, Source!ReadsAs
  <1>2. Source!Once(t)
    BY <1>1 DEF Copies, Source!Once, Source!Same
  <1>3. ASSUME NEW i \in DOMAIN q
        PROVE  \E s \in X : Like(t[i], s)
    <2>1. PICK s \in X : Like(q[i], s)
      BY DEF Copies, ToSet
    <2> QED
      BY <2>1, LikeTwice
  <1>4. Copies(t, X)
    BY <1>2, <1>3 DEF Copies, ToSet
  <1>5. \A id : Piece(q, id, X) => Piece(t, id, X)
    BY <1>1, <1>4 DEF Piece, ToSet
  <1> QED
    BY <1>4, <1>5

\* A function on the places of a list is a list.
LEMMA MapIsSeq ==
    ASSUME NEW q, IsSeq(q), NEW t, t = [i \in DOMAIN q |-> t[i]]
    PROVE  IsSeq(t) /\ Len(t) = Len(q) /\ DOMAIN t = DOMAIN q
  <1>1. PICK n \in Nat : DOMAIN q = 1 .. n /\ Len(q) = n
    BY DEF IsSeq
  <1>2. PICK S : S = {t[i] : i \in DOMAIN q}
    OBVIOUS
  <1>3. t \in [1 .. n -> S]
    BY <1>1, <1>2
  <1>4. t \in Seq(S) /\ Len(t) = n
    BY <1>3
  <1> QED
    BY <1>1, <1>3, <1>4 DEF IsSeq

-----------------------------------------------------------------------------
(* What the service holds.                                                 *)

LEMMA StoreIs ==
    ASSUME KnownCall
    PROVE  /\ IsSeqs(store) /\ OwnIds(store)
           /\ \A trace \in ToSet(store) :
                IsSeq(trace) /\ trace # <<>> /\ \A s \in ToSet(trace) : Shaped(s)
  <1>1. PICK c \in Cases : store \in c.stores
    BY DEF KnownCall
  <1>2. /\ store \in Seq(ToSet(store)) /\ OwnIds(store)
        /\ \A trace \in ToSet(store) :
            trace \in Seq(ToSet(trace)) \ {<<>>} /\ \A s \in ToSet(trace) : IsSpan(s)
    BY <1>1, CallsAssumption
  <1>3. \A s : IsSpan(s) => Shaped(s)
    BY DEF IsSpan, Shaped
  <1>4. \A trace \in ToSet(store) : IsSeq(trace) /\ trace # <<>>
    BY <1>2 DEF IsSeq
  <1>5. IsSeqs(store)
    <2>1. \A i \in DOMAIN store : store[i] \in ToSet(store)
      BY DEF ToSet
    <2>2. IsSeq(store)
      BY <1>2 DEF IsSeq
    <2> QED
      BY <1>4, <2>1, <2>2 DEF IsSeqs
  <1> QED
    BY <1>2, <1>3, <1>4, <1>5

LEMMA SpansAre ==
    ASSUME KnownCall
    PROVE  /\ IsSeq(Spans) /\ Source!Once(Spans)
           /\ \A s \in ToSet(Spans) : Shaped(s) /\ \E trace \in ToSet(store) : s \in ToSet(trace)
           /\ \A trace \in ToSet(store) : ToSet(trace) \subseteq ToSet(Spans)
           /\ \A trace \in ToSet(store), s, t \in ToSet(Spans) :
                s \in ToSet(trace) => (t.trace = s.trace <=> t \in ToSet(trace))
  <1>1. PICK q : q = Spans
    OBVIOUS
  <1>2. /\ IsSeq(q) /\ FromOnce(q, store)
        /\ \A i \in DOMAIN store : \A j \in DOMAIN store[i] : \E k \in DOMAIN q : q[k] = store[i][j]
    BY <1>1, StoreIs, FlattenIs DEF Spans
  <1>3. PICK a, b :
           /\ \A k \in DOMAIN q :
               a[k] \in DOMAIN store /\ b[k] \in DOMAIN store[a[k]] /\ q[k] = store[a[k]][b[k]]
           /\ \A j, k \in DOMAIN q : a[j] = a[k] /\ b[j] = b[k] => j = k
    BY <1>2 DEF FromOnce
  <1>4. \A t, u \in DOMAIN store : \A i \in DOMAIN store[t], j \in DOMAIN store[u] :
           /\ store[t][i].trace = store[u][j].trace <=> t = u
           /\ t = u /\ store[t][i].id = store[u][j].id => i = j
    BY StoreIs DEF OwnIds
  <1>5. Source!Once(q)
    <2> SUFFICES ASSUME NEW j \in DOMAIN q, NEW k \in DOMAIN q, Source!Same(q[j], q[k])
                 PROVE  j = k
      BY DEF Source!Once
    <2>1. a[j] = a[k]
      BY <1>3, <1>4 DEF Source!Same
    <2>2. b[j] = b[k]
      BY <1>3, <1>4, <2>1 DEF Source!Same
    <2> QED
      BY <1>3, <2>1, <2>2
  <1>6. \A s \in ToSet(q) : \E i \in DOMAIN store : \E j \in DOMAIN store[i] : s = store[i][j]
    BY <1>3 DEF ToSet
  <1>7. \A s \in ToSet(q) : Shaped(s) /\ \E trace \in ToSet(store) : s \in ToSet(trace)
    BY <1>6, StoreIs DEF ToSet
  <1>8. \A trace \in ToSet(store) : ToSet(trace) \subseteq ToSet(q)
    BY <1>2 DEF ToSet
  <1>9. ASSUME NEW trace \in ToSet(store), NEW s \in ToSet(q), NEW t \in ToSet(q),
               s \in ToSet(trace)
        PROVE  t.trace = s.trace <=> t \in ToSet(trace)
    <2>1. PICK i \in DOMAIN store : trace = store[i]
      BY DEF ToSet
    <2>2. PICK j \in DOMAIN store[i] : s = store[i][j]
      BY <1>9, <2>1 DEF ToSet
    <2>3a. PICK l \in DOMAIN store : \E m \in DOMAIN store[l] : t = store[l][m]
      BY <1>6
    <2>3. PICK m \in DOMAIN store[l] : t = store[l][m]
      BY <2>3a
    <2>4. t.trace = s.trace <=> l = i
      BY <1>4, <2>2, <2>3
    <2>5. l = i => t \in ToSet(trace)
      BY <2>1, <2>3 DEF ToSet
    <2>6. t \in ToSet(trace) => t.trace = s.trace
      <3>1. ASSUME t \in ToSet(trace)
            PROVE  t.trace = s.trace
        <4>1. PICK n \in DOMAIN store[i] : t = store[i][n]
          BY <2>1, <3>1 DEF ToSet
        <4> QED
          BY <1>4, <2>2, <4>1
      <3> QED
        BY <3>1
    <2> QED
      BY <2>4, <2>5, <2>6
  <1> QED
    BY <1>1, <1>2, <1>5, <1>7, <1>8, <1>9

\* The spans of the service are copies of themselves, and so are those of a trace.
LEMMA SpansCopies ==
    ASSUME KnownCall, NEW q, IsSeq(q), Source!Once(q), ToSet(q) \subseteq ToSet(Spans)
    PROVE  /\ Copies(q, ToSet(Spans))
           /\ \A id : Piece(OfTrace(q, id), id, ToSet(Spans))
           /\ \A id : ToSet(OfTrace(q, id)) = {s \in ToSet(q) : s.trace = id}
  <1>1. Copies(q, ToSet(Spans))
    BY SpansAre, LikeItself DEF Copies
  <1>2. ASSUME NEW id
        PROVE  /\ Piece(OfTrace(q, id), id, ToSet(Spans))
               /\ ToSet(OfTrace(q, id)) = {s \in ToSet(q) : s.trace = id}
    <2>1. PICK Y : Y = {s \in ToSet(q) : s.trace = id}
      OBVIOUS
    <2>2. PICK t : t = OfTrace(q, id)
      OBVIOUS
    <2>3. t = Among(q, Y)
      BY <2>1, <2>2 DEF OfTrace
    <2>4. ToSet(t) = Y
      BY <2>1, <2>3, AmongPicks
    <2>5. Copies(t, ToSet(Spans))
      BY <1>1, <2>3, PieceAmong
    <2>6. Piece(t, id, ToSet(Spans))
      BY <2>1, <2>4, <2>5 DEF Piece
    <2> QED
      BY <2>1, <2>2, <2>4, <2>6
  <1> QED
    BY <1>1, <1>2

\* Spans with one trace id are part of that trace.
LEMMA PieceIsPart ==
    ASSUME KnownCall, NEW q, NEW id, Piece(q, id, ToSet(Spans)), q # <<>>
    PROVE  /\ Source!PartOf(q, OfTrace(Spans, id))
           /\ \E r \in ToSet(Spans) : r.trace = id
           /\ \A trace \in ToSet(store) :
                (\E r \in ToSet(trace) : r.trace = id) => Source!PartOf(q, trace)
  <1>1. \A t : Source!ToSet(t) = ToSet(t)
    BY DEF Source!ToSet, ToSet
  <1>2. Source!Once(q)
    BY DEF Piece, Copies
  <1>3. ASSUME NEW i \in DOMAIN q
        PROVE  \E s \in ToSet(Spans) : s.trace = id /\ Source!ReadsAs(s, q[i])
    <2>1. q[i] \in ToSet(q)
      BY DEF ToSet
    <2>2. PICK s \in ToSet(Spans) : Like(q[i], s)
      BY <2>1 DEF Piece, Copies
    <2>3. q[i].trace = id
      BY <2>1 DEF Piece
    <2> QED
      BY <2>2, <2>3 DEF Like, Source!ReadsAs
  <1>4. ToSet(OfTrace(Spans, id)) = {s \in ToSet(Spans) : s.trace = id}
    BY SpansAre, SpansCopies
  <1>5. Source!PartOf(q, OfTrace(Spans, id))
    BY <1>1, <1>2, <1>3, <1>4 DEF Source!PartOf
  <1>6. \E r \in ToSet(Spans) : r.trace = id
    <2>1. 1 \in DOMAIN q
      BY DEF Piece, Copies, IsSeq
    <2> QED
      BY <1>3, <2>1
  <1>7. ASSUME NEW trace \in ToSet(store), \E r \in ToSet(trace) : r.trace = id
        PROVE  Source!PartOf(q, trace)
    <2>0. PICK r \in ToSet(trace) : r.trace = id
      BY <1>7
    <2>1. r \in ToSet(Spans)
      BY SpansAre
    <2>2. \A s \in ToSet(Spans) : s.trace = id => s \in ToSet(trace)
      BY <2>0, <2>1, SpansAre
    <2>3. \A i \in DOMAIN q : \E s \in ToSet(trace) : Source!ReadsAs(s, q[i])
      BY <1>3, <2>2
    <2> QED
      BY <1>1, <1>2, <2>3 DEF Source!PartOf
  <1> QED
    BY <1>5, <1>6, <1>7

-----------------------------------------------------------------------------
(* The promise is about the same store, call and filters.                  *)

LEMMA SameMembers ==
    ASSUME NEW s
    PROVE  Source!ToSet(s) = ToSet(s)
  BY DEF Source!ToSet, ToSet

LEMMA SameAmong ==
    ASSUME NEW s, NEW X
    PROVE  Source!Among(s, X) = Among(s, X)
  BY Zenon DEF Source!Among, Source!At, Among, At

LEMMA SameSpans ==
    /\ Source!Spans = Spans
    /\ \A q, id : Source!OfTrace(q, id) = OfTrace(q, id)
  <1>1. Source!Spans = Spans
    BY Zenon DEF Source!Spans, Source!FlattenSeq, Spans, FlattenSeq
  <1>2. \A q, id : Source!OfTrace(q, id) = OfTrace(q, id)
    BY SameAmong, SameMembers, Zenon DEF Source!OfTrace, OfTrace
  <1> QED
    BY <1>1, <1>2

LEMMA SameTests ==
    /\ \A s, field : Source!SpanValues(s, field) = SpanValues(s, field)
    /\ \A vs, f : Source!Satisfied(vs, f) <=> Satisfied(vs, f)
    /\ \A s, f : Source!Holds(s, f) <=> Holds(s, f)
    /\ \A item, f : Source!Matches(item, f) <=> Matches(item, f)
  <1>1. \A t : Source!Str(t) = Str(t)
    BY Zenon DEF Source!Str, Str
  <1>2. \A t : Source!Number(t) = Number(t)
    BY Zenon DEF Source!Number, Number
  <1>3. \A t : Source!Bool(t) = Bool(t)
    BY Zenon DEF Source!Bool, Bool
  <1>4. \A s, field : Source!SpanValues(s, field) = SpanValues(s, field)
    BY <1>1, <1>2, Zenon DEF Source!SpanValues, SpanValues
  <1>5. \A v, f : Source!Compares(v, f) <=> Compares(v, f)
    <2>1. \A f : Source!Operand(f) = Operand(f) /\ Source!Members(f) = Members(f)
      BY Zenon DEF Source!Operand, Operand, Source!Members, Members
    <2>2. \A v : Source!Truth(v) = Truth(v)
      BY Zenon DEF Source!Truth, Truth
    <2>3. \A v : Source!Comparable(v) <=> Comparable(v)
      BY Zenon DEF Source!Comparable, Comparable
    <2>4. \A f : Source!Invalid(f) <=> Invalid(f)
      BY <2>3, Zenon DEF Source!Invalid, Invalid
    <2>5. \A n, f : Source!NumberMatches(n, f) = NumberMatches(n, f)
      BY <2>1, SameMembers, Zenon DEF Source!NumberMatches, NumberMatches
    <2>6. \A n, f : Source!BoolMatches(n, f) = BoolMatches(n, f)
      BY <2>1, <2>2, Zenon DEF Source!BoolMatches, BoolMatches
    <2>7. \A t : Source!SubSeqs(t) = SubSeqs(t)
      BY DEF Source!SubSeqs, SubSeqs
    <2>8. \A s, t : (Source!IsPrefix(s, t) <=> IsPrefix(s, t))
      BY Zenon DEF Source!IsPrefix, IsPrefix
    <2>9. \A s, t : (Source!IsSuffix(s, t) <=> IsSuffix(s, t))
      BY <2>8, Zenon DEF Source!IsSuffix, IsSuffix, Source!Reverse, Reverse
    <2>10. \A n, f : Source!TextMatches(n, f) = TextMatches(n, f)
      BY <2>1, <2>7, <2>8, <2>9, SameMembers, Zenon DEF Source!TextMatches, TextMatches
    <2> QED
      BY <2>2, <2>3, <2>4, <2>5, <2>6, <2>10, Zenon DEF Source!Compares, Compares
  <1>6. \A vs, f : Source!Satisfied(vs, f) <=> Satisfied(vs, f)
    BY <1>5, Zenon DEF Source!Satisfied, Satisfied, Source!Negative, Negative
  <1>7. \A s, f : Source!Holds(s, f) <=> Holds(s, f)
    BY <1>4, <1>6, Zenon DEF Source!Holds, Holds, Source!Negative, Negative
  <1>8. \A item, field : Source!FieldValues(item, field) = FieldValues(item, field)
    <2>1. \A s : Source!IsError(s) <=> IsError(s)
      BY Zenon DEF Source!IsError, IsError
    <2> TAKE item, field
    <2>2. PICK all : all = UNION {SpanValues(item.spans[i], field) : i \in DOMAIN item.spans}
      OBVIOUS
    <2>3. UNION {Source!SpanValues(item.spans[i], field) : i \in DOMAIN item.spans} = all
      BY <1>4, <2>2
    <2>4. PICK bad : bad = Bool(\E i \in DOMAIN item.spans : IsError(item.spans[i]))
      OBVIOUS
    <2>5. Source!Bool(\E i \in DOMAIN item.spans : Source!IsError(item.spans[i])) = bad
      BY <1>3, <2>1, <2>4, Zenon
    <2>6. PICK one : one = SpanValues(item.spans[1], field)
      OBVIOUS
    <2>7. Source!SpanValues(item.spans[1], field) = one
      BY <1>4, <2>6
    <2> QED
      BY <1>1, <1>2, <2>2, <2>3, <2>4, <2>5, <2>6, <2>7, Zenon
         DEF Source!FieldValues, FieldValues
  <1>9. \A item, f : Source!Matches(item, f) <=> Matches(item, f)
    BY <1>6, <1>8, Zenon DEF Source!Matches, Matches
  <1> QED
    BY <1>4, <1>6, <1>7, <1>9

LEMMA SameFilters ==
    /\ Source!AllFilters = AllFilters
    /\ \A f : Source!Expressible(f) <=> Expressible(f)
    /\ \A field, operator, type, v :
        Source!Where(field, operator, type, v) = Where(field, operator, type, v)
  <1>1. \A t : Source!Str(t) = Str(t)
    BY Zenon DEF Source!Str, Str
  <1>2. \A t : Source!Number(t) = Number(t)
    BY Zenon DEF Source!Number, Number
  <1>3. \A t : Source!Bool(t) = Bool(t)
    BY Zenon DEF Source!Bool, Bool
  <1>4. \A a, b, c, v : Source!Where(a, b, c, v) = Where(a, b, c, v)
    BY Zenon DEF Source!Where, Where
  <1>5. \A a, t : Source!WhereText(a, t) = WhereText(a, t)
    BY <1>1, <1>4, Zenon DEF Source!WhereText, WhereText
  <1>6. \A a, t : Source!WhereDuration(a, t) = WhereDuration(a, t)
    BY <1>2, <1>4 DEF Source!WhereDuration, WhereDuration
  <1>7. \A t : Source!WhereStatus(t) = WhereStatus(t)
    BY <1>1, <1>4, Zenon DEF Source!WhereStatus, WhereStatus
  <1>8. \A p : Source!Converted(p) = Converted(p)
    BY <1>1, <1>4, <1>5, <1>6, <1>7, Zenon DEF Source!Converted, Converted
  <1>9. \A v, type : Source!Normal(v, type) = Normal(v, type)
    BY <1>3, Zenon DEF Source!Normal, Normal, Source!NumberOperand, NumberOperand
  <1>10. \A f : Source!Normalized(f) = Normalized(f)
    <2> TAKE f
    <2>1. PICK value : value = UNION {Normal(v, f.type) : v \in f.value}
      OBVIOUS
    <2>2. PICK values : values = {[i \in DOMAIN s |-> CHOOSE v \in Normal(s[i], f.type) : TRUE]
                                  : s \in f.values}
      OBVIOUS
    <2>3. UNION {Source!Normal(v, f.type) : v \in f.value} = value
      BY <1>9, <2>1
    <2>4. {[i \in DOMAIN s |-> CHOOSE v \in Source!Normal(s[i], f.type) : TRUE]
           : s \in f.values} = values
      BY <1>9, <2>2
    <2>5. Normalized(f) = [f EXCEPT !.value = value, !.values = values]
      BY <2>1, <2>2, Zenon DEF Normalized
    <2>6. Source!Normalized(f) = [f EXCEPT !.value = value, !.values = values]
      BY <2>3, <2>4, Zenon DEF Source!Normalized
    <2> QED
      BY <2>5, <2>6
  <1>11. Source!AllFilters = AllFilters
    BY <1>8, <1>10, Zenon DEF Source!AllFilters, AllFilters
  <1>12. \A f : Source!Expressible(f) <=> Expressible(f)
    BY Zenon DEF Source!Expressible, Expressible, Source!Operand, Operand
  <1> QED
    BY <1>4, <1>11, <1>12

LEMMA MostItemsIs ==
    ASSUME KnownCall
    PROVE  Source!MostItems = Limit /\ Limit \in Nat \ {0}
  <1>1. call.limit \in Nat \ {0} /\ MaxQueryLimit \in Nat \ {0}
    BY CallsAssumption DEF KnownCall
  <1>2. Limit = IF call.limit < MaxQueryLimit THEN call.limit ELSE MaxQueryLimit
    BY <1>1, MinIs DEF Limit
  <1> QED
    BY <1>1, <1>2 DEF Source!MostItems

-----------------------------------------------------------------------------
(* The items of a search.                                                  *)

\* What a service is asked for, and so is true of the traces it offers.
Served(f) ==
    \/ /\ call.backend \in {"datadog", "newrelic", "sentry"}
       /\ call.op = "search_spans"
       /\ f.operator \in CommonOperators
       /\ Expressible(f)
    \/ call.backend = "tempo" /\ TempoNative(f)
    \/ call.backend = "jaeger" /\ JaegerNative(f)
    \/ call.backend = "traceloop" /\ TraceloopNative(f)

Fulfils(trace) ==
    \A i \in DOMAIN AllFilters :
        Served(AllFilters[i]) =>
            \/ Source!Overridden(i)
            \/ \E s \in ToSet(trace) : Holds(s, Form(call.backend, AllFilters[i]))

Sourced(q) == \E trace \in ToSet(store) : Source!PartOf(q, trace) /\ Fulfils(trace)

\* The filters that the backend applies itself, and those that may get lost, are
\* all but those that the service applies.
Decides(left) ==
    \A i \in DOMAIN AllFilters :
        \/ AllFilters[i] \in ToSet(left)
        \/ Served(AllFilters[i]) /\ ~(call.op = "search_traces" /\ call.backend \in Verifying)
        \/ call.op = "search_spans" /\ ~Expressible(AllFilters[i])

LEMMA ItemWanted ==
    ASSUME NEW item, Sourced(item.spans), NEW left, Decides(left), MatchesAll(item, left)
    PROVE  /\ call.op = "search_traces" => Source!TraceWanted(item)
           /\ call.op = "search_spans" => Source!SpanWanted(item)
  <1>1. PICK trace \in ToSet(store) : Source!PartOf(item.spans, trace) /\ Fulfils(trace)
    BY DEF Sourced
  <1>2. \A f \in ToSet(left) : Matches(item, f)
    BY DEF MatchesAll, ToSet
  <1>3. ASSUME NEW i \in DOMAIN AllFilters
        PROVE  \/ Matches(item, AllFilters[i])
               \/ /\ Source!Overridden(i) \/ Source!Heeded(AllFilters[i], item, trace)
                  /\ ~(call.op = "search_traces" /\ call.backend \in Verifying)
               \/ call.op = "search_spans" /\ ~Expressible(AllFilters[i])
    <2>1. CASE AllFilters[i] \in ToSet(left)
      BY <1>2, <2>1
    <2>2. CASE Served(AllFilters[i]) /\ ~(call.op = "search_traces" /\ call.backend \in Verifying)
      <3>1. \/ Source!Overridden(i)
            \/ \E s \in ToSet(trace) : Holds(s, Form(call.backend, AllFilters[i]))
        BY <1>1, <2>2 DEF Fulfils
      <3>2. Source!Overridden(i) \/ Source!Heeded(AllFilters[i], item, trace)
        BY <3>1, SameTests, SameMembers, Zenon DEF Source!Heeded
      <3> QED
        BY <2>2, <3>2
    <2>3. CASE call.op = "search_spans" /\ ~Expressible(AllFilters[i])
      BY <2>3
    <2> QED
      BY <2>1, <2>2, <2>3 DEF Decides
  <1>4. \A i \in DOMAIN AllFilters :
           Matches(item, AllFilters[i]) => Source!Heeded(AllFilters[i], item, trace)
    BY SameTests, Zenon DEF Source!Heeded
  <1>5. trace \in Source!ToSet(store)
    BY SameMembers
  <1>6. ASSUME call.op = "search_traces"
        PROVE  Source!TraceWanted(item)
    <2>1. \A i \in DOMAIN AllFilters :
             IF call.backend \in Verifying THEN Source!Matches(item, AllFilters[i])
             ELSE Source!Overridden(i) \/ Source!Heeded(AllFilters[i], item, trace)
      BY <1>3, <1>4, <1>6, SameTests
    <2> QED
      BY <1>1, <1>5, <2>1, SameFilters, Zenon DEF Source!TraceWanted
  <1>7. ASSUME call.op = "search_spans"
        PROVE  Source!SpanWanted(item)
    <2>1. \A i \in DOMAIN AllFilters :
             Source!Expressible(AllFilters[i]) =>
                 Source!Overridden(i) \/ Source!Heeded(AllFilters[i], item, trace)
      BY <1>3, <1>4, <1>7, SameFilters
    <2> QED
      BY <1>1, <1>5, <2>1, SameFilters, Zenon DEF Source!SpanWanted
  <1> QED
    BY <1>6, <1>7

LEMMA ItemsPromised ==
    ASSUME KnownCall, IsSearch,
           NEW items, Source!NoneTwice(items), \A i \in DOMAIN items : Sourced(items[i].spans),
           NEW left, Decides(left),
           NEW v, Picks(v, items), Len(v) <= Limit, \A i \in DOMAIN v : MatchesAll(v[i], left)
    PROVE  Source!Promised(v)
  <1>1. Source!NoneTwice(v) /\ ToSet(v) \subseteq ToSet(items)
    BY PicksKeep
  <1>2. \A i \in DOMAIN v : Sourced(v[i].spans)
    BY <1>1 DEF ToSet
  <1>3. \A i \in DOMAIN v : /\ call.op = "search_traces" => Source!TraceWanted(v[i])
                            /\ call.op = "search_spans" => Source!SpanWanted(v[i])
    BY <1>2, ItemWanted
  <1>4. Len(v) <= Source!MostItems
    BY MostItemsIs
  <1> QED
    BY <1>1, <1>3, <1>4 DEF Source!Promised, IsSearch

\* The items that pass the filters left: all of them, or the first.
LEMMA FilteredPromised ==
    ASSUME KnownCall, IsSearch, NEW items, IsSeq(items), Source!NoneTwice(items),
           \A i \in DOMAIN items : Sourced(items[i].spans), NEW left, Decides(left)
    PROVE  /\ Source!Promised(First(Filtered(items, left), Limit))
           /\ Len(items) <= Limit => Source!Promised(Filtered(items, left))
  <1>1. PICK kept : kept = Filtered(items, left)
    OBVIOUS
  <1>2. PICK X : X = {item \in ToSet(items) : MatchesAll(item, left)}
    OBVIOUS
  <1>3. kept = Among(items, X)
    BY <1>1, <1>2, Zenon DEF Filtered
  <1>4. Picks(kept, items) /\ ToSet(kept) = ToSet(items) \cap X
    BY <1>3, AmongPicks
  <1>5. IsSeq(kept) /\ Len(kept) <= Len(items) /\ \A item \in ToSet(kept) : MatchesAll(item, left)
    BY <1>2, <1>4 DEF Picks
  <1>6. Limit \in Nat
    BY MostItemsIs
  <1>7. PICK v : v = First(kept, Limit)
    OBVIOUS
  <1>8. Picks(v, kept) /\ Len(v) <= Limit
    BY <1>5, <1>6, <1>7, FirstPicks, FirstIs DEF IsSeq
  <1>9. Picks(v, items) /\ ToSet(v) \subseteq ToSet(kept)
    BY <1>4, <1>8, PicksTwice, PicksKeep
  <1>10. Source!Promised(v)
    <2>1. \A i \in DOMAIN v : MatchesAll(v[i], left)
      BY <1>5, <1>9 DEF ToSet
    <2> QED
      BY <1>8, <1>9, <2>1, ItemsPromised
  <1>11. Len(items) <= Limit => Source!Promised(kept)
    <2>1. \A i \in DOMAIN kept : MatchesAll(kept[i], left)
      BY <1>5 DEF ToSet
    <2>2. Len(items) <= Limit => Len(kept) <= Limit
      BY <1>5, <1>6 DEF IsSeq
    <2> QED
      BY <1>4, <2>1, <2>2, ItemsPromised
  <1> QED
    BY <1>1, <1>7, <1>10, <1>11

\* Spans that come from traces that the service offers are items of a search for
\* spans.
LEMMA SpansSourced ==
    ASSUME KnownCall, NEW q, Copies(q, ToSet(Spans)),
           \A r \in ToSet(q) : \E trace \in ToSet(store) :
               Fulfils(trace) /\ \E s \in ToSet(trace) : s.trace = r.trace
    PROVE  /\ IsSeq(AsSpans(q)) /\ Source!NoneTwice(AsSpans(q))
           /\ \A i \in DOMAIN AsSpans(q) : Sourced(AsSpans(q)[i].spans)
  <1>1. IsSeq(q) /\ Source!Once(q)
    BY DEF Copies
  <1>2. /\ IsSeq(AsSpans(q)) /\ Source!NoneTwice(AsSpans(q)) /\ DOMAIN AsSpans(q) = DOMAIN q
        /\ \A i \in DOMAIN q : AsSpans(q)[i] = OfSpan(q[i])
    BY <1>1, AsSpansAre
  <1>3. ASSUME NEW i \in DOMAIN q
        PROVE  Sourced(<<q[i]>>)
    <2>1. PICK t : t = <<q[i]>>
      OBVIOUS
    <2>2. IsSeq(t) /\ DOMAIN t = {1} /\ t[1] = q[i] /\ t # <<>>
      <3>1. t \in Seq({q[i]})
        BY <2>1
      <3>2. Len(t) = 1 /\ DOMAIN t = {1} /\ t[1] = q[i]
        BY <2>1
      <3>3. Len(<<>>) = 0
        OBVIOUS
      <3> QED
        BY <3>1, <3>2, <3>3 DEF IsSeq
    <2>3. q[i] \in ToSet(q)
      BY DEF ToSet
    <2>4. Piece(t, q[i].trace, ToSet(Spans))
      BY <2>2, <2>3 DEF Piece, Copies, Source!Once, ToSet
    <2>5. PICK trace \in ToSet(store) :
             Fulfils(trace) /\ \E s \in ToSet(trace) : s.trace = q[i].trace
      BY <2>3
    <2>6. Source!PartOf(t, trace)
      BY <2>2, <2>4, <2>5, PieceIsPart
    <2> QED
      BY <2>1, <2>5, <2>6 DEF Sourced
  <1>4. \A i \in DOMAIN q : OfSpan(q[i]).spans = <<q[i]>>
    BY DEF OfSpan
  <1> QED
    BY <1>2, <1>3, <1>4

\* Pieces of traces that the service offers are items of a search for traces.
LEMMA PieceSourced ==
    ASSUME KnownCall, NEW q, NEW id, Piece(q, id, ToSet(Spans)), q # <<>>,
           \E trace \in ToSet(store) : Fulfils(trace) /\ \E s \in ToSet(trace) : s.trace = id
    PROVE  Sourced(q)
  BY PieceIsPart DEF Sourced

\* A span of the service has its trace there.
LEMMA TraceIsThere ==
    ASSUME KnownCall, NEW r \in ToSet(Spans)
    PROVE  \E trace \in ToSet(store) : \E s \in ToSet(trace) : s.trace = r.trace
  BY SpansAre

\* Where the service applies nothing that counts, every trace will do.
LEMMA NothingServed ==
    ASSUME NEW trace, \A i \in DOMAIN AllFilters : ~Served(AllFilters[i])
    PROVE  Fulfils(trace)
  BY DEF Fulfils

\* Items made of pieces of different traces have no span in common.
LEMMA PiecesApart ==
    ASSUME NEW items, NEW X,
           \A i \in DOMAIN items : \E id : Piece(items[i].spans, id, X) /\ items[i].spans # <<>>,
           \A i, j \in DOMAIN items : \A id :
               Piece(items[i].spans, id, X) /\ Piece(items[j].spans, id, X) => i = j
    PROVE  Source!NoneTwice(items)
  <1> SUFFICES ASSUME NEW i \in DOMAIN items, NEW j \in DOMAIN items,
                      NEW a \in DOMAIN items[i].spans, NEW b \in DOMAIN items[j].spans,
                      Source!Same(items[i].spans[a], items[j].spans[b])
               PROVE  i = j /\ a = b
    BY DEF Source!NoneTwice
  <1>1. PICK id : Piece(items[i].spans, id, X)
    OBVIOUS
  <1>2. PICK jd : Piece(items[j].spans, jd, X)
    OBVIOUS
  <1>3. items[i].spans[a].trace = id /\ items[j].spans[b].trace = jd
    BY <1>1, <1>2 DEF Piece, ToSet
  <1>4. id = jd
    BY <1>3 DEF Source!Same
  <1>5. i = j
    BY <1>1, <1>2, <1>4
  <1>6. a = b
    BY <1>1, <1>5 DEF Piece, Copies, Source!Once
  <1> QED
    BY <1>5, <1>6

-----------------------------------------------------------------------------
(* What the parsers make of spans: copies of them.                         *)

LEMMA CopiesShaped ==
    ASSUME NEW q, NEW X, Copies(q, X)
    PROVE  IsSeq(q) /\ \A i \in DOMAIN q : Shaped(q[i])
  BY DEF Copies, Like, ToSet

LEMMA CopiesMap ==
    ASSUME NEW q, NEW t, NEW X, Copies(q, X), t = [i \in DOMAIN q |-> t[i]],
           \A i \in DOMAIN q : Like(t[i], q[i])
    PROVE  /\ Copies(t, X) /\ Len(t) = Len(q)
           /\ \A id : Piece(q, id, X) => Piece(t, id, X)
  BY CopiesShaped, MapIsSeq, PieceMap

LEMMA CopiesWider ==
    ASSUME NEW q, NEW X, NEW Y, X \subseteq Y, Copies(q, X)
    PROVE  Copies(q, Y)
  BY DEF Copies

LEMMA SoundCopies ==
    ASSUME NEW q, NEW X, Copies(q, X)
    PROVE  /\ Copies(Sound(q), X) /\ ToSet(Sound(q)) \subseteq ToSet(q)
           /\ Len(Sound(q)) <= Len(q)
           /\ \A id : Piece(q, id, X) => Piece(Sound(q), id, X)
  <1>1. PICK Y : Y = {s \in ToSet(q) : s.sound}
    OBVIOUS
  <1>2. Sound(q) = Among(q, Y)
    BY <1>1, Zenon DEF Sound
  <1>3. Picks(Among(q, Y), q)
    BY AmongPicks DEF Copies
  <1> QED
    BY <1>2, <1>3, PieceAmong, PicksKeep

LEMMA DatadogCopies ==
    ASSUME NEW q, NEW X, Copies(q, X)
    PROVE  /\ Copies(DatadogParsed(q), X) /\ Len(DatadogParsed(q)) <= Len(q)
           /\ \A id : Piece(q, id, X) => Piece(DatadogParsed(q), id, X)
  <1>1. PICK p : p = Sound(q)
    OBVIOUS
  <1>2. Copies(p, X) /\ Len(p) <= Len(q) /\ \A id : Piece(q, id, X) => Piece(p, id, X)
    BY <1>1, SoundCopies
  <1>3. PICK t : t = [i \in DOMAIN p |-> [p[i] EXCEPT !.status = DatadogStatus(p[i])]]
    OBVIOUS
  <1>4. DatadogParsed(q) = t
    BY <1>1, <1>3, Zenon DEF DatadogParsed
  <1>5. t = [i \in DOMAIN p |-> t[i]]
    BY <1>3
  <1>6. ASSUME NEW i \in DOMAIN p
        PROVE  Like(t[i], p[i])
    <2>1. Shaped(p[i])
      BY <1>2, CopiesShaped
    <2>2. t[i] = [p[i] EXCEPT !.status = DatadogStatus(p[i])]
      BY <1>3
    <2> QED
      BY <2>1, <2>2, LikeUpdated
  <1>7. Copies(t, X) /\ Len(t) = Len(p) /\ \A id : Piece(p, id, X) => Piece(t, id, X)
    BY <1>2, <1>5, <1>6, CopiesMap
  <1> QED
    BY <1>2, <1>4, <1>7

LEMMA TraceloopCopies ==
    ASSUME NEW q, NEW X, Copies(q, X)
    PROVE  /\ Copies(TraceloopParsed(q), X) /\ Len(TraceloopParsed(q)) <= Len(q)
           /\ \A id : Piece(q, id, X) => Piece(TraceloopParsed(q), id, X)
  <1>1. PICK p : p = Sound(q)
    OBVIOUS
  <1>2. Copies(p, X) /\ Len(p) <= Len(q) /\ \A id : Piece(q, id, X) => Piece(p, id, X)
    BY <1>1, SoundCopies
  <1>3. PICK t : t = [i \in DOMAIN p |-> [p[i] EXCEPT !.attributes = TraceloopModern(@)]]
    OBVIOUS
  <1>4. TraceloopParsed(q) = t
    BY <1>1, <1>3, Zenon DEF TraceloopParsed
  <1>5. t = [i \in DOMAIN p |-> t[i]]
    BY <1>3
  <1>6. ASSUME NEW i \in DOMAIN p
        PROVE  Like(t[i], p[i])
    <2>1. Shaped(p[i])
      BY <1>2, CopiesShaped
    <2>2. t[i] = [p[i] EXCEPT !.attributes = TraceloopModern(p[i].attributes)]
      BY <1>3
    <2> QED
      BY <2>1, <2>2, LikeUpdated
  <1>7. Copies(t, X) /\ Len(t) = Len(p) /\ \A id : Piece(p, id, X) => Piece(t, id, X)
    BY <1>2, <1>5, <1>6, CopiesMap
  <1> QED
    BY <1>2, <1>4, <1>7

LEMMA NewRelicCopies ==
    ASSUME NEW q, NEW X, Copies(q, X)
    PROVE  /\ Copies(NewRelicLookedUp(q), X) /\ Len(NewRelicLookedUp(q)) <= Len(q)
           /\ \A id : Piece(q, id, X) => Piece(NewRelicLookedUp(q), id, X)
  <1>1. PICK p : p = Sound(q)
    OBVIOUS
  <1>2. Copies(p, X) /\ Len(p) <= Len(q) /\ \A id : Piece(q, id, X) => Piece(p, id, X)
    BY <1>1, SoundCopies
  <1>3. PICK t : t = [i \in DOMAIN p |->
                    IF p[i].thin THEN [p[i] EXCEPT !.attributes = Bare, !.status = <<"UNSET">>]
                    ELSE p[i]]
    OBVIOUS
  <1>4. NewRelicLookedUp(q) = t
    BY <1>1, <1>3, Zenon DEF NewRelicLookedUp, NewRelicParsed
  <1>5. t = [i \in DOMAIN p |-> t[i]]
    BY <1>3
  <1>6. ASSUME NEW i \in DOMAIN p
        PROVE  Like(t[i], p[i])
    <2>1. Shaped(p[i])
      BY <1>2, CopiesShaped
    <2>2. PICK s : s = p[i]
      OBVIOUS
    <2>3. PICK unset : unset = <<"UNSET">>
      OBVIOUS
    <2>4. t[i] = [s EXCEPT !.attributes = Bare, !.status = unset] \/ t[i] = s
      BY <1>3, <2>2, <2>3
    <2>5. Like(s, s) /\ Like([s EXCEPT !.attributes = Bare, !.status = unset], s)
      BY <2>1, <2>2, LikeItself, LikeUpdated
    <2> QED
      BY <2>2, <2>4, <2>5
  <1>7. Copies(t, X) /\ Len(t) = Len(p) /\ \A id : Piece(p, id, X) => Piece(t, id, X)
    BY <1>2, <1>5, <1>6, CopiesMap
  <1> QED
    BY <1>2, <1>4, <1>7

LEMMA EnrichedCopies ==
    ASSUME NEW q, NEW X, Copies(q, X), NEW rows
    PROVE  /\ Copies(Enriched(q, rows), X) /\ Len(Enriched(q, rows)) = Len(q)
           /\ \A id : Piece(q, id, X) => Piece(Enriched(q, rows), id, X)
  <1>1. PICK t : t = Enriched(q, rows)
    OBVIOUS
  <1>2. t = [i \in DOMAIN q |-> t[i]]
    BY <1>1 DEF Enriched
  <1>3. ASSUME NEW i \in DOMAIN q
        PROVE  Like(t[i], q[i])
    <2>1. PICK r : r = Among(rows, {row \in ToSet(rows) : row.id = q[i].id})
      OBVIOUS
    <2>2. PICK s : s = q[i]
      OBVIOUS
    <2>3. PICK a : a = Last(r).attributes
      OBVIOUS
    <2>4. PICK b : b = Last(r).status
      OBVIOUS
    <2>5. t[i] = s \/ t[i] = [s EXCEPT !.attributes = a, !.status = b]
      BY <1>1, <2>1, <2>2, <2>3, <2>4 DEF Enriched
    <2>6. Shaped(s)
      BY <2>2, CopiesShaped
    <2>7. Like(s, s) /\ Like([s EXCEPT !.attributes = a, !.status = b], s)
      BY <2>6, LikeItself, LikeUpdated
    <2> QED
      BY <2>2, <2>5, <2>7
  <1> QED
    BY <1>1, <1>2, <1>3, CopiesMap

\* Nested items of one trace.
LEMMA UnstackedCopies ==
    ASSUME NEW q, NEW X, NEW id, Piece(q, id, X), NEW nested
    PROVE  Piece(Unstacked(q, nested), id, X)
  <1>1. IsSeq(q) /\ Source!Once(q) /\ OneTrace(q)
    BY DEF Piece, Copies, OneTrace
  <1>2. /\ IsSeq(Unstacked(q, nested)) /\ Source!Once(Unstacked(q, nested))
        /\ ToSet(Unstacked(q, nested)) \subseteq ToSet(q)
    BY <1>1, UnstackedIs
  <1> QED
    BY <1>2 DEF Piece, Copies

LEMMA SentryCopies ==
    ASSUME NEW q, NEW X, NEW id, Piece(q, id, X)
    PROVE  Piece(SentryParsedItems(q), id, X)
  <1>1. PICK nested : nested = {s \in ToSet(q) : \E t \in ToSet(q) : s.parent = {t.id}}
    OBVIOUS
  <1>2. PICK p : p = Sound(Unstacked(q, nested))
    OBVIOUS
  <1>3. Piece(p, id, X)
    BY <1>2, UnstackedCopies, SoundCopies DEF Piece
  <1>4. PICK t : t = [i \in DOMAIN p |->
                    [p[i] EXCEPT !.status = SentryItemStatus(p[i]),
                                 !.attributes = IF p[i].thin THEN Bare ELSE @]]
    OBVIOUS
  <1>5. SentryParsedItems(q) = t
    BY <1>1, <1>2, <1>4, Zenon DEF SentryParsedItems
  <1>6. t = [i \in DOMAIN p |-> t[i]]
    BY <1>4
  <1>7. ASSUME NEW i \in DOMAIN p
        PROVE  Like(t[i], p[i])
    <2>1. Shaped(p[i])
      BY <1>3, CopiesShaped DEF Piece
    <2>2. PICK s : s = p[i]
      OBVIOUS
    <2>3. PICK a : a = IF s.thin THEN Bare ELSE s.attributes
      OBVIOUS
    <2>4. PICK b : b = SentryItemStatus(s)
      OBVIOUS
    <2>5. t[i] = [s EXCEPT !.status = b, !.attributes = a]
      BY <1>4, <2>2, <2>3, <2>4
    <2>6. Like([s EXCEPT !.status = b, !.attributes = a], s)
      BY <2>1, <2>2, LikeUpdated
    <2> QED
      BY <2>2, <2>5, <2>6
  <1>8. Copies(p, X)
    BY <1>3 DEF Piece
  <1>9. Piece(p, id, X) => Piece(t, id, X)
    BY <1>6, <1>7, <1>8, CopiesMap
  <1> QED
    BY <1>3, <1>5, <1>9

LEMMA XRayCopies ==
    ASSUME NEW q, NEW X, NEW id, Piece(q, id, X)
    PROVE  Piece(XRayParsed(q), id, X)
  <1>1. PICK nested : nested = {s \in ToSet(q) : s.thin}
    OBVIOUS
  <1>2. PICK p : p = Sound(Unstacked(q, nested))
    OBVIOUS
  <1>3. Piece(p, id, X)
    BY <1>2, UnstackedCopies, SoundCopies DEF Piece
  <1>4. PICK t : t = [i \in DOMAIN p |->
                    IF p[i].thin THEN [p[i] EXCEPT !.parent = {}] ELSE p[i]]
    OBVIOUS
  <1>5. XRayParsed(q) = t
    BY <1>1, <1>2, <1>4, Zenon DEF XRayParsed
  <1>6. t = [i \in DOMAIN p |-> t[i]]
    BY <1>4
  <1>7. ASSUME NEW i \in DOMAIN p
        PROVE  Like(t[i], p[i])
    <2>1. Shaped(p[i])
      BY <1>3, CopiesShaped DEF Piece
    <2>2. t[i] = p[i] \/ t[i] = [p[i] EXCEPT !.parent = {}]
      BY <1>4
    <2> QED
      BY <2>1, <2>2, LikeItself, LikeUpdated
  <1>8. Copies(p, X)
    BY <1>3 DEF Piece
  <1>9. Piece(p, id, X) => Piece(t, id, X)
    BY <1>6, <1>7, <1>8, CopiesMap
  <1> QED
    BY <1>3, <1>5, <1>9

\* The spans of an item made of the spans of a trace.
LEMMA GroupedSpans ==
    ASSUME NEW q
    PROVE  Grouped(q).spans = q /\ GroupedOk(q).spans = q
  <1>1. Grouped(q).spans = q
    BY DEF Grouped
  <1>2. PICK g : g = Grouped(q)
    OBVIOUS
  <1>3. GroupedOk(q).spans = g.spans
    BY <1>2 DEF GroupedOk
  <1> QED
    BY <1>1, <1>2, <1>3

-----------------------------------------------------------------------------
(* The rows of a search, and of the lists.                                 *)

TraceOnce(q) == \A i, j \in DOMAIN q : q[i].trace = q[j].trace => i = j

\* The traces that the service offers.
Offered(id) == \E trace \in ToSet(store) : Fulfils(trace) /\ \E s \in ToSet(trace) : s.trace = id

Rows(q) ==
    /\ IsSeq(q) /\ ToSet(q) \subseteq ToSet(Spans)
    /\ IsSearch => Source!Once(q) /\ \A r \in ToSet(q) : Offered(r.trace)
    /\ IsSearch /\ call.backend \in {"tempo", "jaeger"} => TraceOnce(q)
    /\ call.op = "operations" /\ call.backend \in {"datadog", "sentry"} =>
        \A r \in ToSet(q) : r.service = call.subject
    /\ call.op = "get_trace" /\ call.backend = "datadog" =>
        Source!Once(q) /\ \A r \in ToSet(q) : r.trace = call.subject

LEMMA TraceOncePicks ==
    ASSUME NEW q, NEW t, Picks(t, q), TraceOnce(q)
    PROVE  TraceOnce(t)
  BY DEF Picks, TraceOnce

LEMMA RowsPicks ==
    ASSUME NEW q, NEW t, Picks(t, q), Rows(q)
    PROVE  Rows(t)
  BY PicksKeep, TraceOncePicks DEF Rows

LEMMA RowsFirst ==
    ASSUME NEW q, Rows(q), NEW n \in Nat
    PROVE  Rows(First(q, n)) /\ Len(First(q, n)) <= n
  <1>1. IsSeq(q) /\ Len(q) \in Nat
    BY DEF Rows, IsSeq
  <1> QED
    BY <1>1, FirstPicks, FirstIs, RowsPicks

LEMMA RowsNone == Rows(<<>>)
  <1>1. IsSeq(<<>>) /\ DOMAIN <<>> = {}
    <2>1. <<>> \in Seq({})
      OBVIOUS
    <2> QED
      BY <2>1 DEF IsSeq
  <1> QED
    BY <1>1 DEF Rows, TraceOnce, ToSet, Source!Once

\* Spans picked from those of the service.
LEMMA PickedSpans ==
    ASSUME KnownCall, NEW X
    PROVE  LET q == Among(Spans, X)
           IN  /\ IsSeq(q) /\ Source!Once(q) /\ ToSet(q) = ToSet(Spans) \cap X
  BY SpansAre, AmongPicks, PicksKeep

\* What the filters that a service applies leave.
LEMMA FiltersLeft ==
    ASSUME KnownCall, ValidQuery, filters = AllFilters, NEW X
    PROVE  \A i \in DOMAIN AllFilters :
               AllFilters[i] \in X => AllFilters[i] \in ToSet(Among(filters, X))
  <1>1. IsSeq(filters)
    BY GoodsAllFilters DEF Goods, IsSeq
  <1>2. ToSet(Among(filters, X)) = ToSet(filters) \cap X
    BY <1>1, AmongPicks
  <1> QED
    BY <1>2 DEF ToSet

LEMMA FilterIsThere ==
    ASSUME filters = AllFilters
    PROVE  \A i \in DOMAIN AllFilters : AllFilters[i] \in ToSet(filters)
  BY DEF ToSet

\* A span that satisfies what can be expressed.
LEMMA ExpressedServed ==
    ASSUME KnownCall, ValidQuery, filters = AllFilters,
           call.backend \in {"newrelic", "sentry"},
           NEW query,
           query = Among(filters, {f \in ToSet(filters) : f.operator \in CommonOperators /\ Expressible(f)}),
           NEW trace, NEW s \in ToSet(trace), \A f \in ToSet(query) : Holds(s, f)
    PROVE  Fulfils(trace)
  <1> SUFFICES ASSUME NEW i \in DOMAIN AllFilters, Served(AllFilters[i])
               PROVE  Holds(s, Form(call.backend, AllFilters[i]))
    BY DEF Fulfils
  <1>1. PICK f : f = AllFilters[i]
    OBVIOUS
  <1>2. f.operator \in CommonOperators /\ Expressible(f)
    BY <1>1 DEF Served
  <1>3. PICK X : X = {g \in ToSet(filters) : g.operator \in CommonOperators /\ Expressible(g)}
    OBVIOUS
  <1>4. f \in X
    BY <1>1, <1>2, <1>3, FilterIsThere
  <1>5. f \in ToSet(query)
    BY <1>1, <1>3, <1>4, FiltersLeft
  <1>6. Form(call.backend, f) = f
    BY DEF Form
  <1> QED
    BY <1>1, <1>5, <1>6

\* What Datadog is asked for.
LEMMA DatadogAskedServed ==
    ASSUME KnownCall, ValidQuery, filters = AllFilters, call.backend = "datadog",
           NEW trace, NEW s \in ToSet(trace), \A f \in ToSet(DatadogQuery) : Holds(s, f)
    PROVE  Fulfils(trace)
  <1> SUFFICES ASSUME NEW i \in DOMAIN AllFilters, Served(AllFilters[i])
               PROVE  Holds(s, Form(call.backend, AllFilters[i]))
    BY DEF Fulfils
  <1>1. PICK f : f = AllFilters[i]
    OBVIOUS
  <1>2. DatadogSupported(f) /\ Expressible(f)
    BY <1>1 DEF Served, DatadogSupported
  <1>3. PICK X : X = {g \in ToSet(filters) : DatadogSupported(g) /\ Expressible(g)}
    OBVIOUS
  <1>4. f \in X
    BY <1>1, <1>2, <1>3, FilterIsThere
  <1>5. PICK native : native = Among(filters, X)
    OBVIOUS
  <1>6. f \in ToSet(native)
    BY <1>1, <1>4, <1>5, FiltersLeft
  <1>7. DatadogQuery = [k \in DOMAIN native |-> DatadogAsked(native[k])]
    BY <1>3, <1>5, Zenon DEF DatadogQuery
  <1>8. DatadogAsked(f) \in ToSet(DatadogQuery)
    BY <1>6, <1>7 DEF ToSet
  <1>9. Form(call.backend, f) = DatadogAsked(f)
    BY DEF Form
  <1> QED
    BY <1>1, <1>8, <1>9

\* The spans that satisfy a query.
LEMMA SpansWithRows ==
    ASSUME KnownCall, IsSearch, call.backend \notin {"tempo", "jaeger"}, NEW query,
           \A trace : \A s \in ToSet(trace) :
               (\A f \in ToSet(query) : Holds(s, f)) => Fulfils(trace)
    PROVE  Rows(SpansWith(query))
  <1>1. PICK X : X = {s \in ToSet(Spans) : \A f \in ToSet(query) : Holds(s, f)}
    OBVIOUS
  <1>2. PICK q : q = SpansWith(query)
    OBVIOUS
  <1>3. IsSeq(q) /\ Source!Once(q) /\ ToSet(q) = ToSet(Spans) \cap X
    BY <1>1, <1>2, PickedSpans DEF SpansWith
  <1>4. ASSUME NEW r \in ToSet(q)
        PROVE  Offered(r.trace)
    <2>1. r \in ToSet(Spans) /\ \A f \in ToSet(query) : Holds(r, f)
      BY <1>1, <1>3
    <2>2. PICK trace \in ToSet(store) : r \in ToSet(trace)
      BY <2>1, SpansAre
    <2> QED
      BY <2>1, <2>2 DEF Offered
  <1>5. call.op \notin {"operations", "get_trace"}
    BY DEF IsSearch
  <1> QED
    BY <1>2, <1>3, <1>4, <1>5 DEF Rows

LEMMA SpansOfRows ==
    ASSUME KnownCall, ~IsSearch
    PROVE  /\ call.op # "get_trace" => Rows(SpansOf(call.subject))
           /\ Rows(OfTrace(Spans, call.subject)) \/ call.op = "operations"
           /\ call.op \notin {"operations", "get_trace"} => Rows(Spans)
  <1>1. /\ ToSet(SpansOf(call.subject))
           = ToSet(Spans) \cap {s \in ToSet(Spans) : s.service = call.subject}
        /\ IsSeq(SpansOf(call.subject))
    BY PickedSpans DEF SpansOf
  <1>2. /\ IsSeq(OfTrace(Spans, call.subject)) /\ Source!Once(OfTrace(Spans, call.subject))
        /\ ToSet(OfTrace(Spans, call.subject))
           = ToSet(Spans) \cap {s \in ToSet(Spans) : s.trace = call.subject}
    BY PickedSpans DEF OfTrace
  <1>3. IsSeq(Spans)
    BY SpansAre
  <1> QED
    BY <1>1, <1>2, <1>3 DEF Rows

LEMMA DatadogRows ==
    ASSUME KnownCall, call.backend = "datadog", IsSearch => ValidQuery /\ filters = AllFilters
    PROVE  Rows(DatadogHits)
  <1>1. CASE IsSearch
    <2>1. Rows(SpansWith(DatadogQuery))
      BY <1>1, DatadogAskedServed, SpansWithRows
    <2> QED
      BY <1>1, <2>1 DEF DatadogHits, IsSearch
  <1>2. CASE ~IsSearch
    BY <1>2, SpansOfRows DEF DatadogHits, IsSearch
  <1> QED
    BY <1>1, <1>2

LEMMA NewRelicRows ==
    ASSUME KnownCall, call.backend = "newrelic", IsSearch, ValidQuery, filters = AllFilters
    PROVE  Rows(NewRelicHits)
  <1>1. PICK query : query = NewRelicQuery
    OBVIOUS
  <1>2. query = Among(filters, {f \in ToSet(filters) : f.operator \in CommonOperators /\ Expressible(f)})
    BY <1>1, Zenon DEF NewRelicQuery, NewRelicSupported
  <1>3. Rows(SpansWith(query))
    BY <1>2, ExpressedServed, SpansWithRows
  <1> QED
    BY <1>1, <1>3 DEF NewRelicHits

LEMMA OnePerPicks ==
    ASSUME NEW q, IsSeq(q), NEW field
    PROVE  Picks(SentryOnePer(q, field), q)
  <1>1. PICK P : P = {i \in DOMAIN q : \A j \in 1 .. i - 1 : q[j][field] # q[i][field]}
    OBVIOUS
  <1>2. SentryOnePer(q, field) = At(q, P)
    BY <1>1, Zenon DEF SentryOnePer
  <1>3. Lists(At(q, P), DOMAIN q \cap P, q) /\ Len(At(q, P)) <= Len(q)
    BY AtLists
  <1> QED
    BY <1>2, <1>3, ListsPicks

LEMMA SentryRows ==
    ASSUME KnownCall, call.backend = "sentry",
           IsSearch => ValidQuery /\ filters = AllFilters
    PROVE  Rows(SentryHits)
  <1>1. CASE IsSearch
    <2>1. PICK query : query = SentryQuery
      OBVIOUS
    <2>2. query = Among(filters, {f \in ToSet(filters) : f.operator \in CommonOperators /\ Expressible(f)})
      BY <2>1, Zenon DEF SentryQuery, SentrySupported
    <2>3. Rows(SpansWith(query))
      BY <1>1, <2>2, ExpressedServed, SpansWithRows
    <2>4. SentryHits = SpansWith(query)
      BY <1>1, <2>1 DEF SentryHits, IsSearch
    <2> QED
      BY <2>3, <2>4
  <1>2. CASE ~IsSearch
    <2>1. Rows(SpansOf(call.subject))
      <3>1. CASE call.op = "get_trace"
        BY <1>2, <3>1, PickedSpans DEF SpansOf, Rows
      <3> QED
        BY <1>2, <3>1, SpansOfRows
    <2>2. Rows(SentryOnePer(SpansOf(call.subject), "operation"))
      BY <2>1, OnePerPicks, RowsPicks DEF Rows
    <2>3. call.op = "list_services" => Rows(SentryOnePer(Spans, "service"))
      BY <1>2, SpansOfRows, OnePerPicks, RowsPicks DEF Rows
    <2> QED
      BY <1>2, <2>1, <2>2, <2>3 DEF SentryHits, IsSearch
  <1> QED
    BY <1>1, <1>2

-----------------------------------------------------------------------------
(* Rows that stand for traces.                                             *)

LEMMA RootIs ==
    ASSUME NEW trace, IsSeq(trace), trace # <<>>
    PROVE  Root(trace) \in ToSet(trace)
  <1>1. PICK q : q = Parentless(trace)
    OBVIOUS
  <1>2. IsSeq(q) /\ ToSet(q) \subseteq ToSet(trace)
    BY <1>1, AmongPicks, PicksKeep DEF Parentless
  <1>3. \A t : IsSeq(t) /\ t # <<>> => t[1] \in ToSet(t)
    <2> TAKE t
    <2>1. IsSeq(t) /\ t # <<>> => 1 \in DOMAIN t
      BY DEF IsSeq
    <2> QED
      BY <2>1 DEF ToSet
  <1>4. Root(trace) = IF q = <<>> THEN trace[1] ELSE q[1]
    BY <1>1 DEF Root
  <1> QED
    BY <1>2, <1>3, <1>4

\* Roots of traces of the store.
LEMMA RootsAre ==
    ASSUME KnownCall, NEW ts, Picks(ts, store)
    PROVE  /\ IsSeq(Roots(ts)) /\ TraceOnce(Roots(ts)) /\ Source!Once(Roots(ts))
           /\ ToSet(Roots(ts)) \subseteq ToSet(Spans)
           /\ \A r \in ToSet(Roots(ts)) : \E trace \in ToSet(ts) : r \in ToSet(trace)
           /\ ToSet(ts) \subseteq ToSet(store)
  <1>1. PICK o \in [DOMAIN ts -> DOMAIN store] :
           /\ \A k \in DOMAIN ts : ts[k] = store[o[k]]
           /\ \A j, k \in DOMAIN ts : o[j] = o[k] => j = k
    BY DEF Picks
  <1>2. PICK q : q = Roots(ts)
    OBVIOUS
  <1>3. DOMAIN q = DOMAIN ts /\ \A k \in DOMAIN ts : q[k] = Root(ts[k])
    BY <1>2 DEF Roots
  <1>4. q = [k \in DOMAIN ts |-> q[k]]
    BY <1>2 DEF Roots
  <1>5. IsSeq(q)
    BY <1>4, MapIsSeq DEF Picks
  <1>6. ToSet(ts) \subseteq ToSet(store)
    BY PicksKeep
  <1>7. ASSUME NEW k \in DOMAIN ts
        PROVE  q[k] \in ToSet(ts[k]) /\ ts[k] \in ToSet(ts)
    <2>1. ts[k] \in ToSet(ts)
      BY DEF ToSet
    <2>2. IsSeq(ts[k]) /\ ts[k] # <<>>
      BY <1>6, <2>1, StoreIs
    <2> QED
      BY <1>3, <2>1, <2>2, RootIs
  <1>8. \A r \in ToSet(q) : \E trace \in ToSet(ts) : r \in ToSet(trace)
    BY <1>3, <1>7 DEF ToSet
  <1>9. ToSet(q) \subseteq ToSet(Spans)
    BY <1>6, <1>8, SpansAre
  <1>10. \A t, u \in DOMAIN store : \A i \in DOMAIN store[t], j \in DOMAIN store[u] :
            store[t][i].trace = store[u][j].trace => t = u
    BY StoreIs DEF OwnIds
  <1>11. TraceOnce(q)
    <2> SUFFICES ASSUME NEW j \in DOMAIN q, NEW k \in DOMAIN q, q[j].trace = q[k].trace
                 PROVE  j = k
      BY DEF TraceOnce
    <2>1. q[j] \in ToSet(store[o[j]]) /\ q[k] \in ToSet(store[o[k]])
      BY <1>1, <1>3, <1>7
    <2>2. o[j] \in DOMAIN store /\ o[k] \in DOMAIN store
      BY <1>1, <1>3
    <2>3. PICK a \in DOMAIN store[o[j]] : q[j] = store[o[j]][a]
      BY <2>1 DEF ToSet
    <2>4. PICK b \in DOMAIN store[o[k]] : q[k] = store[o[k]][b]
      BY <2>1 DEF ToSet
    <2>5. o[j] = o[k]
      BY <1>10, <2>2, <2>3, <2>4
    <2> QED
      BY <1>1, <1>3, <2>5
  <1>12. Source!Once(q)
    BY <1>11 DEF TraceOnce, Source!Once, Source!Same
  <1> QED
    BY <1>2, <1>5, <1>6, <1>8, <1>9, <1>11, <1>12

\* Traces picked from those of the service.
LEMMA PickedTraces ==
    ASSUME KnownCall, NEW X
    PROVE  Picks(Among(store, X), store) /\ ToSet(Among(store, X)) = ToSet(store) \cap X
  BY StoreIs, AmongPicks DEF IsSeqs

LEMMA StorePicks ==
    ASSUME KnownCall
    PROVE  Picks(store, store)
  BY StoreIs, ListsWhole, ListsPicks DEF IsSeqs, IsSeq

\* Roots of the traces that a search finds.
LEMMA RootsOffered ==
    ASSUME KnownCall, IsSearch, NEW query,
           \A trace \in ToSet(store) :
               (\E s \in ToSet(trace) : \A f \in ToSet(query) : Holds(s, f)) => Fulfils(trace)
    PROVE  Rows(Roots(TracesWith(query)))
  <1>1. PICK X : X = {trace \in ToSet(store) :
                        \E s \in ToSet(trace) : \A f \in ToSet(query) : Holds(s, f)}
    OBVIOUS
  <1>2. PICK ts : ts = TracesWith(query)
    OBVIOUS
  <1>3. ts = Among(store, X)
    BY <1>1, <1>2, Zenon DEF TracesWith
  <1>4. Picks(ts, store) /\ ToSet(ts) = ToSet(store) \cap X
    BY <1>3, PickedTraces
  <1>5. PICK q : q = Roots(ts)
    OBVIOUS
  <1>6. /\ IsSeq(q) /\ TraceOnce(q) /\ Source!Once(q) /\ ToSet(q) \subseteq ToSet(Spans)
        /\ \A r \in ToSet(q) : \E trace \in ToSet(ts) : r \in ToSet(trace)
    BY <1>4, <1>5, RootsAre
  <1>7. \A trace \in ToSet(ts) : trace \in ToSet(store) /\ Fulfils(trace)
    BY <1>1, <1>4
  <1>8. \A r \in ToSet(q) : Offered(r.trace)
    BY <1>6, <1>7 DEF Offered
  <1>9. call.op \notin {"operations", "get_trace"}
    BY DEF IsSearch
  <1> QED
    BY <1>2, <1>5, <1>6, <1>8, <1>9 DEF Rows

LEMMA TempoRows ==
    ASSUME KnownCall, call.backend = "tempo", IsSearch => ValidQuery /\ filters = AllFilters
    PROVE  Rows(TempoHits)
  <1>1. CASE IsSearch
    <2>1. PICK query : query = TempoQuery
      OBVIOUS
    <2>2. PICK X : X = {f \in ToSet(filters) : TempoNative(f)}
      OBVIOUS
    <2>3. query = Among(filters, X)
      BY <2>1, <2>2, Zenon DEF TempoQuery
    <2>4. ASSUME NEW trace \in ToSet(store), NEW s \in ToSet(trace),
                 \A f \in ToSet(query) : Holds(s, f),
                 NEW i \in DOMAIN AllFilters, Served(AllFilters[i])
          PROVE  Holds(s, Form(call.backend, AllFilters[i]))
      <3>1. PICK f : f = AllFilters[i]
        OBVIOUS
      <3>2. TempoNative(f)
        BY <2>4, <3>1 DEF Served
      <3>3. f \in X
        BY <1>1, <2>2, <3>1, <3>2, FilterIsThere
      <3>4. f \in ToSet(query)
        BY <1>1, <2>3, <3>1, <3>3, FiltersLeft
      <3>5. Form(call.backend, f) = f
        BY DEF Form
      <3> QED
        BY <2>4, <3>1, <3>4, <3>5
    <2>5. Rows(Roots(TracesWith(query)))
      BY <1>1, <2>4, RootsOffered DEF Fulfils
    <2>6. call.op # "operations"
      BY <1>1 DEF IsSearch
    <2> QED
      BY <1>1, <2>1, <2>5, <2>6 DEF TempoHits
  <1>2. CASE ~IsSearch
    <2>1. ASSUME NEW ts, Picks(ts, store)
          PROVE  Rows(Roots(ts))
      BY <1>2, <2>1, RootsAre DEF Rows
    <2>2. Rows(Roots(TracesOf(call.subject)))
      BY <2>1, PickedTraces DEF TracesOf
    <2>3. Rows(Roots(store))
      BY <2>1, StorePicks
    <2> QED
      BY <1>2, <2>2, <2>3 DEF TempoHits
  <1> QED
    BY <1>1, <1>2

LEMMA MaxOf ==
    ASSUME NEW S \in SUBSET Nat, NEW i \in S, \A j \in S : j <= i
    PROVE  Max(S) = i
  <1>1. i \in S /\ \A j \in S : i >= j
    OBVIOUS
  <1>2. PICK m : m = Max(S)
    OBVIOUS
  <1>3. m \in S /\ \A j \in S : m >= j
    BY <1>1, <1>2, Zenon DEF Max
  <1>4. m = i
    BY <1>1, <1>3
  <1> QED
    BY <1>2, <1>4

\* Jaeger's query names the service of the last filter that names one.
LEMMA JaegerServed ==
    ASSUME KnownCall, call.backend = "jaeger", ValidQuery, filters = AllFilters,
           NEW trace, NEW s \in ToSet(trace), \A f \in ToSet(JaegerQuery) : Holds(s, f)
    PROVE  Fulfils(trace)
  <1> SUFFICES ASSUME NEW i \in DOMAIN AllFilters, Served(AllFilters[i]), ~Source!Overridden(i)
               PROVE  Holds(s, Form(call.backend, AllFilters[i]))
    BY DEF Fulfils
  <1>1. PICK q : q = AllFilters
    OBVIOUS
  <1>2. DOMAIN q \subseteq Nat
    BY <1>1, GoodsAllFilters DEF Goods
  <1>3. PICK S : S = {j \in DOMAIN q : JaegerNative(q[j])}
    OBVIOUS
  <1>4. JaegerNative(q[i]) /\ i \in DOMAIN q
    BY <1>1 DEF Served
  <1>5. ASSUME NEW j \in S
        PROVE  j <= i
    <2>1. \A f : Source!NamesService(f) <=> JaegerNative(f)
      BY DEF Source!NamesService, JaegerNative
    <2>2. call.backend \in OneService
      BY DEF OneService
    <2>3. ~(\E k \in DOMAIN q : k > i /\ JaegerNative(q[k]))
      BY <1>1, <1>4, <2>1, <2>2, SameFilters DEF Source!Overridden
    <2> QED
      BY <1>2, <1>3, <1>4, <2>3
  <1>6. Max(S) = i
    BY <1>2, <1>3, <1>4, <1>5, MaxOf
  <1>7. JaegerService = Operand(q[i]).text
    <2>1. JaegerService = Operand(q[Max(S)]).text
      BY <1>1, <1>3, Zenon DEF JaegerService
    <2> QED
      BY <1>6, <2>1
  <1>8. PICK f : f = JaegerNamed(JaegerService)
    OBVIOUS
  <1>9. f \in ToSet(JaegerQuery)
    <2>1. PICK p : p = [call.params EXCEPT !.service = <<>>, !.hasError = {}]
      OBVIOUS
    <2>2. Params(p)
      <3>1. PICK c \in Cases : call \in c.calls
        BY DEF KnownCall
      <3>2. IsParams(call.params)
        BY <3>1, CallsAssumption
      <3>3. PICK r : r = call.params
        OBVIOUS
      <3>4. r = [service |-> r.service, operation |-> r.operation, least |-> r.least,
                 most |-> r.most, hasError |-> r.hasError, system |-> r.system,
                 requestModel |-> r.requestModel, responseModel |-> r.responseModel,
                 tags |-> r.tags] /\ r.tags \in Seq(ToSet(r.tags))
        BY <3>2, <3>3 DEF IsParams
      <3>5. PICK u : u = [r EXCEPT !.service = <<>>]
        OBVIOUS
      <3>6. u = [service |-> <<>>, operation |-> r.operation, least |-> r.least,
                 most |-> r.most, hasError |-> r.hasError, system |-> r.system,
                 requestModel |-> r.requestModel, responseModel |-> r.responseModel,
                 tags |-> r.tags]
        BY <3>4, <3>5
      <3>7. p = [u EXCEPT !.hasError = {}]
        BY <2>1, <3>3, <3>5
      <3>8. p.hasError = {} /\ p.tags = r.tags
        BY <3>6, <3>7
      <3> QED
        BY <3>4, <3>8 DEF Params
    <2>3. IsSeq(Converted(p))
      BY <2>2, GoodsConverted DEF Goods, IsSeq
    <2>4. IsSeq(<<f>>) /\ DOMAIN <<f>> = {1} /\ <<f>>[1] = f
      <3>1. <<f>> \in Seq({f})
        OBVIOUS
      <3>2. DOMAIN <<f>> = {1} /\ <<f>>[1] = f
        OBVIOUS
      <3> QED
        BY <3>1, <3>2 DEF IsSeq
    <2>5. JaegerQuery = <<f>> \o Converted(p)
      BY <1>8, <2>1, Zenon DEF JaegerQuery
    <2>6. f \in ToSet(<<f>>)
      BY <2>4 DEF ToSet
    <2> QED
      BY <2>3, <2>4, <2>5, <2>6, JoinMembers
  <1>10. Form(call.backend, q[i]) = JaegerNamed(Operand(q[i]).text)
    BY <1>4 DEF Form
  <1> QED
    BY <1>1, <1>7, <1>8, <1>9, <1>10

LEMMA JaegerRows ==
    ASSUME KnownCall, call.backend = "jaeger", IsSearch, ValidQuery, filters = AllFilters
    PROVE  Rows(Roots(TracesWith(JaegerQuery)))
  BY JaegerServed, RootsOffered

-----------------------------------------------------------------------------
(* The root spans of Traceloop.                                            *)

LEMMA RootSpansAre ==
    ASSUME KnownCall
    PROVE  /\ IsSeq(TraceloopRootSpans) /\ Source!Once(TraceloopRootSpans)
           /\ ToSet(TraceloopRootSpans) \subseteq ToSet(Spans)
  <1>1. PICK parts : parts = [i \in DOMAIN store |-> Parentless(store[i])]
    OBVIOUS
  <1>2. PICK q : q = TraceloopRootSpans
    OBVIOUS
  <1>3. q = FlattenSeq(parts)
    BY <1>1, <1>2, Zenon DEF TraceloopRootSpans
  <1>4. IsSeqs(store) /\ OwnIds(store)
    BY StoreIs
  <1>5. ASSUME NEW i \in DOMAIN store
        PROVE  /\ IsSeq(parts[i]) /\ Source!Once(parts[i]) /\ ToSet(parts[i]) \subseteq ToSet(store[i])
               /\ store[i] \in ToSet(store)
    <2>1. Picks(parts[i], store[i])
      BY <1>1, <1>4, AmongPicks DEF IsSeqs, Parentless
    <2>2. Source!Once(store[i])
      BY <1>4 DEF OwnIds, Source!Once, Source!Same
    <2> QED
      BY <2>1, <2>2, PicksKeep DEF ToSet
  <1>6. DOMAIN parts = DOMAIN store /\ IsSeq(parts)
    <2>1. parts = [i \in DOMAIN store |-> parts[i]]
      BY <1>1
    <2> QED
      BY <1>4, <2>1, MapIsSeq DEF IsSeqs
  <1>7. IsSeqs(parts)
    BY <1>5, <1>6 DEF IsSeqs
  <1>8. IsSeq(q) /\ FromOnce(q, parts)
    BY <1>3, <1>7, FlattenIs
  <1>9. PICK a, b :
           /\ \A k \in DOMAIN q :
               a[k] \in DOMAIN parts /\ b[k] \in DOMAIN parts[a[k]] /\ q[k] = parts[a[k]][b[k]]
           /\ \A j, k \in DOMAIN q : a[j] = a[k] /\ b[j] = b[k] => j = k
    BY <1>8 DEF FromOnce
  <1>10. ASSUME NEW k \in DOMAIN q
         PROVE  a[k] \in DOMAIN store /\ q[k] \in ToSet(store[a[k]]) /\ q[k] \in ToSet(Spans)
    <2>1. a[k] \in DOMAIN store /\ q[k] \in ToSet(parts[a[k]])
      BY <1>6, <1>9 DEF ToSet
    <2> QED
      BY <1>5, <2>1, SpansAre
  <1>11. ToSet(q) \subseteq ToSet(Spans)
    BY <1>10 DEF ToSet
  <1>12. Source!Once(q)
    <2> SUFFICES ASSUME NEW j \in DOMAIN q, NEW k \in DOMAIN q, Source!Same(q[j], q[k])
                 PROVE  j = k
      BY DEF Source!Once
    <2>1. PICK x \in DOMAIN store[a[j]] : q[j] = store[a[j]][x]
      BY <1>10 DEF ToSet
    <2>2. PICK y \in DOMAIN store[a[k]] : q[k] = store[a[k]][y]
      BY <1>10 DEF ToSet
    <2>3. a[j] = a[k]
      BY <1>4, <1>10, <2>1, <2>2 DEF OwnIds, Source!Same
    <2>4. b[j] = b[k]
      BY <1>5, <1>9, <1>10, <2>3 DEF Source!Once
    <2> QED
      BY <1>9, <2>3, <2>4
  <1> QED
    BY <1>2, <1>8, <1>11, <1>12

\* What Traceloop is asked for.
LEMMA AskedServed ==
    ASSUME KnownCall, call.backend = "traceloop", ValidQuery, filters = AllFilters,
           NEW trace, NEW s \in ToSet(trace), \A f \in ToSet(TraceloopQuery) : Holds(s, f)
    PROVE  Fulfils(trace)
  <1> SUFFICES ASSUME NEW i \in DOMAIN AllFilters, Served(AllFilters[i])
               PROVE  Holds(s, Form(call.backend, AllFilters[i]))
    BY DEF Fulfils
  <1>1. PICK f : f = AllFilters[i]
    OBVIOUS
  <1>2. TraceloopNative(f)
    BY <1>1 DEF Served
  <1>3. PICK X : X = {g \in ToSet(filters) : TraceloopNative(g)}
    OBVIOUS
  <1>4. f \in X
    BY <1>1, <1>2, <1>3, FilterIsThere
  <1>5. PICK native : native = Among(filters, X)
    OBVIOUS
  <1>6. f \in ToSet(native)
    BY <1>1, <1>4, <1>5, FiltersLeft
  <1>7. TraceloopQuery = [k \in DOMAIN native |-> TraceloopAsked(native[k])]
    BY <1>3, <1>5, Zenon DEF TraceloopQuery
  <1>8. TraceloopAsked(f) \in ToSet(TraceloopQuery)
    BY <1>6, <1>7 DEF ToSet
  <1>9. Form(call.backend, f) = TraceloopAsked(f)
    BY DEF Form
  <1> QED
    BY <1>1, <1>8, <1>9

LEMMA TraceloopRows ==
    ASSUME KnownCall, call.backend = "traceloop", IsSearch => ValidQuery /\ filters = AllFilters
    PROVE  /\ call.op = "search_traces" => Rows(TraceloopRootsWith(TraceloopQuery))
           /\ call.op = "search_spans" => Rows(SpansWith(TraceloopQuery))
           /\ ~IsSearch => Rows(TraceloopRootSpans)
  <1>1. ASSUME call.op = "search_spans"
        PROVE  Rows(SpansWith(TraceloopQuery))
    BY <1>1, AskedServed, SpansWithRows DEF IsSearch
  <1>2. ASSUME ~IsSearch
        PROVE  Rows(TraceloopRootSpans)
    BY <1>2, RootSpansAre DEF Rows
  <1>3. ASSUME call.op = "search_traces"
        PROVE  Rows(TraceloopRootsWith(TraceloopQuery))
    <2>1. PICK X : X = {s \in ToSet(TraceloopRootSpans) :
                           \A f \in ToSet(TraceloopQuery) : Holds(s, f)}
      OBVIOUS
    <2>2. PICK q : q = Among(TraceloopRootSpans, X)
      OBVIOUS
    <2>3. TraceloopRootsWith(TraceloopQuery) = q
      BY <2>1, <2>2, Zenon DEF TraceloopRootsWith
    <2>4. /\ IsSeq(q) /\ Source!Once(q) /\ ToSet(q) = ToSet(TraceloopRootSpans) \cap X
          /\ ToSet(q) \subseteq ToSet(Spans)
      BY <2>2, RootSpansAre, AmongPicks, PicksKeep
    <2>5. ASSUME NEW r \in ToSet(q)
          PROVE  Offered(r.trace)
      <3>1. r \in ToSet(Spans) /\ \A f \in ToSet(TraceloopQuery) : Holds(r, f)
        BY <2>1, <2>4
      <3>2. PICK trace \in ToSet(store) : r \in ToSet(trace)
        BY <3>1, SpansAre
      <3>3. Fulfils(trace)
        BY <1>3, <3>1, <3>2, AskedServed DEF IsSearch
      <3> QED
        BY <3>2, <3>3 DEF Offered
    <2> QED
      BY <1>3, <2>3, <2>4, <2>5 DEF Rows
  <1> QED
    BY <1>1, <1>2, <1>3

-----------------------------------------------------------------------------
(* What the methods return.                                                *)

LEMMA HealthPromised ==
    ASSUME call.op = "health_check", NEW v \in BOOLEAN
    PROVE  Source!Promised(v)
  BY DEF Source!Promised

LEMMA ServicesPromised ==
    ASSUME call.op = "list_services", NEW v, v \subseteq {s.service : s \in ToSet(Spans)}
    PROVE  Source!Promised(v)
  <1>1. Source!ToSet(Source!Spans) = ToSet(Spans)
    BY SameSpans, SameMembers
  <1> QED
    BY <1>1 DEF Source!Promised

LEMMA OperationsPromised ==
    ASSUME call.op = "operations", NEW v,
           v \subseteq {s.operation : s \in {t \in ToSet(Spans) : t.service = call.subject}}
    PROVE  Source!Promised(v)
  <1>1. Source!ToSet(Source!Spans) = ToSet(Spans)
    BY SameSpans, SameMembers
  <1> QED
    BY <1>1 DEF Source!Promised

LEMMA TracePromised ==
    ASSUME KnownCall, call.op = "get_trace",
           NEW q, Piece(q, call.subject, ToSet(Spans)), q # <<>>
    PROVE  /\ Source!Promised(<<Grouped(q)>>)
           /\ Source!Promised(<<GroupedOk(q)>>)
  <1>1. Source!PartOf(q, Source!OfTrace(Source!Spans, call.subject))
    <2>1. Source!PartOf(q, OfTrace(Spans, call.subject))
      BY PieceIsPart
    <2> QED
      BY <2>1, SameSpans
  <1>2. ASSUME NEW item, item.spans = q
        PROVE  Source!Promised(<<item>>)
    <2>1. PICK v : v = <<item>>
      OBVIOUS
    <2>2. Len(v) = 1 /\ v[1] = item
      BY <2>1
    <2>3. Source!Promised(v)
      BY <1>1, <1>2, <2>2 DEF Source!Promised
    <2> QED
      BY <2>1, <2>3
  <1> QED
    BY <1>2, GroupedSpans

\* A trace that is asked for: its pieces are nonempty as soon as it is there.
LEMMA TraceOfIs ==
    ASSUME KnownCall, NEW id
    PROVE  /\ Piece(OfTrace(Spans, id), id, ToSet(Spans))
           /\ IsSeq(OfTrace(Spans, id))
  BY SpansAre, SpansCopies DEF Piece, Copies

\* A list of one item.
LEMMA OneIs ==
    ASSUME NEW t
    PROVE  /\ IsSeq(<<t>>) /\ DOMAIN <<t>> = {1} /\ <<t>>[1] = t /\ Len(<<t>>) = 1
           /\ ToSet(<<t>>) = {t} /\ Distinct(<<t>>)
  <1>1. PICK q : q = <<t>>
    OBVIOUS
  <1>2. q \in Seq({t}) /\ DOMAIN q = {1} /\ q[1] = t /\ Len(q) = 1
    BY <1>1
  <1>3. ToSet(q) = {t} /\ Distinct(q)
    BY <1>2 DEF ToSet, Distinct
  <1> QED
    BY <1>1, <1>2, <1>3 DEF IsSeq

LEMMA NoneIs ==
    /\ IsSeq(<<>>) /\ DOMAIN <<>> = {} /\ Len(<<>>) = 0 /\ ToSet(<<>>) = {}
    /\ Distinct(<<>>) /\ Source!Once(<<>>) /\ Source!NoneTwice(<<>>)
  <1>1. PICK q : q = <<>>
    OBVIOUS
  <1>2. q \in Seq({}) /\ DOMAIN q = {} /\ Len(q) = 0
    BY <1>1
  <1> QED
    BY <1>1, <1>2 DEF IsSeq, ToSet, Distinct, Source!Once, Source!NoneTwice

\* The ids of the traces of rows, each once.
LEMMA IdsOnce ==
    ASSUME NEW rows, IsSeq(rows)
    PROVE  /\ IsSeq(TraceIds(rows)) /\ Distinct(TraceIds(rows))
           /\ \A id \in ToSet(TraceIds(rows)) : \E r \in ToSet(rows) : r.trace = id
  <1>1. PICK ids : ids = [i \in DOMAIN rows |-> rows[i].trace]
    OBVIOUS
  <1>2. IsSeq(ids) /\ DOMAIN ids = DOMAIN rows
    <2>1. ids = [i \in DOMAIN rows |-> ids[i]]
      BY <1>1
    <2> QED
      BY <2>1, MapIsSeq
  <1>3. PICK P : P = {i \in DOMAIN ids : \A j \in 1 .. i - 1 : ids[j] # ids[i]}
    OBVIOUS
  <1>4. PICK t : t = TraceIds(rows)
    OBVIOUS
  <1>5. t = At(ids, P)
    BY <1>1, <1>3, <1>4, Zenon DEF TraceIds
  <1>6. Lists(t, P, ids)
    <2>1. DOMAIN ids \cap P = P
      BY <1>3
    <2> QED
      BY <1>2, <1>5, <2>1, AtLists
  <1>7. PICK o \in [DOMAIN t -> P] :
           /\ \A k \in DOMAIN t : t[k] = ids[o[k]]
           /\ \A j, k \in DOMAIN t : o[j] = o[k] => j = k
    BY <1>6 DEF Lists
  <1>8. PICK n \in Nat : DOMAIN ids = 1 .. n
    BY <1>2 DEF IsSeq
  <1>9. \A i, j \in P : ids[i] = ids[j] => i = j
    <2> SUFFICES ASSUME NEW i \in P, NEW j \in P, ids[i] = ids[j], i < j
                 PROVE  FALSE
      BY <1>3, <1>8
    <2>1. i \in 1 .. j - 1
      BY <1>3, <1>8
    <2> QED
      BY <1>3, <2>1
  <1>10. Distinct(t)
    BY <1>7, <1>9 DEF Distinct
  <1>11. \A id \in ToSet(t) : \E r \in ToSet(rows) : r.trace = id
    BY <1>1, <1>2, <1>3, <1>7 DEF ToSet
  <1> QED
    BY <1>4, <1>6, <1>10, <1>11 DEF Lists

-----------------------------------------------------------------------------
(* What holds until a call ends.                                           *)

\* Of the traces to be fetched and what was fetched: no trace twice, and each
\* item is of a trace that the service offers.
FetchFit(t, f) ==
    /\ IsSeq(t) /\ IsSeq(f) /\ Distinct(t) /\ Source!NoneTwice(f)
    /\ \A i \in DOMAIN f : \E id :
        /\ Piece(f[i].spans, id, ToSet(Spans)) /\ f[i].spans # <<>>
        /\ id \notin ToSet(t) /\ Offered(id)
    /\ call.backend = "tempo" => \A id \in ToSet(t) : Offered(id)
    /\ call.backend = "tempo" /\ call.op = "search_traces" => Len(t) + Len(f) <= Limit

\* Of the segments.
Segments(f) == IsSeq(f) /\ Source!Once(f) /\ ToSet(f) \subseteq ToSet(Spans)

Capped == {"tempo", "jaeger", "traceloop"}

Faithful ==
    /\ KnownCall
    /\ step # "done" => answer = {}
    /\ step \notin {"asked", "done"} /\ IsSearch => ValidQuery /\ filters = AllFilters
    /\ step = "graph" => call.op \in {"list_services", "health_check"}
    /\ step # "done" /\ call.backend # "xray" => Rows(read)
    /\ step \in {"read", "fetching"} /\ call.op = "search_traces" /\ call.backend \in Capped =>
        Len(read) <= Limit
    /\ step = "fetching" /\ call.backend \in Hydrating => IsSearch /\ FetchFit(todo, found)
    /\ step # "done" /\ call.backend = "xray" => Segments(found)

\* It is about the store and the call, which stay as they are.
LEMMA SameStore ==
    ASSUME UNCHANGED <<store, call>>
    PROVE  /\ KnownCall' = KnownCall /\ ValidQuery' = ValidQuery /\ IsSearch' = IsSearch
           /\ Limit' = Limit /\ AllFilters' = AllFilters /\ Spans' = Spans
           /\ \A id : Offered(id)' <=> Offered(id)
  <1>1. /\ KnownCall' = KnownCall /\ ValidQuery' = ValidQuery /\ IsSearch' = IsSearch
        /\ Limit' = Limit /\ AllFilters' = AllFilters /\ Spans' = Spans
    BY DEF KnownCall, ValidQuery, IsSearch, Limit, AllFilters, Spans
  <1>2. \A f : Served(f)' <=> Served(f)
    BY DEF Served, TempoNative
  <1>3. \A i : Source!Overridden(i)' <=> Source!Overridden(i)
    <2>1. Source!AllFilters' = Source!AllFilters
      BY DEF Source!AllFilters
    <2> QED
      BY <2>1 DEF Source!Overridden
  <1>4. \A trace : Fulfils(trace)' <=> Fulfils(trace)
    BY <1>1, <1>2, <1>3 DEF Fulfils
  <1>5. \A id : Offered(id)' <=> Offered(id)
    BY <1>4 DEF Offered
  <1> QED
    BY <1>1, <1>5

LEMMA Finishes ==
    ASSUME Faithful, UNCHANGED <<store, call>>, step' = "done"
    PROVE  Faithful'
  BY SameStore DEF Faithful

LEMMA Continues ==
    ASSUME Faithful, UNCHANGED <<store, call, answer>>, step # "done", step' # "done",
           IsSearch /\ step' # "asked" => ValidQuery /\ filters' = AllFilters,
           step' = "graph" => call.op \in {"list_services", "health_check"},
           NEW r, read' = r, NEW t, todo' = t, NEW f, found' = f,
           call.backend # "xray" => Rows(r),
           step' \in {"read", "fetching"} /\ call.op = "search_traces" /\ call.backend \in Capped =>
               Len(r) <= Limit,
           step' = "fetching" /\ call.backend \in Hydrating => IsSearch /\ FetchFit(t, f),
           call.backend = "xray" => Segments(f)
    PROVE  Faithful'
  <1>1. /\ KnownCall' = KnownCall /\ ValidQuery' = ValidQuery /\ IsSearch' = IsSearch
        /\ Limit' = Limit /\ AllFilters' = AllFilters /\ Spans' = Spans
        /\ \A id : Offered(id)' <=> Offered(id)
    BY SameStore
  <1>2. Rows(r) => Rows(read)'
    BY <1>1 DEF Rows
  <1>3. FetchFit(t, f) => FetchFit(todo, found)'
    BY <1>1 DEF FetchFit
  <1>4. Segments(f) => Segments(found)'
    BY <1>1 DEF Segments
  <1> QED
    BY <1>1, <1>2, <1>3, <1>4 DEF Faithful

-----------------------------------------------------------------------------
(* The steps that backends have in common keep it.                         *)

\* A step of a call that has not ended: it goes on, or ends with what is promised
\* or with an exception.
Goes ==
    /\ Faithful'
    /\ step # "done"
    /\ \/ step' # "done" /\ answer' = {}
       \/ step' = "done" /\ (answer' = {} \/ \E v : answer' = {v} /\ Source!Promised(v))

LEMMA Raises ==
    ASSUME Faithful, step # "done", Raise
    PROVE  Goes
  <1>1. UNCHANGED <<store, call, answer>> /\ step' = "done"
    BY DEF Raise
  <1>2. answer = {}
    BY DEF Faithful
  <1> QED
    BY <1>1, <1>2, Finishes DEF Goes

LEMMA Returns ==
    ASSUME Faithful, step # "done", NEW v, Return(v), Source!Promised(v)
    PROVE  Goes
  <1>1. UNCHANGED <<store, call>> /\ step' = "done" /\ answer' = {v}
    BY DEF Return
  <1> QED
    BY <1>1, Finishes DEF Goes

LEMMA Rejects ==
    ASSUME Faithful, Reject
    PROVE  Goes
  BY Raises DEF Reject

LEMMA AskGoes ==
    ASSUME Bounded, Faithful, NEW first \in {"paging", "values", "graph"}, Ask(first),
           first = "graph" => call.op \in {"list_services", "health_check"}
    PROVE  Goes
  <1>1. /\ step = "asked" /\ step' = first /\ UNCHANGED <<store, call, answer, read, todo, found>>
        /\ IsSearch => ValidQuery /\ filters' = AllFilters
    BY DEF Ask
  <1>2. read = <<>> /\ found = <<>> /\ answer = {}
    BY <1>1 DEF Bounded, Early, Faithful
  <1>3. Rows(read) /\ Segments(found)
    BY <1>2, RowsNone, NoneIs DEF Segments
  <1>4. Faithful'
    BY <1>1, <1>3, Continues
  <1> QED
    BY <1>1, <1>2, <1>4 DEF Goes

LEMMA ReadGoes ==
    ASSUME Bounded, Faithful, NEW hits, NEW most \in Nat, Read(hits, most),
           step \in {"paging", "values"}, call.backend \in Paging \cup {"xray"},
           call.backend # "xray" => Rows(hits)
    PROVE  Goes
  <1>1. /\ UNCHANGED <<store, call, filters, todo, found, answer>>
        /\ step' = "read" \/ step' = step
    BY DEF Read
  <1>2. PICK n \in 0 .. Min({most, Len(hits) - Len(read)}) :
           read' = First(hits, Len(read) + n)
    BY DEF Read
  <1>3. PICK r : r = First(hits, Len(read) + n)
    OBVIOUS
  <1>4. ASSUME call.backend # "xray"
        PROVE  Rows(r)
    <2>1. Len(hits) \in Nat /\ Len(read) \in Nat
      BY <1>4 DEF Rows, IsSeq, Bounded, Reading, Hydrating, Paging
    <2>2. n \in Nat
      <3>1. PICK m : m = Min({most, Len(hits) - Len(read)})
        OBVIOUS
      <3>2. m \in Int
        BY <2>1, <3>1, MinIs
      <3> QED
        BY <1>2, <3>1, <3>2
    <2> QED
      BY <1>3, <1>4, <2>1, <2>2, RowsFirst
  <1>5. answer = {} /\ (IsSearch => ValidQuery /\ filters = AllFilters)
    BY DEF Faithful
  <1>6. call.backend = "xray" => Segments(found)
    BY DEF Faithful
  <1>7. call.backend \notin Capped
    BY DEF Paging, Capped
  <1>8. Faithful'
    BY <1>1, <1>2, <1>3, <1>4, <1>5, <1>6, <1>7, Continues
  <1> QED
    BY <1>1, <1>5, <1>8 DEF Goes

LEMMA ReadOnceGoes ==
    ASSUME Faithful, NEW hits, NEW most \in Nat, ReadOnce(hits, most),
           step = "paging", call.backend # "xray", Rows(hits),
           call.op = "search_traces" /\ call.backend \in Capped => most <= Limit
    PROVE  Goes
  <1>1. UNCHANGED <<store, call, filters, todo, found, answer>> /\ step' = "read"
    BY DEF ReadOnce
  <1>2. PICK r : r = First(hits, most)
    OBVIOUS
  <1>3. read' = r /\ Rows(r) /\ Len(r) <= most /\ Len(r) \in Nat
    BY <1>2, RowsFirst DEF ReadOnce, Rows, IsSeq
  <1>4. call.op = "search_traces" /\ call.backend \in Capped => Len(r) <= Limit
    <2>1. Limit \in Nat
      BY MostItemsIs DEF Faithful
    <2> QED
      BY <1>3, <2>1
  <1>5. answer = {} /\ (IsSearch => ValidQuery /\ filters = AllFilters)
    BY DEF Faithful
  <1>6. Faithful'
    BY <1>1, <1>3, <1>4, <1>5, Continues
  <1> QED
    BY <1>1, <1>5, <1>6 DEF Goes

LEMMA StopGoes ==
    ASSUME Faithful, NEW hits, StopReading(hits), step \in {"paging", "values"},
           call.backend \in Paging \cup {"xray"}
    PROVE  Goes
  <1>1. UNCHANGED <<store, call, filters, read, todo, found, answer>> /\ step' = "read"
    BY DEF StopReading
  <1>2. answer = {} /\ (IsSearch => ValidQuery /\ filters = AllFilters)
    BY DEF Faithful
  <1>3. /\ call.backend # "xray" => Rows(read)
        /\ call.backend = "xray" => Segments(found)
    BY DEF Faithful
  <1>4. call.backend \notin Capped
    BY DEF Paging, Capped
  <1>5. Faithful'
    BY <1>1, <1>2, <1>3, <1>4, Continues
  <1> QED
    BY <1>1, <1>2, <1>5 DEF Goes

\* Ids to be fetched.
LEMMA FetchTracesGoes ==
    ASSUME Bounded, Faithful, NEW ids, FetchTraces(ids), IsSeq(ids), Distinct(ids),
           call.backend \notin {"jaeger", "traceloop"},
           call.backend \in Hydrating => IsSearch,
           call.backend = "tempo" =>
               /\ \A id \in ToSet(ids) : Offered(id)
               /\ call.op = "search_traces" => Len(ids) <= Len(read)
    PROVE  Goes
  <1>1. /\ UNCHANGED <<store, call, filters, read, found, answer>>
        /\ step = "read" /\ step' = "fetching" /\ todo' = ids
    BY DEF FetchTraces
  <1>2. answer = {} /\ found = <<>> /\ (IsSearch => ValidQuery /\ filters = AllFilters)
    BY <1>1 DEF Faithful, Bounded, Early
  <1>3. /\ call.backend # "xray" => Rows(read)
        /\ call.backend = "xray" => Segments(found)
    BY <1>1 DEF Faithful
  <1>4. call.backend = "tempo" /\ call.op = "search_traces" => Len(read) <= Limit
    BY <1>1 DEF Faithful, Capped
  <1>5. ASSUME call.backend \in Hydrating
        PROVE  FetchFit(ids, found)
    <2>1. IsSeq(found) /\ Source!NoneTwice(found) /\ DOMAIN found = {} /\ Len(found) = 0
      BY <1>2, NoneIs
    <2>2. Len(ids) \in Nat /\ Limit \in Nat
      BY MostItemsIs DEF IsSeq, Faithful
    <2>3. call.backend = "tempo" /\ call.op = "search_traces" => Len(ids) + Len(found) <= Limit
      <3>1. call.backend = "tempo" => Len(read) \in Nat
        BY DEF Bounded, IsSeq, Reading, Hydrating
      <3> QED
        BY <1>4, <2>1, <2>2, <3>1
    <2> QED
      BY <2>1, <2>3 DEF FetchFit
  <1>6. step' \in {"read", "fetching"} /\ call.op = "search_traces" /\ call.backend \in Capped =>
           Len(read) <= Limit
    BY <1>4 DEF Capped
  <1>7. Faithful'
    BY <1>1, <1>2, <1>3, <1>5, <1>6, Continues
  <1> QED
    BY <1>1, <1>2, <1>7 DEF Goes

LEMMA TailIs ==
    ASSUME NEW s, IsSeq(s), s # <<>>, Distinct(s)
    PROVE  /\ IsSeq(Tail(s)) /\ Distinct(Tail(s)) /\ Len(Tail(s)) = Len(s) - 1 /\ Len(s) \in Nat
           /\ Head(s) \in ToSet(s) /\ ToSet(Tail(s)) \subseteq ToSet(s)
           /\ Head(s) \notin ToSet(Tail(s))
  <1>1. PICK S : s \in Seq(S)
    BY DEF IsSeq
  <1>2. PICK t : t = Tail(s)
    OBVIOUS
  <1>3. PICK n \in Nat : n + 1 = Len(s) /\ DOMAIN s = 1 .. n + 1
    BY <1>1
  <1>4. t \in Seq(S) /\ Len(t) = n /\ DOMAIN t = 1 .. n /\ \A i \in 1 .. n : t[i] = s[i + 1]
    BY <1>1, <1>2, <1>3
  <1>5. Head(s) = s[1] /\ 1 \in DOMAIN s
    BY <1>1, <1>3
  <1>6. \A i \in 1 .. n : i + 1 \in DOMAIN s /\ i + 1 # 1
    BY <1>3
  <1>7. ToSet(t) \subseteq ToSet(s)
    BY <1>4, <1>6 DEF ToSet
  <1>8. Head(s) \notin ToSet(t)
    BY <1>4, <1>5, <1>6 DEF ToSet, Distinct
  <1>9. Distinct(t)
    <2> SUFFICES ASSUME NEW i \in 1 .. n, NEW j \in 1 .. n, t[i] = t[j]
                 PROVE  i = j
      BY <1>4 DEF Distinct
    <2>1. i + 1 = j + 1
      BY <1>4, <1>6 DEF Distinct
    <2> QED
      BY <2>1
  <1>10. IsSeq(t) /\ Head(s) \in ToSet(s)
    BY <1>4, <1>5 DEF IsSeq, ToSet
  <1>11. Len(t) = Len(s) - 1 /\ Len(s) \in Nat
    BY <1>3, <1>4
  <1> QED
    BY <1>2, <1>7, <1>8, <1>9, <1>10, <1>11

Single(t, item) == IsSeq(t) /\ DOMAIN t = {1} /\ t[1] = item /\ Len(t) = 1

\* Pieces of traces, of which one is not.
WithoutTrace(f, id, X) == \A i \in DOMAIN f : \E jd : jd # id /\ Piece(f[i].spans, jd, X)

ItemMore(g, f, item) ==
    /\ IsSeq(g) /\ Source!NoneTwice(g) /\ Len(g) = Len(f) + 1 /\ Len(f) \in Nat
    /\ \A i \in DOMAIN g : g[i] = item \/ \E j \in DOMAIN f : g[i] = f[j]

LEMMA OneMore ==
    ASSUME NEW f, IsSeq(f), Source!NoneTwice(f), NEW item, NEW id, NEW X,
           Piece(item.spans, id, X),
           WithoutTrace(f, id, X),
           NEW t, Single(t, item)
    PROVE  ItemMore(f \o t, f, item)
  <1>2. IsSeq(t) /\ DOMAIN t = {1} /\ t[1] = item /\ Len(t) = 1
    BY DEF Single
  <1>3. PICK g : g = f \o t
    OBVIOUS
  <1>4. PICK n \in Nat : n = Len(f) /\ DOMAIN f = 1 .. n
    BY <1>2, SeqsJoin
  <1>5. /\ IsSeq(g) /\ Len(g) = n + 1 /\ DOMAIN g = 1 .. n + 1
        /\ \A i \in 1 .. n : g[i] = f[i]
        /\ g[n + 1] = item
    <2>1. /\ IsSeq(g) /\ Len(g) = Len(f) + Len(t) /\ DOMAIN g = 1 .. Len(f) + Len(t)
          /\ \A i \in DOMAIN f : g[i] = f[i]
          /\ \A i \in DOMAIN t : g[Len(f) + i] = t[i]
      BY <1>2, <1>3, SeqsJoin
    <2>2. g[Len(f) + 1] = item
      BY <1>2, <2>1
    <2> QED
      BY <1>2, <1>4, <2>1, <2>2
  <1>6. \A a \in DOMAIN item.spans : item.spans[a].trace = id
    BY DEF Piece, ToSet
  <1>7. \A i \in 1 .. n : \A a \in DOMAIN f[i].spans : f[i].spans[a].trace # id
    BY <1>4 DEF WithoutTrace, Piece, ToSet
  <1>8. \A a, b \in DOMAIN item.spans : Source!Same(item.spans[a], item.spans[b]) => a = b
    BY DEF Piece, Copies, Source!Once
  <1>9. Source!NoneTwice(g)
    <2> SUFFICES ASSUME NEW i \in 1 .. n + 1, NEW j \in 1 .. n + 1,
                        NEW a \in DOMAIN g[i].spans, NEW b \in DOMAIN g[j].spans,
                        Source!Same(g[i].spans[a], g[j].spans[b])
                 PROVE  i = j /\ a = b
      BY <1>5 DEF Source!NoneTwice
    <2>1. g[i].spans[a].trace = g[j].spans[b].trace
      BY DEF Source!Same
    <2>2. CASE i \in 1 .. n /\ j \in 1 .. n
      BY <1>4, <1>5, <2>2 DEF Source!NoneTwice
    <2>3. CASE i = n + 1 /\ j = n + 1
      BY <1>5, <1>8, <2>3
    <2>4. CASE i = n + 1 /\ j \in 1 .. n
      BY <1>5, <1>6, <1>7, <2>1, <2>4
    <2>5. CASE i \in 1 .. n /\ j = n + 1
      BY <1>5, <1>6, <1>7, <2>1, <2>5
    <2>6. \A k \in 1 .. n + 1 : k \in 1 .. n \/ k = n + 1
      BY <1>4
    <2> QED
      BY <2>2, <2>3, <2>4, <2>5, <2>6
  <1>10. \A i \in DOMAIN g : g[i] = item \/ \E j \in DOMAIN f : g[i] = f[j]
    <2>1. \A k \in 1 .. n + 1 : k \in 1 .. n \/ k = n + 1
      BY <1>4
    <2> QED
      BY <1>4, <1>5, <2>1
  <1> QED
    BY <1>3, <1>4, <1>5, <1>9, <1>10 DEF ItemMore

LEMMA FitMore ==
    ASSUME Limit \in Nat, NEW q, NEW f, FetchFit(q, f), Len(q) \in Nat,
           NEW t, IsSeq(t), Distinct(t), ToSet(t) \subseteq ToSet(q), Len(t) = Len(q) - 1,
           NEW h \in ToSet(q), h \notin ToSet(t), Offered(h),
           NEW item, item.spans # <<>>, Piece(item.spans, h, ToSet(Spans)),
           NEW u, Single(u, item)
    PROVE  FetchFit(t, f \o u)
  <1>1. PICK g : g = f \o u
    OBVIOUS
  <1>2. IsSeq(f) /\ Source!NoneTwice(f)
    BY DEF FetchFit
  <1>3. WithoutTrace(f, h, ToSet(Spans))
    BY DEF FetchFit, WithoutTrace
  <1>4. /\ IsSeq(g) /\ Source!NoneTwice(g) /\ Len(g) = Len(f) + 1 /\ Len(f) \in Nat
        /\ \A i \in DOMAIN g : g[i] = item \/ \E j \in DOMAIN f : g[i] = f[j]
    BY <1>1, <1>2, <1>3, OneMore DEF ItemMore
  <1>5. ASSUME NEW i \in DOMAIN g
        PROVE  \E id : /\ Piece(g[i].spans, id, ToSet(Spans)) /\ g[i].spans # <<>>
                       /\ id \notin ToSet(t) /\ Offered(id)
    <2>1. CASE g[i] = item
      BY <2>1
    <2>2. ASSUME NEW j \in DOMAIN f, g[i] = f[j]
          PROVE  \E id : /\ Piece(g[i].spans, id, ToSet(Spans)) /\ g[i].spans # <<>>
                         /\ id \notin ToSet(t) /\ Offered(id)
      BY <2>2 DEF FetchFit
    <2> QED
      BY <1>4, <2>1, <2>2
  <1>6. call.backend = "tempo" /\ call.op = "search_traces" => Len(t) + Len(g) <= Limit
    BY <1>4 DEF FetchFit
  <1>7. call.backend = "tempo" => \A id \in ToSet(t) : Offered(id)
    BY DEF FetchFit
  <1> QED
    BY <1>1, <1>4, <1>5, <1>6, <1>7 DEF FetchFit

\* What a fetch brings: nothing, or a piece of the trace asked for.
LEMMA FetchedGoes ==
    ASSUME Bounded, Faithful, call.backend \in Hydrating, todo # <<>>,
           NEW traces, NEW whole, Fetched(traces, whole),
           \/ traces = <<>>
           \/ \E item : /\ traces = <<item>> /\ item.spans # <<>>
                        /\ Piece(item.spans, Head(todo), ToSet(Spans)) /\ Offered(Head(todo))
    PROVE  Goes
  <1>1. /\ UNCHANGED <<store, call, step, filters, read, answer>>
        /\ step = "fetching" /\ todo' = Tail(todo) /\ found' = found \o traces
    BY DEF Fetched
  <1>2. answer = {} /\ IsSearch /\ ValidQuery /\ filters = AllFilters
    BY <1>1 DEF Faithful
  <1>3. FetchFit(todo, found)
    BY <1>1 DEF Faithful
  <1>4. call.backend # "xray"
    BY DEF Hydrating
  <1>5. Rows(read)
    BY <1>1, <1>4 DEF Faithful
  <1>6. PICK t : t = Tail(todo)
    OBVIOUS
  <1>7. /\ IsSeq(t) /\ Distinct(t) /\ Len(t) = Len(todo) - 1 /\ Len(todo) \in Nat
        /\ Head(todo) \in ToSet(todo) /\ ToSet(t) \subseteq ToSet(todo)
        /\ Head(todo) \notin ToSet(t)
    BY <1>3, <1>6, TailIs DEF FetchFit
  <1>8. Limit \in Nat
    BY MostItemsIs DEF Faithful
  <1>9. FetchFit(t, found')
    <2>1. CASE traces = <<>>
      <3>1. found' = found
        BY <1>1, <1>3, <2>1 DEF FetchFit, IsSeq
      <3>2. Len(found) \in Nat
        BY <1>3 DEF FetchFit, IsSeq
      <3> QED
        BY <1>3, <1>7, <1>8, <3>1, <3>2 DEF FetchFit
    <2>2. ASSUME NEW item, traces = <<item>>, item.spans # <<>>,
                 Piece(item.spans, Head(todo), ToSet(Spans)), Offered(Head(todo))
          PROVE  FetchFit(t, found')
      <3>1. Single(traces, item)
        BY <2>2, OneIs DEF Single
      <3>2. PICK h : h = Head(todo)
        OBVIOUS
      <3>3. /\ h \in ToSet(todo) /\ h \notin ToSet(t) /\ Offered(h) /\ item.spans # <<>>
            /\ Piece(item.spans, h, ToSet(Spans))
        BY <1>7, <2>2, <3>2
      <3>4. FetchFit(t, found \o traces)
        BY <1>3, <1>7, <1>8, <3>1, <3>3, FitMore
      <3> QED
        BY <1>1, <3>4
    <2> QED
      BY <2>1, <2>2
  <1>10. call.op = "search_traces" /\ call.backend \in Capped => Len(read) <= Limit
    BY <1>1 DEF Faithful
  <1>11. Faithful'
    BY <1>1, <1>2, <1>4, <1>5, <1>6, <1>9, <1>10, Continues
  <1> QED
    BY <1>1, <1>2, <1>11 DEF Goes

LEMMA NotFetchedGoes ==
    ASSUME Faithful, call.backend \in Hydrating, NotFetched
    PROVE  Goes
  <1>1. /\ UNCHANGED <<store, call, step, filters, read, found, answer>>
        /\ step = "fetching" /\ todo' = Tail(todo) /\ todo # <<>>
    BY DEF NotFetched
  <1>2. answer = {} /\ IsSearch /\ ValidQuery /\ filters = AllFilters /\ FetchFit(todo, found)
    BY <1>1 DEF Faithful
  <1>3. call.backend # "xray"
    BY DEF Hydrating
  <1>4. Rows(read) /\ (call.op = "search_traces" /\ call.backend \in Capped => Len(read) <= Limit)
    BY <1>1, <1>3 DEF Faithful
  <1>5. PICK t : t = Tail(todo)
    OBVIOUS
  <1>6. /\ IsSeq(t) /\ Distinct(t) /\ Len(t) = Len(todo) - 1 /\ Len(todo) \in Nat
        /\ ToSet(t) \subseteq ToSet(todo)
    BY <1>1, <1>2, <1>5, TailIs DEF FetchFit
  <1>7. Limit \in Nat /\ Len(found) \in Nat
    BY <1>2, MostItemsIs DEF Faithful, FetchFit, IsSeq
  <1>8. FetchFit(t, found)
    <2>1. call.backend = "tempo" /\ call.op = "search_traces" => Len(t) + Len(found) <= Limit
      BY <1>2, <1>6, <1>7 DEF FetchFit
    <2> QED
      BY <1>2, <1>6, <2>1 DEF FetchFit
  <1>9. Faithful'
    BY <1>1, <1>2, <1>3, <1>4, <1>5, <1>8, Continues
  <1> QED
    BY <1>1, <1>2, <1>9 DEF Goes

LEMMA FaithfulInit == Init => Faithful
  <1> SUFFICES ASSUME Init PROVE Faithful
    OBVIOUS
  <1>1. KnownCall /\ step = "asked" /\ read = <<>> /\ found = <<>> /\ answer = {}
    BY DEF Init, KnownCall
  <1>2. Rows(read) /\ Segments(found)
    BY <1>1, RowsNone, NoneIs DEF Segments
  <1> QED
    BY <1>1, <1>2 DEF Faithful

\* The ids of the traces of rows, up to the cap.
LEMMA IdsFit ==
    ASSUME NEW rows, IsSeq(rows)
    PROVE  LET ids == First(TraceIds(rows), MaxHydrate)
           IN  /\ IsSeq(ids) /\ Distinct(ids)
  <1>1. PICK ids : ids = TraceIds(rows)
    OBVIOUS
  <1>2. IsSeq(ids) /\ Distinct(ids)
    BY <1>1, IdsOnce
  <1>3. PICK t : t = First(ids, MaxHydrate)
    OBVIOUS
  <1>4. Picks(t, ids)
    BY <1>2, <1>3, FirstPicks, SearchAssumption
  <1>5. IsSeq(t) /\ Distinct(t)
    BY <1>2, <1>4, PicksKeep
  <1>6. First(TraceIds(rows), MaxHydrate) = t
    BY <1>1, <1>3
  <1> QED
    BY <1>5, <1>6

\* Traces that came through the fetches are those of a search.
LEMMA FoundSourced ==
    ASSUME Faithful, step = "fetching", call.backend \in Hydrating
    PROVE  /\ KnownCall /\ IsSearch /\ ValidQuery /\ filters = AllFilters
           /\ IsSeq(found) /\ Source!NoneTwice(found)
           /\ \A i \in DOMAIN found : Sourced(found[i].spans)
  <1>1. /\ KnownCall /\ IsSearch /\ ValidQuery /\ filters = AllFilters /\ FetchFit(todo, found)
    BY DEF Faithful
  <1>2. ASSUME NEW i \in DOMAIN found
        PROVE  Sourced(found[i].spans)
    BY <1>1, PieceSourced DEF FetchFit, Offered
  <1> QED
    BY <1>1, <1>2 DEF FetchFit
-----------------------------------------------------------------------------
(* Each backend goes on faithfully, or ends with what is promised.         *)

\* Rows of spans are copies of them.
LEMMA RowsCopy ==
    ASSUME KnownCall, NEW q, IsSeq(q), Source!Once(q), ToSet(q) \subseteq ToSet(Spans)
    PROVE  Copies(q, ToSet(q))
  BY SpansAre, LikeItself DEF Copies

\* What is parsed of the rows of a search is what a search for spans returns.
LEMMA ParsedSourced ==
    ASSUME KnownCall, IsSearch, NEW q, Rows(q), NEW p, Copies(p, ToSet(q))
    PROVE  /\ IsSeq(AsSpans(p)) /\ Source!NoneTwice(AsSpans(p))
           /\ \A i \in DOMAIN AsSpans(p) : Sourced(AsSpans(p)[i].spans)
  <1>1. ToSet(q) \subseteq ToSet(Spans) /\ \A r \in ToSet(q) : Offered(r.trace)
    BY DEF Rows
  <1>2. Copies(p, ToSet(Spans))
    BY <1>1, CopiesWider
  <1>3. ASSUME NEW r \in ToSet(p)
        PROVE  \E trace \in ToSet(store) : Fulfils(trace) /\ \E s \in ToSet(trace) : s.trace = r.trace
    <2>1. PICK s \in ToSet(q) : r.trace = s.trace
      BY DEF Copies, Like, Source!ReadsAs
    <2> QED
      BY <1>1, <2>1 DEF Offered
  <1> QED
    BY <1>2, <1>3, SpansSourced

\* Where a search for traces verifies all filters itself, any trace will do.
LEMMA AnyOffered ==
    ASSUME KnownCall, call.backend \in {"datadog", "newrelic", "sentry"}, call.op = "search_traces",
           NEW q, NEW id, Piece(q, id, ToSet(Spans)), q # <<>>
    PROVE  Offered(id)
  <1>1. \A trace : Fulfils(trace)
    BY NothingServed DEF Served
  <1>2. \E r \in ToSet(Spans) : r.trace = id
    BY PieceIsPart
  <1> QED
    BY <1>1, <1>2, TraceIsThere DEF Offered

LEMMA AllDecide ==
    ASSUME filters = AllFilters
    PROVE  Decides(filters)
  BY FilterIsThere DEF Decides

\* In a search for spans the filters with an operator that the backend can
\* express are left to the service.
LEMMA UnsupportedDecide ==
    ASSUME KnownCall, ValidQuery, filters = AllFilters, call.op = "search_spans",
           call.backend \in {"datadog", "newrelic", "sentry"},
           NEW left, left = Among(filters, {f \in ToSet(filters) : f.operator \notin CommonOperators})
    PROVE  Decides(left)
  <1> SUFFICES ASSUME NEW i \in DOMAIN AllFilters
               PROVE  \/ AllFilters[i] \in ToSet(left)
                      \/ Served(AllFilters[i])
                      \/ ~Expressible(AllFilters[i])
    BY DEF Decides
  <1>1. PICK X : X = {f \in ToSet(filters) : f.operator \notin CommonOperators}
    OBVIOUS
  <1>2. AllFilters[i] \in X => AllFilters[i] \in ToSet(left)
    BY <1>1, FiltersLeft
  <1>3. AllFilters[i].operator \notin CommonOperators => AllFilters[i] \in X
    BY <1>1, FilterIsThere
  <1>4. AllFilters[i].operator \in CommonOperators /\ Expressible(AllFilters[i]) => Served(AllFilters[i])
    BY DEF Served
  <1> QED
    BY <1>2, <1>3, <1>4

\* What a fetch of a search for traces makes of a piece of the trace.
LEMMA GroupedGoes ==
    ASSUME Bounded, Faithful, call.backend \in Hydrating, todo # <<>>,
           NEW q, NEW whole, Fetched(<<Grouped(q)>>, whole), q # <<>>,
           Piece(q, Head(todo), ToSet(Spans)), Offered(Head(todo))
    PROVE  Goes
  <1>1. PICK item : item = Grouped(q)
    OBVIOUS
  <1>2. item.spans = q
    BY <1>1, GroupedSpans
  <1>3. PICK traces : traces = <<item>>
    OBVIOUS
  <1>4. Fetched(traces, whole)
    BY <1>1, <1>3
  <1> QED
    BY <1>2, <1>3, <1>4, FetchedGoes

LEMMA FoundGoes ==
    ASSUME Faithful, step = "fetching", call.backend \in Hydrating,
           Return(First(Filtered(found, filters), Limit))
    PROVE  Goes
  BY FoundSourced, AllDecide, FilteredPromised, Returns

LEMMA DatadogFetchGoes ==
    ASSUME Bounded, Faithful, DatadogFetchTrace, call.backend = "datadog"
    PROVE  Goes
  <1>1. KnownCall /\ call.op = "search_traces" /\ call.backend \in Hydrating /\ todo # <<>>
    BY DEF Faithful, DatadogFetchTrace, Hydrating
  <1>2. ASSUME NEW rows \in DatadogTraceOf(Head(todo)), DatadogParsed(rows) # <<>>,
               NEW whole, Fetched(<<Grouped(DatadogParsed(rows))>>, whole)
        PROVE  Goes
    <2>1. PICK q : q = OfTrace(Spans, Head(todo))
      OBVIOUS
    <2>2. Piece(q, Head(todo), ToSet(Spans)) /\ IsSeq(q)
      BY <1>1, <2>1, TraceOfIs
    <2>3. PICK n \in 1 .. Len(q) : rows = First(q, n)
      BY <1>2, <2>1 DEF DatadogTraceOf
    <2>4. n \in Nat
      BY <2>2 DEF IsSeq
    <2>5. Piece(rows, Head(todo), ToSet(Spans))
      BY <2>2, <2>3, <2>4, FirstPicks, PiecePick
    <2>6. Piece(DatadogParsed(rows), Head(todo), ToSet(Spans))
      BY <2>5, DatadogCopies DEF Piece
    <2>7. Offered(Head(todo))
      BY <1>1, <1>2, <2>6, AnyOffered
    <2> QED
      BY <1>1, <1>2, <2>6, <2>7, GroupedGoes
  <1>3. CASE NotFetched
    BY <1>1, <1>3, NotFetchedGoes
  <1> QED
    BY <1>2, <1>3 DEF DatadogFetchTrace

LEMMA DatadogSpansGoes ==
    ASSUME Faithful, DatadogReturnSpans, call.backend = "datadog"
    PROVE  Goes
  <1>1. /\ KnownCall /\ IsSearch /\ ValidQuery /\ filters = AllFilters /\ step = "read"
        /\ call.op = "search_spans" /\ Rows(read)
    BY DEF Faithful, DatadogReturnSpans, IsSearch
  <1>2. Copies(read, ToSet(read))
    BY <1>1, RowsCopy DEF Rows
  <1>3. PICK p : p = DatadogParsed(read)
    OBVIOUS
  <1>4. Copies(p, ToSet(read))
    BY <1>2, <1>3, DatadogCopies
  <1>5. PICK items : items = AsSpans(p)
    OBVIOUS
  <1>6. IsSeq(items) /\ Source!NoneTwice(items) /\ \A i \in DOMAIN items : Sourced(items[i].spans)
    BY <1>1, <1>4, <1>5, ParsedSourced
  <1>7. PICK left : left = DatadogUnsupported
    OBVIOUS
  <1>8. Decides(left)
    <2>1. left = Among(filters, {f \in ToSet(filters) : f.operator \notin CommonOperators})
      BY <1>7, Zenon DEF DatadogUnsupported, DatadogSupported
    <2> QED
      BY <1>1, <2>1, UnsupportedDecide
  <1>9. Return(First(Filtered(items, left), Limit))
    BY <1>3, <1>5, <1>7 DEF DatadogReturnSpans
  <1> QED
    BY <1>1, <1>6, <1>8, <1>9, FilteredPromised, Returns

LEMMA DatadogTraceGoes ==
    ASSUME Faithful, DatadogReturnTrace, call.backend = "datadog"
    PROVE  Goes
  <1>1. KnownCall /\ step = "read" /\ call.op = "get_trace" /\ Rows(read)
    BY DEF Faithful, DatadogReturnTrace
  <1>2. Source!Once(read) /\ (\A r \in ToSet(read) : r.trace = call.subject)
        /\ IsSeq(read) /\ ToSet(read) \subseteq ToSet(Spans)
    BY <1>1 DEF Rows
  <1>3. Piece(read, call.subject, ToSet(Spans))
    BY <1>1, <1>2, RowsCopy, CopiesWider DEF Piece
  <1>4. PICK q : q = DatadogParsed(read)
    OBVIOUS
  <1>5. Piece(q, call.subject, ToSet(Spans))
    BY <1>3, <1>4, DatadogCopies DEF Piece
  <1>6. (q = <<>> /\ Raise) \/ (q # <<>> /\ Return(<<Grouped(q)>>))
    BY <1>4 DEF DatadogReturnTrace
  <1> QED
    BY <1>1, <1>5, <1>6, TracePromised, Raises, Returns

LEMMA DatadogGoes ==
    ASSUME Bounded, Faithful, DatadogNext, call.backend = "datadog"
    PROVE  Goes
  <1> KnownCall /\ call.backend \in Hydrating /\ call.backend \in Paging
    BY DEF Faithful, Hydrating, Paging
  <1>1. CASE DatadogStart
    BY <1>1, AskGoes DEF DatadogStart
  <1>2. CASE Reject
    BY <1>2, Rejects
  <1>3. CASE DatadogReadPage
    <2>1. step = "paging" /\ DatadogMorePages /\ Read(DatadogHits, DatadogPageLimit)
      BY <1>3 DEF DatadogReadPage
    <2>2. Rows(DatadogHits)
      BY <2>1, DatadogRows DEF Faithful
    <2> QED
      BY <2>1, <2>2, DatadogPageFits, ReadGoes
  <1>4. CASE DatadogEndOfPages
    BY <1>4, StopGoes DEF DatadogEndOfPages
  <1>5. CASE DatadogReadFails
    BY <1>5, Raises, Returns, HealthPromised DEF DatadogReadFails
  <1>6. CASE DatadogFindTraces
    <2>1. IsSearch /\ step = "read" /\ FetchTraces(First(TraceIds(read), MaxHydrate))
      BY <1>6 DEF DatadogFindTraces, FetchTraces, IsSearch
    <2>2. IsSeq(read)
      BY DEF Bounded, Reading
    <2> QED
      BY <2>1, <2>2, IdsFit, FetchTracesGoes
  <1>7. CASE DatadogFetchTrace
    BY <1>7, DatadogFetchGoes
  <1>8. CASE DatadogReturnTraces
    BY <1>8, FoundGoes DEF DatadogReturnTraces, DatadogRechecked
  <1>9. CASE DatadogReturnSpans
    BY <1>9, DatadogSpansGoes
  <1>10. CASE DatadogReturnTrace
    BY <1>10, DatadogTraceGoes
  <1>11. CASE DatadogReturnServices \/ DatadogReturnOperations
    <2>1. step = "read"
      BY <1>11 DEF DatadogReturnServices, DatadogReturnOperations
    <2>2. Rows(read)
      BY <2>1 DEF Faithful
    <2>3. CASE DatadogReturnServices
      <3>1. {s.service : s \in ToSet(read)} \subseteq {s.service : s \in ToSet(Spans)}
        BY <2>2 DEF Rows
      <3> QED
        BY <2>1, <2>3, <3>1, ServicesPromised, Returns DEF DatadogReturnServices
    <2>4. CASE DatadogReturnOperations
      <3>1. {s.operation : s \in ToSet(read)}
            \subseteq {s.operation : s \in {t \in ToSet(Spans) : t.service = call.subject}}
        BY <2>2, <2>4 DEF Rows, DatadogReturnOperations
      <3> QED
        BY <2>1, <2>4, <3>1, OperationsPromised, Returns DEF DatadogReturnOperations
    <2> QED
      BY <1>11, <2>3, <2>4
  <1>12. CASE DatadogReturnHealth
    BY <1>12, HealthPromised, Returns DEF DatadogReturnHealth
  <1> QED
    BY <1>1, <1>2, <1>3, <1>4, <1>5, <1>6, <1>7, <1>8, <1>9, <1>10, <1>11, <1>12 DEF DatadogNext

\* What a search for spans makes of rows that are all as they are, or not there.
LEMMA SoundSpansGoes ==
    ASSUME Faithful, step = "read", call.op = "search_spans",
           call.backend \in {"newrelic", "sentry"}, NEW left,
           left = Among(filters, {f \in ToSet(filters) : f.operator \notin CommonOperators}),
           Return(First(Filtered(AsSpans(Sound(read)), left), Limit))
    PROVE  Goes
  <1>1. KnownCall /\ IsSearch /\ ValidQuery /\ filters = AllFilters /\ Rows(read)
    BY DEF Faithful, IsSearch
  <1>2. Copies(read, ToSet(read))
    BY <1>1, RowsCopy DEF Rows
  <1>3. PICK p : p = Sound(read)
    OBVIOUS
  <1>4. Copies(p, ToSet(read))
    BY <1>2, <1>3, SoundCopies
  <1>5. PICK items : items = AsSpans(p)
    OBVIOUS
  <1>6. IsSeq(items) /\ Source!NoneTwice(items) /\ \A i \in DOMAIN items : Sourced(items[i].spans)
    BY <1>1, <1>4, <1>5, ParsedSourced
  <1>7. Decides(left)
    BY <1>1, UnsupportedDecide
  <1>8. Return(First(Filtered(items, left), Limit))
    BY <1>3, <1>5
  <1> QED
    BY <1>1, <1>6, <1>7, <1>8, FilteredPromised, Returns

\* A trace that was looked up is not empty once it is overlaid.
LEMMA OverlaidIs ==
    ASSUME NEW q, NEW id, NEW X, Piece(q, id, X), q # <<>>, NEW rows
    PROVE  Piece(Enriched(q, rows), id, X) /\ Enriched(q, rows) # <<>>
  <1>1. Copies(q, X) /\ Len(q) \in Nat /\ Len(q) # 0
    BY DEF Piece, Copies, IsSeq
  <1>2. PICK t : t = Enriched(q, rows)
    OBVIOUS
  <1>3. Piece(t, id, X) /\ Len(t) = Len(q)
    BY <1>1, <1>2, EnrichedCopies
  <1>4. t # <<>>
    BY <1>1, <1>3, NoneIs
  <1> QED
    BY <1>2, <1>3, <1>4

LEMMA NewRelicFetchGoes ==
    ASSUME Bounded, Faithful, NewRelicFetchTrace, call.backend = "newrelic"
    PROVE  Goes
  <1>1. KnownCall /\ call.op = "search_traces" /\ call.backend \in Hydrating /\ todo # <<>>
    BY DEF Faithful, NewRelicFetchTrace, Hydrating
  <1>2. PICK q : q = NewRelicTraceOf(Head(todo))
    OBVIOUS
  <1>3. Piece(q, Head(todo), ToSet(Spans))
    BY <1>1, <1>2, TraceOfIs, NewRelicCopies DEF NewRelicTraceOf, Piece
  <1>4. ASSUME q # <<>>, NEW whole, Fetched(<<Grouped(NewRelicOverlaid(Head(todo)))>>, whole)
        PROVE  Goes
    <2>1. PICK p : p = NewRelicOverlaid(Head(todo))
      OBVIOUS
    <2>2. Piece(p, Head(todo), ToSet(Spans)) /\ p # <<>>
      BY <1>2, <1>3, <1>4, <2>1, OverlaidIs DEF NewRelicOverlaid
    <2>3. Offered(Head(todo))
      BY <1>1, <2>2, AnyOffered
    <2>4. Fetched(<<Grouped(p)>>, whole)
      BY <1>4, <2>1
    <2> QED
      BY <1>1, <2>2, <2>3, <2>4, GroupedGoes
  <1>5. CASE NotFetched
    BY <1>1, <1>5, NotFetchedGoes
  <1> QED
    BY <1>2, <1>4, <1>5 DEF NewRelicFetchTrace

LEMMA NewRelicTraceGoes ==
    ASSUME Faithful, NewRelicReturnTrace, call.backend = "newrelic"
    PROVE  Goes
  <1>1. KnownCall /\ step = "paging" /\ call.op = "get_trace"
    BY DEF Faithful, NewRelicReturnTrace
  <1>2. PICK q : q = NewRelicTraceOf(call.subject)
    OBVIOUS
  <1>3. Piece(q, call.subject, ToSet(Spans))
    BY <1>1, <1>2, TraceOfIs, NewRelicCopies DEF NewRelicTraceOf, Piece
  <1>4. (q = <<>> /\ Raise) \/ (q # <<>> /\ Return(<<Grouped(q)>>))
    BY <1>2 DEF NewRelicReturnTrace
  <1> QED
    BY <1>1, <1>3, <1>4, TracePromised, Raises, Returns

LEMMA NewRelicGoes ==
    ASSUME Bounded, Faithful, NewRelicNext, call.backend = "newrelic"
    PROVE  Goes
  <1> KnownCall /\ call.backend \in Hydrating /\ call.backend \notin Capped
    BY DEF Faithful, Hydrating, Capped
  <1>1. CASE NewRelicStart
    BY <1>1, AskGoes DEF NewRelicStart
  <1>2. CASE Reject
    BY <1>2, Rejects
  <1>3. CASE NewRelicSearch
    <2>1. step = "paging" /\ IsSearch /\ ReadOnce(NewRelicHits, NewRelicRowLimit)
      BY <1>3 DEF NewRelicSearch
    <2>2. Rows(NewRelicHits)
      BY <2>1, NewRelicRows DEF Faithful
    <2> QED
      BY <2>1, <2>2, NewRelicRowsFit, ReadOnceGoes
  <1>4. CASE NewRelicRequestFails
    BY <1>4, Raises, Returns, HealthPromised DEF NewRelicRequestFails
  <1>5. CASE NewRelicFindTraces
    <2>1. IsSearch /\ step = "read" /\ FetchTraces(First(TraceIds(read), MaxHydrate))
      BY <1>5 DEF NewRelicFindTraces, FetchTraces, IsSearch
    <2>2. IsSeq(read)
      BY DEF Bounded, Reading
    <2> QED
      BY <2>1, <2>2, IdsFit, FetchTracesGoes
  <1>6. CASE NewRelicFetchTrace
    BY <1>6, NewRelicFetchGoes
  <1>7. CASE NewRelicReturnTraces
    BY <1>7, FoundGoes DEF NewRelicReturnTraces
  <1>8. CASE NewRelicReturnSpans
    <2>1. NewRelicUnsupported = Among(filters, {f \in ToSet(filters) : f.operator \notin CommonOperators})
      BY Zenon DEF NewRelicUnsupported, NewRelicSupported
    <2> QED
      BY <1>8, <2>1, SoundSpansGoes DEF NewRelicReturnSpans, NewRelicParsed
  <1>9. CASE NewRelicReturnTrace
    BY <1>9, NewRelicTraceGoes
  <1>10. ASSUME NEW names, NEW some \in NewRelicSomeOf(names)
         PROVE  some \subseteq names
    BY <1>10 DEF NewRelicSomeOf
  <1>11. CASE NewRelicReturnServices
    <2>1. PICK some \in NewRelicSomeOf({s.service : s \in ToSet(Spans)}) : Return(some)
      BY <1>11 DEF NewRelicReturnServices
    <2> QED
      BY <1>10, <1>11, <2>1, ServicesPromised, Returns DEF NewRelicReturnServices
  <1>12. CASE NewRelicReturnOperations
    <2>1. PICK some \in NewRelicSomeOf({s.operation : s \in {t \in ToSet(Spans) :
                                                              t.service = call.subject}}) :
             Return(some)
      BY <1>12 DEF NewRelicReturnOperations
    <2> QED
      BY <1>10, <1>12, <2>1, OperationsPromised, Returns DEF NewRelicReturnOperations
  <1>13. CASE NewRelicReturnHealth
    BY <1>13, HealthPromised, Returns DEF NewRelicReturnHealth
  <1> QED
    BY <1>1, <1>2, <1>3, <1>4, <1>5, <1>6, <1>7, <1>8, <1>9, <1>11, <1>12, <1>13 DEF NewRelicNext

\* A trace of the trace endpoint.
LEMMA SentryTraceIs ==
    ASSUME KnownCall, NEW id
    PROVE  Piece(SentryTraceOf(id), id, ToSet(Spans))
  <1>1. Piece(<<>>, id, ToSet(Spans))
    BY NoneIs DEF Piece, Copies
  <1>2. Piece(SentryParsedItems(OfTrace(Spans, id)), id, ToSet(Spans))
    BY TraceOfIs, SentryCopies
  <1> QED
    BY <1>1, <1>2 DEF SentryTraceOf

LEMMA SentryFetchGoes ==
    ASSUME Bounded, Faithful, SentryFetchTrace, call.backend = "sentry"
    PROVE  Goes
  <1>1. KnownCall /\ call.op = "search_traces" /\ call.backend \in Hydrating /\ todo # <<>>
    BY DEF Faithful, SentryFetchTrace, Hydrating
  <1>2. PICK q : q = SentryTraceOf(Head(todo))
    OBVIOUS
  <1>3. Piece(q, Head(todo), ToSet(Spans))
    BY <1>1, <1>2, SentryTraceIs
  <1>4. ASSUME q # <<>>, NEW whole, Fetched(<<Grouped(SentryOverlaid(Head(todo)))>>, whole)
        PROVE  Goes
    <2>1. PICK p : p = SentryOverlaid(Head(todo))
      OBVIOUS
    <2>2. Piece(p, Head(todo), ToSet(Spans)) /\ p # <<>>
      BY <1>2, <1>3, <1>4, <2>1, OverlaidIs DEF SentryOverlaid
    <2>3. Offered(Head(todo))
      BY <1>1, <2>2, AnyOffered
    <2>4. Fetched(<<Grouped(p)>>, whole)
      BY <1>4, <2>1
    <2> QED
      BY <1>1, <2>2, <2>3, <2>4, GroupedGoes
  <1>5. CASE NotFetched
    BY <1>1, <1>5, NotFetchedGoes
  <1> QED
    BY <1>2, <1>4, <1>5 DEF SentryFetchTrace

LEMMA SentryTraceGoes ==
    ASSUME Faithful, SentryReturnTrace, call.backend = "sentry"
    PROVE  Goes
  <1>1. KnownCall /\ step = "paging" /\ call.op = "get_trace"
    BY DEF Faithful, SentryReturnTrace
  <1>2. PICK q : q = SentryTraceOf(call.subject)
    OBVIOUS
  <1>3. Piece(q, call.subject, ToSet(Spans))
    BY <1>1, <1>2, SentryTraceIs
  <1>4. (q = <<>> /\ Raise) \/ (q # <<>> /\ Return(<<Grouped(q)>>))
    BY <1>2 DEF SentryReturnTrace
  <1> QED
    BY <1>1, <1>3, <1>4, TracePromised, Raises, Returns

\* Spans are sampled.
LEMMA SentrySampleGoes ==
    ASSUME Bounded, Faithful, SentrySample, call.backend = "sentry"
    PROVE  Goes
  <1>1. /\ UNCHANGED <<store, call, filters, todo, found, answer>>
        /\ step = "values" /\ step' = "paging" /\ read' = <<>>
    BY DEF SentrySample
  <1>2. answer = {} /\ (IsSearch => ValidQuery /\ filters = AllFilters)
    BY <1>1 DEF Faithful
  <1>3. Faithful'
    BY <1>1, <1>2, RowsNone, Continues
  <1> QED
    BY <1>1, <1>2, <1>3 DEF Goes

LEMMA SentryGoes ==
    ASSUME Bounded, Faithful, SentryNext, call.backend = "sentry"
    PROVE  Goes
  <1> KnownCall /\ call.backend \in Hydrating /\ call.backend \in Paging
    BY DEF Faithful, Hydrating, Paging
  <1>1. CASE SentryStart
    <2>1. Ask("values") \/ Ask("paging")
      BY <1>1 DEF SentryStart
    <2> QED
      BY <2>1, AskGoes
  <1>2. CASE Reject
    BY <1>2, Rejects
  <1>3. CASE SentryReadPage \/ SentryReadValues
    <2>1. /\ step \in {"paging", "values"} /\ SentryMorePages
          /\ Read(SentryHits, SentryPageLimit)
      BY <1>3 DEF SentryReadPage, SentryReadValues
    <2>2. Rows(SentryHits)
      BY <2>1, SentryRows DEF Faithful
    <2> QED
      BY <2>1, <2>2, SentryPageFits, ReadGoes
  <1>4. CASE SentryEndOfPages \/ SentryEndOfValues
    BY <1>4, StopGoes DEF SentryEndOfPages, SentryEndOfValues
  <1>5. CASE SentryRequestFails
    BY <1>5, Raises, Returns, HealthPromised DEF SentryRequestFails
  <1>6. CASE SentrySample
    BY <1>6, SentrySampleGoes
  <1>7. CASE SentryFindTraces
    <2>1. IsSearch /\ step = "read" /\ FetchTraces(First(TraceIds(read), MaxHydrate))
      BY <1>7 DEF SentryFindTraces, FetchTraces, IsSearch
    <2>2. IsSeq(read)
      BY DEF Bounded, Reading
    <2> QED
      BY <2>1, <2>2, IdsFit, FetchTracesGoes
  <1>8. CASE SentryFetchTrace
    BY <1>8, SentryFetchGoes
  <1>9. CASE SentryReturnTraces
    BY <1>9, FoundGoes DEF SentryReturnTraces
  <1>10. CASE SentryReturnSpans
    <2>1. SentryUnsupported = Among(filters, {f \in ToSet(filters) : f.operator \notin CommonOperators})
      BY Zenon DEF SentryUnsupported, SentrySupported
    <2> QED
      BY <1>10, <2>1, SoundSpansGoes DEF SentryReturnSpans, SentryParsedRows
  <1>11. CASE SentryReturnTrace
    BY <1>11, SentryTraceGoes
  <1>12. CASE SentryReturnServices \/ SentryReturnOperations
    <2>1. step = "read"
      BY <1>12 DEF SentryReturnServices, SentryReturnOperations
    <2>2. Rows(read)
      BY <2>1 DEF Faithful
    <2>3. CASE SentryReturnServices
      <3>1. {s.service : s \in ToSet(read)} \subseteq {s.service : s \in ToSet(Spans)}
        BY <2>2 DEF Rows
      <3> QED
        BY <2>1, <2>3, <3>1, ServicesPromised, Returns DEF SentryReturnServices
    <2>4. CASE SentryReturnOperations
      <3>1. {s.operation : s \in ToSet(read)}
            \subseteq {s.operation : s \in {t \in ToSet(Spans) : t.service = call.subject}}
        BY <2>2, <2>4 DEF Rows, SentryReturnOperations
      <3> QED
        BY <2>1, <2>4, <3>1, OperationsPromised, Returns DEF SentryReturnOperations
    <2> QED
      BY <1>12, <2>3, <2>4
  <1>13. CASE SentryReturnHealth
    BY <1>13, HealthPromised, Returns DEF SentryReturnHealth
  <1> QED
    BY <1>1, <1>2, <1>3, <1>4, <1>5, <1>6, <1>7, <1>8, <1>9, <1>10, <1>11, <1>12, <1>13 DEF SentryNext

\* Lists of spans, none of which is in them twice, on end.
LEMMA CopiesFlat ==
    ASSUME NEW h, IsSeqs(h), NEW X, \A i \in DOMAIN h : Copies(h[i], X),
           \A i, j \in DOMAIN h : \A a \in DOMAIN h[i], b \in DOMAIN h[j] :
               Source!Same(h[i][a], h[j][b]) => i = j /\ a = b
    PROVE  Copies(FlattenSeq(h), X)
  <1>1. PICK t : t = FlattenSeq(h)
    OBVIOUS
  <1>2. IsSeq(t) /\ FromOnce(t, h)
    BY <1>1, FlattenIs
  <1>3. PICK a, b :
           /\ \A k \in DOMAIN t : a[k] \in DOMAIN h /\ b[k] \in DOMAIN h[a[k]] /\ t[k] = h[a[k]][b[k]]
           /\ \A j, k \in DOMAIN t : a[j] = a[k] /\ b[j] = b[k] => j = k
    BY <1>2 DEF FromOnce
  <1>4. Source!Once(t)
    BY <1>3 DEF Source!Once
  <1>5. \A r \in ToSet(t) : \E s \in X : Like(r, s)
    <2> SUFFICES ASSUME NEW k \in DOMAIN t
                 PROVE  \E s \in X : Like(t[k], s)
      BY DEF ToSet
    <2>1. a[k] \in DOMAIN h /\ t[k] \in ToSet(h[a[k]])
      BY <1>3 DEF ToSet
    <2> QED
      BY <2>1 DEF Copies
  <1> QED
    BY <1>1, <1>2, <1>4, <1>5 DEF Copies

\* The spans of items that were fetched, as items of a search for spans.
LEMMA SpansOfItems ==
    ASSUME KnownCall, NEW f, IsSeq(f), Source!NoneTwice(f),
           \A i \in DOMAIN f : \E id : Piece(f[i].spans, id, ToSet(Spans)) /\ Offered(id)
    PROVE  LET t == FlattenSeq([i \in DOMAIN f |-> AsSpans(f[i].spans)])
           IN  /\ IsSeq(t) /\ Source!NoneTwice(t)
               /\ \A i \in DOMAIN t : Sourced(t[i].spans)
  <1>1. PICK h : h = [i \in DOMAIN f |-> AsSpans(f[i].spans)]
    OBVIOUS
  <1>2. IsSeq(h) /\ DOMAIN h = DOMAIN f
    <2>1. h = [i \in DOMAIN f |-> h[i]]
      BY <1>1
    <2> QED
      BY <2>1, MapIsSeq
  <1>3. ASSUME NEW i \in DOMAIN f
        PROVE  /\ IsSeq(h[i]) /\ DOMAIN h[i] = DOMAIN f[i].spans
               /\ \A j \in DOMAIN h[i] : Sourced(h[i][j].spans) /\ h[i][j].spans = <<f[i].spans[j]>>
    <2>1. PICK q : q = f[i].spans
      OBVIOUS
    <2>2. PICK id : Piece(q, id, ToSet(Spans)) /\ Offered(id)
      BY <2>1
    <2>3. h[i] = AsSpans(q)
      BY <1>1, <2>1
    <2>4. Copies(q, ToSet(Spans)) /\ IsSeq(q) /\ \A r \in ToSet(q) : r.trace = id
      BY <2>2 DEF Piece, Copies
    <2>5. IsSeq(h[i]) /\ \A j \in DOMAIN h[i] : Sourced(h[i][j].spans)
      BY <2>2, <2>3, <2>4, SpansSourced DEF Offered
    <2>6. DOMAIN h[i] = DOMAIN q /\ \A j \in DOMAIN q : h[i][j] = OfSpan(q[j])
      BY <2>3, <2>4, AsSpansAre
    <2>7. \A r : OfSpan(r).spans = <<r>>
      BY DEF OfSpan
    <2>8. \A j \in DOMAIN q : h[i][j].spans = <<q[j]>>
      BY <2>6, <2>7
    <2> QED
      BY <2>1, <2>5, <2>6, <2>8
  <1>4. IsSeqs(h)
    BY <1>2, <1>3 DEF IsSeqs
  <1>5. PICK t : t = FlattenSeq(h)
    OBVIOUS
  <1>6. IsSeq(t) /\ FromOnce(t, h)
    BY <1>4, <1>5, FlattenIs
  <1>7. PICK a, b :
           /\ \A k \in DOMAIN t : a[k] \in DOMAIN h /\ b[k] \in DOMAIN h[a[k]] /\ t[k] = h[a[k]][b[k]]
           /\ \A j, k \in DOMAIN t : a[j] = a[k] /\ b[j] = b[k] => j = k
    BY <1>6 DEF FromOnce
  <1>8. \A k \in DOMAIN t : /\ a[k] \in DOMAIN f /\ b[k] \in DOMAIN f[a[k]].spans
                            /\ Sourced(t[k].spans) /\ t[k].spans = <<f[a[k]].spans[b[k]]>>
    BY <1>2, <1>3, <1>7
  <1>9. Source!NoneTwice(t)
    <2> SUFFICES ASSUME NEW j \in DOMAIN t, NEW k \in DOMAIN t,
                        NEW m \in DOMAIN t[j].spans, NEW n \in DOMAIN t[k].spans,
                        Source!Same(t[j].spans[m], t[k].spans[n])
                 PROVE  j = k /\ m = n
      BY DEF Source!NoneTwice
    <2>1. PICK x, y : x = f[a[j]].spans[b[j]] /\ y = f[a[k]].spans[b[k]]
      OBVIOUS
    <2>2. t[j].spans = <<x>> /\ t[k].spans = <<y>>
      BY <1>8, <2>1
    <2>3. m = 1 /\ n = 1 /\ t[j].spans[1] = x /\ t[k].spans[1] = y
      BY <2>2, OneIs
    <2>4. Source!Same(x, y)
      BY <2>3
    <2>5. a[j] = a[k] /\ b[j] = b[k]
      BY <1>8, <2>1, <2>4 DEF Source!NoneTwice
    <2> QED
      BY <1>7, <2>3, <2>5
  <1> QED
    BY <1>1, <1>5, <1>6, <1>8, <1>9

\* The traces that X-Ray makes of the segments it has got.
LEMMA HydratedIs ==
    ASSUME Bounded, Faithful, step = "fetching", call.backend = "xray"
    PROVE  LET h == XRayHydrated
           IN  /\ IsSeqs(h)
               /\ \A i \in DOMAIN h : h[i] # <<>> /\ \E id : Piece(h[i], id, ToSet(Spans))
               /\ \A i, j \in DOMAIN h : \A id :
                    Piece(h[i], id, ToSet(Spans)) /\ Piece(h[j], id, ToSet(Spans)) => i = j
               /\ call.op = "get_trace" =>
                    \A i \in DOMAIN h : Piece(h[i], call.subject, ToSet(Spans))
  <1>1. KnownCall /\ Segments(found) /\ IsSeq(read)
    BY DEF Faithful, Bounded, Reading
  <1>2. PICK ids : ids = IF call.op = "get_trace" THEN <<call.subject>> ELSE TraceIds(read)
    OBVIOUS
  <1>3. IsSeq(ids) /\ Distinct(ids)
        /\ (call.op = "get_trace" => \A i \in DOMAIN ids : ids[i] = call.subject)
    BY <1>1, <1>2, IdsOnce, OneIs
  <1>4. PICK all : all = [i \in DOMAIN ids |-> XRayParsed(OfTrace(found, ids[i]))]
    OBVIOUS
  <1>5. PICK X : X = ToSet(all) \ {<<>>}
    OBVIOUS
  <1>6. PICK h : h = XRayHydrated
    OBVIOUS
  <1>7. h = Among(all, X)
    BY <1>2, <1>4, <1>5, <1>6, Zenon DEF XRayHydrated
  <1>8. IsSeq(all) /\ DOMAIN all = DOMAIN ids
    <2>1. all = [i \in DOMAIN ids |-> all[i]]
      BY <1>4
    <2> QED
      BY <1>3, <2>1, MapIsSeq
  <1>9. \A i \in DOMAIN ids : Piece(all[i], ids[i], ToSet(Spans))
    <2> SUFFICES ASSUME NEW i \in DOMAIN ids
                 PROVE  Piece(all[i], ids[i], ToSet(Spans))
      OBVIOUS
    <2>1. PICK q : q = OfTrace(found, ids[i])
      OBVIOUS
    <2>2. Piece(q, ids[i], ToSet(Spans))
      BY <1>1, <2>1, SpansCopies DEF Segments
    <2>3. all[i] = XRayParsed(q)
      BY <1>4, <2>1
    <2> QED
      BY <2>2, <2>3, XRayCopies
  <1>10. Picks(h, all) /\ ToSet(h) = ToSet(all) \cap X
    BY <1>7, <1>8, AmongPicks
  <1>11. PICK o \in [DOMAIN h -> DOMAIN all] :
            /\ \A k \in DOMAIN h : h[k] = all[o[k]]
            /\ \A j, k \in DOMAIN h : o[j] = o[k] => j = k
    BY <1>10 DEF Picks
  <1>12. ASSUME NEW k \in DOMAIN h
         PROVE  h[k] # <<>> /\ o[k] \in DOMAIN ids /\ Piece(h[k], ids[o[k]], ToSet(Spans))
    <2>1. h[k] \in ToSet(h)
      BY DEF ToSet
    <2> QED
      BY <1>5, <1>8, <1>9, <1>10, <1>11, <2>1
  <1>13. IsSeqs(h)
    BY <1>10, <1>12 DEF IsSeqs, Picks, Piece, Copies
  <1>14. ASSUME NEW j \in DOMAIN h, NEW k \in DOMAIN h, NEW id,
                Piece(h[j], id, ToSet(Spans)), Piece(h[k], id, ToSet(Spans))
         PROVE  j = k
    <2>1. ids[o[j]] = id /\ ids[o[k]] = id
      <3>1. ASSUME NEW q, NEW jd, q # <<>>, Piece(q, id, ToSet(Spans)), Piece(q, jd, ToSet(Spans))
            PROVE  jd = id
        <4>1. 1 \in DOMAIN q
          BY <3>1 DEF Piece, Copies, IsSeq
        <4>2. q[1] \in ToSet(q)
          BY <4>1 DEF ToSet
        <4> QED
          BY <3>1, <4>2 DEF Piece
      <3> QED
        BY <1>12, <1>14, <3>1
    <2> QED
      BY <1>3, <1>11, <1>12, <2>1 DEF Distinct
  <1>15. call.op = "get_trace" => \A k \in DOMAIN h : Piece(h[k], call.subject, ToSet(Spans))
    BY <1>3, <1>12
  <1> QED
    BY <1>6, <1>12, <1>13, <1>14, <1>15

\* Their spans.
LEMMA HydratedSpans ==
    ASSUME Bounded, Faithful, step = "fetching", call.backend = "xray"
    PROVE  Copies(FlattenSeq(XRayHydrated), ToSet(Spans))
  <1>1. PICK h : h = XRayHydrated
    OBVIOUS
  <1>2. /\ IsSeqs(h)
        /\ \A i \in DOMAIN h : \E id : Piece(h[i], id, ToSet(Spans))
        /\ \A i, j \in DOMAIN h : \A id :
             Piece(h[i], id, ToSet(Spans)) /\ Piece(h[j], id, ToSet(Spans)) => i = j
    BY <1>1, HydratedIs
  <1>3. ASSUME NEW i \in DOMAIN h, NEW j \in DOMAIN h, NEW a \in DOMAIN h[i], NEW b \in DOMAIN h[j],
               Source!Same(h[i][a], h[j][b])
        PROVE  i = j /\ a = b
    <2>1. PICK id : Piece(h[i], id, ToSet(Spans))
      BY <1>2
    <2>2. PICK jd : Piece(h[j], jd, ToSet(Spans))
      BY <1>2
    <2>3. h[i][a].trace = id /\ h[j][b].trace = jd
      BY <2>1, <2>2 DEF Piece, ToSet
    <2>4. id = jd
      BY <1>3, <2>3 DEF Source!Same
    <2>5. i = j
      BY <1>2, <2>1, <2>2, <2>4
    <2>6. a = b
      BY <1>3, <2>1, <2>5 DEF Piece, Copies, Source!Once
    <2> QED
      BY <2>5, <2>6
  <1>4. \A i \in DOMAIN h : Copies(h[i], ToSet(Spans))
    BY <1>2 DEF Piece
  <1>5. Copies(FlattenSeq(h), ToSet(Spans))
    BY <1>2, <1>3, <1>4, CopiesFlat
  <1> QED
    BY <1>1, <1>5

\* X-Ray applies all filters itself.
LEMMA XRayOffers ==
    ASSUME KnownCall, call.backend = "xray", NEW r \in ToSet(Spans)
    PROVE  Offered(r.trace)
  <1>1. \A trace : Fulfils(trace)
    BY NothingServed DEF Served
  <1> QED
    BY <1>1, TraceIsThere DEF Offered

LEMMA XRayTracesGoes ==
    ASSUME Bounded, Faithful, XRayReturnTraces, call.backend = "xray"
    PROVE  Goes
  <1>1. /\ KnownCall /\ IsSearch /\ ValidQuery /\ filters = AllFilters /\ step = "fetching"
    BY DEF Faithful, XRayReturnTraces, XRayAnswered, IsSearch
  <1>2. PICK h : h = XRayHydrated
    OBVIOUS
  <1>3. /\ IsSeqs(h)
        /\ \A i \in DOMAIN h : h[i] # <<>> /\ \E id : Piece(h[i], id, ToSet(Spans))
        /\ \A i, j \in DOMAIN h : \A id :
             Piece(h[i], id, ToSet(Spans)) /\ Piece(h[j], id, ToSet(Spans)) => i = j
    BY <1>1, <1>2, HydratedIs
  <1>4. PICK items : items = [i \in DOMAIN h |-> Grouped(h[i])]
    OBVIOUS
  <1>5. IsSeq(items) /\ DOMAIN items = DOMAIN h
    <2>1. items = [i \in DOMAIN h |-> items[i]]
      BY <1>4
    <2> QED
      BY <1>3, <2>1, MapIsSeq DEF IsSeqs
  <1>6. \A i \in DOMAIN h : items[i].spans = h[i]
    BY <1>4, GroupedSpans
  <1>7. Source!NoneTwice(items)
    BY <1>3, <1>5, <1>6, PiecesApart
  <1>8. \A i \in DOMAIN items : Sourced(items[i].spans)
    <2> SUFFICES ASSUME NEW i \in DOMAIN h
                 PROVE  Sourced(h[i])
      BY <1>5, <1>6
    <2>1. PICK id : Piece(h[i], id, ToSet(Spans))
      BY <1>3
    <2>2. Offered(id)
      BY <1>1, <1>3, <2>1, PieceIsPart, XRayOffers
    <2> QED
      BY <1>1, <1>3, <2>1, <2>2, PieceSourced DEF Offered
  <1>9. Return(First(Filtered(items, filters), Limit))
    BY <1>2, <1>4 DEF XRayReturnTraces
  <1> QED
    BY <1>1, <1>5, <1>7, <1>8, <1>9, AllDecide, FilteredPromised, Returns

LEMMA XRaySpansGoes ==
    ASSUME Bounded, Faithful, XRayReturnSpans, call.backend = "xray"
    PROVE  Goes
  <1>1. /\ KnownCall /\ IsSearch /\ ValidQuery /\ filters = AllFilters /\ step = "fetching"
    BY DEF Faithful, XRayReturnSpans, XRayAnswered, IsSearch
  <1>2. PICK q : q = FlattenSeq(XRayHydrated)
    OBVIOUS
  <1>3. Copies(q, ToSet(Spans))
    BY <1>1, <1>2, HydratedSpans
  <1>4. ASSUME NEW r \in ToSet(q)
        PROVE  \E trace \in ToSet(store) : Fulfils(trace) /\ \E s \in ToSet(trace) : s.trace = r.trace
    <2>1. PICK s \in ToSet(Spans) : r.trace = s.trace
      BY <1>3 DEF Copies, Like, Source!ReadsAs
    <2> QED
      BY <1>1, <2>1, XRayOffers DEF Offered
  <1>5. PICK items : items = AsSpans(q)
    OBVIOUS
  <1>6. IsSeq(items) /\ Source!NoneTwice(items) /\ \A i \in DOMAIN items : Sourced(items[i].spans)
    BY <1>1, <1>3, <1>4, <1>5, SpansSourced
  <1>7. Return(First(Filtered(items, filters), Limit))
    BY <1>2, <1>5 DEF XRayReturnSpans
  <1> QED
    BY <1>1, <1>6, <1>7, AllDecide, FilteredPromised, Returns

LEMMA XRayTraceGoes ==
    ASSUME Bounded, Faithful, XRayReturnTrace, call.backend = "xray"
    PROVE  Goes
  <1>1. KnownCall /\ call.op = "get_trace" /\ step = "fetching"
    BY DEF Faithful, XRayReturnTrace, XRayAnswered
  <1>2. PICK h : h = XRayHydrated
    OBVIOUS
  <1>3. /\ IsSeqs(h)
        /\ \A i \in DOMAIN h : h[i] # <<>> /\ Piece(h[i], call.subject, ToSet(Spans))
    BY <1>1, <1>2, HydratedIs
  <1>4. (h = <<>> /\ Raise) \/ (h # <<>> /\ Return(<<Grouped(h[1])>>))
    BY <1>2 DEF XRayReturnTrace
  <1>5. h # <<>> => 1 \in DOMAIN h
    BY <1>3 DEF IsSeqs, IsSeq
  <1> QED
    BY <1>1, <1>3, <1>4, <1>5, TracePromised, Raises, Returns

\* The names that the spans of the traces bear.
LEMMA HydratedNames ==
    ASSUME Bounded, Faithful, step = "fetching", call.backend = "xray"
    PROVE  \A r \in ToSet(FlattenSeq(XRayHydrated)) :
               \E s \in ToSet(Spans) : r.service = s.service /\ r.operation = s.operation
  BY HydratedSpans DEF Copies, Like, Source!ReadsAs

LEMMA XRayNamesGoes ==
    ASSUME Bounded, Faithful, XRayReturnServices \/ XRayReturnOperations, call.backend = "xray"
    PROVE  Goes
  <1>1. step = "fetching"
    BY DEF XRayReturnServices, XRayReturnOperations, XRayAnswered
  <1>2. PICK q : q = FlattenSeq(XRayHydrated)
    OBVIOUS
  <1>3. \A r \in ToSet(q) : \E s \in ToSet(Spans) : r.service = s.service /\ r.operation = s.operation
    BY <1>1, <1>2, HydratedNames
  <1>4. CASE XRayReturnServices
    <2>1. {s.service : s \in ToSet(q)} \subseteq {s.service : s \in ToSet(Spans)}
      BY <1>3
    <2>2. call.op = "list_services" /\ Return({s.service : s \in ToSet(q)})
      BY <1>2, <1>4 DEF XRayReturnServices, XRayAnswered
    <2> QED
      BY <1>1, <2>1, <2>2, ServicesPromised, Returns
  <1>5. CASE XRayReturnOperations
    <2>1. {s.operation : s \in {t \in ToSet(q) : t.service = call.subject}}
          \subseteq {s.operation : s \in {t \in ToSet(Spans) : t.service = call.subject}}
      BY <1>3
    <2>2. /\ call.op = "operations"
          /\ Return({s.operation : s \in {t \in ToSet(q) : t.service = call.subject}})
      BY <1>2, <1>5 DEF XRayReturnOperations, XRayAnswered
    <2> QED
      BY <1>1, <2>1, <2>2, OperationsPromised, Returns
  <1> QED
    BY <1>4, <1>5

\* A page of segments: of the service's, and none that was got before.
LEMMA XRayBatchGoes ==
    ASSUME Faithful, XRayReadBatch, call.backend = "xray"
    PROVE  Goes
  <1>1. step = "fetching" /\ UNCHANGED <<store, call, step, filters, read, answer>>
    BY DEF XRayReadBatch
  <1>2. KnownCall /\ Segments(found) /\ answer = {} /\ (IsSearch => ValidQuery /\ filters = AllFilters)
    BY <1>1 DEF Faithful
  <1>3. \E missing, offered, X, Y : \E n \in 0 .. Len(offered) :
           /\ X \cap ToSet(found) = {}
           /\ missing = Among(Spans, X) /\ offered = Among(missing, Y)
           /\ found' = found \o First(offered, n)
    <2>1. PICK unprocessed \in SUBSET ToSet(XRayBatch) :
             LET missing == Among(Spans, {s \in ToSet(Spans) \ ToSet(found) :
                                              s.trace \in ToSet(XRayBatch)})
                 offered == Among(missing, {s \in ToSet(missing) : s.trace \notin unprocessed})
             IN  \E n \in 0 .. Len(offered) : found' = found \o First(offered, n)
      BY DEF XRayReadBatch
    <2>2. PICK X : X = {s \in ToSet(Spans) \ ToSet(found) : s.trace \in ToSet(XRayBatch)}
      OBVIOUS
    <2>3. PICK missing : missing = Among(Spans, X)
      OBVIOUS
    <2>4. PICK Y : Y = {s \in ToSet(missing) : s.trace \notin unprocessed}
      OBVIOUS
    <2>5. PICK offered : offered = Among(missing, Y)
      OBVIOUS
    <2>6. \E n \in 0 .. Len(offered) : found' = found \o First(offered, n)
      BY <2>1, <2>2, <2>3, <2>4, <2>5, Zenon
    <2>7. X \cap ToSet(found) = {}
      BY <2>2
    <2> QED
      BY <2>3, <2>5, <2>6, <2>7
  <1>4. PICK missing, offered, X, Y : \E n \in 0 .. Len(offered) :
           /\ X \cap ToSet(found) = {}
           /\ missing = Among(Spans, X) /\ offered = Among(missing, Y)
           /\ found' = found \o First(offered, n)
    BY <1>3
  <1>5. PICK n \in 0 .. Len(offered) :
           /\ X \cap ToSet(found) = {}
           /\ missing = Among(Spans, X) /\ offered = Among(missing, Y)
           /\ found' = found \o First(offered, n)
    BY <1>4
  <1>6. IsSeq(missing) /\ Source!Once(missing) /\ ToSet(missing) = ToSet(Spans) \cap X
    BY <1>2, <1>5, PickedSpans
  <1>7. Picks(offered, missing)
    BY <1>5, <1>6, AmongPicks
  <1>8. PICK t : t = First(offered, n)
    OBVIOUS
  <1>9. IsSeq(offered) /\ n \in Nat
    BY <1>5, <1>7, PicksKeep DEF IsSeq
  <1>10. Picks(t, offered)
    BY <1>8, <1>9, FirstPicks
  <1>11. /\ IsSeq(t) /\ Source!Once(t)
         /\ ToSet(t) \subseteq ToSet(missing)
    BY <1>6, <1>7, <1>10, PicksKeep
  <1>12. Apart(found, t)
    <2>1. \A x \in ToSet(found), y \in ToSet(t) :
             x \in ToSet(Spans) /\ y \in ToSet(Spans) /\ x # y
      BY <1>2, <1>5, <1>6, <1>11 DEF Segments
    <2>2. Source!Once(Spans)
      BY <1>2, SpansAre
    <2>3. \A x \in ToSet(found), y \in ToSet(t) : ~Source!Same(x, y)
      BY <2>1, <2>2, SameIsEqual
    <2> QED
      BY <2>3, ApartSets
  <1>13. Segments(found \o t)
    BY <1>2, <1>6, <1>11, <1>12, JoinOnce, JoinMembers DEF Segments
  <1>14. found' = found \o t
    BY <1>5, <1>8
  <1>15. Faithful'
    <2>1. call.backend \notin Hydrating /\ call.backend \notin Capped
      BY DEF Hydrating, Capped
    <2> QED
      BY <1>1, <1>2, <1>13, <1>14, <2>1, Continues
  <1> QED
    BY <1>1, <1>2, <1>15 DEF Goes

LEMMA XRayGoes ==
    ASSUME Bounded, Faithful, XRayNext, call.backend = "xray"
    PROVE  Goes
  <1> KnownCall /\ call.backend \notin Hydrating /\ call.backend \notin Capped
    BY DEF Faithful, Hydrating, Capped
  <1>1. CASE XRayStart
    <2>1. \/ call.op \in {"list_services", "health_check"} /\ Ask("graph")
          \/ Ask("paging")
      BY <1>1 DEF XRayStart
    <2> QED
      BY <2>1, AskGoes
  <1>2. CASE Reject
    BY <1>2, Rejects
  <1>3. CASE XRayShowGraph
    <2>1. PICK names \in SUBSET {s.service : s \in ToSet(Spans)} :
             step = "graph" /\ Return(IF call.op = "health_check" THEN TRUE ELSE names)
      BY <1>3 DEF XRayShowGraph
    <2>2. \/ call.op = "health_check" /\ Return(TRUE)
          \/ call.op = "list_services" /\ Return(names)
      BY <2>1 DEF Faithful
    <2> QED
      BY <2>1, <2>2, HealthPromised, ServicesPromised, Returns
  <1>4. CASE XRaySample
    <2>1. /\ step = "graph" /\ step' = "paging"
          /\ UNCHANGED <<store, call, filters, read, todo, found, answer>>
      BY <1>4 DEF XRaySample
    <2>2. Segments(found) /\ answer = {} /\ (IsSearch => ValidQuery /\ filters = AllFilters)
      BY <2>1 DEF Faithful
    <2>3. Faithful'
      BY <2>1, <2>2, Continues
    <2> QED
      BY <2>1, <2>2, <2>3 DEF Goes
  <1>5. CASE XRayReadPage
    <2>1. step = "paging" /\ Read(XRayHits, Len(XRayHits)) /\ Len(XRayHits) \in Nat
      BY <1>5 DEF XRayReadPage
    <2> QED
      BY <2>1, ReadGoes
  <1>6. CASE XRayEndOfPages
    BY <1>6, StopGoes DEF XRayEndOfPages
  <1>7. CASE XRayFindTraces
    <2>1. IsSeq(read)
      BY DEF Bounded, Reading
    <2> QED
      BY <1>7, <2>1, IdsFit, FetchTracesGoes DEF XRayFindTraces
  <1>8. CASE XRayFindTrace
    <2>1. /\ step = "paging" /\ step' = "fetching"
          /\ UNCHANGED <<store, call, filters, read, found, answer>>
      BY <1>8 DEF XRayFindTrace
    <2>2. Segments(found) /\ answer = {} /\ (IsSearch => ValidQuery /\ filters = AllFilters)
      BY <2>1 DEF Faithful
    <2>3. Faithful'
      BY <2>1, <2>2, Continues
    <2> QED
      BY <2>1, <2>2, <2>3 DEF Goes
  <1>9. CASE XRayReadBatch
    BY <1>9, XRayBatchGoes
  <1>10. CASE XRayRequestFails
    <2>1. step # "done"
      BY <1>10 DEF XRayRequestFails
    <2> QED
      BY <1>10, <2>1, Raises, Returns, HealthPromised DEF XRayRequestFails
  <1>11. CASE XRayReturnTraces
    BY <1>11, XRayTracesGoes
  <1>12. CASE XRayReturnSpans
    BY <1>12, XRaySpansGoes
  <1>13. CASE XRayReturnTrace
    BY <1>13, XRayTraceGoes
  <1>14. CASE XRayReturnServices \/ XRayReturnOperations
    BY <1>14, XRayNamesGoes
  <1>15. CASE XRayReturnHealth
    BY <1>15, HealthPromised, Returns DEF XRayReturnHealth, XRayAnswered
  <1> QED
    BY <1>1, <1>2, <1>3, <1>4, <1>5, <1>6, <1>7, <1>8, <1>9, <1>10, <1>11, <1>12, <1>13, <1>14,
       <1>15 DEF XRayNext

\* What Tempo and Jaeger make of a piece of a trace: nothing, or an item with some
\* of its spans.
LEMMA ParsedPiece ==
    ASSUME NEW q, NEW id, Piece(q, id, ToSet(Spans))
    PROVE  /\ \/ TempoParsed(q) = <<>>
              \/ \E p : /\ TempoParsed(q) = <<GroupedOk(p)>> /\ p # <<>>
                        /\ Piece(p, id, ToSet(Spans))
           /\ JaegerParsed(q) = TempoParsed(q)
  <1>1. PICK p : p = Sound(q)
    OBVIOUS
  <1>2. Piece(p, id, ToSet(Spans))
    BY <1>1, SoundCopies DEF Piece
  <1>3. \/ p = <<>> /\ TempoParsed(q) = <<>>
        \/ p # <<>> /\ TempoParsed(q) = <<GroupedOk(p)>>
    BY <1>1 DEF TempoParsed
  <1>4. JaegerParsed(q) = TempoParsed(q)
    BY Zenon DEF TempoParsed, JaegerParsed
  <1> QED
    BY <1>2, <1>3, <1>4

\* The traces of the rows of a search, as they are asked for.
LEMMA AttemptedOnce ==
    ASSUME Bounded, Faithful, step = "read", IsSearch, call.backend = "tempo"
    PROVE  /\ IsSeq(TempoAttempted) /\ Distinct(TempoAttempted)
           /\ Len(TempoAttempted) <= Len(read)
           /\ \A id \in ToSet(TempoAttempted) : Offered(id)
  <1>1. IsSeq(read) /\ TraceOnce(read) /\ \A r \in ToSet(read) : Offered(r.trace)
    BY DEF Bounded, Reading, Hydrating, Faithful, Rows
  <1>2. PICK t : t = First(read, MaxHydrate)
    OBVIOUS
  <1>3. IsSeq(t) /\ Len(t) <= Len(read)
    BY <1>1, <1>2, FirstPicks, PicksKeep, SearchAssumption
  <1>4. DOMAIN t \subseteq DOMAIN read /\ Len(t) \in Nat /\ Len(read) \in Nat
    BY <1>1, <1>3 DEF IsSeq
  <1>5. PICK ids : ids = [i \in DOMAIN t |-> read[i].trace]
    OBVIOUS
  <1>6. IsSeq(ids) /\ Len(ids) = Len(t) /\ DOMAIN ids = DOMAIN t
    <2>1. ids = [i \in DOMAIN t |-> ids[i]]
      BY <1>5
    <2> QED
      BY <1>3, <2>1, MapIsSeq
  <1>7. Distinct(ids) /\ \A i \in DOMAIN ids : Offered(ids[i])
    BY <1>1, <1>4, <1>5, <1>6 DEF Distinct, TraceOnce, ToSet
  <1>8. PICK P : P = {i \in DOMAIN ids : ids[i] \notin OddIds}
    OBVIOUS
  <1>9. PICK a : a = At(ids, P)
    OBVIOUS
  <1>10. a = TempoAttempted
    BY <1>2, <1>5, <1>8, <1>9, Zenon DEF TempoAttempted
  <1>11. Picks(a, ids)
    <2>1. Lists(a, DOMAIN ids \cap P, ids) /\ Len(a) <= Len(ids)
      BY <1>6, <1>9, AtLists
    <2> QED
      BY <2>1, ListsPicks
  <1>12. IsSeq(a) /\ Distinct(a) /\ Len(a) <= Len(ids) /\ ToSet(a) \subseteq ToSet(ids)
    BY <1>7, <1>11, PicksKeep
  <1>13. Len(a) <= Len(read)
    BY <1>3, <1>4, <1>6, <1>12 DEF IsSeq
  <1>14. \A id \in ToSet(a) : Offered(id)
    BY <1>7, <1>12 DEF ToSet
  <1> QED
    BY <1>10, <1>12, <1>13, <1>14

\* What Tempo does not apply, the backend does.
LEMMA TempoDecides ==
    ASSUME KnownCall, ValidQuery, filters = AllFilters, call.backend = "tempo"
    PROVE  Decides(TempoRemaining)
  <1> SUFFICES ASSUME NEW i \in DOMAIN AllFilters
               PROVE  AllFilters[i] \in ToSet(TempoRemaining) \/ Served(AllFilters[i])
    BY DEF Decides, Verifying
  <1>1. PICK X : X = {f \in ToSet(filters) : ~TempoNative(f)}
    OBVIOUS
  <1>2. AllFilters[i] \in X => AllFilters[i] \in ToSet(Among(filters, X))
    BY <1>1, FiltersLeft
  <1>3. TempoRemaining = Among(filters, X)
    BY <1>1, Zenon DEF TempoRemaining
  <1>4. TempoNative(AllFilters[i]) \/ AllFilters[i] \in X
    BY <1>1, FilterIsThere
  <1> QED
    BY <1>2, <1>3, <1>4 DEF Served

LEMMA TempoFetchGoes ==
    ASSUME Bounded, Faithful, TempoFetchTrace, call.backend = "tempo"
    PROVE  Goes
  <1>1. /\ KnownCall /\ call.backend \in Hydrating /\ todo # <<>> /\ step = "fetching"
    BY DEF Faithful, TempoFetchTrace, Hydrating, Fetched, NotFetched
  <1>2. CASE NotFetched
    BY <1>1, <1>2, NotFetchedGoes
  <1>3. CASE Fetched(TempoParsed(OfTrace(Spans, Head(todo))), TRUE)
    <2>1. PICK h : h = Head(todo)
      OBVIOUS
    <2>2. Offered(h)
      <3>1. IsSeq(todo) /\ Distinct(todo) /\ \A id \in ToSet(todo) : Offered(id)
        BY <1>1 DEF Faithful, FetchFit
      <3> QED
        BY <1>1, <2>1, <3>1, TailIs
    <2>3. PICK q : q = OfTrace(Spans, h)
      OBVIOUS
    <2>4. Piece(q, h, ToSet(Spans))
      BY <1>1, <2>3, TraceOfIs
    <2>5. PICK traces : traces = TempoParsed(q)
      OBVIOUS
    <2>6. Fetched(traces, TRUE)
      BY <1>3, <2>1, <2>3, <2>5
    <2>7. \/ traces = <<>>
          \/ \E p : /\ traces = <<GroupedOk(p)>> /\ p # <<>>
                    /\ Piece(p, h, ToSet(Spans))
      BY <2>4, <2>5, ParsedPiece
    <2>8. ASSUME NEW p, traces = <<GroupedOk(p)>>, p # <<>>, Piece(p, h, ToSet(Spans))
          PROVE  \E item : /\ traces = <<item>> /\ item.spans # <<>>
                           /\ Piece(item.spans, Head(todo), ToSet(Spans)) /\ Offered(Head(todo))
      <3>1. PICK item : item = GroupedOk(p)
        OBVIOUS
      <3>2. item.spans = p
        BY <3>1, GroupedSpans
      <3> QED
        BY <2>1, <2>2, <2>8, <3>1, <3>2
    <2> QED
      BY <1>1, <2>6, <2>7, <2>8, FetchedGoes
  <1> QED
    BY <1>2, <1>3 DEF TempoFetchTrace

LEMMA TempoTracesGoes ==
    ASSUME Faithful, TempoReturnTraces, call.backend = "tempo"
    PROVE  Goes
  <1>1. /\ step = "fetching" /\ call.backend \in Hydrating /\ call.op = "search_traces"
        /\ Return(Filtered(found, TempoRemaining)) /\ todo = <<>>
    BY DEF TempoReturnTraces, Hydrating
  <1>2. Len(found) <= Limit
    <2>1. Len(todo) = 0 /\ Len(todo) + Len(found) <= Limit /\ Len(found) \in Nat
      BY <1>1, NoneIs DEF Faithful, FetchFit, IsSeq
    <2> QED
      BY <2>1
  <1>3. /\ KnownCall /\ IsSearch /\ ValidQuery /\ filters = AllFilters
        /\ IsSeq(found) /\ Source!NoneTwice(found)
        /\ \A i \in DOMAIN found : Sourced(found[i].spans)
    BY <1>1, FoundSourced
  <1> QED
    BY <1>1, <1>2, <1>3, TempoDecides, FilteredPromised, Returns

LEMMA TempoSpansGoes ==
    ASSUME Faithful, TempoReturnSpans, call.backend = "tempo"
    PROVE  Goes
  <1>1. step = "fetching" /\ call.backend \in Hydrating
    BY DEF TempoReturnSpans, Hydrating
  <1>2. /\ KnownCall /\ IsSearch /\ ValidQuery /\ filters = AllFilters
        /\ FetchFit(todo, found)
    BY <1>1 DEF Faithful
  <1>3. PICK spans : spans = FlattenSeq([i \in DOMAIN found |-> AsSpans(found[i].spans)])
    OBVIOUS
  <1>4. /\ IsSeq(found) /\ Source!NoneTwice(found)
        /\ \A i \in DOMAIN found : \E id : Piece(found[i].spans, id, ToSet(Spans)) /\ Offered(id)
    BY <1>2 DEF FetchFit
  <1>5. /\ IsSeq(spans) /\ Source!NoneTwice(spans)
        /\ \A i \in DOMAIN spans : Sourced(spans[i].spans)
    BY <1>2, <1>3, <1>4, SpansOfItems
  <1>6. Return(First(Filtered(spans, TempoRemaining), Limit))
    BY <1>3 DEF TempoReturnSpans
  <1> QED
    BY <1>1, <1>2, <1>5, <1>6, TempoDecides, FilteredPromised, Returns

LEMMA TempoTraceGoes ==
    ASSUME Faithful, TempoReturnTrace, call.backend = "tempo"
    PROVE  Goes
  <1>1. KnownCall /\ step = "paging" /\ call.op = "get_trace"
    BY DEF Faithful, TempoReturnTrace
  <1>2. PICK q : q = OfTrace(Spans, call.subject)
    OBVIOUS
  <1>3. Piece(q, call.subject, ToSet(Spans))
    BY <1>1, <1>2, TraceOfIs
  <1>4. PICK trace : trace = IF call.subject \in OddIds THEN <<>> ELSE TempoParsed(q)
    OBVIOUS
  <1>5. IF trace = <<>> THEN Raise ELSE Return(trace)
    BY <1>2, <1>4 DEF TempoReturnTrace
  <1>6. \/ trace = <<>>
        \/ \E p : /\ trace = <<GroupedOk(p)>> /\ p # <<>> /\ Piece(p, call.subject, ToSet(Spans))
    BY <1>3, <1>4, ParsedPiece
  <1>7. ASSUME NEW p, trace = <<GroupedOk(p)>>, p # <<>>, Piece(p, call.subject, ToSet(Spans))
        PROVE  Source!Promised(trace)
    BY <1>1, <1>7, TracePromised
  <1>8. trace = <<>> \/ Source!Promised(trace)
    BY <1>6, <1>7
  <1>9. CASE trace = <<>>
    BY <1>1, <1>5, <1>9, Raises
  <1>10. CASE trace # <<>>
    BY <1>1, <1>5, <1>8, <1>10, Returns
  <1> QED
    BY <1>9, <1>10

\* The names that rows bear.
LEMMA RowNames ==
    ASSUME Faithful, step # "done", call.backend # "xray"
    PROVE  /\ {s.service : s \in ToSet(read)} \subseteq {s.service : s \in ToSet(Spans)}
           /\ {s.operation : s \in {t \in ToSet(read) : t.service = call.subject}}
              \subseteq {s.operation : s \in {t \in ToSet(Spans) : t.service = call.subject}}
  BY DEF Faithful, Rows

LEMMA TempoGoes ==
    ASSUME Bounded, Faithful, TempoNext, call.backend = "tempo"
    PROVE  Goes
  <1> KnownCall /\ call.backend \in Hydrating /\ call.backend \in Capped
    BY DEF Faithful, Hydrating, Capped
  <1>1. CASE TempoStart
    BY <1>1, AskGoes DEF TempoStart
  <1>2. CASE Reject
    BY <1>2, Rejects
  <1>3. CASE TempoSearch
    <2>1. step = "paging" /\ call.op # "get_trace" /\ ReadOnce(TempoHits, TempoRowLimit)
      BY <1>3 DEF TempoSearch
    <2>2. Rows(TempoHits)
      BY <2>1, TempoRows DEF Faithful
    <2>3. TempoRowLimit \in Nat
      BY <2>1, TempoRowsFit
    <2>4. call.op = "search_traces" => TempoRowLimit = Limit
      BY DEF TempoRowLimit
    <2>5. Limit \in Nat
      BY MostItemsIs
    <2>6. PICK most : most = TempoRowLimit
      OBVIOUS
    <2>7. most \in Nat /\ (call.op = "search_traces" => most <= Limit)
      BY <2>3, <2>4, <2>5, <2>6
    <2> QED
      BY <2>1, <2>2, <2>6, <2>7, ReadOnceGoes
  <1>4. CASE TempoRequestFails
    BY <1>4, Raises, Returns, HealthPromised DEF TempoRequestFails
  <1>5. CASE TempoFindTraces
    <2>1. IsSearch /\ step = "read" /\ FetchTraces(TempoAttempted)
      BY <1>5 DEF TempoFindTraces, FetchTraces
    <2> QED
      BY <2>1, AttemptedOnce, FetchTracesGoes
  <1>6. CASE TempoFetchTrace
    BY <1>6, TempoFetchGoes
  <1>7. CASE TempoAllFetchesFailed
    BY <1>7, Raises DEF TempoAllFetchesFailed
  <1>8. CASE TempoReturnTraces
    BY <1>8, TempoTracesGoes
  <1>9. CASE TempoReturnSpans
    BY <1>9, TempoSpansGoes
  <1>10. CASE TempoReturnTrace
    BY <1>10, TempoTraceGoes
  <1>11. CASE TempoReturnServices
    BY <1>11, RowNames, ServicesPromised, Returns DEF TempoReturnServices
  <1>12. CASE TempoReturnOperations
    BY <1>12, RowNames, OperationsPromised, Returns DEF TempoReturnOperations
  <1>13. CASE TempoReturnHealth
    BY <1>13, HealthPromised, Returns DEF TempoReturnHealth
  <1> QED
    BY <1>1, <1>2, <1>3, <1>4, <1>5, <1>6, <1>7, <1>8, <1>9, <1>10, <1>11, <1>12, <1>13
       DEF TempoNext

\* At most one item, of a trace.
Pieces(t, id) ==
    /\ IsSeq(t) /\ Len(t) <= 1 /\ DOMAIN t \subseteq {1}
    /\ \A k \in DOMAIN t : t[k].spans # <<>> /\ Piece(t[k].spans, id, ToSet(Spans))

\* What Jaeger makes of a trace.
LEMMA JaegerItem ==
    ASSUME KnownCall, NEW id
    PROVE  Pieces(JaegerParsed(OfTrace(Spans, id)), id)
  <1>1. PICK q : q = OfTrace(Spans, id)
    OBVIOUS
  <1>2. Piece(q, id, ToSet(Spans))
    BY <1>1, TraceOfIs
  <1>3. PICK t : t = JaegerParsed(q)
    OBVIOUS
  <1>4. \/ t = <<>>
        \/ \E p : t = <<GroupedOk(p)>> /\ p # <<>> /\ Piece(p, id, ToSet(Spans))
    BY <1>2, <1>3, ParsedPiece
  <1>5. ASSUME NEW p, t = <<GroupedOk(p)>>, p # <<>>, Piece(p, id, ToSet(Spans))
        PROVE  Pieces(t, id)
    <2>1. PICK item : item = GroupedOk(p)
      OBVIOUS
    <2>2. item.spans = p
      BY <2>1, GroupedSpans
    <2>3. IsSeq(t) /\ DOMAIN t = {1} /\ t[1] = item /\ Len(t) = 1
      BY <1>5, <2>1, OneIs
    <2> QED
      BY <1>5, <2>2, <2>3 DEF Pieces
  <1>6. ASSUME t = <<>>
        PROVE  Pieces(t, id)
    <2>1. IsSeq(t) /\ DOMAIN t = {} /\ Len(t) = 0
      BY <1>6, NoneIs
    <2> QED
      BY <2>1 DEF Pieces
  <1> QED
    BY <1>1, <1>3, <1>4, <1>5, <1>6

\* The traces that came are of the rows, each once.
LEMMA ReceivedIs ==
    ASSUME Faithful, step = "read", IsSearch, call.backend = "jaeger"
    PROVE  /\ IsSeq(JaegerReceived) /\ Source!NoneTwice(JaegerReceived)
           /\ \A i \in DOMAIN JaegerReceived : \E id :
                Piece(JaegerReceived[i].spans, id, ToSet(Spans)) /\ Offered(id)
           /\ \A i \in DOMAIN JaegerReceived : Sourced(JaegerReceived[i].spans)
           /\ Len(JaegerReceived) <= Len(read)
  <1>1. KnownCall /\ IsSeq(read) /\ TraceOnce(read) /\ \A r \in ToSet(read) : Offered(r.trace)
    BY DEF Faithful, Rows
  <1>2. PICK h : h = [i \in DOMAIN read |-> JaegerParsed(OfTrace(Spans, read[i].trace))]
    OBVIOUS
  <1>3. IsSeq(h) /\ DOMAIN h = DOMAIN read /\ Len(h) = Len(read)
    <2>1. h = [i \in DOMAIN read |-> h[i]]
      BY <1>2
    <2> QED
      BY <1>1, <2>1, MapIsSeq
  <1>4. \A i \in DOMAIN h : Pieces(h[i], read[i].trace)
    BY <1>1, <1>2, <1>3, JaegerItem
  <1>5. PICK t : t = JaegerReceived
    OBVIOUS
  <1>6. t = FlattenSeq(h)
    BY <1>2, <1>5, Zenon DEF JaegerReceived
  <1>7. IsSeqs(h) /\ \A i \in DOMAIN h : Len(h[i]) <= 1
    BY <1>3, <1>4 DEF IsSeqs, Pieces
  <1>8. IsSeq(t) /\ FromOnce(t, h) /\ Len(t) <= Len(h)
    BY <1>6, <1>7, FlattenIs
  <1>9. PICK a, b :
           /\ \A k \in DOMAIN t : a[k] \in DOMAIN h /\ b[k] \in DOMAIN h[a[k]] /\ t[k] = h[a[k]][b[k]]
           /\ \A j, k \in DOMAIN t : a[j] = a[k] /\ b[j] = b[k] => j = k
    BY <1>8 DEF FromOnce
  <1>10. ASSUME NEW k \in DOMAIN t
         PROVE  /\ a[k] \in DOMAIN read /\ b[k] = 1 /\ t[k].spans # <<>>
                /\ Piece(t[k].spans, read[a[k]].trace, ToSet(Spans))
    <2>1. a[k] \in DOMAIN h /\ b[k] \in DOMAIN h[a[k]] /\ t[k] = h[a[k]][b[k]]
      BY <1>9
    <2>2. PICK u, id : u = h[a[k]] /\ id = read[a[k]].trace
      OBVIOUS
    <2>3. Pieces(u, id)
      BY <1>4, <2>1, <2>2
    <2>4. b[k] \in DOMAIN u /\ t[k] = u[b[k]]
      BY <2>1, <2>2
    <2> QED
      BY <1>3, <2>1, <2>2, <2>3, <2>4 DEF Pieces
  <1>11. \A k \in DOMAIN t : Offered(read[a[k]].trace)
    BY <1>1, <1>10 DEF ToSet
  <1>12. ASSUME NEW j \in DOMAIN t, NEW k \in DOMAIN t, NEW id,
                Piece(t[j].spans, id, ToSet(Spans)), Piece(t[k].spans, id, ToSet(Spans))
         PROVE  j = k
    <2>1. ASSUME NEW q, NEW jd, q # <<>>, Piece(q, id, ToSet(Spans)), Piece(q, jd, ToSet(Spans))
          PROVE  jd = id
      <3>1. 1 \in DOMAIN q
        BY <2>1 DEF Piece, Copies, IsSeq
      <3>2. q[1] \in ToSet(q)
        BY <3>1 DEF ToSet
      <3> QED
        BY <2>1, <3>2 DEF Piece
    <2>2. read[a[j]].trace = id /\ read[a[k]].trace = id
      BY <1>10, <1>12, <2>1
    <2>3. a[j] = a[k]
      BY <1>1, <1>10, <2>2 DEF TraceOnce
    <2> QED
      BY <1>9, <1>10, <2>3
  <1>13. Source!NoneTwice(t)
    BY <1>10, <1>12, PiecesApart
  <1>14. \A k \in DOMAIN t : Sourced(t[k].spans)
    BY <1>1, <1>10, <1>11, PieceSourced DEF Offered
  <1> QED
    BY <1>3, <1>5, <1>8, <1>10, <1>11, <1>13, <1>14

\* What Jaeger does not apply, the backend does.
LEMMA JaegerDecides ==
    ASSUME KnownCall, ValidQuery, filters = AllFilters, call.backend = "jaeger"
    PROVE  Decides(JaegerRemaining)
  <1> SUFFICES ASSUME NEW i \in DOMAIN AllFilters
               PROVE  AllFilters[i] \in ToSet(JaegerRemaining) \/ Served(AllFilters[i])
    BY DEF Decides, Verifying
  <1>1. PICK X : X = {f \in ToSet(filters) : ~JaegerNative(f)}
    OBVIOUS
  <1>2. AllFilters[i] \in X => AllFilters[i] \in ToSet(Among(filters, X))
    BY <1>1, FiltersLeft
  <1>3. JaegerRemaining = Among(filters, X)
    BY <1>1, Zenon DEF JaegerRemaining
  <1>4. JaegerNative(AllFilters[i]) \/ AllFilters[i] \in X
    BY <1>1, FilterIsThere
  <1> QED
    BY <1>2, <1>3, <1>4 DEF Served

LEMMA JaegerTracesGoes ==
    ASSUME Faithful, JaegerReturnTraces, call.backend = "jaeger"
    PROVE  Goes
  <1>1. /\ step = "read" /\ call.op = "search_traces" /\ IsSearch
        /\ Return(Filtered(JaegerReceived, JaegerRemaining))
    BY DEF JaegerReturnTraces, IsSearch
  <1>2. KnownCall /\ ValidQuery /\ filters = AllFilters /\ Len(read) <= Limit
    BY <1>1 DEF Faithful, Capped
  <1>3. PICK items : items = JaegerReceived
    OBVIOUS
  <1>4. /\ IsSeq(items) /\ Source!NoneTwice(items) /\ Len(items) <= Len(read)
        /\ \A i \in DOMAIN items : Sourced(items[i].spans)
    BY <1>1, <1>3, ReceivedIs
  <1>5. Len(items) <= Limit
    <2>1. Len(items) \in Nat /\ Len(read) \in Nat /\ Limit \in Nat
      BY <1>1, <1>4, MostItemsIs DEF Faithful, Rows, IsSeq
    <2> QED
      BY <1>2, <1>4, <2>1
  <1>6. Return(Filtered(items, JaegerRemaining))
    BY <1>1, <1>3
  <1> QED
    BY <1>1, <1>2, <1>4, <1>5, <1>6, JaegerDecides, FilteredPromised, Returns

LEMMA JaegerSpansGoes ==
    ASSUME Faithful, JaegerReturnSpans, call.backend = "jaeger"
    PROVE  Goes
  <1>1. step = "read" /\ call.op = "search_spans" /\ IsSearch
    BY DEF JaegerReturnSpans, IsSearch
  <1>2. KnownCall /\ ValidQuery /\ filters = AllFilters
    BY <1>1 DEF Faithful
  <1>3. PICK f : f = JaegerReceived
    OBVIOUS
  <1>4. /\ IsSeq(f) /\ Source!NoneTwice(f)
        /\ \A i \in DOMAIN f : \E id : Piece(f[i].spans, id, ToSet(Spans)) /\ Offered(id)
    BY <1>1, <1>3, ReceivedIs
  <1>5. PICK spans : spans = FlattenSeq([i \in DOMAIN f |-> AsSpans(f[i].spans)])
    OBVIOUS
  <1>6. /\ IsSeq(spans) /\ Source!NoneTwice(spans)
        /\ \A i \in DOMAIN spans : Sourced(spans[i].spans)
    BY <1>2, <1>4, <1>5, SpansOfItems
  <1>7. Return(First(Filtered(spans, JaegerRemaining), Limit))
    BY <1>3, <1>5 DEF JaegerReturnSpans
  <1> QED
    BY <1>1, <1>2, <1>6, <1>7, JaegerDecides, FilteredPromised, Returns

LEMMA JaegerTraceGoes ==
    ASSUME Faithful, JaegerReturnTrace, call.backend = "jaeger"
    PROVE  Goes
  <1>1. KnownCall /\ step = "paging" /\ call.op = "get_trace"
    BY DEF Faithful, JaegerReturnTrace
  <1>2. PICK q : q = OfTrace(Spans, call.subject)
    OBVIOUS
  <1>3. Piece(q, call.subject, ToSet(Spans))
    BY <1>1, <1>2, TraceOfIs
  <1>4. PICK trace : trace = IF call.subject \in OddIds THEN <<>> ELSE JaegerParsed(q)
    OBVIOUS
  <1>5. IF trace = <<>> THEN Raise ELSE Return(trace)
    BY <1>2, <1>4 DEF JaegerReturnTrace
  <1>6. \/ trace = <<>>
        \/ \E p : /\ trace = <<GroupedOk(p)>> /\ p # <<>> /\ Piece(p, call.subject, ToSet(Spans))
    BY <1>3, <1>4, ParsedPiece
  <1>7. ASSUME NEW p, trace = <<GroupedOk(p)>>, p # <<>>, Piece(p, call.subject, ToSet(Spans))
        PROVE  Source!Promised(trace)
    BY <1>1, <1>7, TracePromised
  <1>8. trace = <<>> \/ Source!Promised(trace)
    BY <1>6, <1>7
  <1>9. CASE trace = <<>>
    BY <1>1, <1>5, <1>9, Raises
  <1>10. CASE trace # <<>>
    BY <1>1, <1>5, <1>8, <1>10, Returns
  <1> QED
    BY <1>9, <1>10

LEMMA JaegerGoes ==
    ASSUME Bounded, Faithful, JaegerNext, call.backend = "jaeger"
    PROVE  Goes
  <1> KnownCall /\ call.backend \in Capped
    BY DEF Faithful, Capped
  <1>1. CASE JaegerStart
    BY <1>1, AskGoes DEF JaegerStart
  <1>2. CASE Reject
    BY <1>2, Rejects
  <1>3. CASE JaegerRefuseNoService
    BY <1>3, Raises DEF JaegerRefuseNoService
  <1>4. CASE JaegerSearch
    <2>1. PICK hits, most : hits = Roots(TracesWith(JaegerQuery)) /\ most = JaegerRowLimit
      OBVIOUS
    <2>2. step = "paging" /\ IsSearch /\ ReadOnce(hits, most)
      BY <1>4, <2>1 DEF JaegerSearch
    <2>3. Rows(hits)
      BY <2>1, <2>2, JaegerRows DEF Faithful
    <2>4. Limit \in Nat
      BY MostItemsIs
    <2>5. most \in Nat /\ (call.op = "search_traces" => most <= Limit)
      <3>1. PICK two : two = Min({2 * Limit, 1000})
        OBVIOUS
      <3>2. two \in Nat
        BY <2>4, <3>1, MinIs
      <3>3. most = IF call.op = "search_spans" THEN two ELSE Limit
        BY <2>1, <3>1 DEF JaegerRowLimit
      <3> QED
        BY <2>4, <3>2, <3>3
    <2> QED
      BY <2>2, <2>3, <2>5, ReadOnceGoes
  <1>5. CASE JaegerRequestFails
    BY <1>5, Raises, Returns, HealthPromised DEF JaegerRequestFails
  <1>6. CASE JaegerReturnTraces
    BY <1>6, JaegerTracesGoes
  <1>7. CASE JaegerReturnSpans
    BY <1>7, JaegerSpansGoes
  <1>8. CASE JaegerReturnTrace
    BY <1>8, JaegerTraceGoes
  <1>9. CASE JaegerReturnServices
    BY <1>9, ServicesPromised, Returns DEF JaegerReturnServices
  <1>10. CASE JaegerReturnOperations
    BY <1>10, OperationsPromised, Returns DEF JaegerReturnOperations
  <1>11. CASE JaegerReturnHealth
    BY <1>11, HealthPromised, Returns DEF JaegerReturnHealth
  <1> QED
    BY <1>1, <1>2, <1>3, <1>4, <1>5, <1>6, <1>7, <1>8, <1>9, <1>10, <1>11 DEF JaegerNext

\* A trace of Traceloop's is its root span.
LEMMA RootsSourced ==
    ASSUME KnownCall, IsSearch, NEW q, Rows(q), NEW p, Copies(p, ToSet(q)),
           NEW items, items = [i \in DOMAIN p |-> TraceloopOfRoot(p[i])]
    PROVE  /\ IsSeq(items) /\ Len(items) = Len(p) /\ Source!NoneTwice(items)
           /\ \A i \in DOMAIN items : Sourced(items[i].spans)
  <1>1. IsSeq(p)
    BY DEF Copies
  <1>2. IsSeq(items) /\ Len(items) = Len(p) /\ DOMAIN items = DOMAIN p
    <2>1. items = [i \in DOMAIN p |-> items[i]]
      OBVIOUS
    <2> QED
      BY <1>1, <2>1, MapIsSeq
  <1>3. PICK spans : spans = AsSpans(p)
    OBVIOUS
  <1>4. Source!NoneTwice(spans) /\ \A i \in DOMAIN spans : Sourced(spans[i].spans)
    BY <1>3, ParsedSourced
  <1>5. DOMAIN spans = DOMAIN p /\ \A i \in DOMAIN p : spans[i] = OfSpan(p[i])
    BY <1>1, <1>3, AsSpansAre
  <1>6. \A r : OfSpan(r).spans = <<r>> /\ TraceloopOfRoot(r).spans = <<r>>
    BY DEF OfSpan, TraceloopOfRoot
  <1>7. \A i \in DOMAIN items : items[i].spans = spans[i].spans
    BY <1>2, <1>5, <1>6
  <1>8. Source!NoneTwice(items) /\ \A i \in DOMAIN items : Sourced(items[i].spans)
    BY <1>2, <1>4, <1>5, <1>7 DEF Source!NoneTwice
  <1> QED
    BY <1>2, <1>8

\* What Traceloop does not apply, the backend does.
LEMMA TraceloopDecides ==
    ASSUME KnownCall, ValidQuery, filters = AllFilters, call.backend = "traceloop"
    PROVE  Decides(TraceloopRemaining)
  <1> SUFFICES ASSUME NEW i \in DOMAIN AllFilters
               PROVE  AllFilters[i] \in ToSet(TraceloopRemaining) \/ Served(AllFilters[i])
    BY DEF Decides, Verifying
  <1>1. PICK X : X = {f \in ToSet(filters) : ~TraceloopNative(f)}
    OBVIOUS
  <1>2. AllFilters[i] \in X => AllFilters[i] \in ToSet(Among(filters, X))
    BY <1>1, FiltersLeft
  <1>3. TraceloopRemaining = Among(filters, X)
    BY <1>1, Zenon DEF TraceloopRemaining
  <1>4. TraceloopNative(AllFilters[i]) \/ AllFilters[i] \in X
    BY <1>1, FilterIsThere
  <1> QED
    BY <1>2, <1>3, <1>4 DEF Served

\* What is parsed of the rows of a search.
LEMMA TraceloopRead ==
    ASSUME Faithful, step = "read", IsSearch, call.backend = "traceloop"
    PROVE  /\ KnownCall /\ ValidQuery /\ filters = AllFilters /\ Rows(read)
           /\ Copies(TraceloopParsed(read), ToSet(read))
           /\ Len(TraceloopParsed(read)) <= Len(read)
  <1>1. KnownCall /\ ValidQuery /\ filters = AllFilters /\ Rows(read)
    BY DEF Faithful
  <1>2. Copies(read, ToSet(read))
    BY <1>1, RowsCopy DEF Rows
  <1> QED
    BY <1>1, <1>2, TraceloopCopies

LEMMA TraceloopTracesGoes ==
    ASSUME Faithful, TraceloopReturnTraces, call.backend = "traceloop"
    PROVE  Goes
  <1>1. step = "read" /\ call.op = "search_traces" /\ IsSearch
    BY DEF TraceloopReturnTraces, IsSearch
  <1>2. PICK p : p = TraceloopParsed(read)
    OBVIOUS
  <1>3. /\ KnownCall /\ ValidQuery /\ filters = AllFilters /\ Rows(read)
        /\ Copies(p, ToSet(read)) /\ Len(p) <= Len(read)
    BY <1>1, <1>2, TraceloopRead
  <1>4. PICK items : items = [i \in DOMAIN p |-> TraceloopOfRoot(p[i])]
    OBVIOUS
  <1>5. /\ IsSeq(items) /\ Len(items) = Len(p) /\ Source!NoneTwice(items)
        /\ \A i \in DOMAIN items : Sourced(items[i].spans)
    BY <1>1, <1>3, <1>4, RootsSourced
  <1>6. Len(items) <= Limit
    <2>1. Len(read) \in Nat /\ Len(p) \in Nat /\ Limit \in Nat
      BY <1>3, MostItemsIs DEF Rows, Copies, IsSeq
    <2>2. Len(read) <= Limit
      BY <1>1 DEF Faithful, Capped
    <2> QED
      BY <1>3, <1>5, <2>1, <2>2
  <1>7. Return(Filtered(items, TraceloopRemaining))
    BY <1>2, <1>4 DEF TraceloopReturnTraces
  <1> QED
    BY <1>1, <1>3, <1>5, <1>6, <1>7, TraceloopDecides, FilteredPromised, Returns

LEMMA TraceloopSpansGoes ==
    ASSUME Faithful, TraceloopReturnSpans, call.backend = "traceloop"
    PROVE  Goes
  <1>1. step = "read" /\ call.op = "search_spans" /\ IsSearch
    BY DEF TraceloopReturnSpans, IsSearch
  <1>2. PICK p : p = TraceloopParsed(read)
    OBVIOUS
  <1>3. /\ KnownCall /\ ValidQuery /\ filters = AllFilters /\ Rows(read)
        /\ Copies(p, ToSet(read))
    BY <1>1, <1>2, TraceloopRead
  <1>4. PICK items : items = AsSpans(p)
    OBVIOUS
  <1>5. /\ IsSeq(items) /\ Source!NoneTwice(items)
        /\ \A i \in DOMAIN items : Sourced(items[i].spans)
    BY <1>1, <1>3, <1>4, ParsedSourced
  <1>6. Return(First(Filtered(items, TraceloopRemaining), Limit))
    BY <1>2, <1>4 DEF TraceloopReturnSpans
  <1> QED
    BY <1>1, <1>3, <1>5, <1>6, TraceloopDecides, FilteredPromised, Returns

LEMMA TraceloopTraceGoes ==
    ASSUME Faithful, TraceloopReturnTrace, call.backend = "traceloop"
    PROVE  Goes
  <1>1. KnownCall /\ step = "paging" /\ call.op = "get_trace"
    BY DEF Faithful, TraceloopReturnTrace
  <1>2. PICK q : q = OfTrace(Spans, call.subject)
    OBVIOUS
  <1>3. PICK p : p = TraceloopParsed(q)
    OBVIOUS
  <1>4. Piece(p, call.subject, ToSet(Spans))
    BY <1>1, <1>2, <1>3, TraceOfIs, TraceloopCopies DEF Piece
  <1>5. PICK spans : spans = IF call.subject \in OddIds THEN <<>> ELSE p
    OBVIOUS
  <1>6. IF spans = <<>> THEN Raise ELSE Return(<<GroupedOk(spans)>>)
    BY <1>2, <1>3, <1>5 DEF TraceloopReturnTrace
  <1>7. spans = <<>> \/ Piece(spans, call.subject, ToSet(Spans))
    BY <1>4, <1>5
  <1>8. CASE spans = <<>>
    BY <1>1, <1>6, <1>8, Raises
  <1>9. CASE spans # <<>>
    <2>1. Source!Promised(<<GroupedOk(spans)>>)
      BY <1>1, <1>7, <1>9, TracePromised
    <2> QED
      BY <1>1, <1>6, <1>9, <2>1, Returns
  <1> QED
    BY <1>8, <1>9

LEMMA TraceloopSearchGoes ==
    ASSUME Faithful, TraceloopSearch, call.backend = "traceloop"
    PROVE  Goes
  <1>1. KnownCall /\ step = "paging" /\ (IsSearch => ValidQuery /\ filters = AllFilters)
    BY DEF Faithful, TraceloopSearch
  <1>2. Limit \in Nat /\ RootRows \in Nat
    BY <1>1, MostItemsIs, SearchAssumption
  <1>3. CASE call.op = "search_traces" /\ ReadOnce(TraceloopRootsWith(TraceloopQuery), Limit)
    <2>1. Rows(TraceloopRootsWith(TraceloopQuery)) /\ Limit <= Limit
      BY <1>1, <1>2, <1>3, TraceloopRows DEF IsSearch
    <2> QED
      BY <1>1, <1>2, <1>3, <2>1, ReadOnceGoes
  <1>4. CASE call.op = "search_spans" /\ ReadOnce(SpansWith(TraceloopQuery), Limit)
    <2>1. Rows(SpansWith(TraceloopQuery))
      BY <1>1, <1>4, TraceloopRows DEF IsSearch
    <2> QED
      BY <1>1, <1>2, <1>4, <2>1, ReadOnceGoes
  <1>5. CASE call.op \in {"list_services", "operations"} /\ ReadOnce(TraceloopRootSpans, RootRows)
    <2>1. Rows(TraceloopRootSpans)
      BY <1>1, <1>5, TraceloopRows DEF IsSearch
    <2> QED
      BY <1>1, <1>2, <1>5, <2>1, ReadOnceGoes
  <1> QED
    BY <1>3, <1>4, <1>5 DEF TraceloopSearch

LEMMA TraceloopGoes ==
    ASSUME Bounded, Faithful, TraceloopNext, call.backend = "traceloop"
    PROVE  Goes
  <1>1. CASE TraceloopStart
    BY <1>1, AskGoes DEF TraceloopStart
  <1>2. CASE Reject
    BY <1>2, Rejects
  <1>3. CASE TraceloopSearch
    BY <1>3, TraceloopSearchGoes
  <1>4. CASE TraceloopRequestFails
    BY <1>4, Raises, Returns, HealthPromised DEF TraceloopRequestFails
  <1>5. CASE TraceloopReturnTraces
    BY <1>5, TraceloopTracesGoes
  <1>6. CASE TraceloopReturnSpans
    BY <1>6, TraceloopSpansGoes
  <1>7. CASE TraceloopReturnTrace
    BY <1>7, TraceloopTraceGoes
  <1>8. CASE TraceloopReturnServices
    BY <1>8, RowNames, ServicesPromised, Returns DEF TraceloopReturnServices
  <1>9. CASE TraceloopReturnOperations
    BY <1>9, RowNames, OperationsPromised, Returns DEF TraceloopReturnOperations
  <1>10. CASE TraceloopReturnHealth
    BY <1>10, HealthPromised, Returns DEF TraceloopReturnHealth
  <1> QED
    BY <1>1, <1>2, <1>3, <1>4, <1>5, <1>6, <1>7, <1>8, <1>9, <1>10 DEF TraceloopNext
-----------------------------------------------------------------------------
(* The calls keep their promises.                                          *)

LEMMA PromiseInit == Init => Source!Init
  BY DEF Init, Source!Init

\* A step of the call is one of the promise, or changes nothing of what it is
\* about.
LEMMA PromiseStep ==
    ASSUME Bounded, Faithful, [Next]_vars
    PROVE  Faithful' /\ [Source!End]_<<store, call, step = "done", answer>>
  <1>1. CASE UNCHANGED vars \/ Done
    <2>1. UNCHANGED <<store, call, step, filters, read, todo, found, answer>>
      BY <1>1 DEF vars, Done
    <2>2. UNCHANGED <<store, call, step = "done", answer>>
      BY <2>1
    <2>3. CASE step = "done"
      BY <2>1, <2>3, Finishes, <2>2
    <2>4. CASE step # "done"
      <3>1. Faithful'
        BY <2>1, <2>4, Continues DEF Faithful
      <3> QED
        BY <2>2, <3>1
    <2> QED
      BY <2>3, <2>4
  <1>2. CASE Next /\ ~Done
    <2>1. UNCHANGED <<store, call>>
      BY <1>2, NextKeeps
    <2>2. Goes
      BY <1>2, DatadogGoes, NewRelicGoes, SentryGoes, XRayGoes, TempoGoes, JaegerGoes,
         TraceloopGoes DEF Next
    <2>3. CASE step' # "done" /\ answer' = {}
      <3>1. step # "done" /\ answer = {}
        BY <2>2 DEF Goes, Faithful
      <3>2. UNCHANGED <<store, call, step = "done", answer>>
        BY <2>1, <2>3, <3>1
      <3> QED
        BY <2>2, <3>2 DEF Goes
    <2>4. CASE step' = "done" /\ (answer' = {} \/ \E v : answer' = {v} /\ Source!Promised(v))
      <3>1. step # "done"
        BY <2>2 DEF Goes
      <3>2. answer' = {} \/ \E v \in answer' : answer' = {v} /\ Source!Promised(v)
        BY <2>4
      <3>3. Source!End
        BY <2>1, <2>4, <3>1, <3>2 DEF Source!End
      <3> QED
        BY <2>2, <3>3 DEF Goes
    <2> QED
      BY <2>2, <2>3, <2>4 DEF Goes
  <1> QED
    BY <1>1, <1>2

\* Whatever the service answers, and of whatever spans it holds, a call on any of
\* the seven backends ends once, by raising or with what the base class promises:
\* no more items than were asked for, each a part of one trace of the service with
\* its spans as they are there and none of them twice, and no filter forgotten but
\* one of a search for spans that cannot be expressed; the trace that was asked
\* for; names that are there (base.py:976-1001).
THEOREM PromisesKept == Spec => KeepsPromises
  <1>1. Init => Bounded /\ Faithful
    BY BoundedInit, FaithfulInit
  <1>2. Bounded /\ Faithful /\ [Next]_vars => Bounded' /\ Faithful'
    BY BoundedStep, PromiseStep
  <1>3. Bounded /\ Faithful /\ [Next]_vars
        => [Source!End]_<<store, call, step = "done", answer>>
    BY PromiseStep
  <1>4. Init => Source!Init
    BY PromiseInit
  <1> QED
    BY <1>1, <1>2, <1>3, <1>4, PTL DEF Spec, KeepsPromises, Source!Spec
=============================================================================
