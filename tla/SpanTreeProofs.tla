---------------------------- MODULE SpanTreeProofs ----------------------------
(***************************************************************************)
(* The walk for the deepest ERROR chain, for traces of any length and any  *)
(* parent links: it visits what its root reaches, each span once, and      *)
(* counts every ERROR among it.  Then what the walks over all roots make   *)
(* of the trace, and the verdict on a trace whose span_ids are unique.     *)
(***************************************************************************)
EXTENDS SpanTree, FiniteSetTheorems, WellFoundedInduction, TLAPS
-----------------------------------------------------------------------------
(* One walk.                                                               *)

\* The spans that have a predecessor, and those that wait to be popped.
Seen == {s \in Spans : depth[s] # 0}
Stacked == {stack[i] : i \in DOMAIN stack}

\* The part of the types that says nothing about the walk.
Types ==
    /\ trace \in Seq(Span)
    /\ left \in Seq(Spans)
    /\ root \in {0} \cup Spans
    /\ stack \in Seq(Spans)
    /\ pred \in [Spans -> {0} \cup Spans]
    /\ depth \in [Spans -> Nat]
    /\ errors \in Nat /\ maxDepth \in Nat /\ ties \in Nat
    /\ deepest \in {0} \cup Spans
    /\ total \in Nat /\ allTies \in Nat

\* Only what was pushed, and only once, is on the stack of a walk.
StackSound ==
    /\ root = 0 => stack = <<>>
    /\ \A i \in DOMAIN stack : depth[stack[i]] # 0
    /\ \A i, j \in DOMAIN stack : i # j => stack[i] # stack[j]

\* No span is deeper than there are spans before it.
Shallow ==
    /\ \A s \in Spans : depth[s] <= Cardinality(Seen)
    /\ maxDepth <= Len(trace)

\* Every ERROR that was popped is counted, and only once.
Counted == errors = Cardinality({s \in Walked : IsError(s)})

\* The walk never leaves what its root reaches, and leaves nothing behind that
\* is not on its stack.
Reached ==
    root # 0 =>
        /\ root \in Seen
        /\ \A s \in Walked : Children(s) \subseteq Seen
        /\ \A S \in SUBSET Spans : root \in S /\ Closed(S) => Seen \subseteq S

\* The inductive invariant.
IInv ==
    /\ Types
    /\ StackSound
    /\ Shallow
    /\ Counted
    /\ Reached
-----------------------------------------------------------------------------
\* A trace has finitely many spans, as many as it is long.
LEMMA SpansFinite ==
    ASSUME trace \in Seq(Span)
    PROVE  /\ Len(trace) \in Nat
           /\ Spans \subseteq Nat \ {0}
           /\ IsFiniteSet(Spans)
           /\ Cardinality(Spans) = Len(trace)
  <1>1. Len(trace) \in Nat
    OBVIOUS
  <1>2. IsFiniteSet(1 .. Len(trace)) /\ Cardinality(1 .. Len(trace)) = Len(trace)
    <2>1. 1 \in Int /\ Len(trace) \in Int
      BY <1>1
    <2>2. /\ IsFiniteSet(1 .. Len(trace))
          /\ Cardinality(1 .. Len(trace)) = IF 1 > Len(trace) THEN 0
                                            ELSE Len(trace) - 1 + 1
      BY <2>1, FS_Interval
    <2> QED
      BY <1>1, <2>2
  <1> QED
    BY <1>1, <1>2 DEF Spans

\* What depends on the trace alone stays while the trace does.
LEMMA TraceKept ==
    ASSUME UNCHANGED trace
    PROVE  /\ Spans' = Spans
           /\ \A s : IsError(s)' = IsError(s)
           /\ \A s : Children(s)' = Children(s)
           /\ \A S : Closed(S)' = Closed(S)
  <1>1. Spans' = Spans
    BY DEF Spans
  <1>2. \A s : Children(s)' = Children(s)
    <2>1. Known' = Known
      BY <1>1 DEF Known, Id
    <2>2. \A s : ParentKey(s)' = ParentKey(s) /\ Id(s)' = Id(s)
      BY <2>1 DEF ParentKey, Id
    <2> QED
      BY <1>1, <2>2 DEF Children
  <1> QED
    BY <1>1, <1>2 DEF IsError, Closed

\* A set of spans in list order is a sequence without repetitions.
LEMMA Ordered ==
    ASSUME NEW S, S \subseteq Nat, IsFiniteSet(S),
           NEW q, q \in InOrder(S)
    PROVE  /\ q \in Seq(S)
           /\ \A i, j \in DOMAIN q : i # j => q[i] # q[j]
  <1>1. Cardinality(S) \in Nat
    BY FS_CardinalityType
  <1>2. /\ q \in [1 .. Cardinality(S) -> S]
        /\ \A i, j \in DOMAIN q : i < j => q[i] < q[j]
    BY DEF InOrder
  <1>3. q \in Seq(S) /\ DOMAIN q \subseteq Nat
    BY <1>1, <1>2
  <1>4. ASSUME NEW i \in DOMAIN q, NEW j \in DOMAIN q, i # j
        PROVE  q[i] # q[j]
    <2>1. q[i] \in Nat /\ q[j] \in Nat /\ i \in Nat /\ j \in Nat
      BY <1>2, <1>3
    <2>2. i < j \/ j < i
      BY <2>1, <1>4
    <2> QED
      BY <1>2, <2>1, <2>2
  <1> QED
    BY <1>2, <1>3, <1>4
-----------------------------------------------------------------------------
\* The initial state satisfies the invariant.
LEMMA InitIInv == Init => IInv
  <1> SUFFICES ASSUME Init PROVE IInv
    OBVIOUS
  <1>1. trace \in Seq(Span)
    BY TraceAssumption DEF Init
  <1>2. Roots \subseteq Spans
    BY DEF Roots
  <1>3. Roots \subseteq Nat /\ IsFiniteSet(Roots)
    BY <1>1, <1>2, SpansFinite, FS_Subset
  <1>4. left \in Seq(Roots)
    BY <1>3, Ordered DEF Init
  <1>5. Types
    BY <1>1, <1>2, <1>4 DEF Init, Types
  <1>6. StackSound
    BY DEF Init, StackSound
  <1>7. Seen = {} /\ Walked = {}
    BY DEF Init, Seen, Walked
  <1>8. Shallow
    BY <1>1, <1>7, SpansFinite, FS_EmptySet DEF Init, Shallow
  <1>9. Counted
    <2>1. {s \in Walked : IsError(s)} = {}
      BY <1>7
    <2> QED
      BY <2>1, FS_EmptySet DEF Init, Counted
  <1>10. Reached
    BY DEF Init, Reached
  <1> QED
    BY <1>5, <1>6, <1>8, <1>9, <1>10 DEF IInv

\* A new walk starts with nothing but its root.
LEMMA StepEnter == IInv /\ Enter => IInv'
  <1> SUFFICES ASSUME IInv, Enter PROVE IInv'
    OBVIOUS
  <1> DEFINE r == Head(left)
  <1>1. /\ trace \in Seq(Span) /\ trace' = trace
        /\ left \in Seq(Spans) /\ left # <<>>
    BY DEF IInv, Types, Enter
  <1>2. Spans' = Spans /\ Spans \subseteq Nat \ {0} /\ IsFiniteSet(Spans)
    BY <1>1, TraceKept, SpansFinite
  <1>3. r \in Spans /\ Tail(left) \in Seq(Spans)
    BY <1>1
  <1>4. /\ root' = r /\ left' = Tail(left) /\ stack' = <<r>>
        /\ pred' = [s \in Spans |-> 0]
        /\ depth' = [s \in Spans |-> IF s = r THEN 1 ELSE 0]
        /\ errors' = 0 /\ maxDepth' = 0 /\ ties' = 0 /\ deepest' = 0
        /\ total' = total /\ allTies' = allTies
    BY DEF Enter, overall
  <1> HIDE DEF r
  <1>5. Types'
    BY <1>1, <1>2, <1>3, <1>4 DEF IInv, Types
  <1>6. StackSound'
    BY <1>2, <1>3, <1>4 DEF StackSound
  <1>7. Seen' = {r}
    BY <1>2, <1>3, <1>4 DEF Seen
  <1>8. Walked' = {}
    <2>1. {stack'[i] : i \in DOMAIN stack'} = {r}
      BY <1>4
    <2> QED
      BY <1>7, <2>1 DEF Walked, Seen
  <1>9. Shallow'
    <2>1. Cardinality({r}) = 1
      BY FS_EmptySet, FS_AddElement
    <2> QED
      BY <1>1, <1>2, <1>4, <1>7, <2>1, SpansFinite DEF Shallow
  <1>10. Counted'
    <2>1. {s \in Walked : IsError(s)}' = {}
      BY <1>8
    <2> QED
      BY <1>4, <2>1, FS_EmptySet DEF Counted
  <1>11. Reached'
    BY <1>4, <1>7, <1>8 DEF Reached
  <1> QED
    BY <1>5, <1>6, <1>9, <1>10, <1>11 DEF IInv

\* The end of a walk touches neither its marks nor its count.
LEMMA StepConclude == IInv /\ Conclude => IInv'
  <1> SUFFICES ASSUME IInv, Conclude PROVE IInv'
    OBVIOUS
  <1>1. /\ trace' = trace /\ left' = left /\ stack' = stack /\ stack = <<>>
        /\ pred' = pred /\ depth' = depth
        /\ errors' = errors /\ maxDepth' = maxDepth /\ ties' = ties
        /\ deepest' = deepest
        /\ root' = 0 /\ total' = total + errors
        /\ allTies' \in {allTies, ties, allTies + ties}
    BY DEF Conclude, found
  <1>2. Spans' = Spans /\ \A s : IsError(s)' = IsError(s)
    BY <1>1, TraceKept
  <1>3. Types'
    BY <1>1, <1>2 DEF IInv, Types
  <1>4. StackSound'
    BY <1>1 DEF StackSound
  <1>5. Seen' = Seen /\ Walked' = Walked
    BY <1>1, <1>2 DEF Seen, Walked
  <1>6. Shallow'
    BY <1>1, <1>2, <1>5 DEF IInv, Shallow
  <1>7. Counted'
    <2>1. {s \in Walked : IsError(s)}' = {s \in Walked : IsError(s)}
      BY <1>2, <1>5
    <2> QED
      BY <1>1, <2>1 DEF IInv, Counted
  <1>8. Reached'
    BY <1>1 DEF Reached
  <1> QED
    BY <1>3, <1>4, <1>6, <1>7, <1>8 DEF IInv
-----------------------------------------------------------------------------
\* What popping a span and pushing its fresh children does to the marks.
LEMMA PopMarks ==
    ASSUME IInv, Pop
    PROVE  /\ Top \in Spans /\ depth[Top] # 0
           /\ Fresh \subseteq Spans /\ IsFiniteSet(Fresh)
           /\ stack' \in Seq(Spans)
           /\ \A i, j \in DOMAIN stack' : i # j => stack'[i] # stack'[j]
           /\ Stacked' = (Stacked \ {Top}) \cup Fresh
           /\ Seen' = Seen \cup Fresh
           /\ Seen \cap Fresh = {}
           /\ Top \in Stacked /\ Stacked \subseteq Seen
  <1>1. /\ trace \in Seq(Span) /\ trace' = trace
        /\ stack \in Seq(Spans) /\ stack # <<>>
        /\ depth \in [Spans -> Nat]
    BY DEF IInv, Types, Pop
  <1>2. Spans' = Spans /\ Spans \subseteq Nat /\ IsFiniteSet(Spans)
    BY <1>1, TraceKept, SpansFinite
  <1> DEFINE n == Len(stack) - 1
  <1>3. n \in Nat /\ Len(stack) = n + 1 /\ DOMAIN stack = 1 .. n + 1
    BY <1>1
  <1>4. /\ Below \in Seq(Spans) /\ Len(Below) = n
        /\ \A i \in 1 .. n : Below[i] = stack[i]
    BY <1>1, <1>3 DEF Below
  <1>5. Top = stack[n + 1] /\ Top \in Spans
    BY <1>1, <1>3 DEF Top
  <1> HIDE DEF n
  <1>6. /\ \A i \in 1 .. n + 1 : stack[i] \in Spans /\ depth[stack[i]] # 0
        /\ \A i, j \in 1 .. n + 1 : i # j => stack[i] # stack[j]
    <2>1. \A i \in DOMAIN stack : stack[i] \in Spans
      BY <1>1
    <2> QED
      BY <1>3, <2>1 DEF IInv, StackSound
  <1>7. depth[Top] # 0
    BY <1>3, <1>5, <1>6
  <1>8. /\ Fresh \subseteq Spans
        /\ \A s \in Fresh : depth[s] = 0
    BY DEF Fresh, Children
  <1>9. Fresh \subseteq Nat /\ IsFiniteSet(Fresh)
    BY <1>2, <1>8, FS_Subset
  <1>10. PICK q \in InOrder(Fresh) : stack' = Below \o q
    BY DEF Pop
  <1>11. /\ q \in Seq(Fresh)
         /\ \A i, j \in DOMAIN q : i # j => q[i] # q[j]
         /\ \A x \in Fresh : \E i \in DOMAIN q : x = q[i]
    <2>1. q \in InOrder(Fresh)
      BY <1>10
    <2>2. q \in Seq(Fresh)
      BY <1>9, <2>1, Ordered
    <2>3. \A i, j \in DOMAIN q : i # j => q[i] # q[j]
      BY <1>9, <2>1, Ordered
    <2>4. \A x \in Fresh : \E i \in DOMAIN q : x = q[i]
      BY <2>1 DEF InOrder
    <2> QED
      BY <2>2, <2>3, <2>4
  <1>12. q \in Seq(Spans) /\ Len(q) \in Nat /\ DOMAIN q = 1 .. Len(q)
    BY <1>8, <1>11
  <1>13. /\ stack' \in Seq(Spans)
         /\ DOMAIN stack' = 1 .. n + Len(q)
         /\ \A i \in 1 .. n : stack'[i] = stack[i]
         /\ \A i \in 1 .. Len(q) : stack'[n + i] = q[i]
    <2>1. Below \o q \in Seq(Spans) /\ Len(Below \o q) = n + Len(q)
      BY <1>4, <1>12
    <2>2. \A i \in 1 .. n : (Below \o q)[i] = Below[i]
      BY <1>3, <1>4, <1>12
    <2>3. \A i \in 1 .. Len(q) : (Below \o q)[n + i] = q[i]
      BY <1>3, <1>4, <1>12
    <2> QED
      <3>1. DOMAIN stack' = 1 .. n + Len(q)
        BY <1>10, <2>1
      <3>2. \A i \in 1 .. n : stack'[i] = stack[i]
        BY <1>4, <1>10, <2>2
      <3> QED
        BY <1>10, <2>1, <2>3, <3>1, <3>2
  <1>14. \A i \in n + 1 .. n + Len(q) :
            i - n \in 1 .. Len(q) /\ stack'[i] = q[i - n]
    <2> SUFFICES ASSUME NEW i \in n + 1 .. n + Len(q)
                 PROVE  i - n \in 1 .. Len(q) /\ stack'[i] = q[i - n]
      OBVIOUS
    <2>1. i - n \in 1 .. Len(q) /\ n + (i - n) = i
      BY <1>3, <1>12
    <2> QED
      BY <1>13, <2>1
  <1>15. \A i \in 1 .. Len(q) : q[i] \in Fresh /\ depth[q[i]] = 0
    BY <1>8, <1>11, <1>12
  <1>16. ASSUME NEW i \in 1 .. n + Len(q), NEW j \in 1 .. n + Len(q), i # j
         PROVE  stack'[i] # stack'[j]
    <2>1. CASE i \in 1 .. n /\ j \in 1 .. n
      <3>1. stack'[i] = stack[i] /\ stack'[j] = stack[j]
        BY <1>13, <2>1
      <3>2. i \in 1 .. n + 1 /\ j \in 1 .. n + 1
        BY <1>3, <2>1
      <3> QED
        BY <1>6, <1>16, <3>1, <3>2
    <2>2. CASE i \in n + 1 .. n + Len(q) /\ j \in n + 1 .. n + Len(q)
      <3>1. i - n # j - n
        BY <1>3, <1>12, <1>16, <2>2
      <3> QED
        BY <1>11, <1>12, <1>14, <2>2, <3>1
    <2>3. CASE i \in 1 .. n /\ j \in n + 1 .. n + Len(q)
      <3>1. stack'[i] = stack[i] /\ depth[stack[i]] # 0
        BY <1>3, <1>6, <1>13, <2>3
      <3>2. depth[stack'[j]] = 0
        BY <1>14, <1>15, <2>3
      <3> QED
        BY <3>1, <3>2
    <2>4. CASE i \in n + 1 .. n + Len(q) /\ j \in 1 .. n
      <3>1. stack'[j] = stack[j] /\ depth[stack[j]] # 0
        BY <1>3, <1>6, <1>13, <2>4
      <3>2. depth[stack'[i]] = 0
        BY <1>14, <1>15, <2>4
      <3> QED
        BY <3>1, <3>2
    <2> QED
      BY <1>3, <1>12, <2>1, <2>2, <2>3, <2>4
  <1>17. Stacked' = (Stacked \ {Top}) \cup Fresh
    <2>1. Stacked = {stack[i] : i \in 1 .. n + 1}
      BY <1>3 DEF Stacked
    <2>2. Stacked \ {Top} = {stack[i] : i \in 1 .. n}
      BY <1>3, <1>5, <1>6, <2>1
    <2>3. Stacked' = {stack'[i] : i \in 1 .. n + Len(q)}
      BY <1>13 DEF Stacked
    <2>4. Fresh = {q[i] : i \in 1 .. Len(q)}
      BY <1>11, <1>12
    <2>5. ASSUME NEW s \in Stacked'
          PROVE  s \in (Stacked \ {Top}) \cup Fresh
      <3>1. PICK i \in 1 .. n + Len(q) : s = stack'[i]
        BY <2>3
      <3>2. CASE i \in 1 .. n
        BY <1>13, <2>2, <3>1, <3>2
      <3>3. CASE i \in n + 1 .. n + Len(q)
        BY <1>14, <1>15, <3>1, <3>3
      <3> QED
        BY <1>3, <1>12, <3>2, <3>3
    <2>6. ASSUME NEW s \in Stacked \ {Top}
          PROVE  s \in Stacked'
      <3>1. PICK i \in 1 .. n : s = stack[i]
        BY <2>2
      <3>2. i \in 1 .. n + Len(q) /\ s = stack'[i]
        BY <1>3, <1>12, <1>13, <3>1
      <3> QED
        BY <2>3, <3>2
    <2>7. ASSUME NEW s \in Fresh
          PROVE  s \in Stacked'
      <3>1. PICK i \in 1 .. Len(q) : s = q[i]
        BY <2>4
      <3>2. n + i \in 1 .. n + Len(q) /\ s = stack'[n + i]
        BY <1>3, <1>12, <1>13, <3>1
      <3> QED
        BY <2>3, <3>2
    <2> QED
      BY <2>5, <2>6, <2>7
  <1>18. Seen' = Seen \cup Fresh
    <2>1. depth' = [s \in Spans |-> IF s \in Fresh THEN depth[Top] + 1
                                                   ELSE depth[s]]
      BY DEF Pop
    <2>2. depth[Top] + 1 # 0
      BY <1>1, <1>5
    <2> QED
      BY <1>2, <1>8, <2>1, <2>2 DEF Seen
  <1>19. Seen \cap Fresh = {}
    BY <1>8 DEF Seen
  <1>20. Top \in Stacked /\ Stacked \subseteq Seen
    BY <1>3, <1>5, <1>6 DEF Stacked, Seen
  <1> QED
    BY <1>5, <1>7, <1>8, <1>9, <1>13, <1>16, <1>17, <1>18, <1>19, <1>20

\* One turn of the walk keeps the invariant.
LEMMA StepPop == IInv /\ Pop => IInv'
  <1> SUFFICES ASSUME IInv, Pop PROVE IInv'
    OBVIOUS
  <1>1. /\ trace \in Seq(Span) /\ trace' = trace
        /\ left' = left /\ root' = root
        /\ total' = total /\ allTies' = allTies
        /\ depth \in [Spans -> Nat]
        /\ errors \in Nat /\ maxDepth \in Nat /\ ties \in Nat
        /\ stack # <<>>
    BY DEF IInv, Types, Pop, overall
  <1>2. /\ Spans' = Spans /\ Spans \subseteq Nat \ {0} /\ IsFiniteSet(Spans)
        /\ Cardinality(Spans) = Len(trace) /\ Len(trace) \in Nat
    BY <1>1, TraceKept, SpansFinite
  <1>3. /\ Top \in Spans /\ depth[Top] # 0
        /\ Fresh \subseteq Spans /\ IsFiniteSet(Fresh)
        /\ stack' \in Seq(Spans)
        /\ \A i, j \in DOMAIN stack' : i # j => stack'[i] # stack'[j]
        /\ Stacked' = (Stacked \ {Top}) \cup Fresh
        /\ Seen' = Seen \cup Fresh /\ Seen \cap Fresh = {}
        /\ Top \in Stacked /\ Stacked \subseteq Seen
    BY PopMarks
  <1>4. /\ pred' = [s \in Spans |-> IF s \in Fresh THEN Top ELSE pred[s]]
        /\ depth' = [s \in Spans |-> IF s \in Fresh THEN depth[Top] + 1
                                                   ELSE depth[s]]
    BY DEF Pop
  <1>5. /\ errors' \in Nat /\ maxDepth' \in Nat /\ ties' \in Nat
        /\ deepest' \in {0} \cup Spans
        /\ maxDepth' \in {maxDepth, depth[Top]}
        /\ errors' = IF IsError(Top) THEN errors + 1 ELSE errors
    <2>1. Blame(Top)
      BY DEF Pop
    <2>2. depth[Top] \in Nat /\ deepest \in {0} \cup Spans
      BY <1>1, <1>3 DEF IInv, Types
    <2>3. CASE ~IsError(Top)
      BY <1>1, <2>1, <2>2, <2>3 DEF Blame, found
    <2>4. CASE IsError(Top)
      BY <1>1, <1>3, <2>1, <2>2, <2>4 DEF Blame
    <2> QED
      BY <2>3, <2>4
  <1>6. Types'
    <2>1. pred' \in [Spans -> {0} \cup Spans]
      BY <1>3, <1>4 DEF IInv, Types
    <2>2. depth' \in [Spans -> Nat]
      BY <1>1, <1>3, <1>4
    <2> QED
      BY <1>1, <1>2, <1>3, <1>5, <2>1, <2>2 DEF IInv, Types
  <1>7. StackSound'
    <2>1. root' # 0
      BY <1>1 DEF IInv, StackSound
    <2>2. ASSUME NEW i \in DOMAIN stack'
          PROVE  depth'[stack'[i]] # 0
      <3>1. stack'[i] \in Stacked'
        BY DEF Stacked
      <3>2. stack'[i] \in Seen'
        BY <1>3, <3>1
      <3> QED
        BY <3>2 DEF Seen
    <2> QED
      BY <1>3, <2>1, <2>2 DEF StackSound
  <1>8. Walked = Seen \ Stacked /\ Walked' = Seen' \ Stacked'
    BY DEF Walked, Seen, Stacked
  <1>9. Walked' = Walked \cup {Top} /\ Top \notin Walked
    BY <1>3, <1>8
  <1>10. /\ Seen \subseteq Spans /\ IsFiniteSet(Seen)
         /\ Cardinality(Seen) \in Nat /\ Cardinality(Seen) <= Len(trace)
    <2>1. Seen \subseteq Spans
      BY DEF Seen
    <2> QED
      BY <1>2, <2>1, FS_Subset, FS_CardinalityType
  <1>11. Shallow'
    <2>1. \A s \in Spans : depth[s] \in Nat /\ depth[s] <= Cardinality(Seen)
      BY <1>1 DEF IInv, Shallow
    <2>2. /\ IsFiniteSet(Seen') /\ Cardinality(Seen') \in Nat
          /\ Cardinality(Seen) <= Cardinality(Seen')
      <3>1. IsFiniteSet(Seen')
        BY <1>3, <1>10, FS_Union
      <3>2. Seen \in SUBSET Seen'
        BY <1>3
      <3> QED
        BY <3>1, <3>2, FS_Subset, FS_CardinalityType
    <2>3. ASSUME NEW s \in Fresh
          PROVE  Cardinality(Seen) + 1 <= Cardinality(Seen')
      <3>1. /\ IsFiniteSet(Seen \cup {s})
            /\ Cardinality(Seen \cup {s}) = Cardinality(Seen) + 1
        BY <1>3, <1>10, FS_AddElement
      <3>2. Seen \cup {s} \in SUBSET Seen'
        BY <1>3
      <3> QED
        BY <2>2, <3>1, <3>2, FS_Subset
    <2>4. ASSUME NEW s \in Spans
          PROVE  depth'[s] <= Cardinality(Seen')
      <3>1. CASE s \in Fresh
        <4>1. depth'[s] = depth[Top] + 1
          BY <1>4, <3>1
        <4>2. Cardinality(Seen) + 1 <= Cardinality(Seen')
          BY <2>3, <3>1
        <4>3. depth[Top] \in Nat /\ depth[Top] <= Cardinality(Seen)
          BY <1>3, <2>1
        <4> QED
          BY <1>10, <2>2, <4>1, <4>2, <4>3
      <3>2. CASE s \notin Fresh
        BY <1>4, <1>10, <2>1, <2>2, <3>2
      <3> QED
        BY <3>1, <3>2
    <2>5. maxDepth' <= Len(trace)
      BY <1>1, <1>2, <1>3, <1>5, <1>10, <2>1 DEF IInv, Shallow
    <2> QED
      BY <1>1, <1>2, <2>4, <2>5 DEF Shallow
  <1>12. Counted'
    <2> DEFINE E == {s \in Walked : IsError(s)}
    <2>1. \A s : IsError(s)' = IsError(s)
      BY <1>1, TraceKept
    <2>2. E' = IF IsError(Top) THEN E \cup {Top} ELSE E
      BY <1>9, <2>1
    <2>3. Top \notin E /\ E \in SUBSET Spans
      BY <1>8, <1>9, <1>10
    <2>4. IsFiniteSet(E) /\ Cardinality(E) \in Nat
      BY <1>2, <2>3, FS_Subset, FS_CardinalityType
    <2>5. errors = Cardinality(E)
      BY DEF IInv, Counted
    <2> HIDE DEF E
    <2>6. errors' = Cardinality(E')
      BY <1>5, <2>2, <2>3, <2>4, <2>5, FS_AddElement
    <2> QED
      BY <2>6 DEF Counted, E
  <1>13. Reached'
    <2>1. /\ root # 0 /\ root \in Seen
          /\ \A s \in Walked : Children(s) \subseteq Seen
          /\ \A S \in SUBSET Spans : root \in S /\ Closed(S) => Seen \subseteq S
      BY <1>1 DEF IInv, StackSound, Reached
    <2>2. /\ \A s : Children(s)' = Children(s)
          /\ \A S : Closed(S)' = Closed(S)
      BY <1>1, TraceKept
    <2>3. Children(Top) \subseteq Seen \cup Fresh
      BY DEF Children, Fresh, Seen
    <2>4. \A s \in Walked' : Children(s)' \subseteq Seen'
      BY <1>3, <1>9, <2>1, <2>2, <2>3
    <2>5. ASSUME NEW S \in SUBSET Spans, root \in S, Closed(S)
          PROVE  Seen' \subseteq S
      <3>1. Seen \subseteq S /\ Top \in S
        BY <1>3, <2>1, <2>5
      <3>2. Fresh \subseteq S
        BY <2>5, <3>1 DEF Closed, Fresh
      <3> QED
        BY <1>3, <3>1, <3>2
    <2> QED
      BY <1>1, <1>2, <1>3, <2>1, <2>2, <2>4, <2>5 DEF Reached
  <1> QED
    BY <1>6, <1>7, <1>11, <1>12, <1>13 DEF IInv

\* Every step of the specification preserves the invariant.
LEMMA NextIInv == IInv /\ [Next]_vars => IInv'
  <1> SUFFICES ASSUME IInv, [Next]_vars PROVE IInv'
    OBVIOUS
  <1>1. CASE UNCHANGED vars
    <2>1. /\ trace' = trace /\ left' = left /\ root' = root /\ stack' = stack
          /\ pred' = pred /\ depth' = depth
          /\ errors' = errors /\ maxDepth' = maxDepth /\ ties' = ties
          /\ deepest' = deepest /\ total' = total /\ allTies' = allTies
      BY <1>1 DEF vars
    <2>2. /\ Spans' = Spans
          /\ \A s : IsError(s)' = IsError(s)
          /\ \A s : Children(s)' = Children(s)
          /\ \A S : Closed(S)' = Closed(S)
      BY <2>1, TraceKept
    <2>3. Seen' = Seen /\ Walked' = Walked
      BY <2>1, <2>2 DEF Seen, Walked
    <2>4. {s \in Walked : IsError(s)}' = {s \in Walked : IsError(s)}
      BY <2>2, <2>3
    <2>5. Types' /\ StackSound'
      BY <2>1, <2>2 DEF IInv, Types, StackSound
    <2>6. Shallow' /\ Counted'
      BY <2>1, <2>2, <2>3, <2>4 DEF IInv, Shallow, Counted
    <2>7. Reached'
      BY <2>1, <2>2, <2>3 DEF IInv, Reached
    <2> QED
      BY <2>5, <2>6, <2>7 DEF IInv
  <1> QED
    BY <1>1, StepEnter, StepPop, StepConclude DEF Next
-----------------------------------------------------------------------------
\* The inductive invariant implies the type invariant: an ERROR counted is a
\* span, so there are no more of them than spans.
LEMMA IInvTypeOK == IInv => TypeOK
  <1> SUFFICES ASSUME IInv PROVE TypeOK
    OBVIOUS
  <1>1. /\ Spans \subseteq Nat \ {0} /\ IsFiniteSet(Spans)
        /\ Cardinality(Spans) = Len(trace) /\ Len(trace) \in Nat
    BY SpansFinite DEF IInv, Types
  <1>2. \A S \in SUBSET Spans : Cardinality(S) \in Nat /\ Cardinality(S) <= Len(trace)
    BY <1>1, FS_Subset, FS_CardinalityType
  <1>3. Seen \in SUBSET Spans /\ {s \in Walked : IsError(s)} \in SUBSET Spans
    BY DEF Seen, Walked
  <1>4. errors \in 0 .. Len(trace)
    BY <1>1, <1>2, <1>3 DEF IInv, Types, Counted
  <1>5. \A s \in Spans : depth[s] \in 0 .. Len(trace)
    <2>1. Cardinality(Seen) \in Nat /\ Cardinality(Seen) <= Len(trace)
      BY <1>2, <1>3
    <2>2. \A s \in Spans : depth[s] \in Nat /\ depth[s] <= Cardinality(Seen)
      BY DEF IInv, Types, Shallow
    <2> QED
      BY <1>1, <2>1, <2>2
  <1>6. depth \in [Spans -> 0 .. Len(trace)]
    BY <1>5 DEF IInv, Types
  <1>7. maxDepth \in 0 .. Len(trace)
    BY <1>1 DEF IInv, Types, Shallow
  <1> QED
    BY <1>4, <1>6, <1>7 DEF IInv, Types, StackSound, TypeOK

\* A walk that is over has nothing left on its stack: what it has seen it has
\* walked.
LEMMA IInvErrorsCounted == IInv => ErrorsCounted
  <1> SUFFICES ASSUME IInv, root # 0, stack = <<>>
               PROVE  /\ IsSubtree(Walked, root)
                      /\ errors = Cardinality({s \in Walked : IsError(s)})
    BY DEF ErrorsCounted
  <1>1. Walked = Seen
    BY DEF Walked, Seen
  <1>2. IsSubtree(Walked, root)
    BY <1>1 DEF IInv, Reached, IsSubtree, Closed
  <1> QED
    BY <1>2 DEF IInv, Counted

\* The inductive invariant holds in every reachable state.
LEMMA Invariance == Spec => []IInv
  BY InitIInv, NextIInv, PTL DEF Spec

\* The variables have their types, and the walk of a trace of any length, with
\* any cycles and any reuse of span_ids, pushes no span twice: no span is deeper
\* than the trace is long (span_tree.py:268-276).
THEOREM TypeCorrect == Spec => []TypeOK
  BY Invariance, IInvTypeOK, PTL

\* A walk that is over has visited exactly what is reachable from its root and
\* counted every ERROR among it once, for every trace (span_tree.py:244-316).
THEOREM WalkIsExact == Spec => []ErrorsCounted
  BY Invariance, IInvErrorsCounted, PTL
-----------------------------------------------------------------------------
(* The walks over all roots.                                               *)

\* What hangs off r: what every closed set with r has.

Reach(r) == {s \in Spans : \A S \in SUBSET Spans : r \in S /\ Closed(S) => s \in S}

\* The predecessors lead from what the walk has seen to its root.
Linked ==
    root # 0 =>
        /\ root \in Roots /\ depth[root] = 1 /\ pred[root] = 0
        /\ \A s \in Seen \ {root} :
            /\ pred[s] \in Seen
            /\ s \in Children(pred[s])
            /\ depth[s] = depth[pred[s]] + 1

WalkedErrors == {s \in Walked : IsError(s)}

\* The verdict of the walk so far.
Blamed ==
    root # 0 =>
        /\ \A s \in WalkedErrors : depth[s] <= maxDepth
        /\ ties = Cardinality({s \in WalkedErrors : depth[s] = maxDepth})
        /\ \/ WalkedErrors = {} /\ deepest = 0 /\ maxDepth = 0
           \/ deepest \in WalkedErrors /\ depth[deepest] = maxDepth

\* The roots whose walk is over.
DoneRoots == Roots \ ({root} \cup {left[i] : i \in DOMAIN left})

\* Every root is walked once.
EachRootOnce ==
    /\ \A i \in DOMAIN left : left[i] \in Roots /\ left[i] # root
    /\ \A i, j \in DOMAIN left : i # j => left[i] # left[j]

\* A path from a root down to an ERROR.
ErrorPath(q) ==
    /\ q \in Seq(Spans) /\ q # <<>>
    /\ q[1] \in Roots
    /\ \A i \in 2 .. Len(q) : q[i] \in Children(q[i - 1])
    /\ IsError(q[Len(q)])

Chained == (chain = <<>> /\ total = 0) \/ (ErrorPath(chain) /\ total # 0)

\* The ERRORs below the roots whose walk is over.
DoneErrors == {s \in Spans : IsError(s) /\ \E r \in DoneRoots : s \in Reach(r)}

\* Where span_ids are unique the depth of the walk is the depth in the tree.
Levels ==
    /\ root # 0 => \A s \in Seen : TrueDepth(s) = depth[s]
    /\ \A r \in DoneRoots : \A s \in Reach(r) : TrueDepth(s) # 0

\* The overall result so far.
Merged ==
    /\ total = Cardinality(DoneErrors)
    /\ chain # <<>> =>
        /\ chain[Len(chain)] \in DoneErrors
        /\ TrueDepth(chain[Len(chain)]) = Len(chain)
        /\ \A s \in DoneErrors : TrueDepth(s) <= Len(chain)
        /\ allTies = Cardinality({s \in DoneErrors : TrueDepth(s) = Len(chain)})

TInv ==
    /\ IInv
    /\ Linked /\ Blamed /\ EachRootOnce /\ Chained
    /\ UniqueIds => Levels /\ Merged
-----------------------------------------------------------------------------
(* Numbers and functions: what the recursive definitions need.             *)

\* Induction over the natural numbers, for the members of a set.
LEMMA SetInduction ==
    ASSUME NEW S, 0 \in S, \A n \in Nat : n \in S => n + 1 \in S
    PROVE  Nat \subseteq S
  <1> SUFFICES ASSUME Nat \ S # {} PROVE FALSE
    OBVIOUS
  <1>1. PICK R : R = OpToRel(<, Nat)
    BY Zenon
  <1>2. IsWellFoundedOn(R, Nat)
    BY <1>1, NatLessThanWellFounded, Zenon
  <1>3. \A x, y \in Nat : x < y => <<x, y>> \in R
    BY <1>1, Zenon DEF OpToRel
  <1>4. PICK T : T = Nat \ S
    OBVIOUS
  <1>5. PICK m \in T : \A y \in T : ~ (<<y, m>> \in R)
    <2>1. \E x \in T : \A y \in T : ~ (<<y, x>> \in R)
      BY <1>2, <1>4, WFMin
    <2> QED
      BY <2>1
  <1>6. m \in Nat /\ m # 0
    BY <1>4, <1>5
  <1>7. m - 1 \in Nat /\ m - 1 < m /\ m - 1 + 1 = m
    BY <1>6
  <1>8. m - 1 \in T
    BY <1>4, <1>5, <1>7
  <1> QED
    BY <1>3, <1>5, <1>6, <1>7, <1>8

\* The same up to a bound.
LEMMA Induction ==
    ASSUME NEW N \in Nat, NEW S, 0 \in S,
           \A n \in 0 .. N - 1 : n \in S => n + 1 \in S
    PROVE  \A n \in 0 .. N : n \in S
  <1>1. PICK T : T = {n \in Nat : n <= N => n \in S}
    OBVIOUS
  <1>2. 0 \in T
    BY <1>1
  <1>3. ASSUME NEW n \in Nat, n \in T
        PROVE  n + 1 \in T
    <2> SUFFICES ASSUME n + 1 <= N PROVE n + 1 \in S
      BY <1>1
    <2>1. n \in S
      BY <1>1, <1>3
    <2>2. n \in 0 .. N - 1
      OBVIOUS
    <2> QED
      BY <2>1, <2>2
  <1>4. Nat \subseteq T
    BY <1>2, <1>3, SetInduction
  <1> QED
    BY <1>1, <1>4

\* A function on 0 .. N may be given by its first value and what makes each
\* value of the one before.
IteratesAt(g, N, V, v, F) ==
    /\ g \in [0 .. N -> V]
    /\ g[0] = v
    /\ \A k \in 1 .. N : g[k] = F[k][g[k - 1]]

LEMMA RecursionAt ==
    ASSUME NEW N \in Nat, NEW V, NEW v \in V, NEW F \in [1 .. N -> [V -> V]]
    PROVE  \E g : IteratesAt(g, N, V, v, F)
  <1>1. PICK T : T = {n \in 0 .. N : \E g \in [0 .. n -> V] :
                        g[0] = v /\ \A k \in 1 .. n : g[k] = F[k][g[k - 1]]}
    OBVIOUS
  <1>2. 0 \in T
    <2>1. PICK g : g = [k \in 0 .. 0 |-> v]
      OBVIOUS
    <2>2. g \in [0 .. 0 -> V] /\ g[0] = v /\ \A k \in 1 .. 0 : g[k] = F[k][g[k - 1]]
      BY <2>1
    <2> QED
      BY <1>1, <2>2
  <1>3. ASSUME NEW n \in 0 .. N - 1, n \in T
        PROVE  n + 1 \in T
    <2>1. PICK g \in [0 .. n -> V] :
             g[0] = v /\ \A k \in 1 .. n : g[k] = F[k][g[k - 1]]
      BY <1>1, <1>3
    <2>2. n \in Nat /\ n + 1 \in 0 .. N
      OBVIOUS
    <2>3. PICK h : h = [k \in 0 .. n + 1 |-> IF k = n + 1 THEN F[n + 1][g[n]] ELSE g[k]]
      OBVIOUS
    <2>4. \A k \in 0 .. n : h[k] = g[k] /\ g[k] \in V
      BY <2>1, <2>2, <2>3
    <2>5. h[n + 1] = F[n + 1][g[n]] /\ F[n + 1][g[n]] \in V
      BY <2>2, <2>3, <2>4
    <2>6. h \in [0 .. n + 1 -> V]
      BY <2>2, <2>3, <2>4, <2>5
    <2>7. ASSUME NEW k \in 1 .. n + 1
          PROVE  h[k] = F[k][h[k - 1]]
      <3>1. CASE k = n + 1
        <4>1. k - 1 = n /\ n \in 0 .. n
          BY <2>2, <3>1
        <4> QED
          BY <2>4, <2>5, <3>1, <4>1
      <3>2. CASE k \in 1 .. n
        <4>1. k \in 0 .. n /\ k - 1 \in 0 .. n
          BY <2>2, <3>2
        <4> QED
          BY <2>1, <2>4, <3>2, <4>1
      <3> QED
        BY <2>2, <3>1, <3>2
    <2>8. h[0] = v
      BY <2>1, <2>2, <2>4
    <2> QED
      BY <1>1, <2>2, <2>6, <2>7, <2>8
  <1>4. \A n \in 0 .. N : n \in T
    BY <1>2, <1>3, Induction
  <1>5. N \in T
    BY <1>4
  <1> QED
    BY <1>1, <1>5 DEF IteratesAt

\* The same with the same function all along.
Iterates(g, N, V, v, F) ==
    /\ g \in [0 .. N -> V]
    /\ g[0] = v
    /\ \A k \in 1 .. N : g[k] = F[g[k - 1]]

LEMMA Recursion ==
    ASSUME NEW N \in Nat, NEW V, NEW v \in V, NEW F \in [V -> V]
    PROVE  \E g : Iterates(g, N, V, v, F)
  <1>1. PICK G : G = [k \in 1 .. N |-> F]
    OBVIOUS
  <1>2. G \in [1 .. N -> [V -> V]] /\ \A k \in 1 .. N : G[k] = F
    BY <1>1
  <1>3. PICK g : IteratesAt(g, N, V, v, G)
    BY <1>2, RecursionAt
  <1>4. Iterates(g, N, V, v, F)
    BY <1>2, <1>3 DEF IteratesAt, Iterates
  <1> QED
    BY <1>4

\* The least of some numbers, and the greatest of finitely many.
LEMMA MinIs ==
    ASSUME NEW S, S \subseteq Int, NEW m \in S, \A x \in S : m <= x
    PROVE  Min(S) = m
  <1>1. \E x \in S : \A y \in S : x <= y
    OBVIOUS
  <1>2. Min(S) \in S /\ \A y \in S : Min(S) <= y
    BY <1>1 DEF Min
  <1>3. m \in Int /\ Min(S) \in Int /\ m <= Min(S) /\ Min(S) <= m
    BY <1>2
  <1> QED
    BY <1>3

LEMMA MinExists ==
    ASSUME NEW S, S \subseteq Nat, S # {}
    PROVE  Min(S) \in S /\ \A x \in S : Min(S) <= x
  <1>1. PICK T : T = {n \in Nat : \A x \in S : n <= x}
    OBVIOUS
  <1>2. PICK z \in S : TRUE
    OBVIOUS
  <1>3. 0 \in T /\ z + 1 \notin T /\ z + 1 \in Nat
    BY <1>1, <1>2
  <1>4. PICK n \in Nat : n \in T /\ n + 1 \notin T
    BY <1>3, SetInduction
  <1>5. PICK x \in S : ~ (n + 1 <= x)
    BY <1>1, <1>4
  <1>6. x = n
    BY <1>1, <1>4, <1>5
  <1>7. \A y \in S : n <= y
    BY <1>1, <1>4
  <1> QED
    BY <1>5, <1>6, <1>7 DEF Min

LEMMA MaxIs ==
    ASSUME NEW S, S \subseteq Int, NEW m \in S, \A x \in S : x <= m
    PROVE  Max(S) = m
  <1>1. \E x \in S : \A y \in S : x >= y
    OBVIOUS
  <1>2. Max(S) \in S /\ \A y \in S : Max(S) >= y
    BY <1>1 DEF Max
  <1>3. m \in Int /\ Max(S) \in Int /\ m <= Max(S) /\ Max(S) <= m
    BY <1>2
  <1> QED
    BY <1>3

\* Among finitely many there is one with the greatest value.
LEMMA Greatest ==
    ASSUME NEW N \in Nat, NEW S, S \subseteq 0 .. N, S # {},
           NEW f, \A s \in S : f[s] \in Int
    PROVE  \E m \in S : \A s \in S : f[s] <= f[m]
  <1>1. PICK T : T = {n \in 0 .. N :
                        \/ \A s \in S : ~ (s <= n)
                        \/ \E m \in S : m <= n /\ \A s \in S : s <= n => f[s] <= f[m]}
    OBVIOUS
  <1>2. S \subseteq Nat
    OBVIOUS
  <1>3. 0 \in T
    <2>1. CASE 0 \in S
      <3>1. \A s \in S : s <= 0 => s = 0
        BY <1>2
      <3>2. \A s \in S : s <= 0 => f[s] <= f[0]
        BY <2>1, <3>1
      <3> QED
        BY <1>1, <2>1, <3>2
    <2>2. CASE 0 \notin S
      <3>1. \A s \in S : ~ (s <= 0)
        BY <1>2, <2>2
      <3> QED
        BY <1>1, <3>1
    <2> QED
      BY <2>1, <2>2
  <1>4. ASSUME NEW n \in 0 .. N - 1, n \in T
        PROVE  n + 1 \in T
    <2>1. n \in Nat /\ n + 1 \in 0 .. N
      OBVIOUS
    <2>2. \A s \in S : s <= n + 1 => s <= n \/ s = n + 1
      BY <1>2, <2>1
    <2>3. CASE n + 1 \notin S
      <3>1. \A s \in S : s <= n + 1 <=> s <= n
        BY <1>2, <2>1, <2>2, <2>3
      <3> QED
        BY <1>1, <1>4, <2>1, <3>1
    <2>4. CASE n + 1 \in S /\ \A s \in S : ~ (s <= n)
      <3>1. \A s \in S : s <= n + 1 => f[s] <= f[n + 1]
        BY <2>2, <2>4
      <3> QED
        BY <1>1, <2>1, <2>4, <3>1
    <2>5. ASSUME n + 1 \in S, NEW m \in S, m <= n,
                 \A s \in S : s <= n => f[s] <= f[m]
          PROVE  n + 1 \in T
      <3>1. CASE f[m] <= f[n + 1]
        <4>1. \A s \in S : s <= n + 1 => f[s] <= f[n + 1]
          BY <2>2, <2>5, <3>1
        <4> QED
          BY <1>1, <2>1, <2>5, <4>1
      <3>2. CASE f[n + 1] <= f[m]
        <4>1. \A s \in S : s <= n + 1 => f[s] <= f[m]
          BY <2>2, <2>5, <3>2
        <4>2. m <= n + 1
          BY <1>2, <2>1, <2>5
        <4> QED
          BY <1>1, <2>1, <2>5, <4>1, <4>2
      <3> QED
        BY <2>5, <3>1, <3>2
    <2> QED
      BY <1>1, <1>4, <2>3, <2>4, <2>5
  <1>5. N \in T
    <2>1. \A n \in 0 .. N : n \in T
      BY <1>3, <1>4, Induction
    <2> QED
      BY <2>1
  <1>6. \A s \in S : s <= N
    OBVIOUS
  <1> QED
    BY <1>1, <1>5, <1>6

LEMMA MaxExists ==
    ASSUME NEW N \in Nat, NEW S, S \subseteq 0 .. N, S # {}
    PROVE  Max(S) \in S /\ \A x \in S : x <= Max(S)
  <1>1. PICK f : f = [s \in S |-> s]
    OBVIOUS
  <1>2. \A s \in S : f[s] = s /\ f[s] \in Int
    BY <1>1
  <1>3. PICK m \in S : \A s \in S : f[s] <= f[m]
    BY <1>2, Greatest
  <1>4. S \subseteq Int /\ \A s \in S : s <= m
    BY <1>2, <1>3
  <1>5. Max(S) = m
    BY <1>4, MaxIs
  <1> QED
    BY <1>4, <1>5

\* What max() finds among spans is one of them, and none has a greater value.
LEMMA FirstMaxIs ==
    ASSUME NEW N \in Nat, NEW S, S \subseteq 0 .. N, S # {},
           NEW f, \A s \in S : f[s] \in Int
    PROVE  FirstMax(S, f) \in S /\ \A s \in S : f[s] <= f[FirstMax(S, f)]
  <1>1. PICK m \in S : \A s \in S : f[s] <= f[m]
    BY Greatest
  <1>2. PICK V : V = {f[s] : s \in S}
    OBVIOUS
  <1>3. V \subseteq Int /\ f[m] \in V /\ \A x \in V : x <= f[m]
    BY <1>1, <1>2
  <1>4. Max(V) = f[m]
    BY <1>3, MaxIs
  <1>5. PICK Q : Q = {s \in S : f[s] = f[m]}
    OBVIOUS
  <1>6. Q \subseteq Nat /\ Q # {}
    <2>1. m \in Q
      BY <1>1, <1>5
    <2>2. S \subseteq Nat
      OBVIOUS
    <2> QED
      BY <1>5, <2>1, <2>2
  <1>7. Min(Q) \in Q
    BY <1>6, MinExists
  <1>8. FirstMax(S, f) = Min(Q)
    BY <1>2, <1>4, <1>5 DEF FirstMax
  <1> QED
    BY <1>1, <1>5, <1>7, <1>8
-----------------------------------------------------------------------------
(* Children, what hangs off a span, and how deep.                          *)

\* A child is no root, and where span_ids are unique it has one parent.
LEMMA Parents ==
    ASSUME trace \in Seq(Span)
    PROVE  /\ Roots \subseteq Spans
           /\ \A s \in Spans :
                 /\ Id(s) \in Ids /\ Id(s) # None
                 /\ Children(s) \subseteq Spans \ Roots
                 /\ s \notin Roots => \E p \in Spans : s \in Children(p)
           /\ UniqueIds => \A s, t \in Spans :
                             s # t => Children(s) \cap Children(t) = {}
  <1>1. \A s \in Spans : trace[s] \in Span
    BY DEF Spans
  <1>2. \A s \in Spans : Id(s) \in Ids /\ Id(s) # None
    BY <1>1, TraceAssumption DEF Span, Id
  <1>3. \A s \in Spans : Children(s) \subseteq Spans \ Roots
    BY <1>2 DEF Children, Roots
  <1>4. \A s \in Spans : s \notin Roots => \E p \in Spans : s \in Children(p)
    BY <1>2 DEF Roots, Children, ParentKey, Known
  <1>5. UniqueIds => \A s, t \in Spans : s # t => Children(s) \cap Children(t) = {}
    BY DEF UniqueIds, Children
  <1>6. Roots \subseteq Spans
    BY DEF Roots
  <1> QED
    BY <1>2, <1>3, <1>4, <1>5, <1>6

\* Reach(r) is the one set that is the subtree of r.
LEMMA ReachIs ==
    ASSUME NEW r \in Spans
    PROVE  /\ Reach(r) \subseteq Spans /\ r \in Reach(r) /\ Closed(Reach(r))
           /\ \A S \in SUBSET Spans : r \in S /\ Closed(S) => Reach(r) \subseteq S
           /\ \A W \in SUBSET Spans : IsSubtree(W, r) => W = Reach(r)
  <1>1. Reach(r) \subseteq Spans /\ r \in Reach(r)
    BY DEF Reach
  <1>2. \A S \in SUBSET Spans : r \in S /\ Closed(S) => Reach(r) \subseteq S
    BY DEF Reach
  <1>3. Closed(Reach(r))
    <2> SUFFICES ASSUME NEW s \in Reach(r), NEW c \in Children(s)
                 PROVE  c \in Reach(r)
      BY DEF Closed
    <2>1. \A S \in SUBSET Spans : r \in S /\ Closed(S) => c \in S
      BY <1>2 DEF Closed
    <2>2. c \in Spans
      BY DEF Children
    <2> QED
      BY <2>1, <2>2 DEF Reach
  <1>4. \A W \in SUBSET Spans : IsSubtree(W, r) => W = Reach(r)
    BY <1>1, <1>2, <1>3 DEF IsSubtree
  <1> QED
    BY <1>1, <1>2, <1>3, <1>4

\* The trees of two roots have nothing in common where span_ids are unique.
LEMMA TreesApart ==
    ASSUME trace \in Seq(Span), UniqueIds,
           NEW r \in Roots, NEW q \in Roots, r # q
    PROVE  Reach(r) \cap Reach(q) = {}
  <1>1. r \in Spans /\ q \in Spans
    BY Parents
  <1>2. r \notin Reach(q)
    <2>1. PICK S : S = (Spans \ Roots) \cup {q}
      OBVIOUS
    <2>2. S \in SUBSET Spans /\ q \in S /\ r \notin S
      BY <1>1, <2>1
    <2>3. Closed(S)
      BY <2>1, <2>2, Parents DEF Closed
    <2> QED
      BY <1>1, <2>2, <2>3, ReachIs
  <1>3. PICK S : S = Spans \ Reach(q)
    OBVIOUS
  <1>4. ASSUME NEW s \in S, NEW c \in Children(s)
        PROVE  c \in S
    <2> SUFFICES ASSUME c \in Reach(q) PROVE FALSE
      BY <1>3 DEF Children
    <2>1. s \in Spans /\ s \notin Reach(q)
      BY <1>3
    <2>2. PICK T : T = Reach(q) \ {c}
      OBVIOUS
    <2>3. c # q
      BY <2>1, Parents
    <2>4. T \in SUBSET Spans /\ q \in T
      BY <1>1, <2>2, <2>3, ReachIs
    <2>5. Closed(T)
      <3> SUFFICES ASSUME NEW t \in T PROVE Children(t) \subseteq T
        BY DEF Closed
      <3>1. Children(t) \subseteq Reach(q)
        BY <1>1, <2>2, ReachIs DEF Closed
      <3>2. t \in Spans /\ t # s
        BY <2>1, <2>2, <2>4
      <3>3. c \notin Children(t)
        BY <2>1, <3>2, Parents
      <3> QED
        BY <2>2, <3>1, <3>3
    <2>6. Reach(q) \subseteq T
      BY <1>1, <2>4, <2>5, ReachIs
    <2> QED
      BY <2>2, <2>6
  <1>5. S \in SUBSET Spans /\ r \in S /\ Closed(S)
    BY <1>1, <1>2, <1>3, <1>4 DEF Closed
  <1>6. Reach(r) \subseteq S
    BY <1>1, <1>5, ReachIs
  <1> QED
    BY <1>3, <1>6

\* The spans level by level: the roots, their children, and so on.
IsLeveling(level) ==
    /\ level \in [0 .. Len(trace) -> SUBSET Spans]
    /\ level[0] = Roots
    /\ \A k \in 1 .. Len(trace) : level[k] = UNION {Children(t) : t \in level[k - 1]}
    /\ \A s : LET levels == {n \in 0 .. Len(trace) : s \in level[n]}
              IN  TrueDepth(s) = IF levels = {} THEN 0 ELSE Min(levels) + 1

\* The equation that TrueDepth takes the levels from.
Solves(f) == f = [n \in 0 .. Len(trace) |->
                    IF n = 0 THEN Roots ELSE UNION {Children(t) : t \in f[n - 1]}]

LEMMA LevelingExists ==
    ASSUME trace \in Seq(Span)
    PROVE  \E level : IsLeveling(level)
  <1> DEFINE Down(S) == UNION {Children(t) : t \in S}
  <1>1. Len(trace) \in Nat /\ Roots \in SUBSET Spans
    BY Parents
  <1>2. PICK F : F = [S \in SUBSET Spans |-> Down(S)]
    OBVIOUS
  <1>3. F \in [SUBSET Spans -> SUBSET Spans]
    BY <1>2 DEF Children
  <1>4. PICK g \in [0 .. Len(trace) -> SUBSET Spans] :
           g[0] = Roots /\ \A k \in 1 .. Len(trace) : g[k] = F[g[k - 1]]
    <2>1. PICK N, V : N = Len(trace) /\ V = SUBSET Spans
      OBVIOUS
    <2>2. N \in Nat /\ Roots \in V /\ F \in [V -> V]
      BY <1>1, <1>3, <2>1
    <2>3. \E g : Iterates(g, N, V, Roots, F)
      BY <2>2, Recursion
    <2> QED
      BY <2>1, <2>3 DEF Iterates
  <1>5. ASSUME NEW k \in 1 .. Len(trace)
        PROVE  k - 1 \in 0 .. Len(trace) /\ g[k] = Down(g[k - 1])
    <2>1. k - 1 \in 0 .. Len(trace)
      BY <1>1
    <2>2. g[k - 1] \in SUBSET Spans
      BY <1>4, <2>1
    <2> QED
      BY <1>2, <1>4, <2>1, <2>2
  <1>6. \A k \in 0 .. Len(trace) : g[k] = IF k = 0 THEN Roots ELSE Down(g[k - 1])
    BY <1>1, <1>4, <1>5
  <1>7. Solves(g)
    BY <1>4, <1>6 DEF Solves
  <1>8. PICK level : level = CHOOSE f : Solves(f)
    OBVIOUS
  <1>9. Solves(level)
    BY <1>7, <1>8, Zenon
  <1>10. \A s : LET levels == {n \in 0 .. Len(trace) : s \in level[n]}
                IN  TrueDepth(s) = IF levels = {} THEN 0 ELSE Min(levels) + 1
    BY <1>8 DEF TrueDepth, Solves
  <1>11. /\ level[0] = Roots
         /\ \A k \in 1 .. Len(trace) : level[k] = Down(level[k - 1])
    BY <1>1, <1>9 DEF Solves
  <1> HIDE DEF Down
  <1>12. level = g
    <2>1. PICK T : T = {n \in 0 .. Len(trace) : level[n] = g[n]}
      OBVIOUS
    <2>2. 0 \in T
      BY <1>1, <1>4, <1>11, <2>1
    <2>3. ASSUME NEW n \in 0 .. Len(trace) - 1, n \in T
          PROVE  n + 1 \in T
      <3>1. n + 1 \in 1 .. Len(trace) /\ n + 1 - 1 = n
        BY <1>1
      <3>2. n \in 0 .. Len(trace) /\ level[n] = g[n]
        BY <1>1, <2>1, <2>3
      <3>3. level[n + 1] = Down(level[n]) /\ g[n + 1] = Down(g[n])
        BY <1>5, <1>11, <3>1
      <3>4. level[n + 1] = g[n + 1]
        BY <3>2, <3>3
      <3> QED
        BY <1>1, <2>1, <3>1, <3>4
    <2>4. \A n \in 0 .. Len(trace) : n \in T
      BY <1>1, <2>2, <2>3, Induction
    <2> QED
      BY <1>4, <1>9, <2>1, <2>4 DEF Solves
  <1> QED
    BY <1>4, <1>10, <1>11, <1>12 DEF IsLeveling, Down

\* The span_ids found round by round below s.
IdsSolves(f, s) ==
    f = [n \in 0 .. Len(trace) |->
           IF n = 0 THEN {Id(s)}
           ELSE f[n - 1] \cup {Id(c) : c \in {d \in Spans : ParentKey(d) \in f[n - 1]}}]

IsGathering(ids, s) ==
    /\ ids \in [0 .. Len(trace) -> SUBSET Known]
    /\ ids[0] = {Id(s)}
    /\ \A k \in 1 .. Len(trace) :
          ids[k] = ids[k - 1] \cup
                   {Id(c) : c \in {d \in Spans : ParentKey(d) \in ids[k - 1]}}
    /\ SubtreeIds(s) = ids[Len(trace)]

LEMMA GatheringExists ==
    ASSUME trace \in Seq(Span), NEW s \in Spans
    PROVE  \E ids : IsGathering(ids, s)
  <1> DEFINE More(S) == S \cup {Id(c) : c \in {d \in Spans : ParentKey(d) \in S}}
  <1>1. Len(trace) \in Nat
    OBVIOUS
  <1>2. PICK N, V : N = Len(trace) /\ V = SUBSET Known
    OBVIOUS
  <1>3. PICK F : F = [S \in V |-> More(S)]
    OBVIOUS
  <1>4. F \in [V -> V] /\ {Id(s)} \in V
    BY <1>2, <1>3 DEF Known
  <1>5. PICK g : Iterates(g, N, V, {Id(s)}, F)
    BY <1>1, <1>2, <1>4, Recursion
  <1>6. /\ g \in [0 .. Len(trace) -> V] /\ g[0] = {Id(s)}
        /\ \A k \in 1 .. Len(trace) : g[k] = F[g[k - 1]]
    BY <1>2, <1>5 DEF Iterates
  <1>7. ASSUME NEW k \in 1 .. Len(trace)
        PROVE  k - 1 \in 0 .. Len(trace) /\ g[k] = More(g[k - 1])
    <2>1. k - 1 \in 0 .. Len(trace)
      BY <1>1
    <2>2. g[k - 1] \in V
      BY <1>6, <2>1
    <2> QED
      BY <1>3, <1>6, <2>1, <2>2
  <1>8. \A k \in 0 .. Len(trace) : g[k] = IF k = 0 THEN {Id(s)} ELSE More(g[k - 1])
    BY <1>1, <1>6, <1>7
  <1>9. IdsSolves(g, s)
    BY <1>6, <1>8 DEF IdsSolves
  <1>10. PICK ids : ids = CHOOSE f : IdsSolves(f, s)
    OBVIOUS
  <1>11. IdsSolves(ids, s)
    BY <1>9, <1>10, Zenon
  <1>12. SubtreeIds(s) = ids[Len(trace)]
    BY <1>10 DEF SubtreeIds, IdsSolves
  <1>13. /\ ids[0] = {Id(s)}
         /\ \A k \in 1 .. Len(trace) : ids[k] = More(ids[k - 1])
    <2>1. /\ 0 \in 0 .. Len(trace)
          /\ \A k \in 1 .. Len(trace) : k \in 0 .. Len(trace) /\ k # 0
      BY <1>1
    <2>2. \A k \in 0 .. Len(trace) :
             ids[k] = IF k = 0 THEN {Id(s)} ELSE More(ids[k - 1])
      BY <1>11 DEF IdsSolves
    <2> HIDE DEF More
    <2> QED
      BY <2>1, <2>2
  <1> HIDE DEF More
  <1>14. ids = g
    <2>1. PICK T : T = {n \in 0 .. Len(trace) : ids[n] = g[n]}
      OBVIOUS
    <2>2. 0 \in T
      <3>1. 0 \in 0 .. Len(trace) /\ ids[0] = g[0]
        BY <1>1, <1>6, <1>13
      <3> QED
        BY <2>1, <3>1
    <2>3. ASSUME NEW n \in 0 .. Len(trace) - 1, n \in T
          PROVE  n + 1 \in T
      <3>1. n + 1 \in 1 .. Len(trace) /\ n + 1 - 1 = n
        BY <1>1
      <3>2. n \in 0 .. Len(trace) /\ ids[n] = g[n]
        BY <1>1, <2>1, <2>3
      <3>3. ids[n + 1] = More(ids[n]) /\ g[n + 1] = More(g[n])
        BY <1>7, <1>13, <3>1
      <3>4. ids[n + 1] = g[n + 1]
        BY <3>2, <3>3
      <3> QED
        BY <1>1, <2>1, <3>1, <3>4
    <2>4. \A n \in 0 .. Len(trace) : n \in T
      BY <1>1, <2>2, <2>3, Induction
    <2> QED
      BY <1>6, <1>11, <2>1, <2>4 DEF IdsSolves
  <1>15. ids \in [0 .. Len(trace) -> SUBSET Known]
    BY <1>2, <1>6, <1>14
  <1>16. IsGathering(ids, s)
    BY <1>12, <1>13, <1>15 DEF IsGathering, More
  <1> QED
    BY <1>16

\* The span_ids found below r are those of spans that hang off r.
LEMMA GatheredAreReached ==
    ASSUME trace \in Seq(Span), NEW r \in Spans, NEW k \in SubtreeIds(r)
    PROVE  \E t \in Reach(r) : Id(t) = k
  <1>1. PICK ids : IsGathering(ids, r)
    BY GatheringExists
  <1>2. Len(trace) \in Nat
    OBVIOUS
  <1>3. PICK T : T = {n \in 0 .. Len(trace) :
                        \A i \in ids[n] : \E t \in Reach(r) : Id(t) = i}
    OBVIOUS
  <1>4. 0 \in T
    BY <1>1, <1>2, <1>3, ReachIs DEF IsGathering
  <1>5. ASSUME NEW n \in 0 .. Len(trace) - 1, n \in T
        PROVE  n + 1 \in T
    <2>1. n + 1 \in 1 .. Len(trace) /\ n + 1 - 1 = n /\ n + 1 \in 0 .. Len(trace)
      BY <1>2
    <2>2. ids[n + 1] = ids[n] \cup {Id(c) : c \in {d \in Spans : ParentKey(d) \in ids[n]}}
      BY <1>1, <2>1 DEF IsGathering
    <2>3. ASSUME NEW c \in Spans, ParentKey(c) \in ids[n]
          PROVE  c \in Reach(r)
      <3>1. PICK t \in Reach(r) : Id(t) = ParentKey(c)
        BY <1>3, <1>5, <2>3
      <3>2. c \in Children(t)
        BY <3>1 DEF Children
      <3> QED
        BY <3>1, <3>2, ReachIs DEF Closed
    <2>4. \A i \in ids[n + 1] : \E t \in Reach(r) : Id(t) = i
      BY <1>3, <1>5, <2>2, <2>3
    <2> QED
      BY <1>3, <2>1, <2>4
  <1>6. \A n \in 0 .. Len(trace) : n \in T
    BY <1>2, <1>4, <1>5, Induction
  <1> QED
    BY <1>1, <1>2, <1>3, <1>6 DEF IsGathering

\* What has a depth is on that level and on none above.
LEMMA DepthIs ==
    ASSUME trace \in Seq(Span), NEW level, IsLeveling(level), NEW s
    PROVE  /\ TrueDepth(s) \in 0 .. Len(trace) + 1
           /\ TrueDepth(s) # 0 =>
                 /\ TrueDepth(s) - 1 \in 0 .. Len(trace)
                 /\ s \in level[TrueDepth(s) - 1]
           /\ \A n \in 0 .. Len(trace) :
                 s \in level[n] => TrueDepth(s) # 0 /\ TrueDepth(s) - 1 <= n
  <1>1. PICK levels : levels = {n \in 0 .. Len(trace) : s \in level[n]}
    OBVIOUS
  <1>2. TrueDepth(s) = IF levels = {} THEN 0 ELSE Min(levels) + 1
    BY <1>1 DEF IsLeveling
  <1>3. Len(trace) \in Nat /\ levels \subseteq Nat
    BY <1>1
  <1>4. CASE levels = {}
    BY <1>1, <1>2, <1>3, <1>4
  <1>5. CASE levels # {}
    <2>1. Min(levels) \in levels /\ \A n \in levels : Min(levels) <= n
      BY <1>3, <1>5, MinExists
    <2>2. PICK m : m = Min(levels)
      OBVIOUS
    <2>3. /\ m \in 0 .. Len(trace) /\ s \in level[m]
          /\ \A n \in 0 .. Len(trace) : s \in level[n] => m <= n
      BY <1>1, <2>1, <2>2
    <2>4. TrueDepth(s) = m + 1 /\ TrueDepth(s) - 1 = m
      BY <1>2, <1>5, <2>2, <2>3
    <2> QED
      BY <1>3, <2>3, <2>4
  <1> QED
    BY <1>4, <1>5

\* A root is on the first level.
LEMMA RootDepth ==
    ASSUME trace \in Seq(Span), NEW r \in Roots
    PROVE  TrueDepth(r) = 1
  <1>1. PICK level : IsLeveling(level)
    BY LevelingExists
  <1>2. Len(trace) \in Nat /\ 0 \in 0 .. Len(trace) /\ r \in level[0]
    BY <1>1 DEF IsLeveling
  <1>3. TrueDepth(r) # 0 /\ TrueDepth(r) - 1 <= 0 /\ TrueDepth(r) \in 0 .. Len(trace) + 1
    BY <1>1, <1>2, DepthIs
  <1> QED
    BY <1>2, <1>3

\* A child of a span that hangs off a root is one deeper where span_ids are
\* unique: it can be reached through its one parent only.
LEMMA ChildDepth ==
    ASSUME trace \in Seq(Span), UniqueIds, NEW s \in Spans,
           TrueDepth(s) \in 1 .. Len(trace), NEW c \in Children(s)
    PROVE  TrueDepth(c) = TrueDepth(s) + 1
  <1>1. PICK level : IsLeveling(level)
    BY LevelingExists
  <1>2. PICK d : d = TrueDepth(s)
    OBVIOUS
  <1>3. Len(trace) \in Nat /\ d \in 1 .. Len(trace) /\ d \in 0 .. Len(trace)
    BY <1>2
  <1>4. s \in level[d - 1]
    BY <1>1, <1>2, <1>3, DepthIs
  <1>5. c \in level[d]
    BY <1>1, <1>3, <1>4 DEF IsLeveling
  <1>6. /\ TrueDepth(c) \in 0 .. Len(trace) + 1 /\ TrueDepth(c) # 0
        /\ TrueDepth(c) - 1 <= d
    BY <1>1, <1>3, <1>5, DepthIs
  <1>7. PICK m : m = TrueDepth(c) - 1
    OBVIOUS
  <1>8. /\ m \in 0 .. Len(trace) /\ m <= d /\ TrueDepth(c) = m + 1
        /\ c \in level[m]
    BY <1>1, <1>3, <1>6, <1>7, DepthIs
  <1>9. m # 0
    <2>1. c \notin Roots
      BY Parents
    <2> QED
      BY <1>1, <1>8, <2>1 DEF IsLeveling
  <1>10. m \in 1 .. Len(trace) /\ m - 1 \in 0 .. Len(trace)
    BY <1>3, <1>8, <1>9
  <1>11. PICK t \in level[m - 1] : c \in Children(t)
    BY <1>1, <1>8, <1>10 DEF IsLeveling
  <1>12. t \in Spans
    BY <1>1, <1>10, <1>11 DEF IsLeveling
  <1>13. t = s
    BY <1>11, <1>12, Parents
  <1>14. d - 1 <= m - 1
    BY <1>1, <1>2, <1>10, <1>11, <1>13, DepthIs
  <1> QED
    BY <1>2, <1>3, <1>8, <1>14

\* What is on some level hangs off a root.
LEMMA DepthReached ==
    ASSUME trace \in Seq(Span), NEW s \in Spans, TrueDepth(s) # 0
    PROVE  \E r \in Roots : s \in Reach(r)
  <1>1. PICK level : IsLeveling(level)
    BY LevelingExists
  <1>2. PICK T : T = {n \in 0 .. Len(trace) :
                        \A t \in level[n] : \E r \in Roots : t \in Reach(r)}
    OBVIOUS
  <1>3. Len(trace) \in Nat
    OBVIOUS
  <1>4. 0 \in T
    <2>1. \A r \in Roots : r \in Reach(r)
      BY Parents, ReachIs
    <2> QED
      BY <1>1, <1>2, <1>3, <2>1 DEF IsLeveling
  <1>5. ASSUME NEW n \in 0 .. Len(trace) - 1, n \in T
        PROVE  n + 1 \in T
    <2>1. n + 1 \in 1 .. Len(trace) /\ n + 1 - 1 = n
      BY <1>3
    <2>2. ASSUME NEW c \in level[n + 1]
          PROVE  \E r \in Roots : c \in Reach(r)
      <3>1. PICK t \in level[n] : c \in Children(t)
        BY <1>1, <2>1, <2>2 DEF IsLeveling
      <3>2. PICK r \in Roots : t \in Reach(r)
        BY <1>2, <1>5, <3>1
      <3>3. c \in Reach(r)
        BY <3>1, <3>2, Parents, ReachIs DEF Closed
      <3> QED
        BY <3>2, <3>3
    <2> QED
      BY <1>2, <1>3, <2>1, <2>2
  <1>6. \A n \in 0 .. Len(trace) : n \in T
    BY <1>3, <1>4, <1>5, Induction
  <1>7. TrueDepth(s) - 1 \in 0 .. Len(trace) /\ s \in level[TrueDepth(s) - 1]
    BY <1>1, DepthIs
  <1> QED
    BY <1>2, <1>6, <1>7
-----------------------------------------------------------------------------
(* The chain along the predecessors.                                       *)

\* The way up from s, 0 from where it ends.
IsClimb(up, s) ==
    /\ up \in [0 .. Len(trace) -> {0} \cup Spans]
    /\ up[0] = s
    /\ \A k \in 1 .. Len(trace) :
          up[k] = IF up[k - 1] = 0 THEN 0 ELSE pred[up[k - 1]]
    /\ LET n == Cardinality({k \in 0 .. Len(trace) : up[k] # 0})
       IN  ChainTo(s) = [k \in 1 .. n |-> up[n - k]]

LEMMA ClimbExists ==
    ASSUME trace \in Seq(Span), pred \in [Spans -> {0} \cup Spans],
           NEW s \in {0} \cup Spans
    PROVE  \E up : IsClimb(up, s)
  <1> DEFINE Up(x) == IF x = 0 THEN 0 ELSE pred[x]
             Is(f) == f = [k \in 0 .. Len(trace) |->
                             IF k = 0 THEN s
                             ELSE IF f[k - 1] = 0 THEN 0 ELSE pred[f[k - 1]]]
  <1>1. Len(trace) \in Nat
    OBVIOUS
  <1>2. PICK N, V : N = Len(trace) /\ V = {0} \cup Spans
    OBVIOUS
  <1>3. PICK F : F = [x \in V |-> Up(x)]
    OBVIOUS
  <1>4. F \in [V -> V]
    BY <1>2, <1>3
  <1>5. PICK g : Iterates(g, N, V, s, F)
    BY <1>1, <1>2, <1>4, Recursion
  <1>6. /\ g \in [0 .. Len(trace) -> V] /\ g[0] = s
        /\ \A k \in 1 .. Len(trace) : g[k] = F[g[k - 1]]
    BY <1>2, <1>5 DEF Iterates
  <1>7. ASSUME NEW k \in 1 .. Len(trace)
        PROVE  k - 1 \in 0 .. Len(trace) /\ g[k] = Up(g[k - 1])
    <2>1. k - 1 \in 0 .. Len(trace)
      BY <1>1
    <2>2. g[k - 1] \in V
      BY <1>6, <2>1
    <2> QED
      BY <1>3, <1>6, <2>1, <2>2
  <1>8. \A k \in 0 .. Len(trace) : g[k] = IF k = 0 THEN s ELSE Up(g[k - 1])
    BY <1>1, <1>6, <1>7
  <1>9. Is(g)
    BY <1>6, <1>8
  <1>10. PICK up : up = CHOOSE f : Is(f)
    OBVIOUS
  <1>11. Is(up)
    BY <1>9, <1>10, Zenon
  <1>12. DOMAIN up = 0 .. Len(trace)
    BY <1>11
  <1>13. LET n == Cardinality({k \in 0 .. Len(trace) : up[k] # 0})
         IN  ChainTo(s) = [k \in 1 .. n |-> up[n - k]]
    <2>1. PICK n : n = Cardinality({k \in DOMAIN up : up[k] # 0})
      OBVIOUS
    <2>2. ChainTo(s) = [k \in 1 .. n |-> up[n - k]]
      BY <1>10, <2>1 DEF ChainTo
    <2> QED
      BY <1>12, <2>1, <2>2
  <1>14. /\ up[0] = s
         /\ \A k \in 1 .. Len(trace) : up[k] = Up(up[k - 1])
    BY <1>1, <1>11
  <1> HIDE DEF Up
  <1>15. up = g
    <2>1. PICK T : T = {n \in 0 .. Len(trace) : up[n] = g[n]}
      OBVIOUS
    <2>2. 0 \in T
      BY <1>1, <1>6, <1>14, <2>1
    <2>3. ASSUME NEW n \in 0 .. Len(trace) - 1, n \in T
          PROVE  n + 1 \in T
      <3>1. n + 1 \in 1 .. Len(trace) /\ n + 1 - 1 = n
        BY <1>1
      <3>2. n \in 0 .. Len(trace) /\ up[n] = g[n]
        BY <1>1, <2>1, <2>3
      <3>3. up[n + 1] = Up(up[n]) /\ g[n + 1] = Up(g[n])
        BY <1>7, <1>14, <3>1
      <3>4. up[n + 1] = g[n + 1]
        BY <3>2, <3>3
      <3> QED
        BY <1>1, <2>1, <3>1, <3>4
    <2>4. \A n \in 0 .. Len(trace) : n \in T
      BY <1>1, <2>2, <2>3, Induction
    <2> QED
      BY <1>6, <1>11, <2>1, <2>4
  <1>16. up \in [0 .. Len(trace) -> {0} \cup Spans]
    BY <1>2, <1>6, <1>15
  <1>17. \A k \in 1 .. Len(trace) :
            up[k] = IF up[k - 1] = 0 THEN 0 ELSE pred[up[k - 1]]
    BY <1>14 DEF Up
  <1>18. IsClimb(up, s)
    BY <1>13, <1>14, <1>16, <1>17 DEF IsClimb
  <1> QED
    BY <1>18

\* There is no chain to nothing.
LEMMA NoChain ==
    ASSUME trace \in Seq(Span), pred \in [Spans -> {0} \cup Spans]
    PROVE  ChainTo(0) = <<>>
  <1>1. PICK up : IsClimb(up, 0)
    BY ClimbExists
  <1>2. Len(trace) \in Nat
    OBVIOUS
  <1>3. PICK T : T = {n \in 0 .. Len(trace) : up[n] = 0}
    OBVIOUS
  <1>4. 0 \in T
    BY <1>1, <1>2, <1>3 DEF IsClimb
  <1>5. ASSUME NEW n \in 0 .. Len(trace) - 1, n \in T
        PROVE  n + 1 \in T
    <2>1. n + 1 \in 1 .. Len(trace) /\ n + 1 - 1 = n /\ n + 1 \in 0 .. Len(trace)
      BY <1>2
    <2>2. up[n] = 0
      BY <1>3, <1>5
    <2>3. up[n + 1] = 0
      BY <1>1, <2>1, <2>2 DEF IsClimb
    <2> QED
      BY <1>3, <2>1, <2>3
  <1>6. \A n \in 0 .. Len(trace) : n \in T
    BY <1>2, <1>4, <1>5, Induction
  <1>7. {k \in 0 .. Len(trace) : up[k] # 0} = {}
    BY <1>3, <1>6
  <1>8. Cardinality({k \in 0 .. Len(trace) : up[k] # 0}) = 0
    BY <1>7, FS_EmptySet
  <1>9. ChainTo(0) = [k \in 1 .. 0 |-> up[0 - k]]
    BY <1>1, <1>8 DEF IsClimb
  <1> QED
    BY <1>9

\* The chain to a span seen is as long as the span is deep, and leads from the
\* root of the walk to it, parent by parent.
LEMMA ChainIs ==
    ASSUME IInv, Linked, root # 0, NEW s \in Seen
    PROVE  /\ depth[s] \in 1 .. Len(trace)
           /\ ChainTo(s) \in Seq(Spans) /\ Len(ChainTo(s)) = depth[s]
           /\ ChainTo(s)[1] = root /\ ChainTo(s)[depth[s]] = s
           /\ \A i \in 2 .. depth[s] : ChainTo(s)[i] \in Children(ChainTo(s)[i - 1])
  <1>1. /\ trace \in Seq(Span) /\ Len(trace) \in Nat
        /\ pred \in [Spans -> {0} \cup Spans]
        /\ Spans \subseteq Nat \ {0} /\ Seen \subseteq Spans
    BY SpansFinite DEF IInv, Types, Seen
  <1>2. \A t \in Seen : depth[t] \in 1 .. Len(trace)
    BY <1>1, IInvTypeOK DEF TypeOK, Seen
  <1>3. PICK up : IsClimb(up, s)
    BY <1>1, ClimbExists
  <1>4. /\ up \in [0 .. Len(trace) -> {0} \cup Spans] /\ up[0] = s
        /\ \A k \in 1 .. Len(trace) :
              up[k] = IF up[k - 1] = 0 THEN 0 ELSE pred[up[k - 1]]
    BY <1>3 DEF IsClimb
  <1>5. PICK d : d = depth[s]
    OBVIOUS
  <1>6. d \in 1 .. Len(trace) /\ d \in Nat
    BY <1>1, <1>2, <1>5
  <1>7. /\ root \in Spans /\ depth[root] = 1 /\ pred[root] = 0
        /\ \A t \in Seen \ {root} :
            /\ pred[t] \in Seen
            /\ t \in Children(pred[t])
            /\ depth[t] = depth[pred[t]] + 1
    BY DEF Linked, Roots
  <1>8. PICK T : T = {k \in 0 .. Len(trace) :
                        /\ k < d => up[k] \in Seen /\ depth[up[k]] = d - k
                        /\ ~ (k < d) => up[k] = 0}
    OBVIOUS
  <1>9. 0 \in T
    BY <1>1, <1>4, <1>5, <1>6, <1>8
  <1>10. ASSUME NEW k \in 0 .. Len(trace) - 1, k \in T
         PROVE  k + 1 \in T
    <2>1. /\ k \in Nat /\ k + 1 \in 1 .. Len(trace) /\ k + 1 - 1 = k
          /\ k + 1 \in 0 .. Len(trace)
      BY <1>1
    <2>2. up[k + 1] = IF up[k] = 0 THEN 0 ELSE pred[up[k]]
      BY <1>4, <2>1
    <2>3. CASE ~ (k < d)
      <3>1. up[k] = 0 /\ ~ (k + 1 < d)
        BY <1>6, <1>8, <1>10, <2>1, <2>3
      <3> QED
        BY <1>8, <2>1, <2>2, <3>1
    <2>4. CASE k < d
      <3>1. /\ up[k] \in Seen /\ depth[up[k]] = d - k
            /\ up[k + 1] = pred[up[k]]
        BY <1>1, <1>8, <1>10, <2>2, <2>4
      <3>2. CASE up[k] = root
        <4>1. up[k + 1] = 0 /\ ~ (k + 1 < d)
          BY <1>6, <1>7, <2>1, <3>1, <3>2
        <4> QED
          BY <1>8, <2>1, <4>1
      <3>3. CASE up[k] # root
        <4>1. up[k + 1] \in Seen /\ depth[up[k]] = depth[up[k + 1]] + 1
          BY <1>7, <3>1, <3>3
        <4>2. depth[up[k + 1]] \in Nat /\ depth[up[k + 1]] # 0
          BY <1>2, <4>1
        <4>3. k + 1 < d /\ depth[up[k + 1]] = d - (k + 1)
          BY <1>6, <2>1, <3>1, <4>1, <4>2
        <4> QED
          BY <1>8, <2>1, <4>1, <4>3
      <3> QED
        BY <3>2, <3>3
    <2> QED
      BY <2>3, <2>4
  <1>11. \A k \in 0 .. Len(trace) : k \in T
    BY <1>1, <1>9, <1>10, Induction
  <1>12. \A k \in 0 .. d - 1 :
            /\ up[k] \in Seen /\ depth[up[k]] = d - k
            /\ k \in 0 .. Len(trace)
    <2> SUFFICES ASSUME NEW k \in 0 .. d - 1
                 PROVE  /\ up[k] \in Seen /\ depth[up[k]] = d - k
                        /\ k \in 0 .. Len(trace)
      OBVIOUS
    <2>1. k \in 0 .. Len(trace) /\ k < d
      BY <1>1, <1>6
    <2> QED
      BY <1>8, <1>11, <2>1
  <1>13. {k \in 0 .. Len(trace) : up[k] # 0} = 0 .. d - 1
    <2>1. ASSUME NEW k \in 0 .. Len(trace), up[k] # 0
          PROVE  k \in 0 .. d - 1
      BY <1>1, <1>6, <1>8, <1>11, <2>1
    <2>2. ASSUME NEW k \in 0 .. d - 1
          PROVE  k \in 0 .. Len(trace) /\ up[k] # 0
      BY <1>1, <1>12
    <2> QED
      BY <2>1, <2>2
  <1>14. Cardinality(0 .. d - 1) = d
    <2>1. 0 \in Int /\ d - 1 \in Int
      BY <1>6
    <2>2. Cardinality(0 .. d - 1) = IF 0 > d - 1 THEN 0 ELSE d - 1 - 0 + 1
      BY <2>1, FS_Interval
    <2> QED
      BY <1>6, <2>2
  <1>15. ChainTo(s) = [k \in 1 .. d |-> up[d - k]]
    BY <1>3, <1>13, <1>14 DEF IsClimb
  <1>16. ASSUME NEW i \in 1 .. d
         PROVE  d - i \in 0 .. d - 1 /\ up[d - i] \in Seen /\ depth[up[d - i]] = i
    <2>1. d - i \in 0 .. d - 1 /\ d - (d - i) = i
      BY <1>6
    <2> QED
      BY <1>12, <2>1
  <1>17. ChainTo(s) \in Seq(Spans) /\ Len(ChainTo(s)) = d
    <2>1. \A k \in 1 .. d : up[d - k] \in Spans
      BY <1>1, <1>16
    <2> QED
      BY <1>6, <1>15, <2>1
  <1>18. ChainTo(s)[d] = s
    BY <1>4, <1>6, <1>15
  <1>19. ASSUME NEW i \in 2 .. d
         PROVE  ChainTo(s)[i] \in Children(ChainTo(s)[i - 1])
    <2>1. /\ i \in 1 .. d /\ i - 1 \in 1 .. d
          /\ d - (i - 1) = d - i + 1
      BY <1>6
    <2>2. up[d - i] \in Seen /\ depth[up[d - i]] = i
      BY <1>16, <2>1
    <2>3. up[d - i] # root
      BY <1>7, <2>2
    <2>4. PICK k : k = d - i + 1
      OBVIOUS
    <2>5. k \in 1 .. Len(trace) /\ k - 1 = d - i
      BY <1>1, <1>6, <2>4
    <2>6. up[k] = IF up[k - 1] = 0 THEN 0 ELSE pred[up[k - 1]]
      BY <1>4, <2>5
    <2>7. up[k] = pred[up[d - i]]
      BY <1>1, <2>2, <2>5, <2>6
    <2>8. up[d - i] \in Children(up[k])
      BY <1>7, <2>2, <2>3, <2>7
    <2> QED
      BY <1>15, <2>1, <2>4, <2>8
  <1>20. ChainTo(s)[1] = root
    <2>1. 1 \in 1 .. d
      BY <1>6
    <2>2. up[d - 1] \in Seen /\ depth[up[d - 1]] = 1
      BY <1>16, <2>1
    <2>3. ASSUME up[d - 1] # root PROVE FALSE
      <3>1. pred[up[d - 1]] \in Seen /\ 1 = depth[pred[up[d - 1]]] + 1
        BY <1>7, <2>2, <2>3
      <3> QED
        BY <1>2, <3>1
    <2> QED
      BY <1>15, <2>1, <2>3
  <1> QED
    BY <1>5, <1>6, <1>17, <1>18, <1>19, <1>20
-----------------------------------------------------------------------------
(* The inductive invariant.                                                *)

\* The tree stays while the trace does.
LEMMA TreeKept ==
    ASSUME UNCHANGED trace
    PROVE  /\ Roots' = Roots /\ UniqueIds' = UniqueIds
           /\ \A s : TrueDepth(s)' = TrueDepth(s)
           /\ \A s : Reach(s)' = Reach(s)
  <1>1. /\ Spans' = Spans
        /\ \A s : Children(s)' = Children(s)
        /\ \A S : Closed(S)' = Closed(S)
    BY TraceKept
  <1>2. Roots' = Roots
    BY <1>1 DEF Roots, ParentKey, Known, Id
  <1>3. UniqueIds' = UniqueIds
    BY <1>1 DEF UniqueIds, Id
  <1>4. \A s : Reach(s)' = Reach(s)
    BY <1>1 DEF Reach
  <1>5. \A s : TrueDepth(s)' = TrueDepth(s)
    <2>1. \A f : Solves(f)' <=> Solves(f)
      BY <1>1, <1>2 DEF Solves
    <2>2. (CHOOSE f : Solves(f))' = CHOOSE f : Solves(f)
      BY <2>1, Zenon
    <2>3. PICK level : level = CHOOSE f : Solves(f)
      OBVIOUS
    <2>4. level = (CHOOSE f : Solves(f))'
      BY <2>2, <2>3, Zenon
    <2>5. \A s : LET levels == {n \in 0 .. Len(trace) : s \in level[n]}
                 IN  TrueDepth(s) = IF levels = {} THEN 0 ELSE Min(levels) + 1
      BY <2>3 DEF TrueDepth, Solves
    <2>6. \A s : LET levels == {n \in 0 .. Len(trace)' : s \in level[n]}
                 IN  TrueDepth(s)' = IF levels = {} THEN 0 ELSE Min(levels) + 1
      BY <2>4 DEF TrueDepth, Solves
    <2>7. Len(trace)' = Len(trace)
      OBVIOUS
    <2> QED
      BY <2>5, <2>6, <2>7
  <1> QED
    BY <1>2, <1>3, <1>4, <1>5

LEMMA InitTInv == Init => TInv
  <1> SUFFICES ASSUME Init PROVE TInv
    OBVIOUS
  <1>1. IInv /\ trace \in Seq(Span)
    BY InitIInv DEF IInv, Types
  <1>2. /\ Spans \subseteq Nat \ {0} /\ IsFiniteSet(Spans) /\ Roots \subseteq Spans
    BY <1>1, SpansFinite, Parents
  <1>3. Roots \subseteq Nat /\ IsFiniteSet(Roots)
    BY <1>2, FS_Subset
  <1>4. root = 0 /\ total = 0 /\ chain = <<>> /\ left \in InOrder(Roots)
    BY DEF Init
  <1>5. /\ left \in Seq(Roots)
        /\ \A i, j \in DOMAIN left : i # j => left[i] # left[j]
    BY <1>3, <1>4, Ordered
  <1>6. EachRootOnce
    BY <1>2, <1>4, <1>5 DEF EachRootOnce
  <1>7. DoneRoots = {}
    BY <1>4 DEF DoneRoots, InOrder
  <1>8. Levels
    BY <1>4, <1>7 DEF Levels
  <1>9. Merged
    <2>1. DoneErrors = {}
      BY <1>7 DEF DoneErrors
    <2> QED
      BY <1>4, <2>1, FS_EmptySet DEF Merged
  <1>10. Linked /\ Blamed /\ Chained
    BY <1>4 DEF Linked, Blamed, Chained
  <1> QED
    BY <1>1, <1>6, <1>8, <1>9, <1>10 DEF TInv

\* A new walk has seen its root and blames nothing yet.
LEMMA EnterTInv == TInv /\ Enter => TInv'
  <1> SUFFICES ASSUME TInv, Enter PROVE TInv'
    OBVIOUS
  <1>1. IInv /\ IInv'
    BY StepEnter DEF TInv
  <1>2. /\ trace \in Seq(Span) /\ trace' = trace
        /\ left \in Seq(Spans) /\ left # <<>> /\ root = 0
        /\ total' = total /\ allTies' = allTies /\ chain' = chain
    BY <1>1 DEF IInv, Types, Enter, overall
  <1>3. /\ Spans' = Spans /\ Spans \subseteq Nat \ {0}
        /\ \A s : IsError(s)' = IsError(s)
        /\ \A s : Children(s)' = Children(s)
    BY <1>2, TraceKept, SpansFinite
  <1>4. /\ Roots' = Roots /\ UniqueIds' = UniqueIds
        /\ \A s : TrueDepth(s)' = TrueDepth(s)
        /\ \A s : Reach(s)' = Reach(s)
    BY <1>2, TreeKept
  <1>5. PICK r : r = Head(left)
    OBVIOUS
  <1>6. /\ root' = r /\ left' = Tail(left) /\ stack' = <<r>>
        /\ pred' = [s \in Spans |-> 0]
        /\ depth' = [s \in Spans |-> IF s = r THEN 1 ELSE 0]
        /\ maxDepth' = 0 /\ ties' = 0 /\ deepest' = 0
    BY <1>5 DEF Enter
  <1>7. /\ Len(left) \in Nat /\ Len(left) # 0 /\ DOMAIN left = 1 .. Len(left)
        /\ 1 \in DOMAIN left /\ r = left[1]
        /\ DOMAIN left' = 1 .. Len(left) - 1
        /\ \A i \in DOMAIN left' : left'[i] = left[i + 1]
    BY <1>2, <1>5, <1>6
  <1>8. /\ \A i \in DOMAIN left : left[i] \in Roots
        /\ \A i, j \in DOMAIN left : i # j => left[i] # left[j]
    BY DEF TInv, EachRootOnce
  <1>9. r \in Roots /\ r \in Spans
    BY <1>2, <1>7, <1>8, Parents
  <1>10. Seen' = {r} /\ Walked' = {}
    <2>1. Seen' = {r}
      BY <1>3, <1>6, <1>9 DEF Seen
    <2>2. {stack'[i] : i \in DOMAIN stack'} = {r}
      BY <1>6
    <2> QED
      BY <2>1, <2>2 DEF Walked, Seen
  <1>11. Linked'
    BY <1>3, <1>4, <1>6, <1>9, <1>10 DEF Linked
  <1>12. Blamed'
    <2>1. WalkedErrors' = {}
      BY <1>10 DEF WalkedErrors
    <2>2. {s \in WalkedErrors : depth[s] = maxDepth}' = {}
      BY <2>1
    <2> QED
      BY <1>6, <2>1, <2>2, FS_EmptySet DEF Blamed
  <1>13. EachRootOnce'
    <2>1. ASSUME NEW i \in DOMAIN left'
          PROVE  i + 1 \in DOMAIN left /\ left'[i] = left[i + 1] /\ i + 1 # 1
      BY <1>7
    <2>2. \A i \in DOMAIN left' : left'[i] \in Roots /\ left'[i] # r
      BY <1>7, <1>8, <2>1
    <2>3. \A i, j \in DOMAIN left' : i # j => left'[i] # left'[j]
      BY <1>7, <1>8, <2>1
    <2> QED
      BY <1>4, <1>6, <2>2, <2>3 DEF EachRootOnce
  <1>14. DoneRoots' = DoneRoots
    <2>1. {left[i] : i \in DOMAIN left} = {r} \cup {left'[i] : i \in DOMAIN left'}
      <3>1. ASSUME NEW i \in DOMAIN left, i # 1
            PROVE  \E j \in DOMAIN left' : left'[j] = left[i]
        <4>1. i - 1 \in DOMAIN left' /\ i - 1 + 1 = i
          BY <1>7, <3>1
        <4> QED
          BY <1>7, <4>1
      <3>2. \A j \in DOMAIN left' : j + 1 \in DOMAIN left /\ left'[j] = left[j + 1]
        BY <1>7
      <3> QED
        BY <1>7, <3>1, <3>2
    <2>2. 0 \notin Roots
      BY <1>2, <1>3, Parents
    <2> QED
      BY <1>2, <1>4, <1>6, <2>1, <2>2 DEF DoneRoots
  <1>15. Chained'
    BY <1>2, <1>3, <1>4 DEF TInv, Chained, ErrorPath
  <1>16. DoneErrors' = DoneErrors
    BY <1>3, <1>4, <1>14 DEF DoneErrors
  <1>17. UniqueIds => Levels'
    BY <1>2, <1>4, <1>6, <1>9, <1>10, <1>14, RootDepth DEF TInv, Levels
  <1>18. UniqueIds => Merged'
    <2>1. \A n : {s \in DoneErrors : TrueDepth(s) = n}'
                   = {s \in DoneErrors : TrueDepth(s) = n}
      BY <1>4, <1>16
    <2> QED
      BY <1>2, <1>4, <1>16, <2>1 DEF TInv, Merged
  <1> QED
    BY <1>1, <1>4, <1>11, <1>12, <1>13, <1>15, <1>17, <1>18 DEF TInv

\* A turn of the walk marks the children that it pushes one deeper than their
\* parent, and blames what it pops.
LEMMA PopTInv == TInv /\ Pop => TInv'
  <1> SUFFICES ASSUME TInv, Pop PROVE TInv'
    OBVIOUS
  <1>1. IInv /\ IInv'
    BY StepPop DEF TInv
  <1>2. /\ trace \in Seq(Span) /\ trace' = trace
        /\ left' = left /\ root' = root /\ stack # <<>>
        /\ total' = total /\ allTies' = allTies /\ chain' = chain
        /\ depth \in [Spans -> Nat] /\ maxDepth \in Nat /\ ties \in Nat
        /\ deepest \in {0} \cup Spans
    BY <1>1 DEF IInv, Types, Pop, overall
  <1>3. /\ Spans' = Spans /\ Spans \subseteq Nat \ {0} /\ IsFiniteSet(Spans)
        /\ \A s : IsError(s)' = IsError(s)
        /\ \A s : Children(s)' = Children(s)
    BY <1>2, TraceKept, SpansFinite
  <1>4. /\ Roots' = Roots /\ UniqueIds' = UniqueIds
        /\ \A s : TrueDepth(s)' = TrueDepth(s)
        /\ \A s : Reach(s)' = Reach(s)
    BY <1>2, TreeKept
  <1>5. /\ Top \in Spans /\ depth[Top] # 0
        /\ Fresh \subseteq Spans
        /\ Stacked' = (Stacked \ {Top}) \cup Fresh
        /\ Seen' = Seen \cup Fresh /\ Seen \cap Fresh = {}
        /\ Top \in Stacked /\ Stacked \subseteq Seen
    BY <1>1, PopMarks DEF Pop
  <1>6. /\ pred' = [s \in Spans |-> IF s \in Fresh THEN Top ELSE pred[s]]
        /\ depth' = [s \in Spans |-> IF s \in Fresh THEN depth[Top] + 1
                                                   ELSE depth[s]]
    BY DEF Pop
  <1>7. root # 0
    BY <1>1, <1>2 DEF IInv, StackSound
  <1>8. Seen \subseteq Spans /\ Top \in Seen /\ Top \notin Fresh
    BY <1>5 DEF Seen
  <1>9. /\ \A s \in Seen : depth'[s] = depth[s] /\ pred'[s] = pred[s]
        /\ \A s \in Fresh :
              /\ depth'[s] = depth[Top] + 1 /\ pred'[s] = Top
              /\ s \in Children(Top)
    BY <1>5, <1>6, <1>8 DEF Fresh
  <1>10. root \in Roots /\ root \in Seen
    BY <1>1, <1>7 DEF TInv, Linked, IInv, Reached
  <1>11. Linked'
    <2>1. /\ depth[root] = 1 /\ pred[root] = 0
          /\ \A s \in Seen \ {root} :
                /\ pred[s] \in Seen
                /\ s \in Children(pred[s])
                /\ depth[s] = depth[pred[s]] + 1
      BY <1>7 DEF TInv, Linked
    <2>2. ASSUME NEW s \in Seen' \ {root}
          PROVE  /\ pred'[s] \in Seen'
                 /\ s \in Children(pred'[s])
                 /\ depth'[s] = depth'[pred'[s]] + 1
      <3>1. CASE s \in Fresh
        BY <1>5, <1>8, <1>9, <3>1
      <3>2. CASE s \in Seen
        <4>1. pred'[s] = pred[s] /\ pred[s] \in Seen
          BY <1>9, <2>1, <2>2, <3>2
        <4> QED
          BY <1>5, <1>9, <2>1, <2>2, <3>2, <4>1
      <3> QED
        BY <1>5, <2>2, <3>1, <3>2
    <2> QED
      BY <1>2, <1>3, <1>4, <1>9, <1>10, <2>1, <2>2 DEF Linked
  <1>12. Walked = Seen \ Stacked /\ Walked' = Seen' \ Stacked'
    BY DEF Walked, Seen, Stacked
  <1>13. Walked' = Walked \cup {Top} /\ Top \notin Walked /\ Walked \subseteq Seen
    BY <1>5, <1>12
  <1>14. WalkedErrors' = IF IsError(Top) THEN WalkedErrors \cup {Top}
                                         ELSE WalkedErrors
    BY <1>3, <1>13 DEF WalkedErrors
  <1>15. /\ Top \notin WalkedErrors /\ WalkedErrors \subseteq Seen
         /\ IsFiniteSet(WalkedErrors)
    <2>1. Top \notin WalkedErrors /\ WalkedErrors \in SUBSET Spans
                                  /\ WalkedErrors \subseteq Seen
      BY <1>8, <1>13 DEF WalkedErrors
    <2> QED
      BY <1>3, <2>1, FS_Subset
  <1>16. Blamed'
    <2>1. /\ \A s \in WalkedErrors : depth[s] <= maxDepth
          /\ ties = Cardinality({s \in WalkedErrors : depth[s] = maxDepth})
          /\ \/ WalkedErrors = {} /\ deepest = 0 /\ maxDepth = 0
             \/ deepest \in WalkedErrors /\ depth[deepest] = maxDepth
      BY <1>7 DEF TInv, Blamed
    <2>2. Blame(Top)
      BY DEF Pop
    <2>3. \A s \in WalkedErrors : depth'[s] = depth[s] /\ depth[s] \in Nat
      BY <1>2, <1>8, <1>9, <1>15
    <2>4. depth'[Top] = depth[Top] /\ depth[Top] \in Nat /\ depth[Top] # 0
      BY <1>2, <1>5, <1>8, <1>9
    <2>5. PICK E : E = {s \in WalkedErrors : depth[s] = maxDepth}
      OBVIOUS
    <2>6. E \in SUBSET WalkedErrors /\ Top \notin E /\ IsFiniteSet(E)
      <3>1. E \in SUBSET WalkedErrors
        BY <2>5
      <3> QED
        BY <1>15, <3>1, FS_Subset
    <2>7. PICK E2 : E2 = {s \in WalkedErrors' : depth'[s] = maxDepth'}
      OBVIOUS
    <2>8. SUFFICES /\ \A s \in WalkedErrors' : depth'[s] <= maxDepth'
                   /\ ties' = Cardinality(E2)
                   /\ \/ WalkedErrors' = {} /\ deepest' = 0 /\ maxDepth' = 0
                      \/ deepest' \in WalkedErrors' /\ depth'[deepest'] = maxDepth'
      BY <2>7 DEF Blamed
    <2>9. CASE ~ IsError(Top)
      <3>1. /\ maxDepth' = maxDepth /\ ties' = ties /\ deepest' = deepest
            /\ WalkedErrors' = WalkedErrors
        BY <1>14, <2>2, <2>9 DEF Blame, found
      <3>2. E2 = E
        BY <2>3, <2>5, <2>7, <3>1
      <3> QED
        BY <2>1, <2>3, <2>5, <3>1, <3>2
    <2>10. CASE IsError(Top) /\ depth[Top] > maxDepth
      <3>1. /\ maxDepth' = depth[Top] /\ ties' = 1 /\ deepest' = Top
            /\ WalkedErrors' = WalkedErrors \cup {Top}
        BY <1>2, <1>14, <2>2, <2>4, <2>10 DEF Blame
      <3>2. E2 = {Top}
        BY <1>2, <2>1, <2>3, <2>4, <2>7, <2>10, <3>1
      <3>3. Cardinality({Top}) = 1
        BY FS_Singleton
      <3> QED
        BY <1>2, <2>1, <2>3, <2>4, <2>10, <3>1, <3>2, <3>3
    <2>11. CASE IsError(Top) /\ depth[Top] = maxDepth
      <3>1. /\ maxDepth' = maxDepth /\ ties' = ties + 1 /\ deepest' = deepest
            /\ WalkedErrors' = WalkedErrors \cup {Top}
        BY <1>2, <1>14, <2>2, <2>4, <2>11 DEF Blame
      <3>2. E2 = E \cup {Top}
        BY <2>3, <2>4, <2>5, <2>7, <2>11, <3>1
      <3>3. Cardinality(E \cup {Top}) = Cardinality(E) + 1
        BY <2>6, FS_AddElement
      <3> QED
        BY <1>2, <2>1, <2>3, <2>4, <2>5, <2>11, <3>1, <3>2, <3>3
    <2>12. CASE IsError(Top) /\ depth[Top] < maxDepth
      <3>1. /\ maxDepth' = maxDepth /\ ties' = ties /\ deepest' = deepest
            /\ WalkedErrors' = WalkedErrors \cup {Top}
        BY <1>2, <1>14, <2>2, <2>4, <2>12 DEF Blame
      <3>2. E2 = E
        BY <1>2, <2>3, <2>4, <2>5, <2>7, <2>12, <3>1
      <3> QED
        BY <1>2, <2>1, <2>3, <2>4, <2>5, <2>12, <3>1, <3>2
    <2> QED
      BY <1>2, <2>4, <2>9, <2>10, <2>11, <2>12
  <1>17. EachRootOnce'
    BY <1>2, <1>4 DEF TInv, EachRootOnce
  <1>18. Chained'
    BY <1>2, <1>3, <1>4 DEF TInv, Chained, ErrorPath
  <1>19. DoneRoots' = DoneRoots
    BY <1>2, <1>4 DEF DoneRoots
  <1>20. DoneErrors' = DoneErrors
    BY <1>3, <1>4, <1>19 DEF DoneErrors
  <1>21. ASSUME UniqueIds
         PROVE  Levels'
    <2>1. /\ \A s \in Seen : TrueDepth(s) = depth[s]
          /\ \A r \in DoneRoots : \A s \in Reach(r) : TrueDepth(s) # 0
      BY <1>7, <1>21 DEF TInv, Levels
    <2>2. depth[Top] \in 1 .. Len(trace)
      BY <1>1, <1>5, IInvTypeOK DEF TypeOK
    <2>3. \A s \in Fresh : TrueDepth(s) = depth[Top] + 1
      BY <1>2, <1>5, <1>8, <1>9, <1>21, <2>1, <2>2, ChildDepth
    <2>4. \A s \in Seen' : TrueDepth(s) = depth'[s]
      BY <1>5, <1>9, <2>1, <2>3
    <2> QED
      BY <1>4, <1>19, <2>1, <2>4 DEF Levels
  <1>22. UniqueIds => Merged'
    <2>1. \A n : {s \in DoneErrors : TrueDepth(s) = n}'
                   = {s \in DoneErrors : TrueDepth(s) = n}
      BY <1>4, <1>20
    <2> QED
      BY <1>2, <1>4, <1>20, <2>1 DEF TInv, Merged
  <1> QED
    BY <1>1, <1>4, <1>11, <1>16, <1>17, <1>18, <1>21, <1>22 DEF TInv

\* The end of a walk merges what it found into the overall result: what it has
\* walked is the tree of its root, which no other walk has seen where span_ids
\* are unique.
LEMMA ConcludeTInv == TInv /\ Conclude => TInv'
  <1> SUFFICES ASSUME TInv, Conclude PROVE TInv'
    OBVIOUS
  <1>1. IInv /\ IInv'
    BY StepConclude DEF TInv
  <1>2. /\ trace \in Seq(Span) /\ trace' = trace
        /\ left' = left /\ root # 0 /\ root' = 0 /\ stack = <<>>
        /\ total' = total + errors
        /\ depth \in [Spans -> Nat] /\ maxDepth \in Nat /\ ties \in Nat
        /\ deepest \in {0} \cup Spans /\ total \in Nat /\ allTies \in Nat
        /\ pred \in [Spans -> {0} \cup Spans]
    BY <1>1 DEF IInv, Types, Conclude
  <1>3. /\ Spans' = Spans /\ Spans \subseteq Nat \ {0} /\ IsFiniteSet(Spans)
        /\ \A s : IsError(s)' = IsError(s)
        /\ \A s : Children(s)' = Children(s)
    BY <1>2, TraceKept, SpansFinite
  <1>4. /\ Roots' = Roots /\ UniqueIds' = UniqueIds
        /\ \A s : TrueDepth(s)' = TrueDepth(s)
        /\ \A s : Reach(s)' = Reach(s)
    BY <1>2, TreeKept
  <1>5. root \in Roots /\ root \in Spans
    BY <1>2, Parents DEF TInv, Linked
  <1>6. Walked = Seen
    BY <1>2 DEF Walked, Seen
  <1>7. /\ Seen \subseteq Spans /\ Seen = Reach(root)
        /\ errors = Cardinality(WalkedErrors)
    <2>1. /\ IsSubtree(Walked, root)
          /\ errors = Cardinality({s \in Walked : IsError(s)})
      BY <1>1, <1>2, IInvErrorsCounted DEF ErrorsCounted
    <2>2. Seen \in SUBSET Spans
      BY DEF Seen
    <2> QED
      BY <1>5, <1>6, <2>1, <2>2, ReachIs DEF WalkedErrors
  <1>8. WalkedErrors = {s \in Seen : IsError(s)} /\ WalkedErrors \subseteq Seen
    BY <1>6 DEF WalkedErrors
  <1>9. IsFiniteSet(WalkedErrors) /\ errors \in Nat
    <2>1. WalkedErrors \in SUBSET Spans
      BY <1>7, <1>8
    <2> QED
      BY <1>3, <1>7, <2>1, FS_Subset, FS_CardinalityType
  <1>10. /\ \A s \in WalkedErrors : depth[s] <= maxDepth
         /\ ties = Cardinality({s \in WalkedErrors : depth[s] = maxDepth})
         /\ \/ WalkedErrors = {} /\ deepest = 0
            \/ deepest \in WalkedErrors /\ depth[deepest] = maxDepth
    BY <1>2 DEF TInv, Blamed
  <1>11. PICK new : new = ChainTo(deepest)
    OBVIOUS
  \* What the walk found is the chain to an ERROR as deep as any, or nothing.
  <1>12. \/ WalkedErrors = {} /\ new = <<>> /\ errors = 0
         \/ /\ new # <<>> /\ errors # 0 /\ ErrorPath(new)
            /\ Len(new) = maxDepth /\ new[Len(new)] = deepest
            /\ deepest \in WalkedErrors
    <2>1. CASE WalkedErrors = {}
      <3>1. new = <<>>
        BY <1>2, <1>10, <1>11, <2>1, NoChain
      <3>2. errors = 0
        BY <1>7, <2>1, FS_EmptySet
      <3> QED
        BY <2>1, <3>1, <3>2
    <2>2. CASE WalkedErrors # {}
      <3>1. deepest \in WalkedErrors /\ deepest \in Seen /\ depth[deepest] = maxDepth
        BY <1>8, <1>10, <2>2
      <3>2. /\ maxDepth \in 1 .. Len(trace)
            /\ new \in Seq(Spans) /\ Len(new) = maxDepth
            /\ new[1] = root /\ new[maxDepth] = deepest
            /\ \A i \in 2 .. maxDepth : new[i] \in Children(new[i - 1])
        BY <1>1, <1>2, <1>11, <3>1, ChainIs DEF TInv
      <3>3. errors # 0
        BY <1>7, <1>9, <2>2, FS_EmptySet
      <3>4. new # <<>> /\ IsError(deepest)
        BY <1>8, <3>1, <3>2
      <3> QED
        BY <1>5, <3>1, <3>2, <3>3, <3>4 DEF ErrorPath
    <2> QED
      BY <2>1, <2>2
  <1>13. \/ new = <<>> /\ allTies' = allTies /\ chain' = chain
         \/ new # <<>> /\ Len(new) > Len(chain) /\ chain' = new /\ allTies' = ties
         \/ /\ new # <<>> /\ Len(new) = Len(chain)
            /\ allTies' = allTies + ties /\ chain' = chain
         \/ /\ new # <<>> /\ Len(new) < Len(chain)
            /\ allTies' = allTies /\ chain' = chain
    BY <1>11 DEF Conclude
  <1>14. Linked' /\ Blamed'
    BY <1>2 DEF Linked, Blamed
  <1>15. EachRootOnce'
    <2>1. 0 \notin Roots
      BY <1>2, <1>3, Parents
    <2> QED
      BY <1>2, <1>4, <2>1 DEF TInv, EachRootOnce
  <1>16. (chain = <<>> /\ total = 0) \/ (ErrorPath(chain) /\ total # 0 /\ chain # <<>>)
    BY DEF TInv, Chained, ErrorPath
  <1>17. Len(<<>>) = 0
    OBVIOUS
  <1>18. Len(new) \in Nat /\ Len(chain) \in Nat /\ (new # <<>> => Len(new) # 0)
    <2>1. Len(new) \in Nat /\ (new # <<>> => Len(new) # 0)
      BY <1>12, <1>17 DEF ErrorPath
    <2>2. Len(chain) \in Nat
      BY <1>16, <1>17 DEF ErrorPath
    <2> QED
      BY <2>1, <2>2
  <1>19. Chained'
    <2>1. \A q : ErrorPath(q)' = ErrorPath(q)
      BY <1>3, <1>4 DEF ErrorPath
    <2>2. /\ chain' = <<>> => chain = <<>> /\ new = <<>>
          /\ chain' # <<>> => chain' = chain \/ chain' = new
      BY <1>13, <1>17, <1>18
    <2>3. CASE chain' = <<>>
      BY <1>2, <1>12, <1>16, <2>2, <2>3 DEF Chained
    <2>4. CASE chain' # <<>>
      <3>1. ErrorPath(chain')
        <4>1. CASE chain' = chain
          BY <1>16, <2>4, <4>1
        <4>2. CASE chain' = new
          BY <1>12, <2>4, <4>2
        <4> QED
          BY <2>2, <2>4, <4>1, <4>2
      <3>2. total + errors # 0
        BY <1>2, <1>9, <1>12, <1>13, <1>16, <2>4
      <3> QED
        BY <1>2, <2>1, <3>1, <3>2 DEF Chained
    <2> QED
      BY <2>3, <2>4
  <1>20. DoneRoots' = DoneRoots \cup {root} /\ DoneRoots \subseteq Roots \ {root}
    <2>1. \A i \in DOMAIN left : left[i] # root
      BY DEF TInv, EachRootOnce
    <2>2. 0 \notin Roots
      BY <1>2, <1>3, Parents
    <2> QED
      BY <1>2, <1>4, <1>5, <2>1, <2>2 DEF DoneRoots
  <1>21. ASSUME UniqueIds
         PROVE  Levels' /\ Merged'
    <2>1. /\ \A s \in Seen : TrueDepth(s) = depth[s]
          /\ \A r \in DoneRoots : \A s \in Reach(r) : TrueDepth(s) # 0
          /\ total = Cardinality(DoneErrors)
          /\ chain # <<>> =>
              /\ chain[Len(chain)] \in DoneErrors
              /\ TrueDepth(chain[Len(chain)]) = Len(chain)
              /\ \A s \in DoneErrors : TrueDepth(s) <= Len(chain)
              /\ allTies = Cardinality({s \in DoneErrors : TrueDepth(s) = Len(chain)})
      BY <1>2, <1>21 DEF TInv, Levels, Merged
    <2>2. Levels'
      BY <1>2, <1>4, <1>7, <1>20, <2>1 DEF Levels, Seen
    <2>3. DoneErrors' = DoneErrors \cup WalkedErrors
      <3>1. \A s \in WalkedErrors : s \in Spans /\ IsError(s) /\ s \in Reach(root)
        BY <1>7, <1>8
      <3>2. \A s \in Spans : IsError(s) /\ s \in Reach(root) => s \in WalkedErrors
        BY <1>7, <1>8
      <3> QED
        BY <1>3, <1>4, <1>20, <3>1, <3>2 DEF DoneErrors
    <2>4. DoneErrors \cap WalkedErrors = {}
      <3>1. \A r \in DoneRoots : Reach(r) \cap Reach(root) = {}
        BY <1>2, <1>5, <1>20, <1>21, TreesApart
      <3> QED
        BY <1>7, <1>8, <3>1 DEF DoneErrors
    <2>5. IsFiniteSet(DoneErrors)
      <3>1. DoneErrors \in SUBSET Spans
        BY DEF DoneErrors
      <3> QED
        BY <1>3, <3>1, FS_Subset
    <2>6. \A A \in SUBSET DoneErrors, B \in SUBSET WalkedErrors :
             /\ Cardinality(A \cup B) = Cardinality(A) + Cardinality(B)
             /\ Cardinality(A) \in Nat /\ Cardinality(B) \in Nat
      <3> SUFFICES ASSUME NEW A \in SUBSET DoneErrors, NEW B \in SUBSET WalkedErrors
                   PROVE  /\ Cardinality(A \cup B) = Cardinality(A) + Cardinality(B)
                          /\ Cardinality(A) \in Nat /\ Cardinality(B) \in Nat
        OBVIOUS
      <3>1. IsFiniteSet(A) /\ IsFiniteSet(B) /\ A \cap B = {}
        BY <1>9, <2>4, <2>5, FS_Subset
      <3>2. Cardinality(A) \in Nat /\ Cardinality(B) \in Nat
        BY <3>1, FS_CardinalityType
      <3>3. Cardinality(A \cup B) = Cardinality(A) + Cardinality(B) - Cardinality(A \cap B)
        BY <3>1, FS_Union
      <3>4. Cardinality(A \cap B) = 0
        BY <3>1, FS_EmptySet
      <3> QED
        BY <3>2, <3>3, <3>4
    <2>7. total' = Cardinality(DoneErrors')
      BY <1>2, <1>7, <2>1, <2>3, <2>6
    <2>8. \A s \in WalkedErrors : TrueDepth(s) = depth[s] /\ depth[s] \in Nat
      BY <1>2, <1>7, <1>8, <2>1
    <2>9. \A s \in DoneErrors : TrueDepth(s) \in Nat
      BY <1>2, LevelingExists, DepthIs
    <2>10. chain = <<>> => DoneErrors = {}
      BY <1>16, <2>1, <2>5, FS_EmptySet
    <2>11. PICK E, W : /\ E = {s \in DoneErrors : TrueDepth(s) = Len(chain)}
                       /\ W = {s \in WalkedErrors : depth[s] = maxDepth}
      OBVIOUS
    <2>12. PICK E2 : E2 = {s \in DoneErrors \cup WalkedErrors : TrueDepth(s) = Len(chain')}
      OBVIOUS
    <2>13. SUFFICES ASSUME chain' # <<>>
                    PROVE  /\ chain'[Len(chain')] \in DoneErrors \cup WalkedErrors
                           /\ TrueDepth(chain'[Len(chain')]) = Len(chain')
                           /\ \A s \in DoneErrors \cup WalkedErrors :
                                 TrueDepth(s) <= Len(chain')
                           /\ allTies' = Cardinality(E2)
      <3>1. {s \in DoneErrors : TrueDepth(s) = Len(chain)}' = E2
        BY <1>4, <2>3, <2>12
      <3> QED
        BY <1>4, <2>2, <2>3, <2>7, <3>1 DEF Merged
    <2>14. CASE WalkedErrors = {}
      <3>1. new = <<>> /\ allTies' = allTies /\ chain' = chain
        BY <1>12, <1>13, <1>17, <1>18, <2>14
      <3>2. E2 = E
        BY <2>11, <2>12, <2>14, <3>1
      <3> QED
        BY <2>1, <2>11, <2>13, <2>14, <3>1, <3>2
    <2>15. CASE WalkedErrors # {}
      <3>1. /\ new # <<>> /\ Len(new) = maxDepth /\ new[Len(new)] = deepest
            /\ deepest \in WalkedErrors /\ depth[deepest] = maxDepth
        BY <1>10, <1>12, <2>15
      <3>2. CASE Len(new) > Len(chain)
        <4>1. chain' = new /\ allTies' = ties
          BY <1>13, <1>18, <3>1, <3>2
        <4>2. \A s \in DoneErrors : TrueDepth(s) < maxDepth
          BY <1>2, <1>18, <2>1, <2>9, <2>10, <3>1, <3>2
        <4>3. Len(chain') = maxDepth /\ chain'[Len(chain')] = deepest
          BY <3>1, <4>1
        <4>4. \A s \in DoneErrors : TrueDepth(s) <= maxDepth /\ TrueDepth(s) # maxDepth
          BY <1>2, <2>9, <4>2
        <4>5. E2 = W
          BY <2>8, <2>11, <2>12, <4>3, <4>4
        <4>6. ties = Cardinality(W)
          BY <1>10, <2>11
        <4>7. \A s \in DoneErrors \cup WalkedErrors : TrueDepth(s) <= maxDepth
          BY <1>10, <2>8, <4>4
        <4> QED
          BY <2>8, <3>1, <4>1, <4>3, <4>5, <4>6, <4>7
      <3>3. CASE Len(new) = Len(chain)
        <4>1. chain' = chain /\ allTies' = allTies + ties /\ chain # <<>>
          BY <1>13, <1>17, <1>18, <3>1, <3>3
        <4>2. E2 = E \cup W
          BY <2>8, <2>11, <2>12, <3>1, <3>3, <4>1
        <4>3. Cardinality(E2) = Cardinality(E) + Cardinality(W)
          BY <2>6, <2>11, <4>2
        <4> QED
          BY <1>10, <2>1, <2>8, <2>11, <3>1, <3>3, <4>1, <4>3
      <3>4. CASE Len(new) < Len(chain)
        <4>1. chain' = chain /\ allTies' = allTies /\ chain # <<>>
          BY <1>13, <1>17, <1>18, <3>1, <3>4
        <4>2. \A s \in WalkedErrors : TrueDepth(s) < Len(chain)
          BY <1>2, <1>10, <1>18, <2>8, <3>1, <3>4
        <4>3. E2 = E
          BY <1>18, <2>8, <2>11, <2>12, <4>1, <4>2
        <4> QED
          BY <1>18, <2>1, <2>8, <2>11, <4>1, <4>2, <4>3
      <3> QED
        BY <1>18, <3>2, <3>3, <3>4
    <2> QED
      BY <2>14, <2>15
  <1> QED
    BY <1>1, <1>4, <1>14, <1>15, <1>19, <1>21 DEF TInv

LEMMA NextTInv == TInv /\ [Next]_vars => TInv'
  <1> SUFFICES ASSUME TInv, [Next]_vars PROVE TInv'
    OBVIOUS
  <1>1. CASE UNCHANGED vars
    <2>1. /\ trace' = trace /\ left' = left /\ root' = root /\ stack' = stack
          /\ pred' = pred /\ depth' = depth
          /\ maxDepth' = maxDepth /\ ties' = ties
          /\ deepest' = deepest /\ total' = total /\ allTies' = allTies
          /\ chain' = chain
      BY <1>1 DEF vars
    <2>2. IInv'
      BY <1>1, NextIInv DEF TInv
    <2>3. /\ Spans' = Spans
          /\ \A s : IsError(s)' = IsError(s)
          /\ \A s : Children(s)' = Children(s)
      BY <2>1, TraceKept
    <2>4. /\ Roots' = Roots /\ UniqueIds' = UniqueIds
          /\ \A s : TrueDepth(s)' = TrueDepth(s)
          /\ \A s : Reach(s)' = Reach(s)
      BY <2>1, TreeKept
    <2>5. Seen' = Seen /\ WalkedErrors' = WalkedErrors
      BY <2>1, <2>3 DEF Seen, Walked, WalkedErrors
    <2>6. Linked' /\ EachRootOnce' /\ Chained'
      BY <2>1, <2>3, <2>4, <2>5
      DEF TInv, Linked, EachRootOnce, Chained, ErrorPath
    <2>7. Blamed'
      <3>1. {s \in WalkedErrors : depth[s] = maxDepth}'
               = {s \in WalkedErrors : depth[s] = maxDepth}
        BY <2>1, <2>5
      <3> QED
        BY <2>1, <2>5, <3>1 DEF TInv, Blamed
    <2>8. DoneRoots' = DoneRoots /\ DoneErrors' = DoneErrors
      BY <2>1, <2>3, <2>4 DEF DoneRoots, DoneErrors
    <2>9. UniqueIds => Levels'
      BY <2>1, <2>4, <2>5, <2>8 DEF TInv, Levels
    <2>10. UniqueIds => Merged'
      <3>1. \A n : {s \in DoneErrors : TrueDepth(s) = n}'
                     = {s \in DoneErrors : TrueDepth(s) = n}
        BY <2>4, <2>8
      <3> QED
        BY <2>1, <2>4, <2>8, <3>1 DEF TInv, Merged
    <2> QED
      BY <2>2, <2>4, <2>6, <2>7, <2>9, <2>10 DEF TInv
  <1> QED
    BY <1>1, EnterTInv, PopTInv, ConcludeTInv DEF Next

LEMMA TreeInvariance == Spec => []TInv
  BY InitTInv, NextTInv, PTL DEF Spec
-----------------------------------------------------------------------------
(* The verdict.                                                            *)

\* Once all roots are walked, the ERRORs merged are those that have a depth.
LEMMA MergedIsReached ==
    ASSUME TInv, Done, UniqueIds
    PROVE  /\ \A s \in Spans : TrueDepth(s) # 0 <=> \E r \in Roots : s \in Reach(r)
           /\ DoneErrors = {s \in Spans : IsError(s) /\ TrueDepth(s) # 0}
  <1>1. trace \in Seq(Span)
    BY DEF TInv, IInv, Types
  <1>2. 0 \notin Roots
    BY <1>1, SpansFinite, Parents
  <1>3. DoneRoots = Roots
    BY <1>2 DEF Done, DoneRoots
  <1>4. \A r \in Roots : \A s \in Reach(r) : TrueDepth(s) # 0
    BY <1>3 DEF TInv, Levels
  <1>5. \A s \in Spans : TrueDepth(s) # 0 <=> \E r \in Roots : s \in Reach(r)
    BY <1>1, <1>4, DepthReached
  <1> QED
    BY <1>3, <1>5 DEF DoneErrors

LEMMA TInvDeepestBlamed == TInv => DeepestBlamed
  <1> SUFFICES ASSUME TInv, Done, UniqueIds PROVE DeepestBlamed
    BY DEF DeepestBlamed
  <1>1. /\ trace \in Seq(Span) /\ total \in Nat /\ allTies \in Nat
    BY DEF TInv, IInv, Types
  <1>2. Spans \subseteq Nat \ {0} /\ IsFiniteSet(Spans) /\ Len(trace) \in Nat
    BY <1>1, SpansFinite
  <1>3. PICK reached : reached = {s \in Spans : IsError(s) /\ TrueDepth(s) # 0}
    OBVIOUS
  <1>4. DoneErrors = reached
    BY <1>3, MergedIsReached
  <1>5. reached \in SUBSET Spans /\ IsFiniteSet(reached)
    <2>1. reached \in SUBSET Spans
      BY <1>3
    <2> QED
      BY <1>2, <2>1, FS_Subset
  <1>6. total = Cardinality(reached)
    BY <1>4 DEF TInv, Merged
  <1>7. (chain = <<>> /\ total = 0) \/ (ErrorPath(chain) /\ total # 0)
    BY DEF TInv, Chained
  <1>8. chain = <<>> <=> reached = {}
    BY <1>5, <1>6, <1>7, FS_EmptySet DEF ErrorPath
  <1>9. PICK lowest : lowest = {TrueDepth(s) : s \in reached}
    OBVIOUS
  <1>10. PICK bottom : bottom = {s \in reached : TrueDepth(s) = Max(lowest)}
    OBVIOUS
  <1>11. ASSUME chain # <<>>
         PROVE  /\ Verdict.cause = chain[Len(chain)]
                /\ Verdict.confidence = IF allTies = 1 THEN "high" ELSE "medium"
    <2>1. Verdict = [cause |-> Last(chain), from |-> Head(chain),
                     confidence |-> IF allTies = 1 THEN "high" ELSE "medium"]
      BY <1>11 DEF Verdict
    <2> QED
      BY <2>1 DEF Last
  <1>12. ASSUME chain # <<>>
         PROVE  /\ Verdict.cause \in bottom
                /\ Len(chain) = TrueDepth(Verdict.cause)
                /\ Head(chain) \in Roots
                /\ \A i \in 2 .. Len(chain) : chain[i] \in Children(chain[i - 1])
                /\ Verdict.confidence = "high" <=> Cardinality(bottom) = 1
                /\ IsError(Verdict.cause)
    <2>1. /\ chain[Len(chain)] \in reached
          /\ TrueDepth(chain[Len(chain)]) = Len(chain)
          /\ \A s \in reached : TrueDepth(s) <= Len(chain)
          /\ allTies = Cardinality({s \in reached : TrueDepth(s) = Len(chain)})
      BY <1>4, <1>12 DEF TInv, Merged
    <2>2. ErrorPath(chain)
      BY <1>7, <1>12
    <2>3. \A s \in reached : TrueDepth(s) \in Int
      BY <1>1, <1>2, LevelingExists, DepthIs
    <2>4. lowest \subseteq Int /\ Len(chain) \in lowest /\ \A x \in lowest : x <= Len(chain)
      BY <1>9, <2>1, <2>3
    <2>5. Max(lowest) = Len(chain)
      BY <2>4, MaxIs
    <2>6. bottom = {s \in reached : TrueDepth(s) = Len(chain)}
      BY <1>10, <2>5
    <2>7. /\ Verdict.cause \in bottom
          /\ Len(chain) = TrueDepth(Verdict.cause)
          /\ IsError(Verdict.cause)
      BY <1>3, <1>11, <1>12, <2>1, <2>6
    <2>8. /\ Head(chain) \in Roots
          /\ \A i \in 2 .. Len(chain) : chain[i] \in Children(chain[i - 1])
      BY <2>2 DEF ErrorPath
    <2>9. Verdict.confidence = "high" <=> Cardinality(bottom) = 1
      BY <1>11, <1>12, <2>1, <2>6
    <2> QED
      BY <2>7, <2>8, <2>9
  <1>13. ASSUME chain = <<>>, NEW s \in Spans, IsError(s)
         PROVE  IsError(Verdict.cause)
    <2>1. TrueDepth(s) = 0
      BY <1>3, <1>8, <1>13
    <2>2. ASSUME NEW r \in Roots, Id(s) \in SubtreeIds(r)
          PROVE  FALSE
      <3>1. r \in Spans
        BY <1>1, Parents
      <3>2. PICK t \in Reach(r) : Id(t) = Id(s)
        BY <1>1, <2>2, <3>1, GatheredAreReached
      <3>3. t = s
        BY <3>1, <3>2, ReachIs DEF UniqueIds
      <3> QED
        BY <2>1, <3>2, <3>3, MergedIsReached
    <2>3. s \in UnreachableErrors
      BY <1>13, <2>2 DEF UnreachableErrors, ReachableIds
    <2>4. PICK f : f = [x \in Spans |-> trace[x].duration]
      OBVIOUS
    <2>5. UnreachableErrors \subseteq 0 .. Len(trace)
      BY <1>2 DEF UnreachableErrors, Spans
    <2>6. \A x \in UnreachableErrors : f[x] \in Int
      <3>1. \A x \in Spans : trace[x] \in Span
        BY <1>1 DEF Spans
      <3> QED
        BY <2>4, <3>1 DEF UnreachableErrors, Span
    <2>7. FirstMax(UnreachableErrors, f) \in UnreachableErrors
      BY <1>2, <2>3, <2>5, <2>6, FirstMaxIs
    <2>8. total = 0
      BY <1>7, <1>13 DEF ErrorPath
    <2>9. Verdict.cause = FirstMax(UnreachableErrors, f)
      BY <1>13, <2>3, <2>4, <2>8 DEF Verdict
    <2> QED
      BY <2>7, <2>9 DEF UnreachableErrors
  <1>14. (\E s \in Spans : IsError(s)) => IsError(Verdict.cause)
    BY <1>12, <1>13
  <1> QED
    BY <1>3, <1>6, <1>8, <1>9, <1>10, <1>12, <1>14 DEF DeepestBlamed

\* Where span_ids are unique the verdict is about the deepest ERROR that hangs
\* off a root, along its real ancestors, and an ERROR that hangs off none is
\* blamed when there is no other, for traces of any length (triage.py:157-258).
THEOREM DeepestIsBlamed == Spec => []DeepestBlamed
  BY TreeInvariance, TInvDeepestBlamed, PTL
-----------------------------------------------------------------------------
(* Walks along single links: upward, and down the critical path.           *)

\* There are no more span_ids than spans.
LEMMA FewIds ==
    ASSUME trace \in Seq(Span)
    PROVE  IsFiniteSet(Known) /\ Cardinality(Known) \in Nat /\ Cardinality(Known) <= Len(trace)
  <1>1. IsFiniteSet(Spans) /\ Cardinality(Spans) = Len(trace)
    BY SpansFinite
  <1>2. PICK f : f = [s \in Spans |-> Id(s)]
    OBVIOUS
  <1>3. f \in Surjection(Spans, Known)
    BY <1>2 DEF Surjection, Known
  <1>4. IsFiniteSet(Known) /\ Cardinality(Known) <= Len(trace)
    BY <1>1, <1>3, FS_Surjection
  <1> QED
    BY <1>4, FS_CardinalityType

\* The span_ids found below r are closed: nothing is missed although the search
\* is over after as many rounds as there are spans.
LEMMA GatheredIsClosed ==
    ASSUME trace \in Seq(Span), NEW r \in Spans
    PROVE  /\ SubtreeIds(r) \subseteq Known
           /\ Id(r) \in SubtreeIds(r)
           /\ \A c \in Spans : ParentKey(c) \in SubtreeIds(r) => Id(c) \in SubtreeIds(r)
  <1> DEFINE Full(S) == \A c \in Spans : ParentKey(c) \in S => Id(c) \in S
  <1>1. PICK ids : IsGathering(ids, r)
    BY GatheringExists
  <1>2. Len(trace) \in Nat
    OBVIOUS
  <1>3. /\ \A k \in 0 .. Len(trace) : ids[k] \in SUBSET Known
        /\ ids[0] = {Id(r)} /\ SubtreeIds(r) = ids[Len(trace)]
    BY <1>1 DEF IsGathering
  <1>4. \A k \in 1 .. Len(trace) :
           ids[k] = ids[k - 1] \cup {Id(c) : c \in {d \in Spans : ParentKey(d) \in ids[k - 1]}}
    BY <1>1 DEF IsGathering
  <1>5. \A S \in SUBSET Known : IsFiniteSet(S) /\ Cardinality(S) \in Nat
                                /\ Cardinality(S) <= Cardinality(Known)
    BY FewIds, FS_Subset, FS_CardinalityType
  <1>6. PICK T : T = {n \in 0 .. Len(trace) :
                        Id(r) \in ids[n] /\ (Cardinality(ids[n]) >= n + 1 \/ Full(ids[n]))}
    OBVIOUS
  <1>7. 0 \in T
    <2>1. Cardinality(ids[0]) = 1
      BY <1>3, FS_Singleton
    <2>2. Cardinality(ids[0]) >= 0 + 1 /\ 0 \in 0 .. Len(trace) /\ Id(r) \in ids[0]
      BY <1>2, <1>3, <2>1
    <2> HIDE DEF Full
    <2> QED
      BY <1>6, <2>2
  <1>8. ASSUME NEW n \in 0 .. Len(trace) - 1, n \in T
        PROVE  n + 1 \in T
    <2>1. /\ n + 1 \in 1 .. Len(trace) /\ n + 1 - 1 = n /\ n \in Nat
          /\ n + 1 \in 0 .. Len(trace) /\ n \in 0 .. Len(trace)
      BY <1>2
    <2>2. ids[n + 1] = ids[n] \cup {Id(c) : c \in {d \in Spans : ParentKey(d) \in ids[n]}}
      BY <1>4, <2>1
    <2>3. Id(r) \in ids[n + 1]
      BY <1>6, <1>8, <2>2
    <2>4. CASE Full(ids[n])
      <3>1. ids[n + 1] = ids[n]
        BY <2>2, <2>4
      <3> QED
        BY <1>6, <2>1, <2>3, <2>4, <3>1
    <2>5. CASE ~ Full(ids[n])
      <3>1. Cardinality(ids[n]) >= n + 1
        BY <1>6, <1>8, <2>5
      <3>2. ids[n] \in SUBSET ids[n + 1] /\ ids[n] # ids[n + 1]
        BY <2>2, <2>5
      <3>3. /\ Cardinality(ids[n]) <= Cardinality(ids[n + 1])
            /\ Cardinality(ids[n]) # Cardinality(ids[n + 1])
            /\ Cardinality(ids[n]) \in Nat /\ Cardinality(ids[n + 1]) \in Nat
        <4>1. /\ IsFiniteSet(ids[n + 1]) /\ Cardinality(ids[n + 1]) \in Nat
              /\ Cardinality(ids[n]) \in Nat
          BY <1>3, <1>5, <2>1
        <4> QED
          BY <3>2, <4>1, FS_Subset
      <3>4. Cardinality(ids[n + 1]) >= n + 1 + 1
        BY <2>1, <3>1, <3>3
      <3> QED
        BY <1>6, <2>1, <2>3, <3>4
    <2> QED
      BY <2>4, <2>5
  <1>9. Len(trace) \in T
    <2>1. \A n \in 0 .. Len(trace) : n \in T
      <3> HIDE DEF Full
      <3> QED
        BY <1>2, <1>7, <1>8, Induction
    <2> QED
      BY <1>2, <2>1
  <1>10. SubtreeIds(r) \subseteq Known
    BY <1>2, <1>3
  <1>11. ~ (Cardinality(SubtreeIds(r)) >= Len(trace) + 1)
    BY <1>2, <1>5, <1>10, FewIds
  <1> QED
    BY <1>3, <1>6, <1>9, <1>10, <1>11

\* A walk that meets no span_id twice.
Path ==
    {w \in Seq(Spans) :
        w # <<>> /\ \A i, j \in 1 .. Len(w) : i # j => Id(w[i]) # Id(w[j])}

LEMMA PathIsShort ==
    ASSUME trace \in Seq(Span), NEW w \in Path
    PROVE  Len(w) \in 1 .. Len(trace)
  <1>1. IsFiniteSet(Spans) /\ Cardinality(Spans) = Len(trace) /\ Len(trace) \in Nat
    BY SpansFinite
  <1>2. PICK n \in Nat : n = Len(w)
    BY DEF Path
  <1>3. w \in [1 .. n -> Spans] /\ n # 0
    BY <1>2 DEF Path
  <1>4. w \in Injection(1 .. n, Spans)
    <2>1. \A i, j \in 1 .. n : i # j => Id(w[i]) # Id(w[j])
      BY <1>2 DEF Path
    <2>2. \A i, j \in 1 .. n : w[i] = w[j] => i = j
      BY <2>1
    <2> QED
      BY <1>3, <2>2 DEF Injection, IsInjective
  <1>5. Cardinality(1 .. n) <= Len(trace)
    BY <1>1, <1>4, FS_Injection
  <1>6. Cardinality(1 .. n) = n
    BY <1>3, FS_Interval
  <1> QED
    BY <1>1, <1>2, <1>3, <1>5, <1>6

\* One that grows or stands still has stood still after as many turns as there
\* are spans but one.
LEMMA Growing ==
    ASSUME trace \in Seq(Span),
           NEW V, V \subseteq Path, NEW v \in V, NEW F \in [V -> V],
           \A w \in V : F[w] = w \/ Len(F[w]) = Len(w) + 1,
           NEW N \in Nat, Len(trace) - 1 <= N, NEW g, Iterates(g, N, V, v, F)
    PROVE  g[N] \in V /\ F[g[N]] = g[N]
  <1>1. \A w \in V : Len(w) \in Nat /\ 1 <= Len(w) /\ Len(w) <= Len(trace)
    BY PathIsShort
  <1>2. /\ \A k \in 0 .. N : g[k] \in V
        /\ g[0] = v /\ \A k \in 1 .. N : g[k] = F[g[k - 1]]
    BY DEF Iterates
  <1>3. PICK T : T = {n \in 0 .. N : Len(g[n]) >= n + 1 \/ F[g[n]] = g[n]}
    OBVIOUS
  <1>4. 0 \in T
    BY <1>1, <1>2, <1>3
  <1>5. ASSUME NEW n \in 0 .. N - 1, n \in T
        PROVE  n + 1 \in T
    <2>1. /\ n + 1 \in 1 .. N /\ n + 1 - 1 = n /\ n \in Nat
          /\ n + 1 \in 0 .. N /\ n \in 0 .. N
      OBVIOUS
    <2>2. g[n + 1] = F[g[n]] /\ g[n] \in V /\ g[n + 1] \in V
      BY <1>2, <2>1
    <2>3. CASE F[g[n]] = g[n]
      BY <1>3, <2>1, <2>2, <2>3
    <2>4. CASE F[g[n]] # g[n]
      <3>1. Len(g[n]) >= n + 1
        BY <1>3, <1>5, <2>4
      <3>2. Len(g[n + 1]) = Len(g[n]) + 1
        BY <2>2, <2>4
      <3>3. Len(g[n + 1]) >= n + 1 + 1
        BY <1>1, <2>1, <2>2, <3>1, <3>2
      <3> QED
        BY <1>3, <2>1, <3>3
    <2> QED
      BY <2>3, <2>4
  <1>6. \A n \in 0 .. N : n \in T
    BY <1>4, <1>5, Induction
  <1>7. N \in 0 .. N /\ N \in T /\ g[N] \in V /\ F[g[N]] \in V
    BY <1>2, <1>6
  <1>8. CASE F[g[N]] # g[N]
    <2>1. Len(g[N]) >= N + 1 /\ Len(F[g[N]]) = Len(g[N]) + 1
      BY <1>3, <1>7, <1>8
    <2>2. Len(trace) \in Nat
      OBVIOUS
    <2> QED
      BY <1>1, <1>7, <2>1, <2>2
  <1> QED
    BY <1>7, <1>8

\* The copy that spans_by_id keeps for the last of w's parent.
Above(w) == ById(trace[Last(w)].parent)

\* The walk upward is over: it lacks a parent or meets a span_id again.
Stopped(w) == Above(w) = 0 \/ Id(Above(w)) \in {Id(w[i]) : i \in DOMAIN w}

Rise(w) == IF Stopped(w) THEN w ELSE Append(w, Above(w))

UpSolves(f, s) ==
    f = [n \in 0 .. Len(trace) |-> IF n = 0 THEN <<s>> ELSE Rise(f[n - 1])]

LEMMA ByIdIs ==
    ASSUME trace \in Seq(Span), NEW k
    PROVE  /\ ById(k) \in {0} \cup Spans
           /\ ById(k) # 0 => Id(ById(k)) = k
           /\ \A s \in Spans : Id(s) = k => ById(k) # 0
  <1>1. PICK S : S = {s \in Spans : Id(s) = k}
    OBVIOUS
  <1>2. /\ Len(trace) \in Nat /\ Spans \subseteq Nat \ {0}
        /\ S \subseteq 0 .. Len(trace)
    BY <1>1, SpansFinite DEF Spans
  <1>3. CASE S = {}
    <2>1. ById(k) = 0
      BY <1>1, <1>3 DEF ById
    <2> QED
      BY <1>1, <1>3, <2>1
  <1>4. CASE S # {}
    <2>1. Max(S) \in S
      BY <1>2, <1>4, MaxExists
    <2>2. ById(k) = Max(S)
      BY <1>1, <1>4 DEF ById
    <2> QED
      BY <1>1, <1>2, <2>1, <2>2
  <1> QED
    BY <1>3, <1>4

\* A walk upward from s, parent by parent.
Ascent(s) ==
    {w \in Path : w[1] = s /\ \A i \in 1 .. Len(w) - 1 :
                                 w[i + 1] = ById(trace[w[i]].parent)}

LEMMA RiseIs ==
    ASSUME trace \in Seq(Span), NEW s, NEW w \in Ascent(s), ~ Stopped(w)
    PROVE  Append(w, Above(w)) \in Ascent(s) /\ Len(Append(w, Above(w))) = Len(w) + 1
  <1>1. PICK p : p = Above(w)
    OBVIOUS
  <1>2. PICK n \in Nat : n = Len(w)
    BY DEF Ascent, Path
  <1>3. /\ w \in Seq(Spans) /\ n # 0 /\ w[1] = s /\ DOMAIN w = 1 .. n
        /\ \A i, j \in 1 .. n : i # j => Id(w[i]) # Id(w[j])
        /\ \A i \in 1 .. n - 1 : w[i + 1] = ById(trace[w[i]].parent)
    BY <1>2 DEF Ascent, Path
  <1>4. /\ p \in Spans /\ p = ById(trace[w[n]].parent)
        /\ \A i \in 1 .. n : Id(w[i]) # Id(p)
    BY <1>1, <1>2, <1>3, ByIdIs DEF Stopped, Above, Last
  <1>5. PICK v : v = Append(w, p)
    OBVIOUS
  <1>6. /\ v \in Seq(Spans) /\ Len(v) = n + 1
        /\ \A i \in 1 .. n : v[i] = w[i]
        /\ v[n + 1] = p
    BY <1>2, <1>3, <1>4, <1>5
  <1>7. ASSUME NEW i \in 1 .. n + 1, NEW j \in 1 .. n + 1, i # j
        PROVE  Id(v[i]) # Id(v[j])
    <2>1. CASE i \in 1 .. n /\ j \in 1 .. n
      BY <1>3, <1>6, <1>7, <2>1
    <2>2. CASE i = n + 1 /\ j \in 1 .. n
      BY <1>4, <1>6, <2>2
    <2>3. CASE j = n + 1 /\ i \in 1 .. n
      BY <1>4, <1>6, <2>3
    <2> QED
      BY <1>2, <1>7, <2>1, <2>2, <2>3
  <1>8. ASSUME NEW i \in 1 .. n
        PROVE  v[i + 1] = ById(trace[v[i]].parent)
    <2>1. CASE i = n
      BY <1>4, <1>6, <2>1
    <2>2. CASE i \in 1 .. n - 1
      <3>1. i + 1 \in 1 .. n
        BY <1>2, <2>2
      <3> QED
        BY <1>3, <1>6, <2>2, <3>1
    <2> QED
      BY <1>2, <2>1, <2>2
  <1>9. v \in Path
    BY <1>2, <1>6, <1>7 DEF Path
  <1>10. v[1] = s /\ n + 1 - 1 = n
    BY <1>2, <1>3, <1>6
  <1>11. v \in Ascent(s)
    BY <1>6, <1>8, <1>9, <1>10 DEF Ascent
  <1> QED
    BY <1>1, <1>2, <1>5, <1>6, <1>11

\* The walk upward from s follows the parents, meets no span_id twice, and is
\* over in the end, however long the trace.
LEMMA UpwardIs ==
    ASSUME trace \in Seq(Span), NEW s \in Spans
    PROVE  Upward(s) \in Ascent(s) /\ Stopped(Upward(s))
  <1>1. Len(trace) \in Nat /\ Len(trace) - 1 <= Len(trace)
    OBVIOUS
  <1>2. PICK N, V : N = Len(trace) /\ V = Ascent(s)
    OBVIOUS
  <1>3. V \subseteq Path
    BY <1>2 DEF Ascent
  <1>4. <<s>> \in V
    BY <1>2 DEF Ascent, Path
  <1>5. PICK F : F = [w \in V |-> Rise(w)]
    OBVIOUS
  <1>6. ASSUME NEW w \in V
        PROVE  F[w] \in V /\ (F[w] = w \/ Len(F[w]) = Len(w) + 1)
               /\ (F[w] = w => Stopped(w))
    <2>1. F[w] = Rise(w)
      BY <1>5
    <2>2. CASE Stopped(w)
      BY <2>1, <2>2 DEF Rise
    <2>3. CASE ~ Stopped(w)
      <3>1. F[w] \in V /\ Len(F[w]) = Len(w) + 1
        BY <1>2, <2>1, <2>3, RiseIs DEF Rise
      <3>2. Len(w) \in Nat
        BY <1>3 DEF Path
      <3> QED
        BY <3>1, <3>2
    <2> QED
      BY <2>2, <2>3
  <1>7. F \in [V -> V]
    BY <1>5, <1>6
  <1>8. N \in Nat /\ Len(trace) - 1 <= N
    BY <1>1, <1>2
  <1>9. PICK g : Iterates(g, N, V, <<s>>, F)
    BY <1>4, <1>7, <1>8, Recursion
  <1>10. g[N] \in V /\ F[g[N]] = g[N]
    BY <1>3, <1>4, <1>6, <1>7, <1>8, <1>9, Growing
  <1>11. /\ g \in [0 .. Len(trace) -> V] /\ g[0] = <<s>>
         /\ \A k \in 1 .. Len(trace) : g[k] = F[g[k - 1]]
    BY <1>2, <1>9 DEF Iterates
  <1>12. ASSUME NEW k \in 1 .. Len(trace)
         PROVE  k - 1 \in 0 .. Len(trace) /\ g[k] = Rise(g[k - 1])
    <2>1. k - 1 \in 0 .. Len(trace)
      BY <1>1
    <2>2. g[k - 1] \in V
      BY <1>11, <2>1
    <2> QED
      BY <1>5, <1>11, <2>1, <2>2
  <1>13. \A k \in 0 .. Len(trace) : g[k] = IF k = 0 THEN <<s>> ELSE Rise(g[k - 1])
    BY <1>1, <1>11, <1>12
  <1>14. UpSolves(g, s)
    BY <1>11, <1>13 DEF UpSolves
  <1>15. PICK up : up = CHOOSE f : UpSolves(f, s)
    OBVIOUS
  <1>16. UpSolves(up, s)
    BY <1>14, <1>15, Zenon
  <1>17. Upward(s) = up[Len(trace)]
    BY <1>15 DEF Upward, UpSolves, Rise, Stopped, Above
  <1>18. /\ up[0] = <<s>>
         /\ \A k \in 1 .. Len(trace) : up[k] = Rise(up[k - 1])
    <2>1. /\ 0 \in 0 .. Len(trace)
          /\ \A k \in 1 .. Len(trace) : k \in 0 .. Len(trace) /\ k # 0
      BY <1>1
    <2>2. \A k \in 0 .. Len(trace) : up[k] = IF k = 0 THEN <<s>> ELSE Rise(up[k - 1])
      BY <1>16 DEF UpSolves
    <2> QED
      BY <2>1, <2>2
  <1>19. PICK T : T = {n \in 0 .. Len(trace) : up[n] = g[n]}
    OBVIOUS
  <1>20. 0 \in T
    BY <1>1, <1>11, <1>18, <1>19
  <1>21. ASSUME NEW n \in 0 .. Len(trace) - 1, n \in T
         PROVE  n + 1 \in T
    <2>1. n + 1 \in 1 .. Len(trace) /\ n + 1 - 1 = n /\ n + 1 \in 0 .. Len(trace)
      BY <1>1
    <2>2. up[n] = g[n]
      BY <1>19, <1>21
    <2>3. up[n + 1] = Rise(up[n]) /\ g[n + 1] = Rise(g[n])
      BY <1>12, <1>18, <2>1
    <2>4. up[n + 1] = g[n + 1]
      BY <2>2, <2>3
    <2> QED
      BY <1>19, <2>1, <2>4
  <1>22. \A n \in 0 .. Len(trace) : n \in T
    BY <1>1, <1>20, <1>21, Induction
  <1>23. Upward(s) = g[N]
    BY <1>1, <1>2, <1>17, <1>19, <1>22
  <1> QED
    BY <1>2, <1>6, <1>10, <1>23

\* Each step upward leads to the parent under which the span is filed.
LEMMA AscentIs ==
    ASSUME trace \in Seq(Span), NEW s \in Spans, NEW w \in Ascent(s)
    PROVE  /\ w \in Seq(Spans) /\ Len(w) \in Nat \ {0} /\ w[1] = s
           /\ \A i \in 1 .. Len(w) : w[i] \in Spans
           /\ \A i, j \in 1 .. Len(w) : i # j => Id(w[i]) # Id(w[j])
           /\ \A i \in 1 .. Len(w) - 1 : i + 1 \in 1 .. Len(w)
                                         /\ ParentKey(w[i]) = Id(w[i + 1])
  <1>1. /\ w \in Seq(Spans) /\ w # <<>> /\ w[1] = s
        /\ \A i, j \in 1 .. Len(w) : i # j => Id(w[i]) # Id(w[j])
        /\ \A i \in 1 .. Len(w) - 1 : w[i + 1] = ById(trace[w[i]].parent)
    BY DEF Ascent, Path
  <1>2. Len(w) \in Nat \ {0} /\ \A i \in 1 .. Len(w) : w[i] \in Spans
    BY <1>1
  <1>3. ASSUME NEW i \in 1 .. Len(w) - 1
        PROVE  i + 1 \in 1 .. Len(w) /\ ParentKey(w[i]) = Id(w[i + 1])
    <2>1. i \in 1 .. Len(w) /\ i + 1 \in 1 .. Len(w) /\ i # i + 1
      BY <1>2
    <2>2. w[i + 1] \in Spans /\ w[i + 1] # 0
      BY <1>2, <2>1, SpansFinite
    <2>3. Id(w[i + 1]) = trace[w[i]].parent
      BY <1>1, <2>2, ByIdIs
    <2>4. Id(w[i + 1]) \in Known /\ Id(w[i + 1]) # Id(w[i])
      BY <1>1, <2>1, <2>2 DEF Known
    <2> QED
      BY <2>1, <2>3, <2>4 DEF ParentKey
  <1> QED
    BY <1>1, <1>2, <1>3

\* A parent cycle is found exactly if the walk upward does not end at a root.
LEMMA CycleIs ==
    ASSUME trace \in Seq(Span), NEW s \in Spans
    PROVE  LET w == Upward(s)
           IN  /\ Last(w) \in Spans
               /\ Len(ParentCycle(s)) >= 2 <=> Last(w) \notin Roots
               /\ Last(w) \notin Roots =>
                     \E i \in 1 .. Len(w) : ParentKey(Last(w)) = Id(w[i])
  <1>1. PICK w : w = Upward(s)
    OBVIOUS
  <1>2. w \in Ascent(s) /\ Stopped(w)
    BY <1>1, UpwardIs
  <1>3. PICK n \in Nat \ {0} : n = Len(w)
    BY <1>2, AscentIs
  <1>4. /\ w \in Seq(Spans) /\ DOMAIN w = 1 .. n
        /\ Last(w) = w[n] /\ w[n] \in Spans
        /\ \A i, j \in 1 .. n : i # j => Id(w[i]) # Id(w[j])
    BY <1>2, <1>3, AscentIs DEF Last
  <1>5. PICK p : p = Above(w)
    OBVIOUS
  <1>6. PICK k : k = trace[w[n]].parent
    OBVIOUS
  <1>7. p = ById(k)
    BY <1>4, <1>5, <1>6 DEF Above
  <1>8. p \in {0} \cup Spans /\ 0 \notin Spans /\ (p # 0 => Id(p) = k)
    BY <1>7, ByIdIs, SpansFinite
  <1>9. p # 0 <=> k \in Known
    BY <1>7, <1>8, ByIdIs DEF Known
  <1>10. w[n] \notin Roots <=> k \in Known \ {Id(w[n])}
    <2>1. None \notin Known
      BY Parents DEF Known
    <2> QED
      BY <1>4, <1>6, <2>1 DEF Roots, ParentKey
  <1>11. w[n] \notin Roots => ParentKey(w[n]) = k
    BY <1>6, <1>10 DEF ParentKey
  <1>12. CASE p = 0
    <2>1. ParentCycle(s) = <<>>
      BY <1>1, <1>5, <1>12 DEF ParentCycle, Above
    <2>2. ~ (Len(ParentCycle(s)) >= 2)
      BY <2>1
    <2> QED
      BY <1>1, <1>4, <1>9, <1>10, <1>12, <2>2
  <1>13. CASE p # 0
    <2>1. \E i \in 1 .. n : Id(w[i]) = Id(p)
      BY <1>2, <1>4, <1>5, <1>13 DEF Stopped
    <2>2. PICK c : c = CHOOSE i \in DOMAIN w : Id(w[i]) = Id(p)
      OBVIOUS
    <2>3. c \in 1 .. n /\ Id(w[c]) = Id(p)
      BY <1>4, <2>1, <2>2
    <2>4. ParentCycle(s) = SubSeq(w, c, n)
      BY <1>1, <1>3, <1>5, <1>13, <2>2 DEF ParentCycle, Above
    <2>5. Len(SubSeq(w, c, n)) = n - c + 1
      BY <1>3, <1>4, <2>3
    <2>6. Len(ParentCycle(s)) >= 2 <=> c # n
      BY <1>3, <2>3, <2>4, <2>5
    <2>7. n \in 1 .. n
      BY <1>3
    <2>8. c # n <=> Id(w[n]) # k
      BY <1>4, <1>8, <1>13, <2>3, <2>7
    <2>9. Len(ParentCycle(s)) >= 2 <=> w[n] \notin Roots
      BY <1>9, <1>10, <1>13, <2>6, <2>8
    <2> QED
      BY <1>1, <1>3, <1>4, <1>8, <1>11, <1>13, <2>3, <2>9
  <1> QED
    BY <1>12, <1>13

\* What ends at a root going upward is found going down from it.
LEMMA EndsAtRoot ==
    ASSUME trace \in Seq(Span), NEW s \in Spans, Last(Upward(s)) \in Roots
    PROVE  Id(s) \in ReachableIds
  <1>1. PICK w : w = Upward(s)
    OBVIOUS
  <1>2. w \in Ascent(s)
    BY <1>1, UpwardIs
  <1>3. PICK n \in Nat \ {0} : n = Len(w)
    BY <1>2, AscentIs
  <1>4. /\ w[1] = s /\ \A i \in 1 .. n : w[i] \in Spans
        /\ \A i \in 1 .. n - 1 : ParentKey(w[i]) = Id(w[i + 1])
    BY <1>2, <1>3, AscentIs
  <1>5. PICK r : r = w[n]
    OBVIOUS
  <1>6. r \in Roots /\ r \in Spans
    BY <1>1, <1>3, <1>5, Parents DEF Last
  <1>7. /\ Id(r) \in SubtreeIds(r)
        /\ \A c \in Spans : ParentKey(c) \in SubtreeIds(r) => Id(c) \in SubtreeIds(r)
    BY <1>6, GatheredIsClosed
  <1>8. PICK T : T = {k \in 0 .. n - 1 : Id(w[n - k]) \in SubtreeIds(r)}
    OBVIOUS
  <1>9. 0 \in T
    <2>1. 0 \in 0 .. n - 1 /\ n - 0 = n
      BY <1>3
    <2> QED
      BY <1>5, <1>7, <1>8, <2>1
  <1>10. ASSUME NEW k \in 0 .. (n - 1) - 1, k \in T
         PROVE  k + 1 \in T
    <2>1. PICK i : i = n - (k + 1)
      OBVIOUS
    <2>2. i \in 1 .. n - 1 /\ i \in 1 .. n /\ i + 1 = n - k /\ k + 1 \in 0 .. n - 1
      BY <1>3, <2>1
    <2>3. ParentKey(w[i]) \in SubtreeIds(r)
      BY <1>4, <1>8, <1>10, <2>2
    <2>4. Id(w[i]) \in SubtreeIds(r)
      BY <1>4, <1>7, <2>2, <2>3
    <2> QED
      BY <1>8, <2>1, <2>2, <2>4
  <1>11. n - 1 \in T
    <2>1. n - 1 \in Nat /\ n - 1 \in 0 .. n - 1
      BY <1>3
    <2>2. \A k \in 0 .. n - 1 : k \in T
      BY <1>9, <1>10, <2>1, Induction
    <2> QED
      BY <2>1, <2>2
  <1>12. n - (n - 1) = 1
    BY <1>3
  <1>13. Id(s) \in SubtreeIds(r)
    BY <1>4, <1>8, <1>11, <1>12
  <1> QED
    BY <1>6, <1>13 DEF ReachableIds

\* Where span_ids are unique, nothing is found going down from any root that
\* does not end at a root going upward.
LEMMA EndsInCycle ==
    ASSUME trace \in Seq(Span), UniqueIds, NEW s \in Spans,
           Last(Upward(s)) \notin Roots
    PROVE  Id(s) \notin ReachableIds
  <1>1. PICK w : w = Upward(s)
    OBVIOUS
  <1>2. w \in Ascent(s)
    BY <1>1, UpwardIs
  <1>3. PICK n \in Nat \ {0} : n = Len(w)
    BY <1>2, AscentIs
  <1>4. /\ w[1] = s /\ \A i \in 1 .. n : w[i] \in Spans
        /\ \A i \in 1 .. n - 1 : i + 1 \in 1 .. n /\ ParentKey(w[i]) = Id(w[i + 1])
    BY <1>2, <1>3, AscentIs
  <1>5. \A i \in 1 .. n : \E j \in 1 .. n : ParentKey(w[i]) = Id(w[j])
    <2> SUFFICES ASSUME NEW i \in 1 .. n
                 PROVE  \E j \in 1 .. n : ParentKey(w[i]) = Id(w[j])
      OBVIOUS
    <2>1. CASE i = n
      BY <1>1, <1>3, <2>1, CycleIs DEF Last
    <2>2. CASE i \in 1 .. n - 1
      BY <1>4, <2>2
    <2> QED
      BY <1>3, <2>1, <2>2
  <1>6. PICK X : X = {w[i] : i \in 1 .. n}
    OBVIOUS
  <1>7. X \subseteq Spans /\ s \in X
    BY <1>3, <1>4, <1>6
  <1>8. \A x \in X : \E y \in X : ParentKey(x) = Id(y)
    BY <1>5, <1>6
  <1>9. X \cap Roots = {}
    BY <1>7, <1>8, Parents DEF Roots
  <1>10. PICK S : S = Spans \ X
    OBVIOUS
  <1>11. Closed(S)
    <2> SUFFICES ASSUME NEW t \in S, NEW c \in Children(t), c \in X
                 PROVE  FALSE
      BY <1>10 DEF Closed, Children
    <2>1. PICK y \in X : ParentKey(c) = Id(y)
      BY <1>8
    <2>2. Id(y) = Id(t)
      BY <2>1 DEF Children
    <2>3. y = t
      BY <1>7, <1>10, <2>2 DEF UniqueIds
    <2> QED
      BY <1>10, <2>3
  <1>12. ASSUME NEW r \in Roots, Id(s) \in SubtreeIds(r)
         PROVE  FALSE
    <2>1. r \in Spans /\ r \in S
      BY <1>9, <1>10, Parents
    <2>2. Reach(r) \subseteq S
      BY <1>10, <1>11, <2>1, ReachIs
    <2>3. PICK t \in Reach(r) : Id(t) = Id(s)
      BY <1>12, <2>1, GatheredAreReached
    <2>4. t = s
      BY <1>10, <2>2, <2>3 DEF UniqueIds
    <2> QED
      BY <1>7, <1>10, <2>2, <2>3, <2>4
  <1> QED
    BY <1>12 DEF ReachableIds

\* A span that no root reaches is caught in a parent cycle that can be named;
\* without a root every span is, also when span_ids are reused, in traces of
\* any length (span_tree.py:104-130, triage.py:87-99).
THEOREM CyclesAreNamed == Spec => []TrappedInCycle
  <1>1. IInv => TrappedInCycle
    <2> SUFFICES ASSUME IInv, NEW s \in Spans
                 PROVE  /\ Roots = {} => Len(ParentCycle(s)) >= 2
                        /\ UniqueIds =>
                            (Id(s) \notin ReachableIds <=> Len(ParentCycle(s)) >= 2)
      BY DEF TrappedInCycle
    <2>1. trace \in Seq(Span)
      BY DEF IInv, Types
    <2> QED
      BY <2>1, CycleIs, EndsAtRoot, EndsInCycle
  <1> QED
    BY <1>1, Invariance, PTL
-----------------------------------------------------------------------------
(* Self times.                                                             *)

InTimeOrder(q) == \A i, j \in DOMAIN q : i < j => Earlier(q[i], q[j])

\* Finitely many intervals can be sorted.
LEMMA CanBeSorted ==
    ASSUME NEW I, I \subseteq Int \X Int, IsFiniteSet(I)
    PROVE  \E q \in [1 .. Cardinality(I) -> I] : InTimeOrder(q)
  <1> DEFINE Latest(J, m) == m \in J /\ \A x \in J : x = m \/ Earlier(x, m)
             Can(J, n) == \E q \in [1 .. n -> J] : InTimeOrder(q)
  <1>1. \A J \in SUBSET I : IsFiniteSet(J) /\ Cardinality(J) \in Nat
    BY FS_Subset, FS_CardinalityType
  <1>2. ASSUME NEW J \in SUBSET I, NEW x \in J
        PROVE  /\ J \ {x} \in SUBSET I /\ x \notin J \ {x}
               /\ Cardinality(J \ {x}) = Cardinality(J) - 1
    BY <1>1, FS_RemoveElement
  <1>3. PICK N \in Nat : N = Cardinality(I)
    BY FS_CardinalityType
  <1>4. ASSUME NEW J \in SUBSET I, J # {}
        PROVE  \E m : Latest(J, m)
    <2>1. PICK T : T = {n \in Nat : \A K \in SUBSET I : K # {} /\ Cardinality(K) = n
                                       => \E m : Latest(K, m)}
      OBVIOUS
    <2>2. 0 \in T
      BY <1>1, <2>1, FS_EmptySet
    <2>3. ASSUME NEW n \in Nat, n \in T
          PROVE  n + 1 \in T
      <3> SUFFICES ASSUME NEW K \in SUBSET I, K # {}, Cardinality(K) = n + 1
                   PROVE  \E m : Latest(K, m)
        BY <2>1
      <3>1. PICK x \in K : TRUE
        OBVIOUS
      <3>2. K \ {x} \in SUBSET I /\ Cardinality(K \ {x}) = n
        BY <1>2, <3>1
      <3>3. CASE K \ {x} = {}
        <4>1. Latest(K, x)
          BY <3>1, <3>3
        <4> QED
          BY <4>1
      <3>4. CASE K \ {x} # {}
        <4>1. PICK m : Latest(K \ {x}, m)
          BY <2>1, <2>3, <3>2, <3>4
        <4>2. m \in K /\ \A y \in K : y # x => y = m \/ Earlier(y, m)
          BY <4>1
        <4>3. m \in Int \X Int /\ x \in Int \X Int /\ K \subseteq Int \X Int
          BY <3>1, <4>2
        <4>4. x = m \/ Earlier(x, m) \/ Earlier(m, x)
          BY <4>3 DEF Earlier
        <4>5. CASE x = m \/ Earlier(x, m)
          <5>1. Latest(K, m)
            BY <4>2, <4>5
          <5> QED
            BY <5>1
        <4>6. CASE Earlier(m, x)
          <5>1. ASSUME NEW y \in K, y # x
                PROVE  Earlier(y, x)
            <6>1. y = m \/ Earlier(y, m)
              BY <4>2, <5>1
            <6>2. y \in Int \X Int
              BY <4>3
            <6> QED
              BY <4>3, <4>6, <6>1, <6>2 DEF Earlier
          <5>2. Latest(K, x)
            BY <3>1, <5>1
          <5> QED
            BY <5>2
        <4> QED
          BY <4>4, <4>5, <4>6
      <3> QED
        BY <3>3, <3>4
    <2>4. Cardinality(J) \in T
      BY <1>1, <2>2, <2>3, SetInduction
    <2> QED
      BY <1>4, <2>1, <2>4
  <1>5. PICK T : T = {n \in Nat : \A J \in SUBSET I : Cardinality(J) = n => Can(J, n)}
    OBVIOUS
  <1>6. 0 \in T
    <2>1. ASSUME NEW J
          PROVE  Can(J, 0)
      <3>1. PICK q : q = [i \in 1 .. 0 |-> 0]
        OBVIOUS
      <3>2. q \in [1 .. 0 -> J] /\ InTimeOrder(q)
        BY <3>1 DEF InTimeOrder
      <3> QED
        BY <3>2
    <2> HIDE DEF Can
    <2> QED
      BY <1>5, <2>1
  <1>7. ASSUME NEW n \in Nat, n \in T
        PROVE  n + 1 \in T
    <2> SUFFICES ASSUME NEW J \in SUBSET I, Cardinality(J) = n + 1
                 PROVE  Can(J, n + 1)
      BY <1>5
    <2>1. J # {}
      BY FS_EmptySet
    <2>2. PICK m : m \in J /\ \A x \in J : x = m \/ Earlier(x, m)
      BY <1>4, <2>1
    <2>3. PICK K : K = J \ {m}
      OBVIOUS
    <2>4. K \in SUBSET I /\ Cardinality(K) = n
      BY <1>2, <2>2, <2>3
    <2>5. PICK p \in [1 .. n -> K] : InTimeOrder(p)
      BY <1>5, <1>7, <2>4
    <2>6. PICK q : q = [i \in 1 .. n + 1 |-> IF i = n + 1 THEN m ELSE p[i]]
      OBVIOUS
    <2>7. /\ q[n + 1] = m
          /\ \A i \in 1 .. n : q[i] = p[i] /\ p[i] \in J /\ Earlier(p[i], m)
      BY <2>2, <2>3, <2>5, <2>6
    <2>8. q \in [1 .. n + 1 -> J]
      BY <2>2, <2>6, <2>7
    <2>9. ASSUME NEW i \in 1 .. n + 1, NEW j \in 1 .. n + 1, i < j
          PROVE  Earlier(q[i], q[j])
      <3>1. CASE j = n + 1
        <4>1. i \in 1 .. n
          BY <2>9, <3>1
        <4> QED
          BY <2>7, <3>1, <4>1
      <3>2. CASE j \in 1 .. n
        <4>1. i \in 1 .. n
          BY <2>9, <3>2
        <4> QED
          BY <2>5, <2>7, <2>9, <3>2, <4>1 DEF InTimeOrder
      <3> QED
        BY <3>1, <3>2
    <2>10. InTimeOrder(q)
      BY <2>8, <2>9 DEF InTimeOrder
    <2> QED
      BY <2>8, <2>10
  <1>8. N \in T
    <2> HIDE DEF Can
    <2> QED
      BY <1>6, <1>7, SetInduction
  <1> QED
    BY <1>3, <1>5, <1>8

\* Sorted lists every interval, by start.
LEMMA SortedIs ==
    ASSUME NEW I, I \subseteq Int \X Int, IsFiniteSet(I)
    PROVE  /\ Sorted(I) \in Seq(I)
           /\ \A v \in I : \E i \in 1 .. Len(Sorted(I)) : v = Sorted(I)[i]
           /\ \A i, j \in 1 .. Len(Sorted(I)) : i < j => Sorted(I)[i][1] <= Sorted(I)[j][1]
  <1>1. PICK n \in Nat : n = Cardinality(I)
    BY FS_CardinalityType
  <1>2. PICK q : q = Sorted(I)
    OBVIOUS
  <1>3. q \in [1 .. n -> I] /\ InTimeOrder(q)
    <2>1. \E x \in [1 .. n -> I] : InTimeOrder(x)
      BY <1>1, CanBeSorted
    <2>2. q = CHOOSE x \in [1 .. n -> I] : InTimeOrder(x)
      BY <1>1, <1>2 DEF Sorted, InTimeOrder
    <2> HIDE DEF InTimeOrder
    <2> QED
      BY <2>1, <2>2, Zenon
  <1>4. q \in Seq(I) /\ Len(q) = n /\ DOMAIN q = 1 .. n
    BY <1>3
  <1>5. \A i \in 1 .. n : q[i] \in I /\ q[i] \in Int \X Int
    BY <1>3
  <1>6. \A i, j \in 1 .. n : i < j => Earlier(q[i], q[j])
    BY <1>3, <1>4 DEF InTimeOrder
  <1>7. \A i, j \in 1 .. n : i < j => q[i][1] <= q[j][1] /\ q[i] # q[j]
    BY <1>5, <1>6 DEF Earlier
  <1>8. q \in Injection(1 .. n, I)
    <2>1. \A i, j \in 1 .. n : q[i] = q[j] => i = j
      BY <1>7
    <2> QED
      BY <1>3, <2>1 DEF Injection, IsInjective
  <1>9. IsFiniteSet(1 .. n) /\ Cardinality(1 .. n) = n
    BY FS_Interval
  <1>10. q \in Surjection(1 .. n, I)
    BY <1>1, <1>8, <1>9, FS_Injection
  <1>11. \A v \in I : \E i \in 1 .. n : v = q[i]
    BY <1>10 DEF Surjection
  <1> QED
    BY <1>2, <1>4, <1>7, <1>11

LEMMA MaxOfTwo ==
    ASSUME NEW x \in Int, NEW y \in Int
    PROVE  Max({x, y}) \in Int /\ Max({x, y}) = IF x >= y THEN x ELSE y
  <1>1. CASE x >= y
    <2>1. \A z \in {x, y} : z <= x
      BY <1>1
    <2>2. Max({x, y}) = x
      BY <2>1, MaxIs
    <2> QED
      BY <1>1, <2>2
  <1>2. CASE ~ (x >= y)
    <2>1. \A z \in {x, y} : z <= y
      BY <1>2
    <2>2. Max({x, y}) = y
      BY <2>1, MaxIs
    <2> QED
      BY <1>2, <2>2
  <1> QED
    BY <1>1, <1>2

LEMMA MinOfTwo ==
    ASSUME NEW x \in Int, NEW y \in Int
    PROVE  Min({x, y}) \in Int /\ Min({x, y}) = IF x <= y THEN x ELSE y
  <1>1. CASE x <= y
    <2>1. \A z \in {x, y} : x <= z
      BY <1>1
    <2>2. Min({x, y}) = x
      BY <2>1, MinIs
    <2> QED
      BY <1>1, <2>2
  <1>2. CASE ~ (x <= y)
    <2>1. \A z \in {x, y} : y <= z
      BY <1>2
    <2>2. Min({x, y}) = y
      BY <2>1, MinIs
    <2> QED
      BY <1>2, <2>2
  <1> QED
    BY <1>1, <1>2

\* The time in an interval, and in one of the first i of q.
Within(v) == {t \in Int : v[1] <= t /\ t < v[2]}
Spanned(q, i) == {t \in Int : \E j \in 1 .. i : t \in Within(q[j])}

Acc == [covered : Int, from : Int, to : Int]

\* What the merge has after i intervals: the last stretch, and how much time
\* there is before it.
MergedSoFar(m, q, i) ==
    /\ m \in Acc /\ m.from < m.to /\ m.from <= q[i][1]
    /\ \A t \in Spanned(q, i) : t < m.to
    /\ \A t \in Int : m.from <= t /\ t < m.to => t \in Spanned(q, i)
    /\ LET before == {t \in Spanned(q, i) : t < m.from}
       IN  IsFiniteSet(before) /\ Cardinality(before) = m.covered

LEMMA MergedSum ==
    ASSUME NEW m, NEW q, NEW i, MergedSoFar(m, q, i)
    PROVE  /\ IsFiniteSet(Spanned(q, i))
           /\ Cardinality(Spanned(q, i)) = m.covered + m.to - m.from
  <1>1. PICK B : B = {t \in Spanned(q, i) : t < m.from}
    OBVIOUS
  <1>2. /\ m.from \in Int /\ m.to \in Int /\ m.from < m.to /\ m.covered \in Int
        /\ IsFiniteSet(B) /\ Cardinality(B) = m.covered
    BY <1>1 DEF MergedSoFar, Acc
  <1>3. PICK C : C = m.from .. m.to - 1
    OBVIOUS
  <1>4. IsFiniteSet(C) /\ Cardinality(C) = m.to - m.from
    <2>1. m.from \in Int /\ m.to - 1 \in Int /\ ~ (m.from > m.to - 1)
      BY <1>2
    <2>2. /\ IsFiniteSet(C)
          /\ Cardinality(C) = IF m.from > m.to - 1 THEN 0 ELSE m.to - 1 - m.from + 1
      BY <1>3, <2>1, FS_Interval
    <2> QED
      BY <1>2, <2>1, <2>2
  <1>5. B \cap C = {}
    BY <1>1, <1>2, <1>3
  <1>6. Spanned(q, i) = B \cup C
    <2>1. \A t \in Spanned(q, i) : t \in Int /\ t < m.to
      BY DEF MergedSoFar, Spanned
    <2>2. \A t \in C : t \in Spanned(q, i)
      BY <1>2, <1>3 DEF MergedSoFar
    <2>3. \A t \in Spanned(q, i) : t \in B \/ t \in C
      BY <1>1, <1>2, <1>3, <2>1
    <2> QED
      BY <1>1, <2>2, <2>3
  <1>7. Cardinality(B \cap C) = 0
    BY <1>5, FS_EmptySet
  <1>8. /\ IsFiniteSet(B \cup C)
        /\ Cardinality(B \cup C) = Cardinality(B) + Cardinality(C) - Cardinality(B \cap C)
    BY <1>2, <1>4, FS_Union
  <1> QED
    BY <1>2, <1>4, <1>6, <1>7, <1>8

LEMMA ExtendIs ==
    ASSUME NEW m \in Acc, NEW v \in Int \X Int
    PROVE  /\ Extend(m, v) \in Acc
           /\ v[1] > m.to => /\ Extend(m, v).covered = m.covered + m.to - m.from
                             /\ Extend(m, v).from = v[1] /\ Extend(m, v).to = v[2]
           /\ ~ (v[1] > m.to) =>
                 /\ Extend(m, v).covered = m.covered /\ Extend(m, v).from = m.from
                 /\ Extend(m, v).to = IF m.to >= v[2] THEN m.to ELSE v[2]
  <1>1. /\ v[1] \in Int /\ v[2] \in Int
        /\ m.covered \in Int /\ m.from \in Int /\ m.to \in Int
    BY DEF Acc
  <1>2. PICK b : b = Extend(m, v)
    OBVIOUS
  <1>3. CASE v[1] > m.to
    <2>1. b = [covered |-> m.covered + m.to - m.from, from |-> v[1], to |-> v[2]]
      BY <1>2, <1>3 DEF Extend
    <2>2. b \in Acc /\ b.covered = m.covered + m.to - m.from /\ b.from = v[1] /\ b.to = v[2]
      BY <1>1, <2>1 DEF Acc
    <2> QED
      BY <1>2, <1>3, <2>2
  <1>4. CASE ~ (v[1] > m.to)
    <2>1. PICK x \in Int : x = Max({m.to, v[2]}) /\ x = IF m.to >= v[2] THEN m.to ELSE v[2]
      BY <1>1, MaxOfTwo
    <2>2. b = [m EXCEPT !.to = x]
      BY <1>2, <1>4, <2>1 DEF Extend
    <2>3. b \in Acc /\ b.covered = m.covered /\ b.from = m.from /\ b.to = x
      BY <2>1, <2>2 DEF Acc
    <2> QED
      BY <1>2, <1>4, <2>1, <2>3
  <1> QED
    BY <1>3, <1>4

LEMMA MergedStep ==
    ASSUME NEW q, NEW i \in Nat \ {0}, NEW m, MergedSoFar(m, q, i),
           q[i] \in Int \X Int, q[i + 1] \in Int \X Int,
           q[i][1] <= q[i + 1][1], q[i + 1][1] < q[i + 1][2]
    PROVE  MergedSoFar(Extend(m, q[i + 1]), q, i + 1)
  <1>1. PICK v : v = q[i + 1]
    OBVIOUS
  <1>2. /\ v \in Int \X Int /\ v[1] \in Int /\ v[2] \in Int /\ v[1] < v[2]
        /\ m \in Acc /\ m.covered \in Int /\ m.from \in Int /\ m.to \in Int
        /\ m.from < m.to /\ m.from <= v[1]
    <2>1. v \in Int \X Int /\ v[1] \in Int /\ v[2] \in Int /\ v[1] < v[2]
      BY <1>1
    <2>2. /\ m \in Acc /\ m.covered \in Int /\ m.from \in Int /\ m.to \in Int
          /\ m.from < m.to /\ m.from <= q[i][1] /\ q[i][1] \in Int
      BY DEF MergedSoFar, Acc
    <2> QED
      BY <1>1, <2>1, <2>2
  <1>3. PICK U : U = Spanned(q, i)
    OBVIOUS
  <1>4. PICK U2 : U2 = Spanned(q, i + 1)
    OBVIOUS
  <1>5. U2 = U \cup Within(v)
    <2>1. \A j \in 1 .. i + 1 : j \in 1 .. i \/ j = i + 1
      OBVIOUS
    <2>2. \A j \in 1 .. i : j \in 1 .. i + 1
      OBVIOUS
    <2>3. i + 1 \in 1 .. i + 1
      OBVIOUS
    <2> QED
      BY <1>1, <1>3, <1>4, <2>1, <2>2, <2>3 DEF Spanned, Within
  <1>6. /\ \A t \in U : t \in Int /\ t < m.to
        /\ \A t \in Int : m.from <= t /\ t < m.to => t \in U
        /\ IsFiniteSet({t \in U : t < m.from})
        /\ Cardinality({t \in U : t < m.from}) = m.covered
    BY <1>3 DEF MergedSoFar, Spanned
  <1>7. \A t : t \in Within(v) <=> t \in Int /\ v[1] <= t /\ t < v[2]
    BY DEF Within
  <1>8. PICK b : b = Extend(m, v)
    OBVIOUS
  <1>9. SUFFICES /\ b \in Acc /\ b.from < b.to /\ b.from <= v[1]
                 /\ \A t \in U2 : t < b.to
                 /\ \A t \in Int : b.from <= t /\ t < b.to => t \in U2
                 /\ IsFiniteSet({t \in U2 : t < b.from})
                 /\ Cardinality({t \in U2 : t < b.from}) = b.covered
    BY <1>1, <1>4, <1>8 DEF MergedSoFar
  <1>10. CASE v[1] > m.to
    <2>1. /\ b \in Acc /\ b.covered = m.covered + m.to - m.from
          /\ b.from = v[1] /\ b.to = v[2]
      BY <1>2, <1>8, <1>10, ExtendIs
    <2>2. \A t \in U : t < v[1] /\ t < v[2]
      BY <1>2, <1>6, <1>10
    <2>3. {t \in U2 : t < v[1]} = U
      BY <1>2, <1>5, <1>7, <2>2
    <2>4. IsFiniteSet(U) /\ Cardinality(U) = m.covered + m.to - m.from
      BY <1>3, MergedSum
    <2> QED
      BY <1>2, <1>5, <1>7, <2>1, <2>2, <2>3, <2>4
  <1>11. CASE ~ (v[1] > m.to)
    <2>1. /\ b \in Acc /\ b.covered = m.covered /\ b.from = m.from
          /\ b.to = IF m.to >= v[2] THEN m.to ELSE v[2]
      BY <1>2, <1>8, <1>11, ExtendIs
    <2>2. b.to \in Int /\ m.to <= b.to /\ v[2] <= b.to /\ b.from < b.to
      BY <1>2, <2>1
    <2>3. \A t \in U2 : t \in Int /\ t < b.to
      BY <1>2, <1>5, <1>6, <1>7, <2>2
    <2>4. ASSUME NEW t \in Int, m.from <= t, t < b.to
          PROVE  t \in U2
      <3>1. t < m.to \/ (v[1] <= t /\ t < v[2])
        BY <1>2, <1>11, <2>1, <2>4
      <3> QED
        BY <1>5, <1>6, <1>7, <2>4, <3>1
    <2>5. {t \in U2 : t < m.from} = {t \in U : t < m.from}
      BY <1>2, <1>5, <1>6, <1>7
    <2> QED
      BY <1>2, <1>6, <2>1, <2>2, <2>3, <2>4, <2>5
  <1> QED
    BY <1>10, <1>11

\* The equation that Covered takes the merge from.
MergeSolves(f, q) ==
    f = [i \in 1 .. Len(q) |->
           IF i = 1 THEN [covered |-> 0, from |-> q[1][1], to |-> q[1][2]]
           ELSE Extend(f[i - 1], q[i])]

LEMMA MergeExists ==
    ASSUME NEW q \in Seq(Int \X Int), q # <<>>
    PROVE  \E f : MergeSolves(f, q)
  <1>1. PICK n \in Nat \ {0} : n = Len(q)
    OBVIOUS
  <1>2. \A i \in 1 .. n : q[i] \in Int \X Int /\ q[i][1] \in Int /\ q[i][2] \in Int
    BY <1>1
  <1>3. PICK v : v = [covered |-> 0, from |-> q[1][1], to |-> q[1][2]]
    OBVIOUS
  <1>4. v \in Acc
    <2>1. 1 \in 1 .. n
      BY <1>1
    <2> QED
      BY <1>2, <1>3, <2>1 DEF Acc
  <1>5. PICK N \in Nat : N = n - 1
    <2>1. n - 1 \in Nat
      BY <1>1
    <2> QED
      BY <2>1
  <1>6. \A k \in 1 .. N : k + 1 \in 1 .. n
    BY <1>5
  <1>7. PICK F : F = [k \in 1 .. N |-> [m \in Acc |-> Extend(m, q[k + 1])]]
    OBVIOUS
  <1>8. F \in [1 .. N -> [Acc -> Acc]]
    <2>1. \A k \in 1 .. N : \A m \in Acc : Extend(m, q[k + 1]) \in Acc
      BY <1>2, <1>6, ExtendIs
    <2>2. \A k \in 1 .. N : [m \in Acc |-> Extend(m, q[k + 1])] \in [Acc -> Acc]
      BY <2>1
    <2> QED
      BY <1>7, <2>2
  <1>9. PICK g : IteratesAt(g, N, Acc, v, F)
    BY <1>4, <1>8, RecursionAt
  <1>10. /\ g \in [0 .. N -> Acc] /\ g[0] = v
         /\ \A k \in 1 .. N : g[k] = F[k][g[k - 1]]
    BY <1>9 DEF IteratesAt
  <1>11. ASSUME NEW k \in 1 .. N
         PROVE  g[k] = Extend(g[k - 1], q[k + 1])
    <2>1. k - 1 \in 0 .. N
      OBVIOUS
    <2>2. g[k - 1] \in Acc
      BY <1>10, <2>1
    <2> QED
      BY <1>7, <1>10, <2>2
  <1>12. PICK f : f = [i \in 1 .. n |-> g[i - 1]]
    OBVIOUS
  <1>13. ASSUME NEW i \in 1 .. n
         PROVE  f[i] = IF i = 1 THEN v ELSE Extend(f[i - 1], q[i])
    <2>1. CASE i = 1
      BY <1>10, <1>12, <2>1
    <2>2. CASE i # 1
      <3>1. i - 1 \in 1 .. N /\ i - 1 \in 1 .. n /\ i - 1 + 1 = i
        BY <1>1, <1>5, <2>2
      <3>2. g[i - 1] = Extend(g[i - 1 - 1], q[i])
        BY <1>11, <3>1
      <3>3. f[i] = g[i - 1] /\ f[i - 1] = g[i - 1 - 1]
        BY <1>12, <3>1
      <3> QED
        BY <2>2, <3>2, <3>3
    <2> QED
      BY <2>1, <2>2
  <1>14. MergeSolves(f, q)
    BY <1>1, <1>3, <1>12, <1>13 DEF MergeSolves
  <1> QED
    BY <1>14

\* What the merge of intervals sorted by start adds up to is the time in any.
LEMMA MergeIs ==
    ASSUME NEW q \in Seq(Int \X Int), q # <<>>,
           \A i \in 1 .. Len(q) : q[i][1] < q[i][2],
           \A i, j \in 1 .. Len(q) : i < j => q[i][1] <= q[j][1],
           NEW f, MergeSolves(f, q)
    PROVE  MergedSoFar(f[Len(q)], q, Len(q))
  <1>1. PICK n \in Nat \ {0} : n = Len(q)
    OBVIOUS
  <1>2. \A i \in 1 .. n : /\ q[i] \in Int \X Int
                          /\ q[i][1] \in Int /\ q[i][2] \in Int /\ q[i][1] < q[i][2]
    BY <1>1
  <1>3. \A i \in 1 .. n : f[i] = IF i = 1
                                 THEN [covered |-> 0, from |-> q[1][1], to |-> q[1][2]]
                                 ELSE Extend(f[i - 1], q[i])
    BY <1>1 DEF MergeSolves
  <1>4. PICK T : T = {k \in 0 .. n - 1 : MergedSoFar(f[k + 1], q, k + 1)}
    OBVIOUS
  <1>5. 0 \in T
    <2>1. 1 \in 1 .. n /\ 0 \in 0 .. n - 1 /\ 0 + 1 = 1
      BY <1>1
    <2>2. PICK m : m = f[1]
      OBVIOUS
    <2>3. m = [covered |-> 0, from |-> q[1][1], to |-> q[1][2]]
      BY <1>3, <2>1, <2>2
    <2>4. m \in Acc /\ m.covered = 0 /\ m.from = q[1][1] /\ m.to = q[1][2]
      BY <1>2, <2>1, <2>3 DEF Acc
    <2>5. \A t : t \in Spanned(q, 1) <=> t \in Int /\ q[1][1] <= t /\ t < q[1][2]
      BY DEF Spanned, Within
    <2>6. {t \in Spanned(q, 1) : t < m.from} = {}
      BY <1>2, <2>1, <2>4, <2>5
    <2>7. MergedSoFar(m, q, 1)
      <3>1. m.from < m.to /\ m.from <= q[1][1]
        BY <1>2, <2>1, <2>4
      <3>2. /\ \A t \in Spanned(q, 1) : t < m.to
            /\ \A t \in Int : m.from <= t /\ t < m.to => t \in Spanned(q, 1)
        BY <2>4, <2>5
      <3>3. /\ IsFiniteSet({t \in Spanned(q, 1) : t < m.from})
            /\ Cardinality({t \in Spanned(q, 1) : t < m.from}) = m.covered
        BY <2>4, <2>6, FS_EmptySet
      <3> QED
        BY <2>4, <3>1, <3>2, <3>3 DEF MergedSoFar
    <2> QED
      BY <1>4, <2>1, <2>2, <2>7
  <1>6. ASSUME NEW k \in 0 .. (n - 1) - 1, k \in T
        PROVE  k + 1 \in T
    <2>1. PICK i \in Nat \ {0} : i = k + 1
      BY <1>1
    <2>2. /\ i \in 1 .. n /\ i + 1 \in 1 .. n /\ i < i + 1 /\ i + 1 - 1 = i
          /\ i + 1 # 1 /\ k + 1 \in 0 .. n - 1
      BY <1>1, <2>1
    <2>3. MergedSoFar(f[i], q, i)
      BY <1>4, <1>6, <2>1
    <2>4. q[i][1] <= q[i + 1][1]
      BY <1>1, <2>2
    <2>5. MergedSoFar(Extend(f[i], q[i + 1]), q, i + 1)
      BY <1>2, <2>2, <2>3, <2>4, MergedStep
    <2>6. f[i + 1] = Extend(f[i], q[i + 1])
      <3>1. PICK j : j = i + 1
        OBVIOUS
      <3>2. f[j] = Extend(f[j - 1], q[j]) /\ j - 1 = i
        BY <1>3, <2>2, <3>1
      <3> QED
        BY <3>1, <3>2
    <2> QED
      BY <1>4, <2>1, <2>2, <2>5, <2>6
  <1>7. n - 1 \in T
    <2>1. n - 1 \in Nat /\ n - 1 \in 0 .. n - 1
      BY <1>1
    <2>2. \A k \in 0 .. n - 1 : k \in T
      BY <1>5, <1>6, <2>1, Induction
    <2> QED
      BY <2>1, <2>2
  <1>8. n - 1 + 1 = n
    BY <1>1
  <1> QED
    BY <1>1, <1>4, <1>7, <1>8

\* The intervals of a span are those its children leave after clipping.
LEMMA IntervalsAre ==
    ASSUME trace \in Seq(Span), NEW s \in Spans
    PROVE  /\ Intervals(s) \subseteq Int \X Int /\ IsFiniteSet(Intervals(s))
           /\ \A v \in Intervals(s) : v[1] < v[2]
           /\ \A t \in Int :
                 (\E v \in Intervals(s) : t \in Within(v)) <=>
                 /\ trace[s].start <= t /\ t < End(s)
                 /\ \E c \in Children(s) : trace[c].start <= t /\ t < End(c)
  <1>1. \A x \in Spans : trace[x].start \in Int /\ End(x) \in Int
    <2>1. \A x \in Spans : trace[x] \in Span
      BY DEF Spans
    <2> QED
      BY <2>1 DEF Span, End
  <1> DEFINE lo(c) == Max({trace[s].start, trace[c].start})
             hi(c) == Min({End(s), End(c)})
  <1>2. Children(s) \subseteq Spans
    BY DEF Children
  <1>3. \A c \in Children(s) :
           /\ lo(c) \in Int
           /\ lo(c) = IF trace[s].start >= trace[c].start THEN trace[s].start
                                                          ELSE trace[c].start
           /\ hi(c) \in Int
           /\ hi(c) = IF End(s) <= End(c) THEN End(s) ELSE End(c)
    BY <1>1, <1>2, MaxOfTwo, MinOfTwo
  <1>4. PICK V : V = {<<lo(c), hi(c)>> : c \in Children(s)}
    OBVIOUS
  <1>5. Intervals(s) = {v \in V : v[2] > v[1]}
    BY <1>4 DEF Intervals
  <1> HIDE DEF lo, hi
  <1>6. V \subseteq Int \X Int
    BY <1>3, <1>4
  <1>7. IsFiniteSet(V)
    <2>1. IsFiniteSet(Children(s))
      <3>1. Children(s) \in SUBSET Spans
        BY <1>2
      <3> QED
        BY <3>1, SpansFinite, FS_Subset
    <2>2. PICK f : f = [c \in Children(s) |-> <<lo(c), hi(c)>>]
      OBVIOUS
    <2>3. f \in Surjection(Children(s), V)
      BY <1>4, <2>2 DEF Surjection
    <2> QED
      BY <2>1, <2>3, FS_Surjection
  <1>8. IsFiniteSet(Intervals(s))
    <2>1. Intervals(s) \in SUBSET V
      BY <1>5
    <2> QED
      BY <1>7, <2>1, FS_Subset
  <1>9. \A v \in Intervals(s) : v \in Int \X Int /\ v[1] \in Int /\ v[2] \in Int /\ v[1] < v[2]
    BY <1>5, <1>6
  <1>10. ASSUME NEW t \in Int, NEW v \in Intervals(s), t \in Within(v)
         PROVE  /\ trace[s].start <= t /\ t < End(s)
                /\ \E c \in Children(s) : trace[c].start <= t /\ t < End(c)
    <2>1. PICK c \in Children(s) : v = <<lo(c), hi(c)>>
      BY <1>4, <1>5
    <2>2. lo(c) <= t /\ t < hi(c)
      BY <1>10, <2>1 DEF Within
    <2> QED
      BY <1>1, <1>2, <1>3, <2>2
  <1>11. ASSUME NEW t \in Int, trace[s].start <= t, t < End(s),
                NEW c \in Children(s), trace[c].start <= t, t < End(c)
         PROVE  \E v \in Intervals(s) : t \in Within(v)
    <2>1. PICK v : v = <<lo(c), hi(c)>>
      OBVIOUS
    <2>2. v[1] = lo(c) /\ v[2] = hi(c) /\ lo(c) <= t /\ t < hi(c) /\ hi(c) > lo(c)
      BY <1>1, <1>2, <1>3, <1>11, <2>1
    <2>3. v \in Intervals(s) /\ t \in Within(v)
      BY <1>4, <1>5, <2>1, <2>2 DEF Within
    <2> QED
      BY <2>3
  <1> QED
    BY <1>6, <1>8, <1>9, <1>10, <1>11, <1>5

\* The time of a span that some child covers.
CoveredTime(s) ==
    {t \in Int : /\ trace[s].start <= t /\ t < End(s)
                 /\ \E c \in Children(s) : trace[c].start <= t /\ t < End(c)}

LEMMA CoveredIs ==
    ASSUME trace \in Seq(Span), NEW s \in Spans
    PROVE  IsFiniteSet(CoveredTime(s)) /\ Covered(s) = Cardinality(CoveredTime(s))
  <1>1. PICK I : I = Intervals(s)
    OBVIOUS
  <1>2. PICK q : q = Sorted(I)
    OBVIOUS
  <1>3. /\ I \subseteq Int \X Int /\ IsFiniteSet(I)
        /\ \A v \in I : v[1] < v[2]
    BY <1>1, IntervalsAre
  <1>4. /\ q \in Seq(I)
        /\ \A v \in I : \E i \in 1 .. Len(q) : v = q[i]
        /\ \A i, j \in 1 .. Len(q) : i < j => q[i][1] <= q[j][1]
    BY <1>2, <1>3, SortedIs
  <1>5. /\ q \in Seq(Int \X Int) /\ Len(q) \in Nat
        /\ \A i \in 1 .. Len(q) : q[i] \in I /\ q[i][1] < q[i][2]
    BY <1>3, <1>4
  <1>6. CoveredTime(s) = Spanned(q, Len(q))
    <2>1. \A t \in Int : t \in CoveredTime(s) <=> \E v \in I : t \in Within(v)
      BY <1>1, IntervalsAre DEF CoveredTime
    <2>2. \A t \in Int : (\E v \in I : t \in Within(v)) <=>
                         \E i \in 1 .. Len(q) : t \in Within(q[i])
      BY <1>4, <1>5
    <2>3. \A t \in CoveredTime(s) : t \in Int
      BY DEF CoveredTime
    <2> QED
      BY <2>1, <2>2, <2>3 DEF Spanned
  <1>7. CASE q = <<>>
    <2>1. Spanned(q, Len(q)) = {}
      BY <1>7 DEF Spanned
    <2>2. Covered(s) = 0
      BY <1>1, <1>2, <1>7 DEF Covered
    <2> QED
      BY <1>6, <2>1, <2>2, FS_EmptySet
  <1>8. CASE q # <<>>
    <2>1. PICK f : f = CHOOSE x : MergeSolves(x, q)
      OBVIOUS
    <2>2. MergeSolves(f, q)
      <3>1. \E x : MergeSolves(x, q)
        BY <1>5, <1>8, MergeExists
      <3> QED
        BY <2>1, <3>1, Zenon
    <2>3. PICK m : m = f[Len(q)]
      OBVIOUS
    <2>4. MergedSoFar(m, q, Len(q))
      BY <1>4, <1>5, <1>8, <2>2, <2>3, MergeIs
    <2>5. Covered(s) = m.covered + m.to - m.from
      BY <1>1, <1>2, <1>8, <2>1, <2>3 DEF Covered, MergeSolves
    <2> QED
      BY <1>6, <2>4, <2>5, MergedSum
  <1> QED
    BY <1>7, <1>8

\* The self time is the time of the span that no child covers.
LEMMA SelfTimeIs ==
    ASSUME trace \in Seq(Span), NEW s \in Spans
    PROVE  /\ SelfTime(s) \in Nat
           /\ SelfTime(s) = Cardinality({t \in trace[s].start .. End(s) - 1 :
                 \A c \in Children(s) : t \notin trace[c].start .. End(c) - 1})
  <1>1. /\ \A x \in Spans : trace[x].start \in Nat /\ End(x) \in Int
        /\ trace[s].duration \in Int /\ End(s) = trace[s].start + trace[s].duration
    <2>1. \A x \in Spans : trace[x] \in Span
      BY DEF Spans
    <2> QED
      BY <2>1 DEF Span, End
  <1>2. PICK a \in Nat, n \in Int : a = trace[s].start /\ n = trace[s].duration
    BY <1>1
  <1>3. PICK A : A = a .. a + n - 1
    OBVIOUS
  <1>4. A = trace[s].start .. End(s) - 1
    <2>1. End(s) = a + n
      BY <1>1, <1>2
    <2>2. a + n - 1 = End(s) - 1
      BY <2>1
    <2> QED
      BY <1>2, <1>3, <2>2, Zenon
  <1>5. PICK C : C = CoveredTime(s)
    OBVIOUS
  <1>6. PICK D : D = {t \in A : \A c \in Children(s) : t \notin trace[c].start .. End(c) - 1}
    OBVIOUS
  <1>7. IsFiniteSet(A) /\ Cardinality(A) = IF n > 0 THEN n ELSE 0
    <2>1. a \in Int /\ a + n - 1 \in Int
      OBVIOUS
    <2>2. /\ IsFiniteSet(A)
          /\ Cardinality(A) = IF a > a + n - 1 THEN 0 ELSE a + n - 1 - a + 1
      BY <1>3, <2>1, FS_Interval
    <2>3. a > a + n - 1 <=> ~ (n > 0)
      OBVIOUS
    <2>4. a + n - 1 - a + 1 = n
      OBVIOUS
    <2> QED
      BY <2>2, <2>3, <2>4
  <1>8. Children(s) \subseteq Spans
    BY DEF Children
  <1>9. C \in SUBSET A /\ D = A \ C
    <2>1. \A t \in Int : t \in A <=> trace[s].start <= t /\ t < End(s)
      BY <1>1, <1>4
    <2>2. \A t \in Int : \A c \in Children(s) :
             t \in trace[c].start .. End(c) - 1 <=> trace[c].start <= t /\ t < End(c)
      BY <1>1, <1>8
    <2>3. \A t \in A : t \in Int
      BY <1>3
    <2>4. \A t \in C : t \in Int /\ t \in A
      BY <1>5, <2>1 DEF CoveredTime
    <2>5. \A t \in A : t \in C <=> \E c \in Children(s) : t \in trace[c].start .. End(c) - 1
      BY <1>5, <2>1, <2>2, <2>3 DEF CoveredTime
    <2> QED
      BY <1>6, <2>4, <2>5
  <1>10. /\ Cardinality(C) \in Nat /\ Cardinality(C) <= Cardinality(A)
         /\ Cardinality(D) = Cardinality(A) - Cardinality(C)
    <2>1. IsFiniteSet(C) /\ Cardinality(C) \in Nat /\ Cardinality(C) <= Cardinality(A)
      BY <1>7, <1>9, FS_Subset, FS_CardinalityType
    <2>2. D \in SUBSET A /\ D \cap C = {} /\ D \cup C = A
      BY <1>9
    <2>3. IsFiniteSet(D) /\ Cardinality(D) \in Nat
      BY <1>7, <2>2, FS_Subset, FS_CardinalityType
    <2>4. Cardinality(A) = Cardinality(D) + Cardinality(C) - Cardinality(D \cap C)
      BY <2>1, <2>2, <2>3, FS_Union
    <2>5. Cardinality(D \cap C) = 0
      BY <2>2, FS_EmptySet
    <2> QED
      BY <2>1, <2>3, <2>4, <2>5
  <1>11. Covered(s) = Cardinality(C)
    BY <1>5, CoveredIs
  <1>12. SelfTime(s) = Max({0, n - Cardinality(C)})
    BY <1>2, <1>11 DEF SelfTime
  <1>13. n - Cardinality(C) \in Int
    BY <1>10
  <1>14. SelfTime(s) = IF 0 >= n - Cardinality(C) THEN 0 ELSE n - Cardinality(C)
    BY <1>12, <1>13, MaxOfTwo
  <1>15. SelfTime(s) = Cardinality(D) /\ SelfTime(s) \in Nat
    BY <1>7, <1>10, <1>14
  <1> QED
    BY <1>4, <1>6, <1>15

\* The self time of a span is the time in it that no child covers, whatever the
\* overlaps and the clock skew of any number of children, and never negative
\* (span_tree.py:160-207).
THEOREM SelfTimesAreExact == Spec => []SelfTimeExact
  <1>1. IInv => SelfTimeExact
    <2> SUFFICES ASSUME IInv, NEW s \in Spans
                 PROVE  SelfTime(s) = Cardinality({t \in trace[s].start .. End(s) - 1 :
                           \A c \in Children(s) : t \notin trace[c].start .. End(c) - 1})
      BY DEF SelfTimeExact
    <2>1. trace \in Seq(Span)
      BY DEF IInv, Types
    <2> QED
      BY <2>1, SelfTimeIs
  <1> QED
    BY <1>1, Invariance, PTL
-----------------------------------------------------------------------------
(* The critical path, and the tree the verdict is about.                   *)

\* The children the path may go on with.
Lower(w) == {c \in Children(Last(w)) : \A i \in DOMAIN w : Id(w[i]) # Id(c)}

Descend(w) ==
    IF Lower(w) = {} THEN w
    ELSE Append(w, FirstMax(Lower(w), [s \in Lower(w) |-> End(s)]))

\* The equation that CriticalPath takes the path from.
PathSolves(f, r) ==
    f = [n \in 1 .. Len(trace) |-> IF n = 1 THEN <<r>> ELSE Descend(f[n - 1])]

LEMMA DescendIs ==
    ASSUME trace \in Seq(Span), NEW w \in Path, Lower(w) # {}
    PROVE  Descend(w) \in Path /\ Len(Descend(w)) = Len(w) + 1
  <1>1. PICK n \in Nat : n = Len(w)
    BY DEF Path
  <1>2. /\ w \in Seq(Spans) /\ n # 0 /\ DOMAIN w = 1 .. n
        /\ \A i, j \in 1 .. n : i # j => Id(w[i]) # Id(w[j])
    BY <1>1 DEF Path
  <1>3. PICK f : f = [s \in Lower(w) |-> End(s)]
    OBVIOUS
  <1>4. Lower(w) \subseteq Spans /\ Lower(w) \subseteq 0 .. Len(trace)
    BY SpansFinite DEF Lower, Children, Spans
  <1>5. \A s \in Lower(w) : f[s] \in Int
    <2>1. \A s \in Spans : trace[s] \in Span
      BY DEF Spans
    <2> QED
      BY <1>3, <1>4, <2>1 DEF End, Span
  <1>6. PICK p : p = FirstMax(Lower(w), f)
    OBVIOUS
  <1>7. p \in Lower(w)
    <2>1. Len(trace) \in Nat
      OBVIOUS
    <2> QED
      BY <1>4, <1>5, <1>6, <2>1, FirstMaxIs
  <1>8. p \in Spans /\ \A i \in 1 .. n : Id(w[i]) # Id(p)
    BY <1>2, <1>4, <1>7 DEF Lower
  <1>9. PICK v : v = Append(w, p)
    OBVIOUS
  <1>10. /\ v \in Seq(Spans) /\ Len(v) = n + 1
         /\ \A i \in 1 .. n : v[i] = w[i]
         /\ v[n + 1] = p
    BY <1>1, <1>2, <1>8, <1>9
  <1>11. ASSUME NEW i \in 1 .. n + 1, NEW j \in 1 .. n + 1, i # j
         PROVE  Id(v[i]) # Id(v[j])
    <2>1. CASE i \in 1 .. n /\ j \in 1 .. n
      BY <1>2, <1>10, <1>11, <2>1
    <2>2. CASE i = n + 1 /\ j \in 1 .. n
      BY <1>8, <1>10, <2>2
    <2>3. CASE j = n + 1 /\ i \in 1 .. n
      BY <1>8, <1>10, <2>3
    <2> QED
      BY <1>1, <1>11, <2>1, <2>2, <2>3
  <1>12. v \in Path
    BY <1>1, <1>10, <1>11 DEF Path
  <1>13. Descend(w) = v
    BY <1>3, <1>6, <1>9 DEF Descend
  <1> QED
    BY <1>1, <1>10, <1>12, <1>13

\* The critical path meets no span_id twice and ends where no child is left.
LEMMA CriticalPathIs ==
    ASSUME trace \in Seq(Span), NEW r \in Spans
    PROVE  CriticalPath(r) \in Path /\ Lower(CriticalPath(r)) = {}
  <1>1. PICK n \in Nat \ {0} : n = Len(trace)
    BY DEF Spans
  <1>2. PICK N \in Nat : N = n - 1
    <2>1. n - 1 \in Nat
      BY <1>1
    <2> QED
      BY <2>1
  <1>3. Len(trace) - 1 <= N
    BY <1>1, <1>2
  <1>4. PICK V, v : V = Path /\ v = <<r>>
    OBVIOUS
  <1>5. v \in V /\ V \subseteq Path
    BY <1>4 DEF Path
  <1>6. PICK F : F = [w \in V |-> Descend(w)]
    OBVIOUS
  <1>7. ASSUME NEW w \in V
        PROVE  F[w] \in V /\ (F[w] = w \/ Len(F[w]) = Len(w) + 1)
               /\ (F[w] = w => Lower(w) = {})
    <2>1. F[w] = Descend(w)
      BY <1>6
    <2>2. CASE Lower(w) = {}
      BY <2>1, <2>2 DEF Descend
    <2>3. CASE Lower(w) # {}
      <3>1. F[w] \in V /\ Len(F[w]) = Len(w) + 1
        BY <1>4, <2>1, <2>3, DescendIs
      <3>2. Len(w) \in Nat
        BY <1>4 DEF Path
      <3> QED
        BY <3>1, <3>2
    <2> QED
      BY <2>2, <2>3
  <1>8. F \in [V -> V]
    BY <1>6, <1>7
  <1>9. PICK g : Iterates(g, N, V, v, F)
    BY <1>5, <1>8, Recursion
  <1>10. g[N] \in V /\ F[g[N]] = g[N]
    BY <1>3, <1>5, <1>7, <1>8, <1>9, Growing
  <1>11. /\ g \in [0 .. N -> V] /\ g[0] = v
         /\ \A k \in 1 .. N : g[k] = F[g[k - 1]]
    BY <1>9 DEF Iterates
  <1>12. ASSUME NEW k \in 1 .. N
         PROVE  g[k] = Descend(g[k - 1])
    <2>1. k - 1 \in 0 .. N
      OBVIOUS
    <2>2. g[k - 1] \in V
      BY <1>11, <2>1
    <2> QED
      BY <1>6, <1>11, <2>2
  <1>13. PICK h : h = [i \in 1 .. n |-> g[i - 1]]
    OBVIOUS
  <1>14. ASSUME NEW i \in 1 .. n
         PROVE  h[i] = IF i = 1 THEN <<r>> ELSE Descend(h[i - 1])
    <2>1. CASE i = 1
      BY <1>4, <1>11, <1>13, <2>1
    <2>2. CASE i # 1
      <3>1. i - 1 \in 1 .. N /\ i - 1 \in 1 .. n
        BY <1>1, <1>2, <2>2
      <3>2. g[i - 1] = Descend(g[i - 1 - 1])
        BY <1>12, <3>1
      <3>3. h[i] = g[i - 1] /\ h[i - 1] = g[i - 1 - 1]
        BY <1>13, <3>1
      <3> QED
        BY <2>2, <3>2, <3>3
    <2> QED
      BY <2>1, <2>2
  <1>15. PathSolves(h, r)
    BY <1>1, <1>13, <1>14 DEF PathSolves
  <1>16. PICK f : f = CHOOSE x : PathSolves(x, r)
    OBVIOUS
  <1>17. PathSolves(f, r)
    BY <1>15, <1>16, Zenon
  <1>18. CriticalPath(r) = f[n]
    BY <1>1, <1>16 DEF CriticalPath, PathSolves, Descend, Lower
  <1>19. \A i \in 1 .. n : f[i] = IF i = 1 THEN <<r>> ELSE Descend(f[i - 1])
    BY <1>1, <1>17 DEF PathSolves
  <1>20. PICK T : T = {k \in 0 .. N : f[k + 1] = g[k]}
    OBVIOUS
  <1>21. 0 \in T
    <2>1. 1 \in 1 .. n /\ 0 \in 0 .. N /\ 0 + 1 = 1
      BY <1>1
    <2>2. f[1] = g[0]
      BY <1>4, <1>11, <1>19, <2>1
    <2> QED
      BY <1>20, <2>1, <2>2
  <1>22. ASSUME NEW k \in 0 .. N - 1, k \in T
         PROVE  k + 1 \in T
    <2>1. PICK i : i = k + 2
      OBVIOUS
    <2>2. /\ i \in 1 .. n /\ i # 1 /\ i - 1 = k + 1 /\ k + 1 + 1 = i
          /\ k + 1 \in 1 .. N /\ k + 1 - 1 = k /\ k + 1 \in 0 .. N
      BY <1>1, <1>2, <2>1
    <2>3. f[i] = Descend(f[i - 1])
      BY <1>19, <2>2
    <2>4. g[k + 1] = Descend(g[k])
      BY <1>12, <2>2
    <2>5. f[k + 1] = g[k]
      BY <1>20, <1>22
    <2>6. f[i] = g[k + 1]
      BY <2>2, <2>3, <2>4, <2>5
    <2> QED
      BY <1>20, <2>2, <2>6
  <1>23. f[n] = g[N]
    <2>1. \A k \in 0 .. N : k \in T
      BY <1>21, <1>22, Induction
    <2>2. N \in T /\ N + 1 = n
      BY <1>1, <1>2, <2>1
    <2> QED
      BY <1>20, <2>2
  <1> QED
    BY <1>4, <1>7, <1>10, <1>18, <1>23

\* All of a chain is found going down from its first span.
LEMMA ChainIsFound ==
    ASSUME trace \in Seq(Span), NEW q, ErrorPath(q)
    PROVE  Id(q[Len(q)]) \in SubtreeIds(q[1])
  <1>1. PICK n \in Nat \ {0} : n = Len(q)
    BY DEF ErrorPath
  <1>2. PICK r : r = q[1]
    OBVIOUS
  <1>3. /\ r \in Spans
        /\ \A i \in 2 .. n : q[i] \in Children(q[i - 1])
    BY <1>1, <1>2, Parents DEF ErrorPath
  <1>4. /\ Id(r) \in SubtreeIds(r)
        /\ \A c \in Spans : ParentKey(c) \in SubtreeIds(r) => Id(c) \in SubtreeIds(r)
    BY <1>3, GatheredIsClosed
  <1>5. PICK T : T = {k \in 0 .. n - 1 : Id(q[k + 1]) \in SubtreeIds(r)}
    OBVIOUS
  <1>6. 0 \in T
    <2>1. 0 \in 0 .. n - 1 /\ 0 + 1 = 1
      BY <1>1
    <2> QED
      BY <1>2, <1>4, <1>5, <2>1
  <1>7. ASSUME NEW k \in 0 .. (n - 1) - 1, k \in T
        PROVE  k + 1 \in T
    <2>1. PICK i : i = k + 2
      OBVIOUS
    <2>2. i \in 2 .. n /\ i - 1 = k + 1 /\ k + 1 + 1 = i /\ k + 1 \in 0 .. n - 1
      BY <1>1, <2>1
    <2>3. q[i] \in Children(q[k + 1])
      BY <1>3, <2>2
    <2>4. Id(q[k + 1]) \in SubtreeIds(r)
      BY <1>5, <1>7
    <2>5. Id(q[i]) \in SubtreeIds(r)
      BY <1>4, <2>3, <2>4 DEF Children
    <2> QED
      BY <1>5, <2>2, <2>5
  <1>8. n - 1 \in T
    <2>1. n - 1 \in Nat /\ n - 1 \in 0 .. n - 1
      BY <1>1
    <2>2. \A k \in 0 .. n - 1 : k \in T
      BY <1>6, <1>7, <2>1, Induction
    <2> QED
      BY <2>1, <2>2
  <1>9. n - 1 + 1 = n
    BY <1>1
  <1> QED
    BY <1>1, <1>2, <1>5, <1>8, <1>9

LEMMA TInvVerdict == TInv => VerdictOnItsTree
  <1> SUFFICES ASSUME TInv, Done, trace # <<>> PROVE VerdictOnItsTree
    BY DEF VerdictOnItsTree
  <1>1. /\ trace \in Seq(Span) /\ Len(trace) \in Nat \ {0}
        /\ Spans \subseteq Nat \ {0} /\ Spans \subseteq 0 .. Len(trace)
        /\ Spans # {}
    <2>1. trace \in Seq(Span) /\ Len(trace) \in Nat \ {0}
      BY DEF TInv, IInv, Types
    <2>2. 1 \in Spans
      BY <2>1 DEF Spans
    <2> QED
      BY <2>1, <2>2, SpansFinite DEF Spans
  <1>2. \A s \in Spans : Id(s) \in SubtreeIds(s)
    BY <1>1, GatheredIsClosed
  <1>3. Roots \subseteq Spans
    BY <1>1, Parents
  <1>4. PICK v : v = Verdict
    OBVIOUS
  <1>5. /\ v.from \in Spans
        /\ Id(v.cause) \in SubtreeIds(v.from)
        /\ v.from \in Roots \/ Id(v.cause) \notin ReachableIds
    <2>1. CASE chain # <<>>
      <3>1. v.cause = chain[Len(chain)] /\ v.from = Head(chain)
        BY <1>4, <2>1 DEF Verdict, Last
      <3>2. ErrorPath(chain)
        BY <2>1 DEF TInv, Chained
      <3>3. Head(chain) = chain[1] /\ chain[1] \in Roots
        BY <3>2 DEF ErrorPath
      <3>4. Id(chain[Len(chain)]) \in SubtreeIds(chain[1])
        BY <1>1, <3>2, ChainIsFound
      <3> QED
        BY <1>3, <3>1, <3>3, <3>4
    <2>2. CASE chain = <<>> /\ total = 0 /\ UnreachableErrors # {}
      <3>1. PICK f : f = [x \in Spans |-> trace[x].duration]
        OBVIOUS
      <3>2. UnreachableErrors \subseteq 0 .. Len(trace)
        BY <1>1 DEF UnreachableErrors
      <3>3. \A x \in UnreachableErrors : f[x] \in Int
        <4>1. \A x \in Spans : trace[x] \in Span
          BY <1>1 DEF Spans
        <4> QED
          BY <3>1, <4>1 DEF UnreachableErrors, Span
      <3>4. PICK s : s = FirstMax(UnreachableErrors, f)
        OBVIOUS
      <3>5. s \in UnreachableErrors
        BY <1>1, <2>2, <3>2, <3>3, <3>4, FirstMaxIs
      <3>6. v.cause = s /\ v.from = s
        BY <1>4, <2>2, <3>1, <3>4 DEF Verdict
      <3> QED
        BY <1>2, <3>5, <3>6 DEF UnreachableErrors
    <2>3. CASE chain = <<>> /\ ~ (total = 0 /\ UnreachableErrors # {})
      <3>1. PICK f : f = [x \in Spans |-> SelfTime(x)]
        OBVIOUS
      <3>2. \A x \in Spans : f[x] \in Int
        <4>1. \A x \in Spans : SelfTime(x) \in Int
          <5>1. SUFFICES ASSUME NEW x \in Spans
                         PROVE  SelfTime(x) \in Int
            OBVIOUS
          <5>2. SelfTime(x) \in Nat
            BY <1>1, <5>1, SelfTimeIs, Zenon
          <5> QED
            BY <5>2
        <4> QED
          BY <3>1, <4>1
      <3>3. PICK s : s = FirstMax(Spans, f)
        OBVIOUS
      <3>4. s \in Spans
        BY <1>1, <3>2, <3>3, FirstMaxIs
      <3>5. v.cause = s /\ v.from = Owner(s)
        BY <1>4, <2>3, <3>1, <3>3 DEF Verdict
      <3>6. PICK O : O = {r \in Roots : Id(s) \in SubtreeIds(r)}
        OBVIOUS
      <3>7. CASE O = {}
        <4>1. Owner(s) = s
          BY <3>6, <3>7 DEF Owner
        <4>2. Id(s) \notin ReachableIds
          BY <3>6, <3>7 DEF ReachableIds
        <4> QED
          BY <1>2, <3>4, <3>5, <4>1, <4>2
      <3>8. CASE O # {}
        <4>1. Owner(s) = Min(O)
          BY <3>6, <3>8 DEF Owner
        <4>2. O \subseteq Nat
          BY <1>1, <1>3, <3>6
        <4>3. Min(O) \in O
          BY <3>8, <4>2, MinExists
        <4> QED
          BY <1>3, <3>5, <3>6, <4>1, <4>3
      <3> QED
        BY <3>7, <3>8
    <2> QED
      BY <2>1, <2>2, <2>3
  <1>6. PICK p : p = CriticalPath(v.from)
    OBVIOUS
  <1>7. p \in Path /\ Lower(p) = {}
    BY <1>1, <1>5, <1>6, CriticalPathIs
  <1>8. \A c \in Children(Last(p)) : \E i \in DOMAIN p : Id(p[i]) = Id(c)
    BY <1>7 DEF Lower
  <1>9. \A i, j \in DOMAIN p : i # j => Id(p[i]) # Id(p[j])
    BY <1>7 DEF Path
  <1> QED
    BY <1>4, <1>5, <1>6, <1>8, <1>9 DEF VerdictOnItsTree

\* The critical path reported is about the tree the diagnosed span is in, ends
\* where the tree does and meets no span_id twice, for every trace that has
\* spans (triage.py:206-258).
THEOREM VerdictIsOnItsTree == Spec => []VerdictOnItsTree
  BY TreeInvariance, TInvVerdict, PTL
=============================================================================
