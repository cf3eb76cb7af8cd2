------------------------------- MODULE SpanWalk -------------------------------
(***************************************************************************)
(* tools/span_tree.py: the children map of a trace and the walk that looks *)
(* for its deepest ERROR span under every root.                            *)
(*                                                                         *)
(* A trace is the list of spans a backend returned: parents may be missing *)
(* or cyclic, and two spans may bear one span_id.  A span is its position  *)
(* in the list, which stands for the object's identity.  A step is one     *)
(* turn of a loop of the code.                                             *)
(***************************************************************************)
EXTENDS Integers, Sequences, FiniteSets

CONSTANTS
    Ids,     \* the span_ids
    None,    \* no parent_span_id
    Traces   \* the traces that may be looked at

Span == [id : Ids, parent : Ids \cup {None}, status : {"ERROR", "OK"},
         start : Nat, duration : Int]

ASSUME TraceAssumption == Traces \subseteq Seq(Span) /\ None \notin Ids

VARIABLES
    trace,     \* the spans of the trace
    left,      \* the roots not walked yet, in order
    root,      \* the root being walked, 0 between two walks
    stack,     \* the spans to visit, the next one last
    pred,      \* per span, which one pushed it; 0 for the root
    depth,     \* per span, its depth in the walk; 0 if it has no pred yet
    errors,    \* error_count of the walk
    maxDepth,  \* max_depth of the walk
    ties,      \* tie_count of the walk
    deepest,   \* the first span at max_depth, 0 for None
    total,     \* total_error_count over the roots
    allTies,   \* tie_count over the roots
    chain      \* deepest_chain over the roots

vars == <<trace, left, root, stack, pred, depth, errors, maxDepth, ties,
          deepest, total, allTies, chain>>
found == <<errors, maxDepth, ties, deepest>>
overall == <<total, allTies, chain>>
-----------------------------------------------------------------------------
Spans == 1 .. Len(trace)
Id(s) == trace[s].id
IsError(s) == trace[s].status = "ERROR"
Known == {Id(s) : s \in Spans}

\* mutant: a span that is its own parent is filed under itself
ParentKey_SelfKept(s) ==
    IF trace[s].parent \in Known THEN trace[s].parent ELSE None

\* The key a span is filed under: an orphan counts as a root.
ParentKey(s) ==
    IF trace[s].parent \in Known \ {Id(s)} THEN trace[s].parent ELSE None

Children(s) == {c \in Spans : ParentKey(c) = Id(s)}
Roots == {s \in Spans : ParentKey(s) = None}

\* The spans of S in the order of the list.
InOrder(S) ==
    {q \in [1 .. Cardinality(S) -> S] :
        /\ \A i, j \in DOMAIN q : i < j => q[i] < q[j]
        /\ S \subseteq {q[i] : i \in DOMAIN q}}

\* The span popped next.
Top == stack[Len(stack)]
Below == SubSeq(stack, 1, Len(stack) - 1)

\* mutant: the guard is keyed by span_id
Fresh_ById ==
    {c \in Children(Top) : \A s \in Spans : depth[s] # 0 => Id(s) # Id(c)}

\* The children that get a predecessor now, each object only once.
Fresh == {c \in Children(Top) : depth[c] = 0}
-----------------------------------------------------------------------------
Init ==
    /\ trace \in Traces
    /\ left \in InOrder(Roots)
    /\ root = 0
    /\ stack = <<>>
    /\ pred = [s \in Spans |-> 0]
    /\ depth = [s \in Spans |-> 0]
    /\ errors = 0
    /\ maxDepth = 0
    /\ ties = 0
    /\ deepest = 0
    /\ total = 0
    /\ allTies = 0
    /\ chain = <<>>

\* find_deepest_error_chain is called for the next root.
Enter ==
    /\ root = 0
    /\ left # <<>>
    /\ root' = Head(left)
    /\ left' = Tail(left)
    /\ stack' = <<Head(left)>>
    /\ pred' = [s \in Spans |-> 0]
    /\ depth' = [s \in Spans |-> IF s = Head(left) THEN 1 ELSE 0]
    /\ errors' = 0
    /\ maxDepth' = 0
    /\ ties' = 0
    /\ deepest' = 0
    /\ UNCHANGED <<trace, overall>>

\* What a popped span changes about the verdict of the walk.
Blame(s) ==
    \/ ~IsError(s) /\ UNCHANGED found
    \/ /\ IsError(s)
       /\ errors' = errors + 1
       /\ \/ /\ depth[s] > maxDepth
             /\ maxDepth' = depth[s]
             /\ ties' = 1
             /\ deepest' = s
          \/ /\ depth[s] = maxDepth
             /\ ties' = ties + 1
             /\ UNCHANGED <<maxDepth, deepest>>
          \/ /\ depth[s] < maxDepth
             /\ UNCHANGED <<maxDepth, ties, deepest>>

Pop ==
    /\ stack # <<>>
    /\ Blame(Top)
    /\ \E q \in InOrder(Fresh) : stack' = Below \o q
    /\ pred' = [s \in Spans |-> IF s \in Fresh THEN Top ELSE pred[s]]
    /\ depth' = [s \in Spans |-> IF s \in Fresh THEN depth[Top] + 1
                                                ELSE depth[s]]
    /\ UNCHANGED <<trace, left, root, overall>>

\* The chain from the root to s along the predecessors.
ChainTo(s) ==
    LET up[k \in 0 .. Len(trace)] ==
            IF k = 0 THEN s ELSE IF up[k - 1] = 0 THEN 0 ELSE pred[up[k - 1]]
        n == Cardinality({k \in DOMAIN up : up[k] # 0})
    IN  [k \in 1 .. n |-> up[n - k]]

\* mutant: equally deep chains under another root are not counted
Conclude_TiesLost ==
    /\ root # 0
    /\ stack = <<>>
    /\ root' = 0
    /\ total' = total + errors
    /\ LET new == ChainTo(deepest) IN
       \/ Len(new) > Len(chain) /\ chain' = new /\ allTies' = ties
       \/ Len(new) <= Len(chain) /\ UNCHANGED <<allTies, chain>>
    /\ UNCHANGED <<trace, left, stack, pred, depth, found>>

\* The walk of a root is over: its result is merged into the overall one.
Conclude ==
    /\ root # 0
    /\ stack = <<>>
    /\ root' = 0
    /\ total' = total + errors
    /\ LET new == ChainTo(deepest) IN
       \/ new = <<>> /\ UNCHANGED <<allTies, chain>>
       \/ new # <<>> /\ Len(new) > Len(chain) /\ chain' = new /\ allTies' = ties
       \/ /\ new # <<>> /\ Len(new) = Len(chain)
          /\ allTies' = allTies + ties
          /\ UNCHANGED chain
       \/ new # <<>> /\ Len(new) < Len(chain) /\ UNCHANGED <<allTies, chain>>
    /\ UNCHANGED <<trace, left, stack, pred, depth, found>>

Next == Enter \/ Pop \/ Conclude

Spec == Init /\ [][Next]_vars
-----------------------------------------------------------------------------
(* Properties.                                                             *)

\* What has a predecessor and was popped already.
Walked == {s \in Spans : depth[s] # 0} \ {stack[i] : i \in DOMAIN stack}

\* Every variable has its type.  No span is deeper than there are spans and none
\* waits twice on the stack: each is pushed at most once, so the walk ends after
\* at most as many turns, however cyclic the parent links are and however often
\* a span_id is reused (span_tree.py:268-276).
TypeOK ==
    /\ trace \in Seq(Span)
    /\ left \in Seq(Spans)
    /\ root \in {0} \cup Spans
    /\ stack \in Seq(Spans)
    /\ pred \in [Spans -> {0} \cup Spans]
    /\ depth \in [Spans -> 0 .. Len(trace)]
    /\ errors \in 0 .. Len(trace) /\ maxDepth \in 0 .. Len(trace) /\ ties \in Nat
    /\ deepest \in {0} \cup Spans
    /\ total \in Nat /\ allTies \in Nat
    /\ root = 0 => stack = <<>>
    /\ \A i \in DOMAIN stack : depth[stack[i]] # 0
    /\ \A i, j \in DOMAIN stack : i # j => stack[i] # stack[j]

Closed(S) == \A s \in S : Children(s) \subseteq S

\* W is what is reachable from r: the least set of spans that has r and all
\* children of its members.
IsSubtree(W, r) ==
    /\ r \in W
    /\ Closed(W)
    /\ \A S \in SUBSET Spans : r \in S /\ Closed(S) => W \subseteq S

\* A walk that is over has visited exactly what is reachable from its root,
\* both copies of a reused span_id too, and counted every ERROR among it once
\* (span_tree.py:244-316).
ErrorsCounted ==
    root # 0 /\ stack = <<>> =>
        /\ IsSubtree(Walked, root)
        /\ errors = Cardinality({s \in Walked : IsError(s)})
=============================================================================
