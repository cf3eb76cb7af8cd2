------------------------------- MODULE SpanTree -------------------------------
(***************************************************************************)
(* tools/span_tree.py and tools/triage.py: what triage_trace makes of the  *)
(* walk: subtrees, parent cycles, self times, the critical path and the    *)
(* verdict.  The pure functions are operators over the trace; the wording  *)
(* of the verdict and the elision of long chains are left out.             *)
(***************************************************************************)
EXTENDS SpanWalk, SequencesExt

Done == root = 0 /\ left = <<>>

\* subtree_span_ids
SubtreeIds(s) ==
    LET ids[n \in 0 .. Len(trace)] ==
            IF n = 0 THEN {Id(s)}
            ELSE LET above == ids[n - 1]
                 IN  above \cup {Id(c) : c \in {d \in Spans :
                                                ParentKey(d) \in above}}
    IN  ids[Len(trace)]

\* mutant: the first root owns everything
Owner_FirstRoot(s) == IF Roots = {} THEN s ELSE Min(Roots)

\* find_owning_root
Owner(s) ==
    LET owners == {r \in Roots : Id(s) \in SubtreeIds(r)}
    IN  IF owners = {} THEN s ELSE Min(owners)

ReachableIds == UNION {SubtreeIds(r) : r \in Roots}

\* find_unreachable_error_spans
UnreachableErrors == {s \in Spans : Id(s) \notin ReachableIds /\ IsError(s)}

\* spans_by_id keeps the copy listed last; 0 if there is none.
ById(k) == LET S == {s \in Spans : Id(s) = k} IN IF S = {} THEN 0 ELSE Max(S)

\* The walk upward from s until it ends or meets a span_id again.
Upward(s) ==
    LET seen(w) == {Id(w[i]) : i \in DOMAIN w}
        up[n \in 0 .. Len(trace)] ==
            IF n = 0 THEN <<s>>
            ELSE LET w == up[n - 1]
                     p == ById(trace[Last(w)].parent)
                 IN  IF p = 0 \/ Id(p) \in seen(w) THEN w ELSE Append(w, p)
    IN  up[Len(trace)]

\* parent_cycle_span_ids: from where the walk entered the loop on.
ParentCycle(s) ==
    LET w == Upward(s)
        p == ById(trace[Last(w)].parent)
    IN  IF p = 0 THEN <<>>
        ELSE SubSeq(w, CHOOSE i \in DOMAIN w : Id(w[i]) = Id(p), Len(w))
-----------------------------------------------------------------------------
(* Times.                                                                  *)

End(s) == trace[s].start + trace[s].duration

\* The one max() finds: the first of S in the list for which f is greatest.
FirstMax(S, f) ==
    LET greatest == Max({f[s] : s \in S}) IN Min({s \in S : f[s] = greatest})

\* compute_critical_path: the child that ends last, as long as there is one.
CriticalPath(r) ==
    LET path[n \in 1 .. Len(trace)] ==
            IF n = 1 THEN <<r>>
            ELSE LET p == path[n - 1]
                     next == {c \in Children(Last(p)) :
                                \A i \in DOMAIN p : Id(p[i]) # Id(c)}
                 IN  IF next = {} THEN p ELSE Append(p, FirstMax(next, [s \in next |-> End(s)]))
    IN  path[Len(trace)]

\* What the children cover of the span, each clipped to it, none inverted.
Intervals(s) ==
    {v \in {<<Max({trace[s].start, trace[c].start}), Min({End(s), End(c)})>> :
            c \in Children(s)} : v[2] > v[1]}

\* mutant: an overlapping interval is counted whole
Extend_Sum(acc, v) ==
    [covered |-> acc.covered + acc.to - acc.from, from |-> v[1], to |-> v[2]]

\* One turn of the merge over the sorted intervals.
Extend(acc, v) ==
    IF v[1] > acc.to
    THEN [covered |-> acc.covered + acc.to - acc.from,
          from |-> v[1], to |-> v[2]]
    ELSE [acc EXCEPT !.to = Max({@, v[2]})]

\* The order of tuples, and a set of them sorted.
Earlier(v, w) == v[1] < w[1] \/ (v[1] = w[1] /\ v[2] < w[2])

Sorted(I) ==
    CHOOSE q \in [1 .. Cardinality(I) -> I] :
        \A i, j \in DOMAIN q : i < j => Earlier(q[i], q[j])

Covered(s) ==
    LET q == Sorted(Intervals(s))
        merged[i \in 1 .. Len(q)] ==
            IF i = 1 THEN [covered |-> 0, from |-> q[1][1], to |-> q[1][2]]
            ELSE Extend(merged[i - 1], q[i])
        m == merged[Len(q)]
    IN  IF q = <<>> THEN 0 ELSE m.covered + m.to - m.from

\* compute_self_time_ms
SelfTime(s) == Max({0, trace[s].duration - Covered(s)})
-----------------------------------------------------------------------------
(* triage_trace, once the walk over all roots is done.  A trace without     *)
(* spans has no verdict.                                                   *)

Verdict ==
    LET longest == FirstMax(UnreachableErrors, [s \in Spans |-> trace[s].duration])
        top == FirstMax(Spans, [s \in Spans |-> SelfTime(s)])
    IN  CASE chain # <<>> ->
               [cause |-> Last(chain), from |-> Head(chain),
                confidence |-> IF allTies = 1 THEN "high" ELSE "medium"]
          [] chain = <<>> /\ total = 0 /\ UnreachableErrors # {} ->
               [cause |-> longest, from |-> longest, confidence |-> "low"]
          [] OTHER ->
               [cause |-> top, from |-> Owner(top), confidence |-> "low"]
-----------------------------------------------------------------------------
(* Properties.                                                             *)

UniqueIds == \A s, t \in Spans : s # t => Id(s) # Id(t)

\* The depth of a span that hangs off a root, 0 for one that does not.
TrueDepth(s) ==
    LET level[n \in 0 .. Len(trace)] ==
            IF n = 0 THEN Roots ELSE UNION {Children(t) : t \in level[n - 1]}
        levels == {n \in 0 .. Len(trace) : s \in level[n]}
    IN  IF levels = {} THEN 0 ELSE Min(levels) + 1

\* Where span_ids are unique the verdict is about the deepest ERROR that hangs
\* off a root, along its real ancestors; it is called unambiguous exactly when
\* no other is as deep; and an ERROR that hangs off no root is reported when
\* there is no other (triage.py:157-258).
DeepestBlamed ==
    Done /\ UniqueIds =>
        LET reached == {s \in Spans : IsError(s) /\ TrueDepth(s) # 0}
            lowest == {TrueDepth(s) : s \in reached}
            bottom == {s \in reached : TrueDepth(s) = Max(lowest)}
        IN  /\ total = Cardinality(reached)
            /\ chain = <<>> <=> reached = {}
            /\ reached # {} =>
                /\ Verdict.cause \in bottom
                /\ Len(chain) = TrueDepth(Verdict.cause)
                /\ Head(chain) \in Roots
                /\ \A i \in 2 .. Len(chain) : chain[i] \in Children(chain[i - 1])
                /\ Verdict.confidence = "high" <=> Cardinality(bottom) = 1
            /\ (\E s \in Spans : IsError(s)) => IsError(Verdict.cause)

\* A span no root reaches is caught in a parent cycle that can be named; in a
\* trace without any root every span is, also when span_ids are reused
\* (span_tree.py:104-130, triage.py:87-99).
TrappedInCycle ==
    root = 0 =>
        \A s \in Spans :
            /\ Roots = {} => Len(ParentCycle(s)) >= 2
            /\ UniqueIds =>
                (Id(s) \notin ReachableIds <=> Len(ParentCycle(s)) >= 2)

\* The self time of a span is the time in it that no child covers, whatever
\* the overlaps and the clock skew of the children, and never negative.
SelfTimeExact ==
    root = 0 =>
        \A s \in Spans :
            SelfTime(s) = Cardinality({t \in trace[s].start .. End(s) - 1 :
                \A c \in Children(s) : t \notin trace[c].start .. End(c) - 1})

\* The critical path reported is about the tree the diagnosed span is in: it
\* starts at a root that reaches that span, or at the span itself when no root
\* does, ends at a leaf, and no span_id occurs twice on it (triage.py:206-258).
VerdictOnItsTree ==
    Done /\ trace # <<>> =>
        LET from == Verdict.from
            path == CriticalPath(from)
        IN  /\ Id(Verdict.cause) \in SubtreeIds(from)
            /\ from \in Roots \/ Id(Verdict.cause) \notin ReachableIds
            /\ \A c \in Children(Last(path)) :
                \E i \in DOMAIN path : Id(path[i]) = Id(c)
            /\ \A i, j \in DOMAIN path : i # j => Id(path[i]) # Id(path[j])
=============================================================================
