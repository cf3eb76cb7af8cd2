----------------------------- MODULE MCSpanTree -----------------------------
(***************************************************************************)
(* SpanTree for TLC: families of small traces.                             *)
(***************************************************************************)
EXTENDS SpanTree

CONSTANTS a, b, c, d

\* A span without any duration.
Bare(id, parent, status) ==
    [id |-> id, parent |-> parent, status |-> status, start |-> 0,
     duration |-> 0]

Statuses == {"ERROR", "OK"}

Three(ids, parents) ==
    {<<Bare(ids[1], p[1], s[1]), Bare(ids[2], p[2], s[2]),
       Bare(ids[3], p[3], s[3])>> :
     p \in [1 .. 3 -> parents], s \in [1 .. 3 -> Statuses]}

Four(ids, parents) ==
    {<<Bare(ids[1], p[1], s[1]), Bare(ids[2], p[2], s[2]),
       Bare(ids[3], p[3], s[3]), Bare(ids[4], p[4], s[4])>> :
     p \in [1 .. 4 -> parents], s \in [1 .. 4 -> Statuses]}

\* Every tree, forest and cycle of four spans with their own ids.
Distinct == Four(<<a, b, c, d>>, {a, b, c, d, None})

\* Every trace of three spans that may share ids, also with parents missing.
Reused == UNION {Three(ids, {a, b, c, None}) : ids \in [1 .. 3 -> {a, b}]}

\* One parent and up to three children, nested, overlapping or skewed.
Timed ==
    {<<[id |-> a, parent |-> None, status |-> "OK", start |-> 1, duration |-> n],
       [id |-> b, parent |-> a, status |-> "OK", start |-> u, duration |-> v],
       [id |-> c, parent |-> a, status |-> "OK", start |-> w, duration |-> x],
       [id |-> d, parent |-> p, status |-> "OK", start |-> 2, duration |-> 1]>> :
     n \in {-1, 2, 4}, u \in 0 .. 3, v \in {-1, 1, 2}, w \in 0 .. 4,
     x \in {1, 2, 5}, p \in {a, c, None}}

MCTraces == Distinct \cup Reused \cup Timed
=============================================================================
