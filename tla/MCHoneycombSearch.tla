------------------------- MODULE MCHoneycombSearch -------------------------
(***************************************************************************)
(* HoneycombSearch for TLC: a search that finds nothing, one whose rows    *)
(* repeat a trace and name more traces than are returned.  The two tasks   *)
(* belong to a primary and a secondary backend with one Configuration Key. *)
(***************************************************************************)
EXTENDS HoneycombSearch

CONSTANTS x, y, z, t1, t2

MCTimeout == [t \in Tasks |-> IF t = t1 THEN 2 ELSE 1]
MCCallers == Tasks \X {1, 2}
MCRows == {<<>>, <<x, y, x, z, y>>}
=============================================================================
