---------------------------- MODULE MCQueryCache ----------------------------
(* Small instances of QueryCache.  Computations are interchangeable names, *)
(* and so are the keys; the callers are when all of them may cancel.       *)
EXTENDS QueryCache, TLC

SymRaces == Permutations(Callers) \cup Permutations(Computations)
SymAges == Permutations(Keys) \cup Permutations(Computations)
=============================================================================
