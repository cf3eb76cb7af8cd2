------------------------- MODULE MCBackendLifecycle -------------------------
(***************************************************************************)
(* BackendLifecycle for TLC: the calls are interchangeable, and so are the *)
(* two slots.                                                              *)
(***************************************************************************)
EXTENDS BackendLifecycle, TLC

SymCallsAndSlots == Permutations(Calls) \cup Permutations(Slots)
=============================================================================
