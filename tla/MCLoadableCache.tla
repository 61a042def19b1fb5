--------------------------- MODULE MCLoadableCache ---------------------------
(***************************************************************************)
(* Three callers, so that a load has a leader and a caller merged into it  *)
(* while the third one writes or takes the lock.                           *)
(***************************************************************************)
EXTENDS LoadableCache, TLC

Symmetry == Permutations(Caller)
=============================================================================
