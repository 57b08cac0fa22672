---------------------------- MODULE MCLifecycle ----------------------------
(* Small instances of Lifecycle for TLC. *)
EXTENDS Lifecycle, TLC

(* Receive threads are interchangeable; used for safety properties only.   *)
Symmetry == Permutations(RxThreads)
=============================================================================
