----------------------------- MODULE MCProtocol -----------------------------
(* Small instances of Protocol for TLC. *)
EXTENDS Protocol, TLC

(* Requests and receive threads are interchangeable; descriptors are not:  *)
(* the loop in Select() starts at the lowest one.                          *)
Symmetry == Permutations(Requests) \cup Permutations(RxThreads)
=============================================================================
