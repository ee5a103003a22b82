----------------------------- MODULE MCSessionLock -----------------------------
(* Instances of SessionLock for TLC. *)
EXTENDS SessionLock, TLC

Symmetric == Permutations(Turns) \cup Permutations(Threads)
=============================================================================
