----------------------------- MODULE MCStorage ------------------------------
(* Storage on small sets, for TLC. *)
EXTENDS Storage, TLC

\* The processes are interchangeable.
Symmetric == Permutations(Processes)
=============================================================================
