------------------------------ MODULE MCService ------------------------------
(* Instances of Service for TLC: processes are interchangeable. *)
EXTENDS Service, TLC

Symmetry == Permutations(Processes)
=============================================================================
