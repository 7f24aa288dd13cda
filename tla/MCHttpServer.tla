---------------------------- MODULE MCHttpServer ----------------------------
(* Instances of HttpServer for TLC. *)
EXTENDS HttpServer, TLC

SymmetryOfPatient == Permutations(Clients \ (Impatient \cup Stalling))
=============================================================================
