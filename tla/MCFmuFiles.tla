------------------------------ MODULE MCFmuFiles -----------------------------
(* FmuFiles on small instances. *)
EXTENDS FmuFiles, TLC

(* Loads, slaves of a load and names are interchangeable. *)
Interchangeable ==
    Permutations(Loads) \cup Permutations(Slaves) \cup Permutations(Names)
=============================================================================
