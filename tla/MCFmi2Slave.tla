---------------------------- MODULE MCFmi2Slave -----------------------------
(* Fmi2Slave on small instances. *)
EXTENDS Fmi2Slave, TLC

(* The handles are interchangeable, and so are the cells. *)
Interchangeable == Permutations(Handles) \cup Permutations(Cells)
=============================================================================
