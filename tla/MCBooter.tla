------------------------------ MODULE MCBooter ------------------------------
(* Booter on small instances. *)
EXTENDS Booter, TLC

(* The clients are interchangeable. *)
Interchangeable == Permutations(Instances)

(* At most one client dies, and at most one child ends abnormally. *)
FewFailures ==
    \A i, j \in Instances :
        \/ pc[i] = "dead" /\ pc[j] = "dead"
        \/ status[i] # 0 /\ status[j] # 0
        => i = j
=============================================================================
