---------------------------- MODULE MCLocalProxy ----------------------------
(* LocalProxy on small instances. *)
EXTENDS LocalProxy, TLC

(* The instances are interchangeable. *)
Interchangeable == Permutations(Instances)
=============================================================================
