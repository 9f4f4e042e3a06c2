---------------------------- MODULE MCProxyStates ----------------------------
(* ProxyStates on small instances. *)
EXTENDS ProxyStates, FiniteSets, TLC

(* The handles are interchangeable, and so are the cells. *)
Interchangeable == Permutations(Handles) \cup Permutations(Cells)

(* A bound: the caller keeps an exported state only while it holds at most  *)
(* one index.                                                               *)
ExportsAlone ==
    blob # None => Cardinality({h \in Handles : held[h] # NoIndex}) <= 1
=============================================================================
