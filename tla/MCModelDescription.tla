------------------------- MODULE MCModelDescription --------------------------
(* ModelDescription on small instances. *)
EXTENDS ModelDescription
=============================================================================
