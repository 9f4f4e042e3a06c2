---------------------------- MODULE MCProxyCalls -----------------------------
(* ProxyCalls on small instances. *)
EXTENDS ProxyCalls
=============================================================================
