---------------------------- MODULE SlaveStates -----------------------------
(***************************************************************************)
(* What the state calls of a slave promise (the virtual functions of       *)
(* fmi/slave.hpp:45-50): a store of whole simulation states, one per       *)
(* handle the caller holds. A handle keeps the state it was given until    *)
(* the caller overwrites or releases it, whatever the caller does with     *)
(* the simulation or with other handles, and restoring it brings the whole *)
(* state back. An exported state is a copy; only an intact export of the   *)
(* same FMU can be imported.                                               *)
(***************************************************************************)
EXTENDS Naturals

CONSTANTS Handles, MaxVersion, None

(* How far the calls the slave accepted have brought it, as its caller      *)
(* knows: "unsure" after a call that failed.                                *)
Phases == {"created", "initializing", "running", "ended", "unsure"}

Lifecycle == { <<"created", "created">>, <<"created", "initializing">>,
               <<"initializing", "initializing">>,
               <<"initializing", "running">>,
               <<"running", "running">>, <<"running", "ended">> }

SetUp(phase)   == phase \in {"initializing", "running", "ended"}
Started(phase) == phase = "running"

(* A state is a version of what the FMU computes with, and the flags the    *)
(* slave keeps beside it, which follow the calls the slave accepted.        *)
States == { s \in [version : 0 .. MaxVersion, setupComplete : BOOLEAN,
                   simStarted : BOOLEAN, phase : Phases] :
              s.phase # "unsure" => /\ s.setupComplete <=> SetUp(s.phase)
                                    /\ s.simStarted <=> Started(s.phase) }

VARIABLES
    current,   \* the state of the simulation
    store,     \* the state each handle stands for, or None
    exported   \* what the caller can import, or None

Init ==
    /\ current  = [version |-> 0, setupComplete |-> FALSE,
                   simStarted |-> FALSE, phase |-> "created"]
    /\ store    = [h \in Handles |-> None]
    /\ exported = None

(* A simulation call advances the simulation, or fails. *)
Simulate ==
    /\ \E s \in States :
          /\ s.version \in {current.version, current.version + 1}
          /\ \/ <<current.phase, s.phase>> \in Lifecycle
             \/ s.phase = "unsure"
          /\ current' = s
    /\ UNCHANGED <<store, exported>>

Save(h) ==
    /\ store' = [store EXCEPT ![h] = current]
    /\ UNCHANGED <<current, exported>>

Restore(h) ==
    /\ store[h] # None
    /\ current' = store[h]
    /\ UNCHANGED <<store, exported>>

Release(h) ==
    /\ store' = [store EXCEPT ![h] = None]
    /\ UNCHANGED <<current, exported>>

Export(h) ==
    /\ store[h] # None
    /\ exported' = store[h]
    /\ UNCHANGED <<current, store>>

(* The caller loses the export, or has one from elsewhere. *)
Forget ==
    /\ exported' = None
    /\ UNCHANGED <<current, store>>

Import(h) ==
    /\ exported # None
    /\ store[h] = None
    /\ store' = [store EXCEPT ![h] = exported]
    /\ UNCHANGED <<current, exported>>

Next ==
    \/ Simulate \/ Forget
    \/ \E h \in Handles :
          Save(h) \/ Restore(h) \/ Release(h) \/ Export(h) \/ Import(h)

Spec == Init /\ [][Next]_<<current, store, exported>>
=============================================================================
