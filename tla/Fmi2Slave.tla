----------------------------- MODULE Fmi2Slave ------------------------------
(***************************************************************************)
(* fmi2_slave of fmi/fmi2/fmi2_slave.cpp: the lifecycle flags beside an    *)
(* FMI 2 instance, and its table of saved states, a vector of slots reused *)
(* through a queue of free indices.                                        *)
(*                                                                         *)
(* The FMU (external) has a mode and a version of everything it computes   *)
(* with; it accepts a call in the modes the FMI standard allows and may    *)
(* answer any accepted call with a warning or refuse it with an error.     *)
(* The caller is modelled by what it knows: the phase its successful calls *)
(* have reached, and the index and phase of every state it saved. It uses  *)
(* an index only until it releases it, and nothing after freeInstance. The *)
(* asserts, gone from a release build, are not guards: FlagsFollowCalls    *)
(* implies that they hold for a caller whose calls succeed.                *)
(***************************************************************************)
EXTENDS Integers, Sequences

CONSTANTS
    Handles,      \* names for the indices the caller can hold
    Cells,        \* memory for the FMU's own copies of its state
    MaxVersion,   \* bound on fmu.version
    None,
    CanGetAndSetFMUstate, CanSerializeFMUstate   \* capabilities of the FMU

NoIndex == -1

ASSUME ConstantsAssumption ==
    /\ MaxVersion \in Nat
    /\ CanGetAndSetFMUstate \in BOOLEAN
    /\ CanSerializeFMUstate \in BOOLEAN

VARIABLES
    fmu,             \* the FMI instance behind handle_
    setupComplete, simStarted, freed,
    savedStates, savedStatesFreelist,
    heap,            \* per cell: the copy it holds, Leaked, or None
    phase,           \* what the caller's calls have reached
    index,           \* per handle: the index the caller holds, or NoIndex
    savedPhase,      \* per handle: the phase it was saved in
    blob             \* the exported_state the caller holds, or None

flags      == <<setupComplete, simStarted>>
tableVars  == <<savedStates, savedStatesFreelist, heap>>
callerVars == <<index, savedPhase, blob>>
vars == <<fmu, flags, freed, tableVars, phase, callerVars>>

Phases == {"created", "initializing", "running", "ended", "unsure"}
Modes  == {"instantiated", "initialization", "stepping", "terminated", "failed"}

Copies      == [mode : Modes, version : 0 .. MaxVersion]
SavedStates == [fmuState : Cells, setupComplete : BOOLEAN, simStarted : BOOLEAN]

(* A copy the FMU refused to free: nobody can reach it any more. *)
Leaked == [mode |-> "leaked", version |-> 0]

(* An export carries the bytes of a copy, and which phase the caller knows  *)
(* it to be of. Garbage stands for bytes the FMU cannot deserialize.        *)
Garbage == [mode |-> "none", version |-> 0]
Exports == [fmuState : Copies \cup {Garbage}, setupComplete : BOOLEAN,
            simStarted : BOOLEAN, schemeVersion : {0, 1},
            uuid : {"guid", "other"}, phase : Phases]

ASSUME NoneAssumption ==
    /\ None \notin Copies \cup {Leaked}
    /\ None \notin Exports
    /\ None \notin [version : 0 .. MaxVersion, setupComplete : BOOLEAN,
                    simStarted : BOOLEAN, phase : Phases]

Init ==
    /\ fmu = [mode |-> "instantiated", version |-> 0]
    /\ setupComplete = FALSE
    /\ simStarted = FALSE
    /\ freed = FALSE
    /\ savedStates = <<>>
    /\ savedStatesFreelist = <<>>
    /\ heap  = [c \in Cells |-> None]
    /\ phase = "created"
    /\ index = [h \in Handles |-> NoIndex]
    /\ savedPhase = [h \in Handles |-> "unsure"]
    /\ blob = None

-----------------------------------------------------------------------------
(* The FMU's side of a call it takes in the given modes and that leaves it  *)
(* in `mode`. An error leaves it as it was, or unusable until it is given   *)
(* an earlier state.                                                        *)
Accept(modes, mode) ==
    /\ fmu.mode \in modes
    /\ fmu' = [fmu EXCEPT !.mode = mode]

(* A call that changes what the FMU computes with. *)
Advance(modes) ==
    /\ fmu.mode \in modes
    /\ fmu.version < MaxVersion
    /\ fmu' = [fmu EXCEPT !.version = @ + 1]

Refuse == fmu' \in {fmu, [fmu EXCEPT !.mode = "failed"]}

(* The caller goes from one phase to the next if the call succeeded. *)
CallFrom(from) == phase \in {from, "unsure"}
Succeeds(to)   == phase' = IF phase = "unsure" THEN "unsure" ELSE to
Fails          == phase' = "unsure"

(* fmi2_status_ok, or the two answers the code counts as failure: a warning *)
(* although the FMU did what was asked, and an error.                       *)
SetupExperiment ==
    /\ CallFrom("created")
    /\ \/ Accept({"instantiated"}, "instantiated") /\ Succeeds("created")
       \/ Accept({"instantiated"}, "instantiated") /\ Fails
       \/ Refuse /\ Fails
    /\ UNCHANGED <<flags, freed, tableVars, callerVars>>

EnterInitializationMode ==
    /\ CallFrom("created")
    /\ \/ /\ Accept({"instantiated"}, "initialization")
          /\ setupComplete' = TRUE
          /\ Succeeds("initializing")
       \/ /\ Accept({"instantiated"}, "initialization") \/ Refuse
          /\ Fails
          /\ UNCHANGED setupComplete
    /\ UNCHANGED <<simStarted, freed, tableVars, callerVars>>

(* Mutant of ExitInitializationMode: a warning starts the simulation too,   *)
(* and so does an error.                                                    *)
StartRegardless ==
    /\ CallFrom("initializing")
    /\ \/ Accept({"initialization"}, "stepping") /\ Succeeds("running")
       \/ Accept({"initialization"}, "stepping") /\ Fails
       \/ Refuse /\ Fails
    /\ simStarted' = TRUE
    /\ UNCHANGED <<setupComplete, freed, tableVars, callerVars>>

ExitInitializationMode ==
    /\ CallFrom("initializing")
    /\ \/ /\ Accept({"initialization"}, "stepping")
          /\ simStarted' = TRUE
          /\ Succeeds("running")
       \/ /\ Accept({"initialization"}, "stepping") \/ Refuse
          /\ Fails
          /\ UNCHANGED simStarted
    /\ UNCHANGED <<setupComplete, freed, tableVars, callerVars>>

Step ==
    /\ CallFrom("running")
    /\ \/ Advance({"stepping"}) /\ Succeeds("running")
       \/ Advance({"stepping"}) /\ Fails
       \/ Refuse /\ Fails
    /\ UNCHANGED <<flags, freed, tableVars, callerVars>>

Terminate ==
    /\ CallFrom("running")
    /\ \/ Accept({"stepping"}, "terminated") /\ Succeeds("ended")
       \/ Accept({"stepping"}, "terminated") /\ Fails
       \/ Refuse /\ Fails
    /\ simStarted' = FALSE
    /\ UNCHANGED <<setupComplete, freed, tableVars, callerVars>>

(* set_integer, set_real, set_string, set_boolean. The get_ functions       *)
(* change nothing; one that fails does what a refused set does, and so does *)
(* a save, an export or an import the FMU refuses.                          *)
SetVariables ==
    /\ phase # "ended"
    /\ \/ /\ Advance({"instantiated", "initialization", "stepping"})
          /\ Succeeds(phase) \/ Fails
       \/ Refuse /\ Fails
    /\ UNCHANGED <<flags, freed, tableVars, callerVars>>

(* freeInstance, and the destructor, which does nothing after it. *)
FreeInstance ==
    /\ freed' = TRUE
    /\ UNCHANGED <<fmu, flags, tableVars, phase, callerVars>>

-----------------------------------------------------------------------------
Saved(cell) == [fmuState |-> cell, setupComplete |-> setupComplete,
                simStarted |-> simStarted]

(* A slot of the vector: indices count from 0. *)
Slot(i) == savedStates[i + 1]

(* Mutant of StoreNewState: the index stays on the freelist. *)
StoreNewStateNoPop(h, state) ==
    LET i == IF savedStatesFreelist = <<>> THEN Len(savedStates)
                                           ELSE Head(savedStatesFreelist)
    IN  /\ savedStates' = IF savedStatesFreelist = <<>>
                          THEN Append(savedStates, state)
                          ELSE [savedStates EXCEPT ![i + 1] = state]
        /\ index' = [index EXCEPT ![h] = i]
        /\ UNCHANGED savedStatesFreelist

(* Mutant of StoreNewState: a reused slot keeps its old contents. *)
StoreNewStateNoMove(h, state) ==
    \/ /\ savedStatesFreelist = <<>>
       /\ savedStates' = Append(savedStates, state)
       /\ index' = [index EXCEPT ![h] = Len(savedStates)]
       /\ UNCHANGED savedStatesFreelist
    \/ /\ savedStatesFreelist # <<>>
       /\ savedStatesFreelist' = Tail(savedStatesFreelist)
       /\ index' = [index EXCEPT ![h] = Head(savedStatesFreelist)]
       /\ UNCHANGED savedStates

(* A new slot at the back, or the one that has been free the longest; the   *)
(* index is what the call returns.                                          *)
StoreNewState(h, state) ==
    \/ /\ savedStatesFreelist = <<>>
       /\ savedStates' = Append(savedStates, state)
       /\ index' = [index EXCEPT ![h] = Len(savedStates)]
       /\ UNCHANGED savedStatesFreelist
    \/ /\ savedStatesFreelist # <<>>
       /\ LET i == Head(savedStatesFreelist)
          IN  /\ savedStates' = [savedStates EXCEPT ![i + 1] = state]
              /\ index' = [index EXCEPT ![h] = i]
       /\ savedStatesFreelist' = Tail(savedStatesFreelist)

(* save_state(): a handle of the caller's is not in use yet. A failure      *)
(* throws before anything is stored.                                        *)
SaveState(h) ==
    /\ index[h] = NoIndex
    /\ CanGetAndSetFMUstate
    /\ \E c \in Cells :
          /\ heap[c] = None
          /\ heap' = [heap EXCEPT ![c] = fmu]
          /\ StoreNewState(h, Saved(c))
    /\ savedPhase' = [savedPhase EXCEPT ![h] = phase]
    /\ UNCHANGED <<fmu, flags, freed, phase, blob>>

(* save_state(stateIndex): copy_current_state hands the FMU the slot's own  *)
(* fmuState, which FMI lets the FMU overwrite in place.                     *)
SaveStateByIndex(h) ==
    /\ index[h] # NoIndex
    /\ CanGetAndSetFMUstate
    /\ LET i == index[h]
           c == Slot(i).fmuState
       IN  /\ heap' = [heap EXCEPT ![c] = fmu]
           /\ savedStates' = [savedStates EXCEPT ![i + 1] = Saved(c)]
    /\ savedPhase' = [savedPhase EXCEPT ![h] = phase]
    /\ UNCHANGED <<fmu, flags, freed, savedStatesFreelist, phase, index, blob>>

(* Mutant of RestoreState: only the FMU is restored. *)
RestoreFmuOnly(h) ==
    /\ index[h] # NoIndex
    /\ fmu' = heap[Slot(index[h]).fmuState]
    /\ phase' = savedPhase[h]
    /\ UNCHANGED <<flags, freed, tableVars, callerVars>>

RestoreState(h) ==
    /\ index[h] # NoIndex
    /\ \/ /\ fmu' = heap[Slot(index[h]).fmuState]
          /\ setupComplete' = Slot(index[h]).setupComplete
          /\ simStarted' = Slot(index[h]).simStarted
          /\ phase' = savedPhase[h]
       \/ Refuse /\ Fails /\ UNCHANGED flags
    /\ UNCHANGED <<freed, tableVars, callerVars>>

(* Mutant of ReleaseState: the index is pushed after the FMU has agreed. *)
ReleaseStateThenPush(h) ==
    /\ index[h] # NoIndex
    /\ \/ /\ heap' = [heap EXCEPT ![Slot(index[h]).fmuState] = None]
          /\ savedStatesFreelist' = Append(savedStatesFreelist, index[h])
       \/ /\ heap' = [heap EXCEPT ![Slot(index[h]).fmuState] = Leaked]
          /\ UNCHANGED savedStatesFreelist
    /\ index' = [index EXCEPT ![h] = NoIndex]
    /\ savedPhase' = [savedPhase EXCEPT ![h] = "unsure"]
    /\ UNCHANGED <<fmu, flags, freed, savedStates, phase, blob>>

(* The slot keeps its pointer; the index is free even if the FMU refuses to *)
(* free its copy, which then leaks, and the caller drops it in either case. *)
ReleaseState(h) ==
    /\ index[h] # NoIndex
    /\ savedStatesFreelist' = Append(savedStatesFreelist, index[h])
    /\ \/ heap' = [heap EXCEPT ![Slot(index[h]).fmuState] = None]
       \/ heap' = [heap EXCEPT ![Slot(index[h]).fmuState] = Leaked]
    /\ index' = [index EXCEPT ![h] = NoIndex]
    /\ savedPhase' = [savedPhase EXCEPT ![h] = "unsure"]
    /\ UNCHANGED <<fmu, flags, freed, savedStates, phase, blob>>

-----------------------------------------------------------------------------
(* A failure of the second FMU call leaves zeros in the caller's blob. *)
ExportState(h) ==
    /\ index[h] # NoIndex
    /\ CanSerializeFMUstate
    /\ \/ blob' = [fmuState      |-> heap[Slot(index[h]).fmuState],
                   setupComplete |-> Slot(index[h]).setupComplete,
                   simStarted    |-> Slot(index[h]).simStarted,
                   schemeVersion |-> 0,
                   uuid          |-> "guid",
                   phase         |-> savedPhase[h]]
       \/ blob # None /\ blob' = [blob EXCEPT !.fmuState = Garbage]
    /\ UNCHANGED <<fmu, flags, freed, tableVars, phase, index, savedPhase>>

(* The caller comes by a state of another FMU or of another scheme. *)
ObtainForeign ==
    /\ CanSerializeFMUstate
    /\ \E scheme \in {0, 1}, uuid \in {"guid", "other"} :
          /\ scheme = 1 \/ uuid = "other"
          /\ blob' = [fmuState      |-> [mode |-> "instantiated", version |-> 0],
                      setupComplete |-> TRUE,
                      simStarted    |-> TRUE,
                      schemeVersion |-> scheme,
                      uuid          |-> uuid,
                      phase         |-> "created"]
    /\ UNCHANGED <<fmu, flags, freed, tableVars, phase, index, savedPhase>>

Importable(b) ==
    /\ b # None
    /\ b.schemeVersion = 0
    /\ b.uuid = "guid"
    /\ b.fmuState # Garbage

(* Mutant of ImportState: the uuid is not compared. *)
ImportAnyUuid(h) ==
    /\ index[h] = NoIndex
    /\ blob # None
    /\ blob.schemeVersion = 0
    /\ blob.fmuState # Garbage
    /\ CanSerializeFMUstate
    /\ \E c \in Cells :
          /\ heap[c] = None
          /\ heap' = [heap EXCEPT ![c] = blob.fmuState]
          /\ StoreNewState(h, [fmuState      |-> c,
                               setupComplete |-> blob.setupComplete,
                               simStarted    |-> blob.simStarted])
    /\ savedPhase' = [savedPhase EXCEPT ![h] = blob.phase]
    /\ UNCHANGED <<fmu, flags, freed, phase, blob>>

(* Mutant of ImportState: the status of the deserialization is ignored. *)
ImportGarbage(h) ==
    /\ index[h] = NoIndex
    /\ blob # None
    /\ blob.schemeVersion = 0
    /\ blob.uuid = "guid"
    /\ CanSerializeFMUstate
    /\ \E c \in Cells :
          /\ heap[c] = None
          /\ heap' = [heap EXCEPT ![c] = blob.fmuState]
          /\ StoreNewState(h, [fmuState      |-> c,
                               setupComplete |-> blob.setupComplete,
                               simStarted    |-> blob.simStarted])
    /\ savedPhase' = [savedPhase EXCEPT ![h] = blob.phase]
    /\ UNCHANGED <<fmu, flags, freed, phase, blob>>

ImportState(h) ==
    /\ index[h] = NoIndex
    /\ Importable(blob)
    /\ CanSerializeFMUstate
    /\ \E c \in Cells :
          /\ heap[c] = None
          /\ heap' = [heap EXCEPT ![c] = blob.fmuState]
          /\ StoreNewState(h, [fmuState      |-> c,
                               setupComplete |-> blob.setupComplete,
                               simStarted    |-> blob.simStarted])
    /\ savedPhase' = [savedPhase EXCEPT ![h] = blob.phase]
    /\ UNCHANGED <<fmu, flags, freed, phase, blob>>

-----------------------------------------------------------------------------
SimulationCall ==
    \/ SetupExperiment \/ EnterInitializationMode \/ ExitInitializationMode
    \/ Step \/ Terminate \/ SetVariables \/ FreeInstance

StateCall(h) ==
    \/ SaveState(h) \/ SaveStateByIndex(h) \/ RestoreState(h)
    \/ ReleaseState(h) \/ ExportState(h) \/ ImportState(h)

Next ==
    /\ ~freed
    /\ SimulationCall \/ ObtainForeign \/ \E h \in Handles : StateCall(h)

Spec == Init /\ [][Next]_vars

-----------------------------------------------------------------------------
(* Properties *)

(* Every variable keeps its type. *)
TypeOK ==
    /\ fmu \in Copies
    /\ setupComplete \in BOOLEAN
    /\ simStarted \in BOOLEAN
    /\ freed \in BOOLEAN
    /\ savedStates \in Seq(SavedStates)
    /\ savedStatesFreelist \in Seq(Nat)
    /\ heap \in [Cells -> Copies \cup {Leaked, None}]
    /\ phase \in Phases
    /\ index \in [Handles -> Nat \cup {NoIndex}]
    /\ savedPhase \in [Handles -> Phases]
    /\ blob \in Exports \cup {None}

Held == {h \in Handles : index[h] # NoIndex}

(* No index is in use twice: it is held by one handle, or waits once on the *)
(* freelist (fmi2_slave.cpp:208-219, 244-247).                              *)
NoIndexShared ==
    /\ \A g, h \in Held : index[g] = index[h] => g = h
    /\ \A h \in Held : index[h] < Len(savedStates)
    /\ \A h \in Held, n \in DOMAIN savedStatesFreelist :
          savedStatesFreelist[n] # index[h]
    /\ \A m, n \in DOMAIN savedStatesFreelist :
          /\ savedStatesFreelist[n] < Len(savedStates)
          /\ savedStatesFreelist[m] = savedStatesFreelist[n] => m = n

(* No slot is lost, even when the FMU refuses to free a state: each one is  *)
(* held or waits for reuse, so the vector grows only with the states held.  *)
NoSlotLost ==
    \A i \in 0 .. Len(savedStates) - 1 :
        \/ \E h \in Held : index[h] = i
        \/ \E n \in DOMAIN savedStatesFreelist : savedStatesFreelist[n] = i

(* The state behind a held index is in memory that has not been freed, and  *)
(* that no other held index points to: release_state leaves the pointer in  *)
(* the slot (fmi2_slave.cpp:246-248) and the slot is used again.            *)
HeldStatesLive ==
    /\ \A h \in Held : heap[Slot(index[h]).fmuState] \notin {Leaked, None}
    /\ \A g, h \in Held :
          Slot(index[g]).fmuState = Slot(index[h]).fmuState => g = h

(* What the flags say of a mode holds in the mode. *)
Agree(setup, started, mode) ==
    /\ started => mode \in {"stepping", "failed"}
    /\ setup   => mode # "instantiated"

(* The flags never run ahead of the FMU, in the current state, in a saved   *)
(* one and in one that can be imported, whatever mixture of warnings,       *)
(* errors, restores and imports has happened.                               *)
FlagsNeverAhead ==
    /\ Agree(setupComplete, simStarted, fmu.mode)
    /\ \A h \in Held :
          LET s == Slot(index[h])
          IN  Agree(s.setupComplete, s.simStarted, heap[s.fmuState].mode)
    /\ Importable(blob) =>
          Agree(blob.setupComplete, blob.simStarted, blob.fmuState.mode)

(* The abstract specification's view: a state is a version with its flags.  *)
Known(version, setup, started, p) ==
    [version |-> version, setupComplete |-> setup, simStarted |-> started,
     phase |-> p]

Current == Known(fmu.version, setupComplete, simStarted, phase)

Stored(h) ==
    IF index[h] = NoIndex THEN None
    ELSE LET s == Slot(index[h])
         IN  Known(heap[s.fmuState].version, s.setupComplete, s.simStarted,
                   savedPhase[h])

Exported ==
    IF Importable(blob)
    THEN Known(blob.fmuState.version, blob.setupComplete, blob.simStarted,
               blob.phase)
    ELSE None

Store == INSTANCE SlaveStates
    WITH current  <- Current,
         store    <- [h \in Handles |-> Stored(h)],
         exported <- Exported

(* For a caller whose calls succeeded the flags are what the calls made     *)
(* them, also after a restore or an import, so that no assert of            *)
(* fmi2_slave.cpp (67, 88, 89, 102, 109) fires in a debug build.            *)
FlagsFollowCalls ==
    /\ Current \in Store!States
    /\ \A h \in Held : Stored(h) \in Store!States
    /\ Exported # None => Exported \in Store!States

(* The table of slots implements the store of whole states: saving,         *)
(* overwriting, releasing and importing through one index never changes     *)
(* what another index stands for, and restore brings all of it back.        *)
StatesAreStored == Store!Spec
=============================================================================
