----------------------------- MODULE ProxyStates -----------------------------
(***************************************************************************)
(* The state calls of a proxy_slave whose FMU is FMI 2.0: the request with *)
(* an index or an exported state, the method of fmu_service_handler, the   *)
(* fmi2_slave of Fmi2Slave in the child, and the reply. An exported state  *)
(* is copied field by field four times on its way out and back.            *)
(*                                                                         *)
(* The slave knows an index only by what it has answered; the caller knows *)
(* it by what has come back. A child that dies is in ProxyCalls.           *)
(***************************************************************************)
EXTENDS Integers, Sequences

CONSTANTS
    Handles, Cells, MaxVersion, None,
    CanGetAndSetFMUstate, CanSerializeFMUstate   \* see Fmi2Slave

VARIABLES
    fmu, setupComplete, simStarted, freed,       \* of the slave, see Fmi2Slave
    savedStates, savedStatesFreelist, heap,
    phase, savedPhase,
    answered,        \* per handle: the index the slave has answered, or NoIndex
    es,              \* the handler's exported_state, or None
    request, reply,  \* on the connection
    want,            \* the method the caller is in, or None
    held,            \* per handle: the index the caller holds, or NoIndex
    blob             \* the exported_state the caller holds, or None

slaveVars == <<fmu, setupComplete, simStarted, freed, savedStates, savedStatesFreelist,
               heap, phase, savedPhase, answered>>
vars == <<slaveVars, es, request, reply, want, held, blob>>

(* The slave in the child: its caller is the handler. *)
Slave == INSTANCE Fmi2Slave WITH index <- answered, blob <- es

NoIndex == Slave!NoIndex

Asking  == {"save", "import"}                                  \* for an index
Telling == {"saveByIndex", "restore", "release", "export"}     \* an index

Wants == [op : {"simulate"}] \cup [op : Asking \cup Telling, h : Handles]

(* Messages: an index, and the Thrift structure of an exported state. *)
ExportedStates ==
    [schemeVersion : {0, 1}, uuid : {"guid", "other"},
     fmuState : Slave!Copies \cup {Slave!Garbage},
     setupComplete : BOOLEAN, simStarted : BOOLEAN, phase : Slave!Phases]

Messages == [index : Nat \cup {NoIndex}, exported : ExportedStates \cup {None}]

ASSUME ConstantsAssumption ==
    /\ MaxVersion \in Nat
    /\ CanGetAndSetFMUstate \in BOOLEAN
    /\ CanSerializeFMUstate \in BOOLEAN

ASSUME NoneAssumption ==
    /\ None \notin Slave!Copies \cup {Slave!Leaked} \cup Slave!Exports
    /\ None \notin [version : 0 .. MaxVersion, setupComplete : BOOLEAN,
                    simStarted : BOOLEAN, phase : Slave!Phases]
    /\ None \notin Wants \cup ExportedStates
    /\ None \notin Messages

Init ==
    /\ Slave!Init
    /\ request = None /\ reply = None
    /\ want = None
    /\ held = answered
    /\ blob = None

-----------------------------------------------------------------------------
(* import_state of the proxy, and export_state of the handler, copy an      *)
(* exported_state into an ExportedState.                                    *)
OnTheWire(e) ==
    [schemeVersion |-> e.schemeVersion, uuid |-> e.uuid, fmuState |-> e.fmuState,
     setupComplete |-> e.setupComplete, simStarted |-> e.simStarted, phase |-> e.phase]

(* Mutant of OffTheWire: one flag is taken for the other. *)
OffTheWireSwapped(e) ==
    [schemeVersion |-> e.schemeVersion, uuid |-> e.uuid, fmuState |-> e.fmuState,
     setupComplete |-> e.simStarted, simStarted |-> e.setupComplete, phase |-> e.phase]

(* Mutant of OffTheWire: the uuid is left out and stays the empty string. *)
OffTheWireNoUuid(e) ==
    [schemeVersion |-> e.schemeVersion, uuid |-> "", fmuState |-> e.fmuState,
     setupComplete |-> e.setupComplete, simStarted |-> e.simStarted, phase |-> e.phase]

(* export_state of the proxy, and import_state of the handler, copy it back. *)
OffTheWire(e) ==
    [schemeVersion |-> e.schemeVersion, uuid |-> e.uuid, fmuState |-> e.fmuState,
     setupComplete |-> e.setupComplete, simStarted |-> e.simStarted, phase |-> e.phase]

(* The caller asks for a state with a handle it does not use, and uses an   *)
(* index it holds.                                                          *)
Call(w) ==
    /\ want = None
    /\ w.op \in Asking => held[w.h] = NoIndex
    /\ w.op \in Telling => held[w.h] # NoIndex
    /\ w.op = "import" => blob # None
    /\ want' = w
    /\ request' = [index    |-> IF w.op \in Telling THEN held[w.h] ELSE NoIndex,
                   exported |-> IF w.op = "import" THEN OnTheWire(blob) ELSE None]
    /\ UNCHANGED <<slaveVars, es, reply, held, blob>>

(* The handler's method begins: import_state fills a structure of its own,  *)
(* and export_state has an empty one.                                       *)
Begin ==
    /\ request # None /\ es = None
    /\ request.exported # None
    /\ es' = OffTheWire(request.exported)
    /\ UNCHANGED <<slaveVars, request, reply, want, held, blob>>

Simulate ==
    \/ Slave!SetupExperiment \/ Slave!EnterInitializationMode
    \/ Slave!ExitInitializationMode \/ Slave!Step \/ Slave!Terminate
    \/ Slave!SetVariables

(* A method that has no answer, or throws. *)
Nothing == [index |-> NoIndex, exported |-> None]

AnswersNothing == reply' = Nothing

AnswersIndex == reply' = [index |-> answered'[want.h], exported |-> None]

(* The handle whose state the index in the request stands for. *)
Addressed == CHOOSE h \in Handles : answered[h] = request.index

(* The slave's answer, or an exception from before the slave has done       *)
(* anything; an FMU that refuses is in Simulate.                            *)
Serve ==
    /\ request # None
    /\ request.exported # None => es # None
    /\ \/ want.op = "simulate" /\ Simulate /\ AnswersNothing
       \/ want.op = "save" /\ Slave!SaveState(want.h) /\ AnswersIndex
       \/ want.op = "import" /\ Slave!ImportState(want.h) /\ AnswersIndex
       \/ want.op = "saveByIndex" /\ Slave!SaveStateByIndex(Addressed) /\ AnswersNothing
       \/ want.op = "restore" /\ Slave!RestoreState(Addressed) /\ AnswersNothing
       \/ want.op = "release" /\ Slave!ReleaseState(Addressed) /\ AnswersNothing
       \/ /\ want.op = "export" /\ Slave!ExportState(Addressed)
          /\ reply' = [index |-> NoIndex, exported |-> OnTheWire(es')]
       \/ /\ want.op \notin {"simulate", "release"}
          /\ UNCHANGED <<slaveVars, es>>
          /\ AnswersNothing
    /\ request' = None
    /\ UNCHANGED <<want, held, blob>>

(* What the caller holds when it has the reply: an index it asked for, and  *)
(* none it has released, even if that threw.                                *)
Holds(h) ==
    IF want = None \/ want.op = "simulate" THEN held[h]
    ELSE IF want.h # h THEN held[h]
    ELSE CASE want.op \in Asking -> reply.index
           [] want.op = "release" -> NoIndex
           [] OTHER -> held[h]

Exported ==
    IF reply.exported # None THEN OffTheWire(reply.exported) ELSE blob

Return ==
    /\ reply # None
    /\ held' = [h \in Handles |-> Holds(h)]
    /\ blob' = Exported
    /\ reply' = None
    /\ es'    = None
    /\ want'  = None
    /\ UNCHANGED <<slaveVars, request>>

(* The caller comes by a state of another FMU or of another scheme. *)
ObtainForeign ==
    /\ want = None
    /\ CanSerializeFMUstate
    /\ \E scheme \in {0, 1}, uuid \in {"guid", "other"} :
          /\ scheme = 1 \/ uuid = "other"
          /\ blob' = [schemeVersion |-> scheme, uuid |-> uuid,
                      fmuState      |-> [mode |-> "instantiated", version |-> 0],
                      setupComplete |-> TRUE, simStarted |-> TRUE,
                      phase         |-> "created"]
    /\ UNCHANGED <<slaveVars, es, request, reply, want, held>>

Next ==
    \/ \E w \in Wants : Call(w)
    \/ Begin \/ Serve \/ Return \/ ObtainForeign

Spec == Init /\ [][Next]_vars

-----------------------------------------------------------------------------
(* Properties *)

(* Every variable keeps its type. *)
TypeOK ==
    /\ Slave!TypeOK
    /\ want \in Wants \cup {None}
    /\ held \in [Handles -> Nat \cup {NoIndex}]
    /\ blob \in Slave!Exports \cup {None}
    /\ request \in Messages \cup {None}
    /\ reply \in Messages \cup {None}

(* A caller cannot tell a proxy_slave from a slave in its own process: the  *)
(* state calls do, through proxy, wire and handler, what they do without    *)
(* them. The reply on the wire is the caller's already.                     *)
LocalIndex == [h \in Handles |-> IF reply = None THEN held[h] ELSE Holds(h)]
LocalBlob  == IF reply = None THEN blob ELSE Exported

Local == INSTANCE Fmi2Slave WITH index <- LocalIndex, blob <- LocalBlob

ProxyIsLikeLocal == Local!Spec
=============================================================================
