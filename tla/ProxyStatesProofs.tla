------------------------- MODULE ProxyStatesProofs --------------------------
(***************************************************************************)
(* Theorems about ProxyStates for every set of handles and of cells. The   *)
(* refinement is proved first, step by step, beside an invariant that says *)
(* where an index and an exported state are on their way; what             *)
(* Fmi2SlaveProofs shows of a slave then holds of one behind a proxy.      *)
(***************************************************************************)
EXTENDS ProxyStates, TLAPS

(* The slave as its caller sees it, with what is proved about it. *)
Facts == INSTANCE Fmi2SlaveProofs WITH index <- LocalIndex, blob <- LocalBlob

LocalVars == <<fmu, <<setupComplete, simStarted>>, freed,
               <<savedStates, savedStatesFreelist, heap>>,
               phase, <<LocalIndex, savedPhase, LocalBlob>>>>

(* What is on the wire belongs to the call the caller is in, and an index   *)
(* is the caller's as soon as its reply is out. No call frees the slave.    *)
Wire ==
    /\ freed = FALSE
    /\ want = None <=> request = None /\ reply = None
    /\ request = None \/ reply = None
    /\ want = None => es = None
    /\ request # None =>
          /\ request.index = IF want.op \in Telling THEN held[want.h] ELSE NoIndex
          /\ request.exported = IF want.op = "import" THEN OnTheWire(blob) ELSE None
          /\ es \in IF want.op = "import" THEN {None, blob} ELSE {None}
          /\ want.op = "import" => blob # None
          /\ want.op \in Asking => held[want.h] = NoIndex
          /\ want.op \in Telling => held[want.h] # NoIndex
    /\ LocalIndex = answered

(* Everything but the slave keeps its type. *)
Connection ==
    /\ es \in Slave!Exports \cup {None}
    /\ want \in Wants \cup {None}
    /\ held \in [Handles -> Nat \cup {NoIndex}]
    /\ blob \in Slave!Exports \cup {None}
    /\ request \in Messages \cup {None}
    /\ reply \in Messages \cup {None}

IInv == TypeOK /\ Wire /\ Facts!IInv

-----------------------------------------------------------------------------
(* The assumptions of Fmi2Slave are among those of ProxyStates. *)
LEMMA SlaveAssumptions ==
    /\ None \notin Facts!Copies \cup {Facts!Leaked}
    /\ None \notin Facts!Exports
    /\ None \notin [version : 0 .. MaxVersion, setupComplete : BOOLEAN,
                    simStarted : BOOLEAN, phase : Facts!Phases]
BY NoneAssumption DEF Facts!Copies, Facts!Leaked, Facts!Exports, Facts!Phases, Facts!Modes,
   Facts!Garbage, Slave!Copies, Slave!Leaked, Slave!Exports, Slave!Phases, Slave!Modes,
   Slave!Garbage

(* An exported state comes off the wire as it was put on it. *)
LEMMA RoundTrip ==
    ASSUME NEW e \in Slave!Exports
    PROVE  /\ OnTheWire(e) \in ExportedStates
           /\ OnTheWire(e) # None
           /\ OffTheWire(OnTheWire(e)) = e
<1>1. OnTheWire(e) \in ExportedStates
  BY DEF OnTheWire, ExportedStates, Slave!Exports
<1>2. OffTheWire(OnTheWire(e)) = e
  BY DEF OnTheWire, OffTheWire, Slave!Exports
<1> QED  BY <1>1, <1>2, NoneAssumption

(* Copying back gives an exported state. *)
LEMMA Unwired ==
    ASSUME NEW e \in ExportedStates
    PROVE  OffTheWire(e) \in Slave!Exports
BY DEF OffTheWire, ExportedStates, Slave!Exports

(* The types of the slave behind the proxy, in both vocabularies. *)
LEMMA SlaveType ==
    Facts!IInv /\ Wire /\ Connection => Slave!TypeOK
BY DEF Facts!TypeOK, Slave!TypeOK, Facts!Copies, Facts!SavedStates, Facts!Leaked,
   Facts!Phases, Facts!Modes, Facts!NoIndex, Slave!Copies, Slave!SavedStates, Slave!Leaked,
   Slave!Phases, Slave!Modes, Slave!NoIndex, Facts!IInv, Wire, Connection

(* A step of the local slave preserves its invariant. *)
LEMMA LocalPreserves ==
    ASSUME Facts!IInv, [Facts!Next]_LocalVars
    PROVE  Facts!IInv'
<1>1. CASE UNCHANGED LocalVars
  BY <1>1, Facts!Stuttering, SlaveAssumptions, ConstantsAssumption DEF LocalVars,
     Facts!vars, Facts!flags, Facts!tableVars, Facts!callerVars
<1>2. CASE Facts!Next
  BY <1>2, Facts!NextStep, SlaveAssumptions, ConstantsAssumption
<1> QED  BY <1>1, <1>2

-----------------------------------------------------------------------------
(* Local and Facts are the same specification. *)
LEMMA SameActions ==
    /\ Facts!SimulationCall <=> Local!SimulationCall
    /\ Facts!ObtainForeign <=> Local!ObtainForeign
    /\ \A h \in Handles : Facts!StateCall(h) <=> Local!StateCall(h)
<1>1. Facts!SimulationCall <=> Local!SimulationCall
  BY DEF Facts!SimulationCall, Facts!SetupExperiment, Facts!EnterInitializationMode,
     Facts!ExitInitializationMode, Facts!Step, Facts!Terminate, Facts!SetVariables,
     Facts!FreeInstance, Facts!Accept, Facts!Advance, Facts!Refuse, Facts!CallFrom,
     Facts!Succeeds, Facts!Fails, Facts!flags, Facts!tableVars, Facts!callerVars,
     Local!SimulationCall, Local!SetupExperiment, Local!EnterInitializationMode,
     Local!ExitInitializationMode, Local!Step, Local!Terminate, Local!SetVariables,
     Local!FreeInstance, Local!Accept, Local!Advance, Local!Refuse, Local!CallFrom,
     Local!Succeeds, Local!Fails, Local!flags, Local!tableVars, Local!callerVars
<1>2. Facts!ObtainForeign <=> Local!ObtainForeign
  BY DEF Facts!ObtainForeign, Facts!flags, Facts!tableVars, Local!ObtainForeign,
     Local!flags, Local!tableVars
<1>3. ASSUME NEW h \in Handles
      PROVE  /\ Facts!SaveState(h) <=> Local!SaveState(h)
             /\ Facts!ImportState(h) <=> Local!ImportState(h)
  BY DEF Facts!SaveState, Facts!ImportState, Facts!StoreNewState, Facts!Saved,
     Facts!Importable, Facts!Garbage, Facts!NoIndex, Facts!flags,
     Local!SaveState, Local!ImportState, Local!StoreNewState, Local!Saved,
     Local!Importable, Local!Garbage, Local!NoIndex, Local!flags
<1>4. ASSUME NEW h \in Handles
      PROVE  /\ Facts!SaveStateByIndex(h) <=> Local!SaveStateByIndex(h)
             /\ Facts!RestoreState(h) <=> Local!RestoreState(h)
             /\ Facts!ReleaseState(h) <=> Local!ReleaseState(h)
             /\ Facts!ExportState(h) <=> Local!ExportState(h)
  BY DEF Facts!SaveStateByIndex, Facts!RestoreState, Facts!ReleaseState,
     Facts!ExportState, Facts!Saved, Facts!Slot, Facts!Refuse, Facts!Fails,
     Facts!Leaked, Facts!Garbage, Facts!NoIndex, Facts!flags, Facts!tableVars,
     Facts!callerVars,
     Local!SaveStateByIndex, Local!RestoreState, Local!ReleaseState,
     Local!ExportState, Local!Saved, Local!Slot, Local!Refuse, Local!Fails,
     Local!Leaked, Local!Garbage, Local!NoIndex, Local!flags, Local!tableVars,
     Local!callerVars
<1> QED  BY <1>1, <1>2, <1>3, <1>4 DEF Facts!StateCall, Local!StateCall

LEMMA SameSpecification ==
    /\ Facts!Init <=> Local!Init
    /\ Facts!Next <=> Local!Next
    /\ UNCHANGED LocalVars <=> UNCHANGED (Local!vars)
<1>1. Facts!Next <=> Local!Next
  BY SameActions DEF Facts!Next, Local!Next
<1>2. Facts!Init <=> Local!Init
  BY DEF Facts!Init, Local!Init, Facts!NoIndex, Local!NoIndex
<1> QED  BY <1>1, <1>2 DEF LocalVars, Local!vars, Local!flags, Local!tableVars,
            Local!callerVars

(* What the slave in the child does is what the caller would see a slave of *)
(* its own do, if no reply is held back and no exported state is involved.  *)
LEMMA ServedSimulation ==
    ASSUME Simulate, LocalIndex = answered, LocalIndex' = answered',
           LocalBlob' = LocalBlob
    PROVE  Facts!SimulationCall /\ UNCHANGED <<freed, answered, es>>
BY DEF Simulate,
   Facts!SimulationCall, Facts!SetupExperiment, Facts!EnterInitializationMode,
   Facts!ExitInitializationMode, Facts!Step, Facts!Terminate, Facts!SetVariables,
   Facts!Accept, Facts!Advance, Facts!Refuse, Facts!CallFrom,
   Facts!Succeeds, Facts!Fails, Facts!flags, Facts!tableVars, Facts!callerVars,
   Slave!SetupExperiment, Slave!EnterInitializationMode,
   Slave!ExitInitializationMode, Slave!Step, Slave!Terminate, Slave!SetVariables,
   Slave!Accept, Slave!Advance, Slave!Refuse, Slave!CallFrom,
   Slave!Succeeds, Slave!Fails, Slave!flags, Slave!tableVars, Slave!callerVars

LEMMA ServedStateCall ==
    ASSUME NEW h \in Handles, LocalIndex = answered, LocalIndex' = answered',
           LocalBlob' = LocalBlob
    PROVE  /\ Slave!SaveState(h) => Facts!SaveState(h) /\ UNCHANGED <<freed, es>>
           /\ Slave!ImportState(h) /\ es = LocalBlob =>
                 Facts!ImportState(h) /\ UNCHANGED <<freed, es>>
           /\ Slave!SaveStateByIndex(h) =>
                 Facts!SaveStateByIndex(h) /\ UNCHANGED <<freed, answered, es>>
           /\ Slave!RestoreState(h) =>
                 Facts!RestoreState(h) /\ UNCHANGED <<freed, answered, es>>
           /\ Slave!ReleaseState(h) =>
                 Facts!ReleaseState(h) /\ UNCHANGED <<freed, es>>
<1>1. Slave!SaveState(h) => Facts!SaveState(h) /\ UNCHANGED <<freed, es>>
  BY DEF Facts!SaveState, Facts!StoreNewState, Facts!Saved, Facts!NoIndex, Facts!flags,
     Slave!SaveState, Slave!StoreNewState, Slave!Saved, Slave!NoIndex, Slave!flags
<1>2. Slave!ImportState(h) /\ es = LocalBlob =>
         Facts!ImportState(h) /\ UNCHANGED <<freed, es>>
  BY DEF Facts!ImportState, Facts!StoreNewState, Facts!Importable, Facts!Garbage,
     Facts!NoIndex, Facts!flags, Slave!ImportState, Slave!StoreNewState,
     Slave!Importable, Slave!Garbage, Slave!NoIndex, Slave!flags
<1>3. Slave!SaveStateByIndex(h) =>
         Facts!SaveStateByIndex(h) /\ UNCHANGED <<freed, answered, es>>
  BY DEF Facts!SaveStateByIndex, Facts!Slot, Facts!Saved, Facts!NoIndex, Facts!flags,
     Slave!SaveStateByIndex, Slave!Slot, Slave!Saved, Slave!NoIndex, Slave!flags
<1>4. Slave!RestoreState(h) =>
         Facts!RestoreState(h) /\ UNCHANGED <<freed, answered, es>>
  BY DEF Facts!RestoreState, Facts!Slot, Facts!Refuse, Facts!Fails, Facts!NoIndex,
     Facts!flags, Facts!tableVars, Facts!callerVars, Slave!RestoreState, Slave!Slot,
     Slave!Refuse, Slave!Fails, Slave!NoIndex, Slave!flags, Slave!tableVars,
     Slave!callerVars
<1>5. Slave!ReleaseState(h) => Facts!ReleaseState(h) /\ UNCHANGED <<freed, es>>
  BY DEF Facts!ReleaseState, Facts!Slot, Facts!Leaked, Facts!NoIndex, Facts!flags,
     Slave!ReleaseState, Slave!Slot, Slave!Leaked, Slave!NoIndex, Slave!flags
<1> QED  BY <1>1, <1>2, <1>3, <1>4, <1>5

LEMMA ServedExport ==
    ASSUME NEW h \in Handles, LocalIndex = answered, LocalIndex' = answered',
           es = None, LocalBlob' = es', Slave!ExportState(h)
    PROVE  Facts!ExportState(h) /\ UNCHANGED <<freed, answered>>
BY DEF Facts!ExportState, Facts!Slot, Facts!NoIndex, Facts!flags, Facts!tableVars,
   Slave!ExportState, Slave!Slot, Slave!NoIndex, Slave!flags, Slave!tableVars

-----------------------------------------------------------------------------
LEMMA ConnectionType == TypeOK => Connection
BY DEF TypeOK, Connection, Slave!TypeOK

(* As long as there is no reply the caller sees what it holds. *)
LEMMA BeforeReply ==
    ASSUME IInv, reply = None
    PROVE  LocalIndex = held /\ answered = held /\ LocalBlob = blob
<1>1. LocalIndex = held /\ LocalBlob = blob
  BY DEF IInv, TypeOK, LocalIndex, LocalBlob
<1> QED  BY <1>1 DEF IInv, Wire

LEMMA CallStep ==
    ASSUME IInv, NEW w \in Wants, Call(w)
    PROVE  Connection' /\ Wire' /\ UNCHANGED LocalVars
<1>1. /\ want = None /\ request = None /\ reply = None /\ es = None
      /\ freed = FALSE /\ LocalIndex = answered
  BY DEF IInv, Wire, Call
<1>2. /\ UNCHANGED <<slaveVars, es, reply, held, blob>>
      /\ want' = w /\ w # None
  BY NoneAssumption DEF Call
<1>3. LocalIndex' = LocalIndex /\ LocalBlob' = LocalBlob
  BY <1>1, <1>2 DEF LocalIndex, LocalBlob
<1>4. UNCHANGED LocalVars
  BY <1>2, <1>3 DEF LocalVars, slaveVars
<1>5. w.op \in Asking \cup Telling => w.h \in Handles
  BY DEF Wants, Asking, Telling
<1>6. /\ request'.index = IF w.op \in Telling THEN held[w.h] ELSE NoIndex
      /\ request'.exported = IF w.op = "import" THEN OnTheWire(blob) ELSE None
      /\ request' \in Messages
  <2>1. (IF w.op \in Telling THEN held[w.h] ELSE NoIndex) \in Nat \cup {NoIndex}
    BY <1>5 DEF IInv, TypeOK
  <2>2. (IF w.op = "import" THEN OnTheWire(blob) ELSE None) \in ExportedStates \cup {None}
    BY RoundTrip DEF Call, IInv, TypeOK
  <2> QED  BY <2>1, <2>2 DEF Call, Messages
<1>7. request' # None
  BY <1>6, NoneAssumption
<1>8. Connection'
  BY <1>2, <1>6, ConnectionType DEF IInv, Connection
<1>9. Wire'
  BY <1>1, <1>2, <1>3, <1>6, <1>7 DEF Wire, Call, slaveVars
<1> QED  BY <1>4, <1>8, <1>9

LEMMA BeginStep ==
    ASSUME IInv, Begin
    PROVE  Connection' /\ Wire' /\ UNCHANGED LocalVars
<1>1. /\ request # None /\ reply = None /\ want # None
      /\ want.op = "import" /\ request.exported = OnTheWire(blob) /\ blob # None
  BY DEF IInv, Wire, Begin
<1>2. es' = blob
  BY <1>1, RoundTrip DEF Begin, IInv, TypeOK
<1>3. UNCHANGED <<slaveVars, request, reply, want, held, blob>>
  BY DEF Begin
<1>4. LocalIndex' = LocalIndex /\ LocalBlob' = LocalBlob
  BY <1>1, <1>3 DEF LocalIndex, LocalBlob
<1>5. UNCHANGED LocalVars
  BY <1>3, <1>4 DEF LocalVars, slaveVars
<1>6. Connection'
  BY <1>2, <1>3, ConnectionType DEF IInv, Connection
<1>7. Wire'
  BY <1>1, <1>2, <1>3, <1>4 DEF IInv, Wire, slaveVars
<1> QED  BY <1>5, <1>6, <1>7

(* The caller takes what it already sees. *)
LEMMA ReturnStep ==
    ASSUME IInv, Return
    PROVE  Connection' /\ Wire' /\ UNCHANGED LocalVars
<1>1. /\ reply # None /\ request = None
      /\ freed = FALSE /\ LocalIndex = answered
  BY DEF IInv, Wire, Return
<1>2. /\ held' = LocalIndex /\ blob' = LocalBlob
      /\ reply' = None /\ es' = None /\ want' = None
      /\ UNCHANGED <<slaveVars, request>>
  BY <1>1 DEF Return, LocalIndex, LocalBlob
<1>3. /\ LocalIndex \in [Handles -> Nat \cup {NoIndex}]
      /\ LocalBlob \in Slave!Exports \cup {None}
  BY DEF IInv, Facts!IInv, Facts!TypeOK, Facts!NoIndex, Facts!Exports, Facts!Copies,
     Facts!Garbage, Facts!Phases, Facts!Modes, NoIndex, Slave!NoIndex, Slave!Exports,
     Slave!Copies, Slave!Garbage, Slave!Phases, Slave!Modes
<1>4. LocalIndex' = LocalIndex /\ LocalBlob' = LocalBlob
  <2>1. LocalIndex' = held' /\ LocalBlob' = blob'
    BY <1>2, <1>3 DEF LocalIndex, LocalBlob
  <2> QED  BY <2>1, <1>2
<1>5. UNCHANGED LocalVars
  BY <1>2, <1>4 DEF LocalVars, slaveVars
<1>6. Connection'
  BY <1>1, <1>2, <1>3 DEF Connection
<1>7. Wire'
  BY <1>1, <1>2, <1>4 DEF Wire, slaveVars
<1> QED  BY <1>5, <1>6, <1>7

LEMMA ObtainForeignStep ==
    ASSUME IInv, ObtainForeign
    PROVE  Connection' /\ Wire' /\ Facts!Next
<1>1. /\ want = None /\ request = None /\ reply = None /\ es = None
      /\ freed = FALSE /\ LocalIndex = answered
  BY DEF IInv, Wire, ObtainForeign
<1>2. UNCHANGED <<slaveVars, es, request, reply, want, held>>
  BY DEF ObtainForeign
<1>3. LocalIndex' = LocalIndex /\ LocalBlob' = blob'
  BY <1>1, <1>2 DEF LocalIndex, LocalBlob
<1>4. blob' \in Slave!Exports
  BY ConstantsAssumption DEF ObtainForeign, Slave!Exports, Slave!Copies, Slave!Modes,
     Slave!Phases
<1>5. Facts!ObtainForeign
  BY <1>2, <1>3 DEF ObtainForeign, Facts!ObtainForeign, Facts!flags, Facts!tableVars,
     slaveVars
<1>6. Connection'
  BY <1>2, <1>4, ConnectionType DEF IInv, Connection
<1>7. Wire'
  BY <1>1, <1>2, <1>3 DEF Wire, slaveVars
<1> QED  BY <1>1, <1>5, <1>6, <1>7 DEF Facts!Next

-----------------------------------------------------------------------------
(* While a method runs the caller sees what it held when it called. *)
LEMMA DuringMethod ==
    ASSUME IInv, request # None
    PROVE  /\ reply = None /\ want \in Wants /\ want # None /\ freed = FALSE
           /\ answered = held /\ LocalIndex = answered /\ LocalBlob = blob
           /\ answered \in [Handles -> Nat \cup {NoIndex}]
           /\ want.op \in Asking \cup Telling => want.h \in Handles
<1>1. reply = None /\ want \in Wants /\ want # None /\ freed = FALSE
  BY DEF IInv, Wire, TypeOK
<1>2. want.op \in Asking \cup Telling => want.h \in Handles
  BY <1>1 DEF Wants, Asking, Telling
<1> QED  BY <1>1, <1>2, BeforeReply DEF IInv, TypeOK

(* What remains to show of a method once its answer is known. *)
LEMMA MethodEnds ==
    ASSUME IInv, Serve, reply' \in Messages, UNCHANGED freed,
           es' \in Slave!Exports \cup {None}, LocalIndex' = answered'
    PROVE  Connection' /\ Wire'
<1>1. request # None /\ request' = None /\ UNCHANGED <<want, held, blob>>
  BY DEF Serve
<1>2. want # None /\ freed = FALSE
  BY <1>1, DuringMethod
<1>3. reply' # None
  BY NoneAssumption
<1>4. Connection'
  BY <1>1, ConnectionType DEF IInv, Connection
<1> QED  BY <1>1, <1>2, <1>3, <1>4 DEF Wire

(* What the caller sees once the answer is on the wire. *)
LEMMA AnswerSeen ==
    ASSUME IInv, request # None, UNCHANGED <<want, held, blob>>,
           NEW i \in Nat \cup {NoIndex},
           NEW e \in Slave!Exports \cup {None},
           reply' = [index    |-> i,
                     exported |-> IF e = None THEN None ELSE OnTheWire(e)]
    PROVE  /\ reply' \in Messages
           /\ LocalBlob' = IF e = None THEN blob ELSE e
           /\ LocalIndex' = IF want.op \in Asking THEN [answered EXCEPT ![want.h] = i]
                            ELSE IF want.op = "release"
                            THEN [answered EXCEPT ![want.h] = NoIndex]
                            ELSE answered
<1>1. reply' \in Messages /\ reply' # None
  BY RoundTrip, NoneAssumption DEF Messages
<1>2. LocalBlob' = IF e = None THEN blob ELSE e
  BY <1>1, RoundTrip DEF LocalBlob, Exported
<1>3. /\ want # None /\ want \in Wants /\ answered = held
      /\ answered \in [Handles -> Nat \cup {NoIndex}]
      /\ want.op \in Asking \cup Telling => want.h \in Handles
  BY DuringMethod
<1>4. LocalIndex' = [h \in Handles |-> Holds(h)']
  BY <1>1 DEF LocalIndex
<1>5. LocalIndex' = IF want.op \in Asking THEN [answered EXCEPT ![want.h] = i]
                    ELSE IF want.op = "release"
                    THEN [answered EXCEPT ![want.h] = NoIndex]
                    ELSE answered
  <2>1. CASE want.op \in Asking
    <3>1. \A h \in Handles : Holds(h)' = IF h = want.h THEN i ELSE answered[h]
      BY <1>3, <2>1 DEF Holds, Asking
    <3>2. [answered EXCEPT ![want.h] = i]
          = [h \in Handles |-> IF h = want.h THEN i ELSE answered[h]]
      BY <1>3, <2>1
    <3> QED  BY <1>4, <2>1, <3>1, <3>2
  <2>2. CASE want.op = "release"
    <3>1. \A h \in Handles : Holds(h)' = IF h = want.h THEN NoIndex ELSE answered[h]
      BY <1>3, <2>2 DEF Holds, Asking
    <3>2. want.op \notin Asking /\ want.h \in Handles
      BY <1>3, <2>2 DEF Asking, Telling
    <3>3. [answered EXCEPT ![want.h] = NoIndex]
          = [h \in Handles |-> IF h = want.h THEN NoIndex ELSE answered[h]]
      BY <1>3, <3>2
    <3> QED  BY <1>4, <2>2, <3>1, <3>2, <3>3
  <2>3. CASE want.op \notin Asking /\ want.op # "release"
    <3>1. \A h \in Handles : Holds(h)' = answered[h]
      BY <1>3, <2>3 DEF Holds
    <3>2. answered = [h \in Handles |-> answered[h]]
      BY <1>3
    <3> QED  BY <1>4, <2>3, <3>1, <3>2
  <2> QED  BY <2>1, <2>2, <2>3
<1> QED  BY <1>1, <1>2, <1>5

(* The index in a request stands for the handle the caller is asking with. *)
LEMMA AddressedIsWanted ==
    ASSUME IInv, request # None, want.op \in Telling
    PROVE  /\ Addressed = want.h
           /\ want.h \in Handles
           /\ want.h \in Facts!Held
<1>1. /\ want.h \in Handles
      /\ answered[want.h] = request.index
      /\ answered[want.h] # NoIndex
      /\ LocalIndex = answered
  BY DuringMethod DEF IInv, Wire
<1>2. Addressed \in Handles /\ answered[Addressed] = request.index
  BY <1>1 DEF Addressed
<1>3. want.h \in Facts!Held /\ Addressed \in Facts!Held
  BY <1>1, <1>2 DEF Facts!Held, Facts!NoIndex, NoIndex, Slave!NoIndex
<1>4. \A g, h \in Facts!Held : answered[g] = answered[h] => g = h
  BY <1>1 DEF IInv, Facts!IInv, Facts!Table, Facts!NoIndexShared
<1> QED  BY <1>1, <1>2, <1>3, <1>4

LEMMA NothingSeen ==
    ASSUME IInv, request # None, UNCHANGED <<want, held, blob>>, AnswersNothing,
           want.op # "release"
    PROVE  reply' \in Messages /\ LocalBlob' = LocalBlob /\ LocalIndex' = answered
<1>1. reply' = [index    |-> NoIndex,
                exported |-> IF None = None THEN None ELSE OnTheWire(None)]
  BY DEF AnswersNothing, Nothing
<1>2. /\ reply' \in Messages
      /\ LocalBlob' = blob
      /\ LocalIndex' = IF want.op \in Asking THEN [answered EXCEPT ![want.h] = NoIndex]
                       ELSE answered
  BY <1>1, AnswerSeen
<1>3. want.op \in Asking => [answered EXCEPT ![want.h] = NoIndex] = answered
  BY DuringMethod DEF IInv, Wire
<1> QED  BY <1>2, <1>3, DuringMethod

-----------------------------------------------------------------------------
(* A new state has an index, and only its handle's changes. *)
LEMMA NewIndex ==
    ASSUME IInv, NEW h \in Handles, NEW state, Slave!StoreNewState(h, state)
    PROVE  \E i \in Nat : answered' = [answered EXCEPT ![h] = i] /\ answered'[h] = i
<1>1. /\ answered \in [Handles -> Nat \cup {NoIndex}]
      /\ Len(savedStates) \in Nat
      /\ savedStatesFreelist # <<>> => Head(savedStatesFreelist) \in Nat
  BY DEF IInv, TypeOK, Slave!TypeOK, NoIndex
<1>2. \E i \in Nat : answered' = [answered EXCEPT ![h] = i]
  BY <1>1 DEF Slave!StoreNewState
<1> QED  BY <1>1, <1>2

(* save_state() and import_state: the index is answered. *)
LEMMA AskingServed ==
    ASSUME IInv, Serve, AnswersIndex, want.op \in Asking,
           \/ want.op = "save" /\ Slave!SaveState(want.h)
           \/ want.op = "import" /\ Slave!ImportState(want.h)
    PROVE  Connection' /\ Wire' /\ Facts!Next
<1>1. /\ request # None /\ UNCHANGED <<want, held, blob>>
      /\ request.exported # None => es # None
  BY DEF Serve
<1>2. want.h \in Handles /\ freed = FALSE /\ LocalIndex = answered /\ LocalBlob = blob
  BY <1>1, DuringMethod
<1>3. UNCHANGED <<freed, es>>
  BY DEF Slave!SaveState, Slave!ImportState
<1>4. PICK i \in Nat : answered' = [answered EXCEPT ![want.h] = i] /\ answered'[want.h] = i
  <2>1. \E state : Slave!StoreNewState(want.h, state)
    BY DEF Slave!SaveState, Slave!ImportState
  <2> QED  BY <1>2, <2>1, NewIndex
<1>5. reply' = [index |-> i, exported |-> IF None = None THEN None ELSE OnTheWire(None)]
  BY <1>4 DEF AnswersIndex
<1>6. /\ reply' \in Messages
      /\ LocalBlob' = LocalBlob
      /\ LocalIndex' = answered'
  BY <1>1, <1>2, <1>4, <1>5, AnswerSeen
<1>7. want.op = "import" => es = LocalBlob
  <2>1. want.op = "import" => request.exported = OnTheWire(blob) /\ blob # None
    BY <1>1 DEF IInv, Wire
  <2>2. want.op = "import" => request.exported # None
    BY <2>1, RoundTrip DEF IInv, TypeOK
  <2> QED  BY <1>1, <1>2, <2>2 DEF IInv, Wire
<1>8. Facts!StateCall(want.h)
  BY <1>2, <1>6, <1>7, ServedStateCall DEF Facts!StateCall
<1>9. Facts!Next
  BY <1>2, <1>8 DEF Facts!Next
<1>10. es' \in Slave!Exports \cup {None}
  BY <1>3, ConnectionType DEF IInv, Connection
<1> QED  BY <1>3, <1>6, <1>9, <1>10, MethodEnds

(* save_state(stateIndex), restore_state and release_state. *)
LEMMA TellingServed ==
    ASSUME IInv, Serve, AnswersNothing,
           \/ want.op = "saveByIndex" /\ Slave!SaveStateByIndex(Addressed)
           \/ want.op = "restore" /\ Slave!RestoreState(Addressed)
           \/ want.op = "release" /\ Slave!ReleaseState(Addressed)
    PROVE  Connection' /\ Wire' /\ Facts!Next
<1>1. request # None /\ UNCHANGED <<want, held, blob>>
  BY DEF Serve
<1>2. want.h \in Handles /\ Addressed = want.h
  BY <1>1, AddressedIsWanted DEF Telling
<1>3. freed = FALSE /\ LocalIndex = answered /\ LocalBlob = blob
  BY <1>1, DuringMethod
<1>4. UNCHANGED <<freed, es>>
  BY DEF Slave!SaveStateByIndex, Slave!RestoreState, Slave!ReleaseState, Slave!flags,
     Slave!callerVars
<1>5. reply' = [index    |-> NoIndex,
                exported |-> IF None = None THEN None ELSE OnTheWire(None)]
  BY DEF AnswersNothing, Nothing
<1>6. answered' = IF want.op = "release" THEN [answered EXCEPT ![want.h] = NoIndex]
                  ELSE answered
  BY <1>2 DEF Slave!SaveStateByIndex, Slave!RestoreState, Slave!ReleaseState,
     Slave!callerVars, NoIndex
<1>7. /\ reply' \in Messages
      /\ LocalBlob' = LocalBlob
      /\ LocalIndex' = answered'
  BY <1>1, <1>3, <1>5, <1>6, AnswerSeen DEF Asking
<1>8. Facts!StateCall(want.h)
  BY <1>2, <1>3, <1>7, ServedStateCall DEF Facts!StateCall
<1>9. Facts!Next
  BY <1>2, <1>3, <1>8 DEF Facts!Next
<1>10. es' \in Slave!Exports \cup {None}
  BY <1>4, ConnectionType DEF IInv, Connection
<1> QED  BY <1>4, <1>7, <1>9, <1>10, MethodEnds

(* export_state: the caller sees what the handler's structure was filled    *)
(* with.                                                                    *)
LEMMA ExportServed ==
    ASSUME IInv, Serve, want.op = "export", Slave!ExportState(Addressed),
           reply' = [index |-> NoIndex, exported |-> OnTheWire(es')]
    PROVE  Connection' /\ Wire' /\ Facts!Next
<1>1. request # None /\ UNCHANGED <<want, held, blob>>
  BY DEF Serve
<1>2. want.h \in Handles /\ Addressed = want.h /\ want.h \in Facts!Held
  BY <1>1, AddressedIsWanted DEF Telling
<1>3. freed = FALSE /\ LocalIndex = answered /\ LocalBlob = blob
  BY <1>1, DuringMethod
<1>4. es = None
  BY <1>1 DEF IInv, Wire
<1>5. es' \in Slave!Exports
  <2>1. /\ Facts!Slot(LocalIndex[want.h]) \in Facts!SavedStates
        /\ heap[Facts!Slot(LocalIndex[want.h]).fmuState] \in Facts!Copies
    BY <1>2, Facts!HeldSlot, SlaveAssumptions, ConstantsAssumption DEF IInv, Facts!IInv
  <2>2. savedPhase[want.h] \in Slave!Phases
    BY <1>2 DEF IInv, TypeOK, Slave!TypeOK
  <2> QED  BY <1>2, <1>3, <1>4, <2>1, <2>2 DEF Slave!ExportState, Slave!Exports,
              Slave!Slot, Facts!Slot, Facts!SavedStates, Facts!Copies, Facts!Modes,
              Slave!Copies, Slave!Modes
<1>6. es' # None
  BY <1>5, NoneAssumption
<1>7. UNCHANGED <<freed, answered>>
  BY DEF Slave!ExportState, Slave!flags
<1>8. reply' = [index    |-> NoIndex,
                exported |-> IF es' = None THEN None ELSE OnTheWire(es')]
  BY <1>6
<1>9. /\ reply' \in Messages
      /\ LocalBlob' = es'
      /\ LocalIndex' = answered'
  BY <1>1, <1>5, <1>6, <1>7, <1>8, AnswerSeen DEF Asking
<1>10. Facts!StateCall(want.h)
  BY <1>2, <1>3, <1>4, <1>9, ServedExport DEF Facts!StateCall
<1>11. Facts!Next
  BY <1>2, <1>3, <1>10 DEF Facts!Next
<1> QED  BY <1>5, <1>7, <1>9, <1>11, MethodEnds

(* A call of the simulation, and a method that throws before the slave has  *)
(* done anything.                                                           *)
LEMMA SimulateServed ==
    ASSUME IInv, Serve, want.op = "simulate", Simulate, AnswersNothing
    PROVE  Connection' /\ Wire' /\ Facts!Next
<1>1. request # None /\ UNCHANGED <<want, held, blob>>
  BY DEF Serve
<1>2. freed = FALSE /\ LocalIndex = answered
  BY <1>1, DuringMethod
<1>3. UNCHANGED <<freed, answered, es>>
  BY DEF Simulate, Slave!SetupExperiment, Slave!EnterInitializationMode,
     Slave!ExitInitializationMode, Slave!Step, Slave!Terminate, Slave!SetVariables,
     Slave!callerVars
<1>4. reply' \in Messages /\ LocalBlob' = LocalBlob /\ LocalIndex' = answered'
  BY <1>1, <1>3, NothingSeen
<1>5. Facts!SimulationCall
  BY <1>2, <1>4, ServedSimulation
<1>6. Facts!Next
  BY <1>2, <1>5 DEF Facts!Next
<1>7. es' \in Slave!Exports \cup {None}
  BY <1>3, ConnectionType DEF IInv, Connection
<1> QED  BY <1>3, <1>4, <1>6, <1>7, MethodEnds

LEMMA ThrowServed ==
    ASSUME IInv, Serve, want.op # "release", UNCHANGED <<slaveVars, es>>, AnswersNothing
    PROVE  Connection' /\ Wire' /\ UNCHANGED LocalVars
<1>1. request # None /\ UNCHANGED <<want, held, blob>>
  BY DEF Serve
<1>2. UNCHANGED <<fmu, setupComplete, simStarted, freed, savedStates,
                  savedStatesFreelist, heap, phase, savedPhase, answered>>
  BY DEF slaveVars
<1>3. LocalIndex = answered
  BY <1>1, DuringMethod
<1>4. reply' \in Messages /\ LocalBlob' = LocalBlob /\ LocalIndex' = answered'
  BY <1>1, <1>2, NothingSeen
<1>5. es' \in Slave!Exports \cup {None}
  BY ConnectionType DEF IInv, Connection
<1>6. UNCHANGED LocalVars
  BY <1>2, <1>3, <1>4 DEF LocalVars
<1> QED  BY <1>2, <1>4, <1>5, <1>6, MethodEnds

LEMMA ServeStep ==
    ASSUME IInv, Serve
    PROVE  Connection' /\ Wire' /\ [Facts!Next]_LocalVars
<1>1. CASE want.op = "simulate" /\ Simulate /\ AnswersNothing
  BY <1>1, SimulateServed
<1>2. CASE \/ want.op = "save" /\ Slave!SaveState(want.h) /\ AnswersIndex
           \/ want.op = "import" /\ Slave!ImportState(want.h) /\ AnswersIndex
  BY <1>2, AskingServed DEF Asking
<1>3. CASE \/ want.op = "saveByIndex" /\ Slave!SaveStateByIndex(Addressed) /\ AnswersNothing
           \/ want.op = "restore" /\ Slave!RestoreState(Addressed) /\ AnswersNothing
           \/ want.op = "release" /\ Slave!ReleaseState(Addressed) /\ AnswersNothing
  BY <1>3, TellingServed
<1>4. CASE /\ want.op = "export" /\ Slave!ExportState(Addressed)
           /\ reply' = [index |-> NoIndex, exported |-> OnTheWire(es')]
  BY <1>4, ExportServed
<1>5. CASE /\ want.op \notin {"simulate", "release"}
           /\ UNCHANGED <<slaveVars, es>>
           /\ AnswersNothing
  BY <1>5, ThrowServed
<1> QED  BY <1>1, <1>2, <1>3, <1>4, <1>5 DEF Serve

-----------------------------------------------------------------------------
LEMMA Initially == Init => IInv /\ Local!Init
<1> SUFFICES ASSUME Init PROVE IInv /\ Local!Init
  OBVIOUS
<1>1. /\ request = None /\ reply = None /\ want = None /\ held = answered
      /\ blob = None /\ es = None /\ freed = FALSE
      /\ answered = [h \in Handles |-> NoIndex]
  BY DEF Init, Slave!Init, NoIndex
<1>2. LocalIndex = answered /\ LocalBlob = None
  BY <1>1 DEF LocalIndex, LocalBlob
<1>3. Facts!Init
  BY <1>1, <1>2 DEF Init, Slave!Init, Facts!Init, Slave!NoIndex, Facts!NoIndex, NoIndex
<1>4. Facts!IInv
  BY <1>3, Facts!Initially, SlaveAssumptions, ConstantsAssumption
<1>5. Wire
  BY <1>1, <1>2 DEF Wire
<1>6. Connection
  BY <1>1 DEF Connection
<1>7. TypeOK
  BY <1>4, <1>5, <1>6, SlaveType DEF TypeOK, Connection
<1> QED  BY <1>3, <1>4, <1>5, <1>7, SameSpecification DEF IInv

(* Every step keeps the connection consistent and is, for the caller, a     *)
(* step of a slave of its own or none.                                      *)
LEMMA Moves ==
    ASSUME IInv, Next
    PROVE  Connection' /\ Wire' /\ [Facts!Next]_LocalVars
<1>1. ASSUME NEW w \in Wants, Call(w)
      PROVE  Connection' /\ Wire' /\ [Facts!Next]_LocalVars
  BY <1>1, CallStep
<1>2. CASE Begin
  BY <1>2, BeginStep
<1>3. CASE Serve
  BY <1>3, ServeStep
<1>4. CASE Return
  BY <1>4, ReturnStep
<1>5. CASE ObtainForeign
  BY <1>5, ObtainForeignStep
<1> QED  BY <1>1, <1>2, <1>3, <1>4, <1>5 DEF Next

LEMMA NextStep == IInv /\ Next => IInv' /\ [Local!Next]_(Local!vars)
<1> SUFFICES ASSUME IInv, Next PROVE IInv' /\ [Local!Next]_(Local!vars)
  OBVIOUS
<1>1. Connection' /\ Wire' /\ [Facts!Next]_LocalVars
  BY Moves
<1>2. Facts!IInv'
  BY <1>1, LocalPreserves DEF IInv
<1>3. Slave!TypeOK'
  BY <1>1, <1>2, SlaveType, PTL
<1>4. TypeOK'
  BY <1>1, <1>3 DEF TypeOK, Connection
<1> QED  BY <1>1, <1>2, <1>4, SameSpecification DEF IInv

LEMMA Stuttering == IInv /\ UNCHANGED vars => IInv' /\ UNCHANGED (Local!vars)
<1> SUFFICES ASSUME IInv, UNCHANGED vars PROVE IInv' /\ UNCHANGED (Local!vars)
  OBVIOUS
<1>1. UNCHANGED <<fmu, setupComplete, simStarted, freed, savedStates,
                  savedStatesFreelist, heap, phase, savedPhase, answered, es, request,
                  reply, want, held, blob>>
  BY DEF vars, slaveVars
<1>2. LocalIndex' = LocalIndex /\ LocalBlob' = LocalBlob
  BY <1>1 DEF LocalIndex, LocalBlob, Holds, Exported
<1>3. UNCHANGED LocalVars
  BY <1>1, <1>2 DEF LocalVars
<1>4. Facts!IInv'
  BY <1>3, LocalPreserves DEF IInv
<1>5. Connection' /\ Wire'
  BY <1>1, <1>2, ConnectionType DEF IInv, Connection, Wire
<1>6. Slave!TypeOK'
  BY <1>4, <1>5, SlaveType, PTL
<1>7. TypeOK'
  BY <1>5, <1>6 DEF TypeOK, Connection
<1> QED  BY <1>3, <1>4, <1>5, <1>7, SameSpecification DEF IInv

(* The inductive invariant, of which the properties below are parts. *)
THEOREM Inductive == Spec => []IInv
<1>1. Init => IInv
  BY Initially
<1>2. IInv /\ [Next]_vars => IInv'
  BY NextStep, Stuttering
<1> QED  BY <1>1, <1>2, PTL DEF Spec

(* Every variable keeps its type. *)
THEOREM TypeCorrect == Spec => []TypeOK
<1>1. IInv => TypeOK
  BY DEF IInv
<1> QED  BY <1>1, Inductive, PTL

(* Behind the proxy the state calls do what they do on a slave in the       *)
(* caller's own process, for every set of handles and of cells              *)
(* (proxy_slave.cpp:238-281, fmu_service_handler.cpp:126-171).              *)
THEOREM ProxyRefinesLocal == Spec => ProxyIsLikeLocal
<1>1. Init => Local!Init
  BY Initially
<1>2. IInv /\ [Next]_vars => [Local!Next]_(Local!vars)
  BY NextStep, Stuttering
<1> QED  BY <1>1, <1>2, Inductive, PTL DEF Spec, ProxyIsLikeLocal, Local!Spec

(* What the caller holds stands for a state of the child: no two of its     *)
(* indices are one slot, and the FMU's copy behind each is memory nobody    *)
(* has freed (fmi2_slave.cpp:208-253 behind proxy_slave.cpp:238-256).       *)
THEOREM ProxiedIndicesAreLive == Spec => [](Facts!NoIndexShared /\ Facts!HeldStatesLive)
<1>1. IInv => Facts!NoIndexShared /\ Facts!HeldStatesLive
  BY DEF IInv, Facts!IInv, Facts!Table
<1> QED  BY <1>1, Inductive, PTL

(* The caller's indices are, through proxy, wire and child, a store of      *)
(* whole states: the abstract store of SlaveStates.                         *)
THEOREM ProxyStoresStates == Spec => Facts!StatesAreStored
<1>1. Init => Facts!Init
  BY Initially, SameSpecification
<1>2. IInv /\ [Next]_vars => [Facts!Next]_LocalVars
  BY NextStep, Stuttering, SameSpecification
<1>3. UNCHANGED LocalVars <=> UNCHANGED (Facts!vars)
  BY DEF LocalVars, Facts!vars, Facts!flags, Facts!tableVars, Facts!callerVars
<1>4. IInv /\ [Next]_vars => [Facts!Next]_(Facts!vars)
  BY <1>2, <1>3
<1>5. Spec => Facts!Spec
  BY <1>1, <1>4, Inductive, PTL DEF Spec, Facts!Spec
<1>6. Facts!Spec => Facts!StatesAreStored
  BY Facts!Refinement, SlaveAssumptions, ConstantsAssumption
<1> QED  BY <1>5, <1>6, PTL
=============================================================================
