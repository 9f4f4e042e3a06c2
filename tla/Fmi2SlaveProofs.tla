-------------------------- MODULE Fmi2SlaveProofs ---------------------------
(* Theorems about Fmi2Slave for every set of handles and of cells. *)
EXTENDS Fmi2Slave, TLAPS

(* The table and its freelist. *)
Table == NoIndexShared /\ NoSlotLost

(* save_state and import_state get an index nobody holds and a slot of their *)
(* own, and disturb no other slot in use.                                   *)
LEMMA NewStateStored ==
    ASSUME TypeOK, Table,
           NEW h \in Handles, index[h] = NoIndex,
           NEW state \in SavedStates,
           StoreNewState(h, state)
    PROVE  /\ savedStates' \in Seq(SavedStates)
           /\ savedStatesFreelist' \in Seq(Nat)
           /\ Table'
           /\ \E i \in 0 .. Len(savedStates') - 1 :
                 /\ index' = [index EXCEPT ![h] = i]
                 /\ savedStates'[i + 1] = state
                 /\ \A g \in Held : /\ index[g] # i
                                    /\ savedStates'[index[g] + 1] = Slot(index[g])
<1>1. \A g \in Held : index[g] \in 0 .. Len(savedStates) - 1 /\ g # h
  <2> SUFFICES ASSUME NEW g \in Held
               PROVE  index[g] \in 0 .. Len(savedStates) - 1 /\ g # h
    OBVIOUS
  <2>1. index[g] \in Nat /\ g # h
    BY DEF TypeOK, Held
  <2>2. index[g] < Len(savedStates) /\ Len(savedStates) \in Nat
    BY DEF TypeOK, Table, NoIndexShared
  <2> QED  BY <2>1, <2>2
<1>2. ASSUME NEW i \in Nat, index' = [index EXCEPT ![h] = i]
      PROVE  /\ Held' = Held \cup {h}
             /\ index'[h] = i
             /\ \A g \in Held : index'[g] = index[g]
  BY <1>1, <1>2 DEF TypeOK, Held, NoIndex
<1>3. CASE savedStatesFreelist = <<>>
  <2> DEFINE i == Len(savedStates)
  <2>1. /\ savedStates' = Append(savedStates, state)
        /\ index' = [index EXCEPT ![h] = i]
        /\ savedStatesFreelist' = <<>>
    BY <1>3 DEF StoreNewState
  <2>2. /\ i \in Nat
        /\ savedStates' \in Seq(SavedStates)
        /\ Len(savedStates') = i + 1
        /\ savedStates'[i + 1] = state
        /\ \A n \in 1 .. i : savedStates'[n] = savedStates[n]
    BY <2>1 DEF TypeOK
  <2> HIDE DEF i
  <2>3. /\ Held' = Held \cup {h}
        /\ index'[h] = i
        /\ \A g \in Held : index'[g] = index[g]
    BY <1>2, <2>1, <2>2
  <2>4. i = Len(savedStates)
    BY DEF i
  <2>5. \A g \in Held : index[g] # i /\ savedStates'[index[g] + 1] = Slot(index[g])
    BY <1>1, <2>2, <2>4 DEF Slot
  <2>6. NoIndexShared'
    BY <1>1, <2>1, <2>2, <2>3, <2>4 DEF Table, NoIndexShared
  <2>7. NoSlotLost'
    BY <1>3, <2>1, <2>2, <2>3, <2>4 DEF Table, NoSlotLost
  <2>8. savedStatesFreelist' \in Seq(Nat) /\ i \in 0 .. Len(savedStates') - 1
    BY <2>1, <2>2
  <2> QED  BY <2>1, <2>2, <2>5, <2>6, <2>7, <2>8 DEF Table
<1>4. CASE savedStatesFreelist # <<>>
  <2> DEFINE i == Head(savedStatesFreelist)
  <2>1. /\ savedStates' = [savedStates EXCEPT ![i + 1] = state]
        /\ index' = [index EXCEPT ![h] = i]
        /\ savedStatesFreelist' = Tail(savedStatesFreelist)
    BY <1>4 DEF StoreNewState
  <2>2. /\ i = savedStatesFreelist[1]
        /\ i \in Nat
        /\ 1 \in DOMAIN savedStatesFreelist
        /\ i < Len(savedStates)
    BY <1>4 DEF TypeOK, Table, NoIndexShared
  <2>3. /\ savedStatesFreelist' \in Seq(Nat)
        /\ Len(savedStatesFreelist') = Len(savedStatesFreelist) - 1
        /\ \A n \in DOMAIN savedStatesFreelist' :
              /\ n + 1 \in DOMAIN savedStatesFreelist
              /\ n + 1 # 1
              /\ savedStatesFreelist'[n] = savedStatesFreelist[n + 1]
    BY <1>4, <2>1 DEF TypeOK
  <2>4. /\ savedStates' \in Seq(SavedStates)
        /\ Len(savedStates') = Len(savedStates)
        /\ savedStates'[i + 1] = state
        /\ \A n \in 1 .. Len(savedStates) :
              n # i + 1 => savedStates'[n] = savedStates[n]
    BY <2>1, <2>2 DEF TypeOK
  <2>5. /\ Held' = Held \cup {h}
        /\ index'[h] = i
        /\ \A g \in Held : index'[g] = index[g]
    BY <1>2, <2>1, <2>2
  <2>6. \A g \in Held : index[g] # i
    BY <2>2 DEF Table, NoIndexShared
  <2>7. \A g \in Held : savedStates'[index[g] + 1] = Slot(index[g])
    BY <1>1, <2>2, <2>4, <2>6 DEF Slot
  <2>8. \A n \in DOMAIN savedStatesFreelist' : savedStatesFreelist'[n] # i
    BY <2>2, <2>3 DEF Table, NoIndexShared
  <2>9. NoIndexShared'
    <3>1. \A f, g \in Held' : index'[f] = index'[g] => f = g
      BY <2>5, <2>6 DEF Table, NoIndexShared
    <3>2. \A g \in Held' : index'[g] < Len(savedStates')
      BY <2>2, <2>4, <2>5 DEF Table, NoIndexShared
    <3>3. \A g \in Held', n \in DOMAIN savedStatesFreelist' :
             savedStatesFreelist'[n] # index'[g]
      <4> SUFFICES ASSUME NEW g \in Held', NEW n \in DOMAIN savedStatesFreelist'
                   PROVE  savedStatesFreelist'[n] # index'[g]
        OBVIOUS
      <4>1. CASE g = h
        BY <2>5, <2>8, <4>1
      <4>2. CASE g \in Held
        BY <2>3, <2>5, <4>2 DEF Table, NoIndexShared
      <4> QED  BY <2>5, <4>1, <4>2
    <3>4. \A m, n \in DOMAIN savedStatesFreelist' :
             /\ savedStatesFreelist'[n] < Len(savedStates')
             /\ savedStatesFreelist'[m] = savedStatesFreelist'[n] => m = n
      BY <2>3, <2>4 DEF Table, NoIndexShared
    <3> QED  BY <3>1, <3>2, <3>3, <3>4 DEF NoIndexShared
  <2>10. NoSlotLost'
    <3> SUFFICES ASSUME NEW k \in 0 .. Len(savedStates) - 1,
                        \A g \in Held' : index'[g] # k
                 PROVE  \E n \in DOMAIN savedStatesFreelist' :
                           savedStatesFreelist'[n] = k
      BY <2>4 DEF NoSlotLost
    <3>1. k # i /\ \A g \in Held : index[g] # k
      BY <2>5
    <3>2. PICK m \in DOMAIN savedStatesFreelist : savedStatesFreelist[m] = k
      BY <3>1 DEF Table, NoSlotLost
    <3>3. m # 1 /\ m - 1 \in DOMAIN savedStatesFreelist'
      BY <2>2, <2>3, <3>1, <3>2 DEF TypeOK
    <3> QED  BY <2>3, <3>2, <3>3
  <2>11. savedStatesFreelist' \in Seq(Nat) /\ i \in 0 .. Len(savedStates') - 1
    BY <2>2, <2>3, <2>4 DEF TypeOK
  <2> HIDE DEF i
  <2> QED  BY <2>1, <2>2, <2>4, <2>6, <2>7, <2>9, <2>10, <2>11 DEF Table
<1> QED  BY <1>3, <1>4

-----------------------------------------------------------------------------
(* The flags agree with the FMU's mode and with what the caller knows: now, *)
(* in the state behind a held index, and in a state that can be imported.   *)
Follows(setup, started, mode, p) ==
    /\ Agree(setup, started, mode)
    /\ p # "unsure" =>
          /\ setup <=> p \in {"initializing", "running", "ended"}
          /\ started <=> p = "running"

Consistent == Follows(setupComplete, simStarted, fmu.mode, phase)

SavedConsistent(h) ==
    LET s == Slot(index[h])
    IN  Follows(s.setupComplete, s.simStarted, heap[s.fmuState].mode,
                savedPhase[h])

ExportConsistent ==
    Importable(blob) =>
        /\ blob.fmuState \in Copies
        /\ Follows(blob.setupComplete, blob.simStarted, blob.fmuState.mode,
                   blob.phase)

(* The invariant: the table, the memory behind it, and the flags. *)
IInv ==
    /\ TypeOK
    /\ Table
    /\ HeldStatesLive
    /\ Consistent
    /\ \A h \in Held : SavedConsistent(h)
    /\ ExportConsistent

(* What a state call sees through a held index. *)
LEMMA HeldSlot ==
    ASSUME TypeOK, Table, HeldStatesLive, NEW h \in Held
    PROVE  /\ h \in Handles
           /\ index[h] \in 0 .. Len(savedStates) - 1
           /\ index[h] + 1 \in DOMAIN savedStates
           /\ Slot(index[h]) \in SavedStates
           /\ heap[Slot(index[h]).fmuState] \in Copies
<1>1. h \in Handles /\ index[h] \in Nat
  BY DEF TypeOK, Held
<1>2. index[h] < Len(savedStates)
  BY DEF Table, NoIndexShared
<1>3. index[h] + 1 \in DOMAIN savedStates
  BY <1>1, <1>2 DEF TypeOK
<1>4. Slot(index[h]) \in SavedStates
  BY <1>3 DEF TypeOK, Slot
<1>5. heap[Slot(index[h]).fmuState] \in Copies
  BY <1>4 DEF TypeOK, HeldStatesLive, SavedStates
<1> QED  BY <1>1, <1>2, <1>3, <1>4, <1>5 DEF TypeOK

(* What the FMU answers: an accepted call moves it to the mode of the call. *)
LEMMA Accepted ==
    ASSUME TypeOK, NEW modes, NEW mode \in Modes, Accept(modes, mode)
    PROVE  /\ fmu' \in Copies
           /\ fmu'.version = fmu.version
           /\ fmu.mode \in modes /\ fmu'.mode = mode
BY DEF TypeOK, Copies, Modes, Accept

(* A call that changes values leaves the mode alone. *)
LEMMA Advanced ==
    ASSUME TypeOK, NEW modes, Advance(modes)
    PROVE  /\ fmu' \in Copies
           /\ fmu'.version = fmu.version + 1
           /\ fmu.mode \in modes /\ fmu'.mode = fmu.mode
BY ConstantsAssumption DEF TypeOK, Copies, Modes, Advance

(* An error changes no value and leads at most to "failed". *)
LEMMA Refused ==
    ASSUME TypeOK, Refuse
    PROVE  /\ fmu' \in Copies
           /\ fmu'.version = fmu.version
           /\ fmu'.mode \in {fmu.mode, "failed"}
BY DEF TypeOK, Copies, Modes, Refuse

(* Membership in the abstract states, spelled out. *)
LEMMA KnownState ==
    ASSUME NEW v, NEW setup, NEW started, NEW p
    PROVE  Known(v, setup, started, p) \in Store!States <=>
              /\ v \in 0 .. MaxVersion
              /\ setup \in BOOLEAN
              /\ started \in BOOLEAN
              /\ p \in Phases
              /\ p # "unsure" =>
                    /\ setup <=> p \in {"initializing", "running", "ended"}
                    /\ started <=> p = "running"
BY DEF Known, Phases, Store!States, Store!Phases, Store!SetUp, Store!Started

(* A simulation call keeps the flags consistent, moves the phase along the  *)
(* lifecycle or makes it unsure, and leaves the saved states alone.         *)
Moved ==
    /\ fmu' \in Copies
    /\ fmu'.version \in {fmu.version, fmu.version + 1}
    /\ setupComplete' \in BOOLEAN /\ simStarted' \in BOOLEAN
    /\ phase' \in Phases
    /\ <<phase, phase'>> \in Store!Lifecycle \/ phase' = "unsure"
    /\ Consistent'
    /\ UNCHANGED <<freed, tableVars, callerVars>>

(* Every simulation call moves so; FreeInstance changes only `freed`. *)
LEMMA SimulationMoves ==
    ASSUME TypeOK, Consistent, SimulationCall
    PROVE  Moved \/ FreeInstance
<1> USE DEF CallFrom, Succeeds, Fails, flags
<1>t. /\ fmu \in Copies /\ fmu.version \in Nat
      /\ phase \in Phases
      /\ setupComplete \in BOOLEAN /\ simStarted \in BOOLEAN
  BY DEF TypeOK, Copies
<1>l. /\ <<"created", "created">> \in Store!Lifecycle
      /\ <<"created", "initializing">> \in Store!Lifecycle
      /\ <<"initializing", "running">> \in Store!Lifecycle
      /\ <<"running", "running">> \in Store!Lifecycle
      /\ <<"running", "ended">> \in Store!Lifecycle
      /\ <<"initializing", "initializing">> \in Store!Lifecycle
  BY DEF Store!Lifecycle
<1>m. "instantiated" \in Modes /\ "initialization" \in Modes
      /\ "stepping" \in Modes /\ "terminated" \in Modes
  BY DEF Modes
<1>1. CASE SetupExperiment
  <2>1. /\ fmu' \in Copies /\ fmu'.version = fmu.version
        /\ fmu'.mode \in {fmu.mode, "failed"}
    BY <1>1, <1>m, Accepted, Refused DEF SetupExperiment
  <2>2. UNCHANGED <<setupComplete, simStarted, freed, tableVars, callerVars>>
    BY <1>1 DEF SetupExperiment
  <2>3. (phase = "created" /\ phase' = "created") \/ phase' = "unsure"
    BY <1>1 DEF SetupExperiment
  <2>4. Consistent'
    BY <2>1, <2>2, <2>3, <1>t DEF Consistent, Follows, Agree
  <2> QED  BY <2>1, <2>2, <2>3, <2>4, <1>t, <1>l DEF Moved, Phases
<1>2. CASE EnterInitializationMode
  <2> DEFINE Ok  == /\ Accept({"instantiated"}, "initialization")
                    /\ setupComplete' = TRUE
                    /\ Succeeds("initializing")
             Bad == /\ Accept({"instantiated"}, "initialization") \/ Refuse
                    /\ Fails
                    /\ UNCHANGED setupComplete
  <2>1. /\ Ok \/ Bad
        /\ UNCHANGED <<simStarted, freed, tableVars, callerVars>>
        /\ phase \in {"created", "unsure"}
    BY <1>2 DEF EnterInitializationMode
  <2>2. ASSUME Ok PROVE Moved
    <3>1. /\ fmu' \in Copies /\ fmu'.version = fmu.version
          /\ fmu.mode = "instantiated" /\ fmu'.mode = "initialization"
      BY <2>2, <1>m, Accepted
    <3>2. /\ setupComplete' = TRUE
          /\ (phase = "created" /\ phase' = "initializing") \/ phase' = "unsure"
      BY <2>1, <2>2
    <3>3. Consistent'
      BY <2>1, <3>1, <3>2, <1>t DEF Consistent, Follows, Agree
    <3> QED  BY <2>1, <3>1, <3>2, <3>3, <1>t, <1>l DEF Moved, Phases
  <2>3. ASSUME Bad PROVE Moved
    <3>1. /\ fmu' \in Copies /\ fmu'.version = fmu.version
          /\ fmu'.mode \in {fmu.mode, "initialization", "failed"}
          /\ simStarted => fmu'.mode # "initialization"
      BY <2>3, <1>m, Accepted, Refused DEF Consistent, Follows, Agree
    <3>2. phase' = "unsure" /\ UNCHANGED setupComplete
      BY <2>3
    <3>3. Consistent'
      BY <2>1, <3>1, <3>2, <1>t DEF Consistent, Follows, Agree
    <3> QED  BY <2>1, <3>1, <3>2, <3>3, <1>t, <1>l DEF Moved, Phases
  <2> QED  BY <2>1, <2>2, <2>3
<1>3. CASE ExitInitializationMode
  <2> DEFINE Ok  == /\ Accept({"initialization"}, "stepping")
                    /\ simStarted' = TRUE
                    /\ Succeeds("running")
             Bad == /\ Accept({"initialization"}, "stepping") \/ Refuse
                    /\ Fails
                    /\ UNCHANGED simStarted
  <2>1. /\ Ok \/ Bad
        /\ UNCHANGED <<setupComplete, freed, tableVars, callerVars>>
        /\ phase \in {"initializing", "unsure"}
    BY <1>3 DEF ExitInitializationMode
  <2>2. ASSUME Ok PROVE Moved
    <3>1. /\ fmu' \in Copies /\ fmu'.version = fmu.version
          /\ fmu'.mode = "stepping"
      BY <2>2, <1>m, Accepted
    <3>2. /\ simStarted' = TRUE
          /\ (phase = "initializing" /\ phase' = "running") \/ phase' = "unsure"
      BY <2>1, <2>2
    <3>3. Consistent'
      BY <2>1, <3>1, <3>2, <1>t DEF Consistent, Follows, Agree
    <3> QED  BY <2>1, <3>1, <3>2, <3>3, <1>t, <1>l DEF Moved, Phases
  <2>3. ASSUME Bad PROVE Moved
    <3>1. /\ fmu' \in Copies /\ fmu'.version = fmu.version
          /\ fmu'.mode \in {fmu.mode, "stepping", "failed"}
      BY <2>3, <1>m, Accepted, Refused
    <3>2. phase' = "unsure" /\ UNCHANGED simStarted
      BY <2>3
    <3>3. Consistent'
      BY <2>1, <3>1, <3>2, <1>t DEF Consistent, Follows, Agree
    <3> QED  BY <2>1, <3>1, <3>2, <3>3, <1>t, <1>l DEF Moved, Phases
  <2> QED  BY <2>1, <2>2, <2>3
<1>4. CASE Step
  <2>1. /\ fmu' \in Copies /\ fmu'.version \in {fmu.version, fmu.version + 1}
        /\ fmu'.mode \in {fmu.mode, "failed"}
    BY <1>4, <1>m, Advanced, Refused DEF Step
  <2>2. UNCHANGED <<setupComplete, simStarted, freed, tableVars, callerVars>>
    BY <1>4 DEF Step
  <2>3. (phase = "running" /\ phase' = "running") \/ phase' = "unsure"
    BY <1>4 DEF Step
  <2>4. Consistent'
    BY <2>1, <2>2, <2>3, <1>t DEF Consistent, Follows, Agree
  <2> QED  BY <2>1, <2>2, <2>3, <2>4, <1>t, <1>l DEF Moved, Phases
<1>5. CASE Terminate
  <2>1. /\ fmu' \in Copies /\ fmu'.version = fmu.version
        /\ fmu'.mode \in {fmu.mode, "terminated", "failed"}
    BY <1>5, <1>m, Accepted, Refused DEF Terminate
  <2>2. /\ simStarted' = FALSE
        /\ UNCHANGED <<setupComplete, freed, tableVars, callerVars>>
    BY <1>5 DEF Terminate
  <2>3. (phase = "running" /\ phase' = "ended") \/ phase' = "unsure"
    BY <1>5 DEF Terminate
  <2>4. Consistent'
    BY <2>1, <2>2, <2>3, <1>t DEF Consistent, Follows, Agree
  <2> QED  BY <2>1, <2>2, <2>3, <2>4, <1>t, <1>l DEF Moved, Phases
<1>6. CASE SetVariables
  <2>1. /\ fmu' \in Copies /\ fmu'.version \in {fmu.version, fmu.version + 1}
        /\ fmu'.mode \in {fmu.mode, "failed"}
    BY <1>6, <1>m, Advanced, Refused DEF SetVariables
  <2>2. UNCHANGED <<setupComplete, simStarted, freed, tableVars, callerVars>>
    BY <1>6 DEF SetVariables
  <2>3. /\ phase \in {"created", "initializing", "running", "unsure"}
        /\ phase' = phase \/ phase' = "unsure"
    BY <1>6, <1>t DEF SetVariables, Phases
  <2>4. Consistent'
    BY <2>1, <2>2, <2>3, <1>t DEF Consistent, Follows, Agree
  <2>5. <<phase, phase'>> \in Store!Lifecycle \/ phase' = "unsure"
    BY <2>3, <1>l
  <2> QED  BY <2>1, <2>2, <2>3, <2>4, <2>5, <1>t DEF Moved, Phases
<1> QED  BY <1>1, <1>2, <1>3, <1>4, <1>5, <1>6 DEF SimulationCall

-----------------------------------------------------------------------------
(* A step that leaves what is behind an index alone leaves it consistent    *)
(* and the state it stands for the same.                                    *)
LEMMA Untouched ==
    ASSUME NEW g, index'[g] = index[g], savedPhase'[g] = savedPhase[g],
           savedStates'[index[g] + 1] = Slot(index[g]),
           heap'[Slot(index[g]).fmuState] = heap[Slot(index[g]).fmuState]
    PROVE  /\ SavedConsistent(g)' <=> SavedConsistent(g)
           /\ Stored(g)' = Stored(g)
<1>1. Slot(index[g])' = Slot(index[g])
  BY DEF Slot
<1> QED  BY <1>1 DEF SavedConsistent, Stored, Known

(* save_state and import_state add one state and disturb no other. *)
LEMMA StateAdded ==
    ASSUME IInv,
           NEW h \in Handles, index[h] = NoIndex,
           NEW c \in Cells, heap[c] = None,
           NEW copy \in Copies, heap' = [heap EXCEPT ![c] = copy],
           NEW state \in SavedStates, state.fmuState = c,
           StoreNewState(h, state),
           NEW p \in Phases, savedPhase' = [savedPhase EXCEPT ![h] = p],
           Follows(state.setupComplete, state.simStarted, copy.mode, p),
           UNCHANGED <<fmu, flags, freed, phase, blob>>
    PROVE  /\ IInv'
           /\ Stored(h)' = Known(copy.version, state.setupComplete,
                               state.simStarted, p)
           /\ \A g \in Handles \ {h} : Stored(g)' = Stored(g)
<1>1. /\ savedStates' \in Seq(SavedStates)
      /\ savedStatesFreelist' \in Seq(Nat)
      /\ Table'
  BY NewStateStored DEF IInv
<1>2. PICK i \in 0 .. Len(savedStates') - 1 :
         /\ index' = [index EXCEPT ![h] = i]
         /\ savedStates'[i + 1] = state
         /\ \A g \in Held : /\ index[g] # i
                            /\ savedStates'[index[g] + 1] = Slot(index[g])
  BY NewStateStored DEF IInv
<1>3. /\ Held' = Held \cup {h} /\ h \notin Held
      /\ index'[h] = i /\ savedPhase'[h] = p
      /\ \A g \in Handles \ {h} : index'[g] = index[g] /\ savedPhase'[g] = savedPhase[g]
  BY <1>2 DEF IInv, TypeOK, Held, NoIndex
<1>4. TypeOK'
  BY <1>1, <1>2 DEF IInv, TypeOK, flags
<1>5. heap'[c] = copy /\ \A d \in Cells \ {c} : heap'[d] = heap[d]
  BY DEF IInv, TypeOK
<1>6. \A g \in Held : /\ Slot(index[g])' = Slot(index[g])
                      /\ Slot(index[g]).fmuState \in Cells \ {c}
                      /\ heap[Slot(index[g]).fmuState] \in Copies
  BY <1>2, <1>3, HeldSlot, NoneAssumption DEF IInv, Slot, SavedStates, Held
<1>7. Slot(index[h])' = state
  BY <1>2, <1>3 DEF Slot
<1>8. HeldStatesLive'
  <2>1. copy # Leaked /\ copy # None
    BY NoneAssumption DEF Copies, Leaked, Modes
  <2>2. \A g \in Held' : heap[Slot(index[g]).fmuState]' \notin {Leaked, None}
    BY <2>1, <1>3, <1>5, <1>6, <1>7 DEF IInv, HeldStatesLive
  <2>3. \A f, g \in Held' : Slot(index[f]).fmuState' = Slot(index[g]).fmuState' => f = g
    BY <1>3, <1>6, <1>7 DEF IInv, HeldStatesLive
  <2> QED  BY <2>2, <2>3 DEF HeldStatesLive
<1>9. \A g \in Held' : SavedConsistent(g)'
  <2>1. SavedConsistent(h)'
    BY <1>3, <1>5, <1>7 DEF SavedConsistent
  <2>2. \A g \in Held : SavedConsistent(g)'
    BY <1>2, <1>3, <1>5, <1>6, Untouched DEF IInv, Held
  <2> QED  BY <2>1, <2>2, <1>3
<1>10. Consistent' /\ ExportConsistent'
  BY DEF IInv, Consistent, ExportConsistent, Importable, flags
<1>11. Stored(h)' = Known(copy.version, state.setupComplete, state.simStarted, p)
  BY <1>2, <1>3, <1>5, <1>7 DEF Stored, Known, NoIndex
<1>12. \A g \in Handles \ {h} : Stored(g)' = Stored(g)
  <2> SUFFICES ASSUME NEW g \in Handles \ {h}
               PROVE  Stored(g)' = Stored(g)
    OBVIOUS
  <2>1. CASE g \in Held
    BY <2>1, <1>2, <1>3, <1>5, <1>6, Untouched
  <2>2. CASE g \notin Held
    BY <2>2, <1>3 DEF Stored, Held
  <2> QED  BY <2>1, <2>2
<1> QED  BY <1>1, <1>4, <1>8, <1>9, <1>10, <1>11, <1>12 DEF IInv

-----------------------------------------------------------------------------
(* Each call preserves the invariant and is a step of the abstract store.   *)
LEMMA SimulationStep ==
    ASSUME IInv, SimulationCall
    PROVE  /\ IInv'
           /\ \/ Store!Simulate
              \/ UNCHANGED <<Current, [h \in Handles |-> Stored(h)], Exported>>
<1>1. CASE FreeInstance
  BY <1>1 DEF FreeInstance, flags, tableVars, callerVars, IInv, TypeOK, Table,
     NoIndexShared, NoSlotLost, HeldStatesLive, Held, Slot, Consistent,
     SavedConsistent, ExportConsistent, Importable, Current, Stored, Exported
<1>2. CASE Moved
  <2>1. /\ fmu' \in Copies
        /\ fmu'.version \in {fmu.version, fmu.version + 1}
        /\ setupComplete' \in BOOLEAN /\ simStarted' \in BOOLEAN
        /\ phase' \in Phases
        /\ <<phase, phase'>> \in Store!Lifecycle \/ phase' = "unsure"
        /\ Consistent'
    BY <1>2 DEF Moved
  <2>2. UNCHANGED <<freed, savedStates, savedStatesFreelist, heap, index,
                    savedPhase, blob>>
    BY <1>2 DEF Moved, tableVars, callerVars
  <2>3. IInv'
    BY <2>1, <2>2 DEF IInv, TypeOK, Table, NoIndexShared, NoSlotLost,
       HeldStatesLive, Held, Slot, SavedConsistent, ExportConsistent, Importable
  <2>4. Current' \in Store!States
    BY <2>1, KnownState DEF Current, Consistent, Follows, Copies
  <2>5. UNCHANGED <<[h \in Handles |-> Stored(h)], Exported>>
    <3>1. \A h \in Handles : Stored(h)' = Stored(h)
      BY <2>2 DEF Stored, Slot
    <3>2. Exported' = Exported
      BY <2>2 DEF Exported, Importable
    <3> QED  BY <3>1, <3>2
  <2>6. /\ Current.version = fmu.version /\ Current.phase = phase
        /\ Current'.version = fmu'.version /\ Current'.phase = phase'
    BY DEF Current, Known
  <2>7. Store!Simulate
    BY <2>1, <2>4, <2>5, <2>6 DEF Store!Simulate
  <2> QED  BY <2>3, <2>7
<1> QED  BY <1>1, <1>2, SimulationMoves DEF IInv

(* save_state() (fmi2_slave.cpp:221-226). *)
LEMMA SaveStep ==
    ASSUME IInv, NEW h \in Handles, SaveState(h)
    PROVE  IInv' /\ Store!Save(h)
<1>1. PICK c \in Cells : /\ heap[c] = None
                        /\ heap' = [heap EXCEPT ![c] = fmu]
                        /\ StoreNewState(h, Saved(c))
  BY DEF SaveState
<1>2. /\ index[h] = NoIndex
      /\ savedPhase' = [savedPhase EXCEPT ![h] = phase]
      /\ UNCHANGED <<fmu, flags, freed, phase, blob>>
  BY DEF SaveState
<1>3. /\ fmu \in Copies /\ phase \in Phases
      /\ setupComplete \in BOOLEAN /\ simStarted \in BOOLEAN
      /\ Follows(setupComplete, simStarted, fmu.mode, phase)
  BY DEF IInv, TypeOK, Consistent
<1>4. /\ Saved(c) \in SavedStates /\ Saved(c).fmuState = c
      /\ Saved(c).setupComplete = setupComplete
      /\ Saved(c).simStarted = simStarted
  BY <1>3 DEF Saved, SavedStates
<1>5. /\ IInv'
      /\ Stored(h)' = Current
      /\ \A g \in Handles \ {h} : Stored(g)' = Stored(g)
  BY <1>1, <1>2, <1>3, <1>4, StateAdded DEF Current
<1>6. UNCHANGED <<Current, Exported>>
  BY <1>2 DEF Current, Exported, Importable, flags
<1> QED  BY <1>5, <1>6 DEF Store!Save

(* import_state (fmi2_slave.cpp:287-319). *)
LEMMA ImportStep ==
    ASSUME IInv, NEW h \in Handles, ImportState(h)
    PROVE  IInv' /\ Store!Import(h)
<1>1. PICK c \in Cells :
         /\ heap[c] = None
         /\ heap' = [heap EXCEPT ![c] = blob.fmuState]
         /\ StoreNewState(h, [fmuState      |-> c,
                              setupComplete |-> blob.setupComplete,
                              simStarted    |-> blob.simStarted])
  BY DEF ImportState
<1>2. /\ index[h] = NoIndex
      /\ Importable(blob)
      /\ savedPhase' = [savedPhase EXCEPT ![h] = blob.phase]
      /\ UNCHANGED <<fmu, flags, freed, phase, blob>>
  BY DEF ImportState
<1>3. /\ blob.fmuState \in Copies
      /\ blob.setupComplete \in BOOLEAN /\ blob.simStarted \in BOOLEAN
      /\ blob.phase \in Phases
      /\ Follows(blob.setupComplete, blob.simStarted, blob.fmuState.mode,
                 blob.phase)
  BY <1>2 DEF IInv, TypeOK, Exports, ExportConsistent, Importable
<1>4. /\ IInv'
      /\ Stored(h)' = Exported
      /\ \A g \in Handles \ {h} : Stored(g)' = Stored(g)
  <2>1. PICK copy, state, p :
           /\ copy = blob.fmuState
           /\ state = [fmuState |-> c, setupComplete |-> blob.setupComplete,
                       simStarted |-> blob.simStarted]
           /\ p = blob.phase
    OBVIOUS
  <2>2. Exported = Known(copy.version, state.setupComplete, state.simStarted, p)
    BY <1>2, <2>1 DEF Exported
  <2>3. /\ copy \in Copies /\ state \in SavedStates /\ state.fmuState = c
        /\ p \in Phases
        /\ Follows(state.setupComplete, state.simStarted, copy.mode, p)
    BY <1>3, <2>1 DEF SavedStates
  <2>4. /\ heap' = [heap EXCEPT ![c] = copy]
        /\ StoreNewState(h, state)
        /\ savedPhase' = [savedPhase EXCEPT ![h] = p]
    BY <1>1, <1>2, <2>1
  <2>5. /\ IInv'
        /\ Stored(h)' = Known(copy.version, state.setupComplete,
                             state.simStarted, p)
        /\ \A g \in Handles \ {h} : Stored(g)' = Stored(g)
    BY <1>1, <1>2, <2>3, <2>4, StateAdded
  <2> QED  BY <2>2, <2>5
<1>5. UNCHANGED <<Current, Exported>>
  BY <1>2 DEF Current, Exported, Importable, flags
<1>6. Stored(h) = None
  BY <1>2 DEF Stored
<1>7. Exported # None
  <2>1. Exported = Known(blob.fmuState.version, blob.setupComplete,
                         blob.simStarted, blob.phase)
    BY <1>2 DEF Exported
  <2>2. blob.fmuState.version \in 0 .. MaxVersion
    BY <1>3 DEF Copies
  <2> QED  BY <1>3, <2>1, <2>2, NoneAssumption DEF Known
<1>8. [g \in Handles |-> Stored(g)]' =
         [[g \in Handles |-> Stored(g)] EXCEPT ![h] = Exported]
  BY <1>4
<1> QED  BY <1>4, <1>5, <1>6, <1>7, <1>8 DEF Store!Import

(* save_state(stateIndex): only the handle's own state changes. *)
LEMMA OverwriteStep ==
    ASSUME IInv, NEW h \in Handles, SaveStateByIndex(h)
    PROVE  IInv' /\ Store!Save(h)
<1> DEFINE i == index[h]
           c == Slot(i).fmuState
<1>1. /\ h \in Held /\ i \in 0 .. Len(savedStates) - 1
      /\ i + 1 \in DOMAIN savedStates
      /\ Slot(i) \in SavedStates /\ c \in Cells
  BY HeldSlot DEF SaveStateByIndex, Held, IInv, SavedStates
<1>2. /\ heap' = [heap EXCEPT ![c] = fmu]
      /\ savedStates' = [savedStates EXCEPT ![i + 1] = Saved(c)]
      /\ savedPhase' = [savedPhase EXCEPT ![h] = phase]
      /\ UNCHANGED <<fmu, setupComplete, simStarted, freed,
                     savedStatesFreelist, phase, index, blob>>
  BY DEF SaveStateByIndex, flags
<1> HIDE DEF i, c
<1>3. /\ Saved(c) \in SavedStates /\ Saved(c).fmuState = c
      /\ Saved(c).setupComplete = setupComplete
      /\ Saved(c).simStarted = simStarted
  BY <1>1 DEF Saved, SavedStates, IInv, TypeOK
<1>4. /\ savedStates' \in Seq(SavedStates)
      /\ Len(savedStates') = Len(savedStates)
      /\ savedStates'[i + 1] = Saved(c)
      /\ \A n \in DOMAIN savedStates : n # i + 1 => savedStates'[n] = savedStates[n]
  BY <1>1, <1>2, <1>3 DEF IInv, TypeOK
<1>5. /\ heap' \in [Cells -> Copies \cup {Leaked, None}]
      /\ heap'[c] = fmu
      /\ \A d \in Cells \ {c} : heap'[d] = heap[d]
  BY <1>1, <1>2 DEF IInv, TypeOK
<1>6. /\ savedPhase' \in [Handles -> Phases]
      /\ savedPhase'[h] = phase
      /\ \A g \in Handles \ {h} : savedPhase'[g] = savedPhase[g]
  BY <1>2 DEF IInv, TypeOK
<1>7. TypeOK'
  BY <1>2, <1>4, <1>5, <1>6 DEF IInv, TypeOK
<1>8. Held' = Held /\ Table'
  BY <1>2, <1>4 DEF IInv, Table, NoIndexShared, NoSlotLost, Held
<1>9. Slot(index[h])' = Saved(c) /\ Slot(index[h]).fmuState = c
  BY <1>2, <1>4 DEF Slot, i, c
<1>10. \A g \in Held \ {h} : /\ savedStates'[index[g] + 1] = Slot(index[g])
                             /\ Slot(index[g]).fmuState \in Cells \ {c}
  <2> SUFFICES ASSUME NEW g \in Held \ {h}
               PROVE  /\ savedStates'[index[g] + 1] = Slot(index[g])
                      /\ Slot(index[g]).fmuState \in Cells \ {c}
    OBVIOUS
  <2>1. /\ index[g] \in Nat /\ i \in Nat /\ index[g] # i
        /\ index[g] + 1 \in DOMAIN savedStates
        /\ Slot(index[g]) \in SavedStates
    BY <1>1, HeldSlot DEF IInv, Table, NoIndexShared, i
  <2>2. Slot(index[g]).fmuState # c
    BY <1>1, <1>9 DEF IInv, HeldStatesLive
  <2> QED  BY <2>1, <2>2, <1>4 DEF Slot, SavedStates
<1>11. HeldStatesLive'
  <2>1. fmu # Leaked /\ fmu # None
    BY NoneAssumption DEF IInv, TypeOK, Copies, Leaked, Modes
  <2>2. \A g \in Held : Slot(index[g]).fmuState' = Slot(index[g]).fmuState
    BY <1>2, <1>3, <1>9, <1>10 DEF Slot
  <2> QED  BY <2>1, <2>2, <1>5, <1>8, <1>9, <1>10, <1>2 DEF IInv, HeldStatesLive
<1>12. \A g \in Held \ {h} : SavedConsistent(g)' /\ Stored(g)' = Stored(g)
  BY <1>2, <1>5, <1>6, <1>10, Untouched DEF IInv, Held
<1>13. SavedConsistent(h)'
  BY <1>3, <1>5, <1>6, <1>9 DEF SavedConsistent, IInv, Consistent
<1>14. Consistent' /\ ExportConsistent'
  BY <1>2 DEF IInv, Consistent, ExportConsistent, Importable
<1>15. Stored(h)' = Current
  BY <1>1, <1>2, <1>3, <1>5, <1>6, <1>9 DEF Stored, Current, Held
<1>16. \A g \in Handles \ {h} : Stored(g)' = Stored(g)
  BY <1>2, <1>12 DEF Stored, Held
<1>17. UNCHANGED <<Current, Exported>>
  BY <1>2 DEF Current, Exported, Importable
<1> QED  BY <1>7, <1>8, <1>11, <1>12, <1>13, <1>14, <1>15, <1>16, <1>17
         DEF IInv, Store!Save

(* Restoring: all of the state comes back, or the FMU refuses. *)
LEMMA RestoreStep ==
    ASSUME IInv, NEW h \in Handles, RestoreState(h)
    PROVE  IInv' /\ (Store!Restore(h) \/ Store!Simulate)
<1>1. /\ h \in Held
      /\ Slot(index[h]) \in SavedStates
      /\ heap[Slot(index[h]).fmuState] \in Copies
      /\ SavedConsistent(h)
  BY HeldSlot DEF RestoreState, Held, IInv
<1>2. UNCHANGED <<freed, savedStates, savedStatesFreelist, heap, index,
                  savedPhase, blob>>
  BY DEF RestoreState, tableVars, callerVars
<1>3. UNCHANGED <<[g \in Handles |-> Stored(g)], Exported>>
  <2>1. \A g \in Handles : Stored(g)' = Stored(g)
    BY <1>2 DEF Stored, Slot
  <2>2. Exported' = Exported
    BY <1>2 DEF Exported, Importable
  <2> QED  BY <2>1, <2>2
<1>4. ASSUME fmu' \in Copies, phase' \in Phases,
             setupComplete' \in BOOLEAN, simStarted' \in BOOLEAN, Consistent'
      PROVE  IInv'
  BY <1>2, <1>4 DEF IInv, TypeOK, Table, NoIndexShared, NoSlotLost,
     HeldStatesLive, Held, Slot, SavedConsistent, ExportConsistent, Importable
<1>5. CASE /\ fmu' = heap[Slot(index[h]).fmuState]
           /\ setupComplete' = Slot(index[h]).setupComplete
           /\ simStarted' = Slot(index[h]).simStarted
           /\ phase' = savedPhase[h]
  <2>1. Consistent'
    BY <1>1, <1>5 DEF Consistent, SavedConsistent
  <2>2. IInv'
    BY <1>1, <1>4, <1>5, <2>1 DEF SavedStates, IInv, TypeOK
  <2>3. Current' = Stored(h) /\ Stored(h) # None
    <3>1. Current' = Stored(h)
      BY <1>1, <1>5 DEF Current, Stored, Held
    <3>2. /\ Current' = Known(fmu'.version, setupComplete', simStarted', phase')
          /\ fmu'.version \in 0 .. MaxVersion
          /\ setupComplete' \in BOOLEAN /\ simStarted' \in BOOLEAN
          /\ phase' \in Phases
      BY <2>2 DEF Current, IInv, TypeOK, Copies
    <3> QED  BY <3>1, <3>2, NoneAssumption DEF Known
  <2> QED  BY <2>2, <2>3, <1>3 DEF Store!Restore
<1>6. CASE Refuse /\ Fails /\ UNCHANGED flags
  <2>1. /\ fmu' \in Copies /\ fmu'.version = fmu.version
        /\ fmu'.mode \in {fmu.mode, "failed"}
    BY <1>6, Refused DEF IInv
  <2>2. phase' = "unsure" /\ UNCHANGED <<setupComplete, simStarted>>
    BY <1>6 DEF Fails, flags
  <2>3. Consistent'
    BY <2>1, <2>2 DEF IInv, Consistent, Follows, Agree
  <2>4. IInv'
    BY <1>4, <2>1, <2>2, <2>3 DEF IInv, TypeOK, Phases
  <2>5. Current' \in Store!States
    BY <2>2, <2>4, KnownState DEF Current, IInv, TypeOK, Copies
  <2>6. /\ Current.version = fmu.version /\ Current'.version = fmu'.version
        /\ Current'.phase = "unsure"
    BY <2>2 DEF Current, Known
  <2> QED  BY <2>1, <2>4, <2>5, <2>6, <1>3 DEF Store!Simulate
<1> QED  BY <1>5, <1>6 DEF RestoreState

(* Releasing gives the index back even if the FMU refuses to free its copy. *)
LEMMA ReleaseStep ==
    ASSUME IInv, NEW h \in Handles, ReleaseState(h)
    PROVE  IInv' /\ Store!Release(h)
<1> DEFINE i == index[h]
           c == Slot(i).fmuState
           n == Len(savedStatesFreelist) + 1
<1>1. /\ h \in Held /\ i \in 0 .. Len(savedStates) - 1 /\ c \in Cells
  BY HeldSlot DEF ReleaseState, Held, IInv, SavedStates
<1>2. /\ savedStatesFreelist' = Append(savedStatesFreelist, i)
      /\ \/ heap' = [heap EXCEPT ![c] = None]
         \/ heap' = [heap EXCEPT ![c] = Leaked]
      /\ index' = [index EXCEPT ![h] = NoIndex]
      /\ savedPhase' = [savedPhase EXCEPT ![h] = "unsure"]
      /\ UNCHANGED <<fmu, setupComplete, simStarted, freed, savedStates,
                     phase, blob>>
  BY DEF ReleaseState, flags
<1>3. i = index[h] /\ c = Slot(index[h]).fmuState
  OBVIOUS
<1>4. /\ n \in Nat
      /\ savedStatesFreelist' \in Seq(Nat)
      /\ DOMAIN savedStatesFreelist' = DOMAIN savedStatesFreelist \cup {n}
      /\ n \notin DOMAIN savedStatesFreelist
      /\ savedStatesFreelist'[n] = i
      /\ \A m \in DOMAIN savedStatesFreelist :
            savedStatesFreelist'[m] = savedStatesFreelist[m]
  BY <1>1, <1>2 DEF IInv, TypeOK
<1> HIDE DEF i, c, n
<1>5. /\ heap' \in [Cells -> Copies \cup {Leaked, None}]
      /\ \A d \in Cells \ {c} : heap'[d] = heap[d]
  BY <1>1, <1>2 DEF IInv, TypeOK
<1>6. /\ Held' = Held \ {h}
      /\ index' \in [Handles -> Nat \cup {NoIndex}]
      /\ index'[h] = NoIndex
      /\ savedPhase' \in [Handles -> Phases]
      /\ \A g \in Handles \ {h} : /\ index'[g] = index[g]
                                  /\ savedPhase'[g] = savedPhase[g]
  BY <1>1, <1>2 DEF IInv, TypeOK, Held, Phases
<1>7. TypeOK'
  BY <1>2, <1>4, <1>5, <1>6 DEF IInv, TypeOK
<1>8. NoIndexShared'
  <2>1. \A f, g \in Held' : index'[f] = index'[g] => f = g
    BY <1>6 DEF IInv, Table, NoIndexShared, Held
  <2>2. \A g \in Held' : index'[g] < Len(savedStates')
    BY <1>2, <1>6 DEF IInv, Table, NoIndexShared, Held
  <2>3. \A g \in Held', m \in DOMAIN savedStatesFreelist' :
           savedStatesFreelist'[m] # index'[g]
    BY <1>1, <1>3, <1>4, <1>6 DEF IInv, Table, NoIndexShared, Held
  <2>4. \A m \in DOMAIN savedStatesFreelist' :
           savedStatesFreelist'[m] < Len(savedStates')
    BY <1>1, <1>2, <1>3, <1>4 DEF IInv, Table, NoIndexShared
  <2>5. \A l, m \in DOMAIN savedStatesFreelist' :
           savedStatesFreelist'[l] = savedStatesFreelist'[m] => l = m
    BY <1>1, <1>3, <1>4 DEF IInv, Table, NoIndexShared
  <2> QED  BY <2>1, <2>2, <2>3, <2>4, <2>5 DEF NoIndexShared
<1>9. NoSlotLost'
  <2> SUFFICES ASSUME NEW k \in 0 .. Len(savedStates) - 1,
                      \A m \in DOMAIN savedStatesFreelist' :
                          savedStatesFreelist'[m] # k
               PROVE  \E g \in Held' : index'[g] = k
    BY <1>2 DEF NoSlotLost
  <2>1. k # i /\ \A m \in DOMAIN savedStatesFreelist : savedStatesFreelist[m] # k
    BY <1>4
  <2>2. PICK g \in Held : index[g] = k
    BY <2>1 DEF IInv, Table, NoSlotLost
  <2> QED  BY <1>3, <1>6, <2>1, <2>2 DEF Held
<1>10. \A g \in Held \ {h} : /\ savedStates'[index[g] + 1] = Slot(index[g])
                             /\ Slot(index[g]).fmuState \in Cells \ {c}
  BY <1>1, <1>2, <1>3, HeldSlot DEF IInv, HeldStatesLive, Slot, SavedStates
<1>11. \A g \in Held \ {h} : SavedConsistent(g)' /\ Stored(g)' = Stored(g)
  BY <1>5, <1>6, <1>10, Untouched DEF IInv, Held
<1>12. HeldStatesLive'
  <2>1. \A g \in Held' : Slot(index[g])' = Slot(index[g])
    BY <1>6, <1>10 DEF Slot, Held
  <2> QED  BY <2>1, <1>5, <1>6, <1>10 DEF IInv, HeldStatesLive
<1>13. Consistent' /\ ExportConsistent'
  BY <1>2 DEF IInv, Consistent, ExportConsistent, Importable
<1>14. Stored(h)' = None
  BY <1>6 DEF Stored
<1>15. \A g \in Handles \ {h} : Stored(g)' = Stored(g)
  BY <1>6, <1>11 DEF Stored, Held
<1>16. UNCHANGED <<Current, Exported>>
  BY <1>2 DEF Current, Exported, Importable
<1> QED  BY <1>6, <1>7, <1>8, <1>9, <1>11, <1>12, <1>13, <1>14, <1>15, <1>16
         DEF IInv, Table, Store!Release

(* A step that changes only what the caller can import. *)
LEMMA OnlyExported ==
    ASSUME IInv, blob' \in Exports \cup {None}, ExportConsistent',
           UNCHANGED <<fmu, flags, freed, tableVars, phase, index, savedPhase>>
    PROVE  IInv' /\ UNCHANGED <<Current, [g \in Handles |-> Stored(g)]>>
<1>1. UNCHANGED <<fmu, setupComplete, simStarted, freed, savedStates,
                  savedStatesFreelist, heap, phase, index, savedPhase>>
  BY DEF flags, tableVars
<1>2. IInv'
  BY <1>1 DEF IInv, TypeOK, Table, NoIndexShared, NoSlotLost,
     HeldStatesLive, Held, Slot, Consistent, SavedConsistent
<1>3. \A g \in Handles : Stored(g)' = Stored(g)
  BY <1>1 DEF Stored, Slot
<1>4. Current' = Current
  BY <1>1 DEF Current
<1> QED  BY <1>2, <1>3, <1>4

(* export_state: the caller has a copy of the state, or nothing to import. *)
LEMMA ExportStep ==
    ASSUME IInv, NEW h \in Handles, ExportState(h)
    PROVE  IInv' /\ (Store!Export(h) \/ Store!Forget)
<1>1. /\ h \in Held
      /\ Slot(index[h]) \in SavedStates
      /\ heap[Slot(index[h]).fmuState] \in Copies
      /\ SavedConsistent(h)
      /\ savedPhase[h] \in Phases
  BY HeldSlot DEF ExportState, Held, IInv, TypeOK
<1>2. UNCHANGED <<fmu, flags, freed, tableVars, phase, index, savedPhase>>
  BY DEF ExportState
<1>3. CASE blob' = [fmuState      |-> heap[Slot(index[h]).fmuState],
                    setupComplete |-> Slot(index[h]).setupComplete,
                    simStarted    |-> Slot(index[h]).simStarted,
                    schemeVersion |-> 0,
                    uuid          |-> "guid",
                    phase         |-> savedPhase[h]]
  <2>1. blob' \in Exports
    BY <1>1, <1>3 DEF Exports, SavedStates
  <2>2. blob' # None /\ heap[Slot(index[h]).fmuState] # Garbage
    BY <1>1, <2>1, NoneAssumption DEF Copies, Modes, Garbage
  <2>3. Importable(blob')
    BY <1>3, <2>2 DEF Importable
  <2>4. ExportConsistent'
    BY <1>1, <1>3 DEF ExportConsistent, SavedConsistent
  <2>5. IInv' /\ UNCHANGED <<Current, [g \in Handles |-> Stored(g)]>>
    BY <1>2, <2>1, <2>4, OnlyExported
  <2>6. Exported' = Stored(h)
    BY <1>1, <1>3, <2>3 DEF Exported, Stored, Held
  <2>7. Stored(h) # None
    <3>1. Stored(h) = Known(heap[Slot(index[h]).fmuState].version,
                            Slot(index[h]).setupComplete,
                            Slot(index[h]).simStarted, savedPhase[h])
      BY <1>1 DEF Stored, Held
    <3> QED  BY <1>1, <3>1, NoneAssumption DEF Known, Copies, SavedStates
  <2> QED  BY <2>5, <2>6, <2>7 DEF Store!Export
<1>4. CASE blob # None /\ blob' = [blob EXCEPT !.fmuState = Garbage]
  <2>1. blob' \in Exports /\ blob'.fmuState = Garbage
    BY <1>4 DEF IInv, TypeOK, Exports
  <2>2. ~Importable(blob')
    BY <2>1 DEF Importable
  <2>3. IInv' /\ UNCHANGED <<Current, [g \in Handles |-> Stored(g)]>>
    BY <1>2, <2>1, <2>2, OnlyExported DEF ExportConsistent
  <2>4. Exported' = None
    BY <2>2 DEF Exported
  <2> QED  BY <2>3, <2>4 DEF Store!Forget
<1> QED  BY <1>3, <1>4 DEF ExportState

(* What the caller comes by from elsewhere cannot be imported. *)
LEMMA ForeignStep ==
    ASSUME IInv, ObtainForeign
    PROVE  IInv' /\ Store!Forget
<1>1. PICK scheme \in {0, 1}, uuid \in {"guid", "other"} :
         /\ scheme = 1 \/ uuid = "other"
         /\ blob' = [fmuState      |-> [mode |-> "instantiated", version |-> 0],
                     setupComplete |-> TRUE,
                     simStarted    |-> TRUE,
                     schemeVersion |-> scheme,
                     uuid          |-> uuid,
                     phase         |-> "created"]
  BY DEF ObtainForeign
<1>2. blob' \in Exports
  BY <1>1, ConstantsAssumption DEF Exports, Copies, Modes, Phases
<1>3. ~Importable(blob')
  BY <1>1 DEF Importable
<1>4. IInv' /\ UNCHANGED <<Current, [g \in Handles |-> Stored(g)]>>
  BY <1>2, <1>3, OnlyExported DEF ExportConsistent, ObtainForeign
<1>5. Exported' = None
  BY <1>3 DEF Exported
<1> QED  BY <1>4, <1>5 DEF Store!Forget

-----------------------------------------------------------------------------
(* The variables of the abstract store, as Fmi2Slave maps them. *)
storeVars == <<Current, [h \in Handles |-> Stored(h)], Exported>>

(* The initial state. *)
LEMMA Initially == Init => IInv /\ Store!Init
<1> SUFFICES ASSUME Init PROVE IInv /\ Store!Init
  OBVIOUS
<1>1. Held = {} /\ savedStates = <<>> /\ savedStatesFreelist = <<>>
  BY DEF Init, Held
<1>2. ~Importable(blob)
  BY DEF Init, Importable
<1>3. TypeOK
  <2>1. savedStates \in Seq(SavedStates) /\ savedStatesFreelist \in Seq(Nat)
    BY <1>1
  <2>2. fmu \in Copies
    BY ConstantsAssumption DEF Init, Copies, Modes
  <2> QED  BY <2>1, <2>2 DEF Init, TypeOK, Phases
<1>4. Table /\ HeldStatesLive
  BY <1>1 DEF Table, NoIndexShared, NoSlotLost, HeldStatesLive
<1>5. Consistent
  BY DEF Init, Consistent, Follows, Agree
<1>6. Store!Init
  BY <1>2 DEF Init, Store!Init, Current, Known, Stored, Exported
<1> QED  BY <1>1, <1>2, <1>3, <1>4, <1>5, <1>6 DEF IInv, ExportConsistent

(* A step that changes nothing here changes nothing there. *)
LEMMA Stuttering == IInv /\ UNCHANGED vars => IInv' /\ UNCHANGED storeVars
<1> SUFFICES ASSUME IInv, UNCHANGED vars PROVE IInv' /\ UNCHANGED storeVars
  OBVIOUS
<1>1. UNCHANGED <<fmu, setupComplete, simStarted, freed, savedStates,
                  savedStatesFreelist, heap, phase, index, savedPhase, blob>>
  BY DEF vars, flags, tableVars, callerVars
<1>2. UNCHANGED <<fmu, flags, freed, tableVars, phase, index, savedPhase>>
  BY <1>1 DEF flags, tableVars
<1>3. blob' \in Exports \cup {None} /\ ExportConsistent'
  BY <1>1 DEF IInv, TypeOK, ExportConsistent, Importable
<1>4. Exported' = Exported
  BY <1>1 DEF Exported, Importable
<1> QED  BY <1>2, <1>3, <1>4, OnlyExported DEF storeVars

(* Every step preserves the invariant and is a step of the store. *)
LEMMA NextStep == IInv /\ Next => IInv' /\ [Store!Next]_storeVars
<1> SUFFICES ASSUME IInv, Next PROVE IInv' /\ [Store!Next]_storeVars
  OBVIOUS
<1>1. CASE SimulationCall
  BY <1>1, SimulationStep DEF Store!Next, storeVars
<1>2. CASE ObtainForeign
  BY <1>2, ForeignStep DEF Store!Next
<1>3. ASSUME NEW h \in Handles, StateCall(h)
      PROVE  IInv' /\ Store!Next
  <2>1. CASE SaveState(h)
    BY <2>1, SaveStep DEF Store!Next
  <2>2. CASE SaveStateByIndex(h)
    BY <2>2, OverwriteStep DEF Store!Next
  <2>3. CASE RestoreState(h)
    BY <2>3, RestoreStep DEF Store!Next
  <2>4. CASE ReleaseState(h)
    BY <2>4, ReleaseStep DEF Store!Next
  <2>5. CASE ExportState(h)
    BY <2>5, ExportStep DEF Store!Next
  <2>6. CASE ImportState(h)
    BY <2>6, ImportStep DEF Store!Next
  <2> QED  BY <1>3, <2>1, <2>2, <2>3, <2>4, <2>5, <2>6 DEF StateCall
<1> QED  BY <1>1, <1>2, <1>3 DEF Next

(* The inductive invariant, of which all the properties below are parts. *)
THEOREM Inductive == Spec => []IInv
<1>1. Init => IInv
  BY Initially
<1>2. IInv /\ [Next]_vars => IInv'
  BY NextStep, Stuttering
<1> QED  BY <1>1, <1>2, PTL DEF Spec

(* Every variable keeps its type. *)
THEOREM TypeCorrect == Spec => []TypeOK
<1>1. IInv => TypeOK
  BY DEF IInv
<1> QED  BY <1>1, Inductive, PTL

(* For any number of saved states, no index of the vector is in use twice   *)
(* (fmi2_slave.cpp:208-219, 244-247).                                       *)
THEOREM IndicesAreExclusive == Spec => []NoIndexShared
<1>1. IInv => NoIndexShared
  BY DEF IInv, Table
<1> QED  BY <1>1, Inductive, PTL

(* No slot of the vector is ever lost, even when the FMU refuses to free a  *)
(* state (fmi2_slave.cpp:244-251).                                          *)
THEOREM SlotsAreReused == Spec => []NoSlotLost
<1>1. IInv => NoSlotLost
  BY DEF IInv, Table
<1> QED  BY <1>1, Inductive, PTL

(* The FMU's copy behind an index the caller holds is never freed memory    *)
(* and never shared (fmi2_slave.cpp:233-253).                               *)
THEOREM HeldStatesAreLive == Spec => []HeldStatesLive
<1>1. IInv => HeldStatesLive
  BY DEF IInv
<1> QED  BY <1>1, Inductive, PTL

(* The flags never claim more than the FMU has reached, through warnings,   *)
(* errors, restores and imports (fmi2_slave.cpp:74-113, 233-242, 287-319).  *)
THEOREM FlagsAreSafe == Spec => []FlagsNeverAhead
<1>1. IInv => FlagsNeverAhead
  BY DEF IInv, Consistent, SavedConsistent, ExportConsistent, Follows,
         FlagsNeverAhead
<1> QED  BY <1>1, Inductive, PTL

(* For a caller whose calls succeeded the asserts of fmi2_slave.cpp hold. *)
THEOREM AssertsHold == Spec => []FlagsFollowCalls
<1>1. ASSUME IInv PROVE FlagsFollowCalls
  <2>1. Current \in Store!States
    BY <1>1, KnownState DEF Current, IInv, TypeOK, Copies, Consistent, Follows
  <2>2. \A h \in Held : Stored(h) \in Store!States
    <3> SUFFICES ASSUME NEW h \in Held
                 PROVE  Stored(h) \in Store!States
      OBVIOUS
    <3>1. /\ Slot(index[h]) \in SavedStates
          /\ heap[Slot(index[h]).fmuState] \in Copies
          /\ savedPhase[h] \in Phases
          /\ SavedConsistent(h)
      BY <1>1, HeldSlot DEF IInv, TypeOK
    <3> QED  BY <3>1, KnownState DEF Stored, Held, SavedStates, Copies,
                                     SavedConsistent, Follows
  <2>3. Exported # None => Exported \in Store!States
    <3> SUFFICES ASSUME Importable(blob)
                 PROVE  Exported \in Store!States
      BY DEF Exported
    <3>1. /\ blob \in Exports /\ blob.fmuState \in Copies
          /\ Follows(blob.setupComplete, blob.simStarted, blob.fmuState.mode,
                     blob.phase)
      BY <1>1 DEF IInv, TypeOK, ExportConsistent, Importable
    <3> QED  BY <3>1, KnownState DEF Exported, Exports, Copies, Follows
  <2> QED  BY <2>1, <2>2, <2>3 DEF FlagsFollowCalls
<1> QED  BY <1>1, Inductive, PTL

(* The vector of reused slots and its freelist implement the abstract store *)
(* of whole states, for every set of handles and of cells.                  *)
THEOREM Refinement == Spec => StatesAreStored
<1>1. Init => Store!Init
  BY Initially
<1>2. IInv /\ [Next]_vars => [Store!Next]_storeVars
  BY NextStep, Stuttering
<1> QED  BY <1>1, <1>2, Inductive, PTL DEF Spec, StatesAreStored, Store!Spec, storeVars
=============================================================================
