---------------------------- MODULE FmuFilesProofs ---------------------------
(***************************************************************************)
(* Proofs about FmuFiles, for any number of loads, slaves and names.       *)
(*                                                                         *)
(* Sharing is the heart of the inductive invariant: exactly the objects    *)
(* that are alive share the context and the directory. With it a directory *)
(* goes neither early (Unpacked) nor too late (DirsOwned), and the history *)
(* of a handle follows its object (History).                               *)
(***************************************************************************)
EXTENDS FmuFiles, TLAPS

LiveSlaves(l) == {s \in Slaves : slave[l][s] \in {"parsed", "linked", "live", "freed"}}

Idle(l) == \A s \in Slaves : slave[l][s] = "absent"

SharingAt(l) ==
    /\ stage[l] \in {"absent", "null", "failed", "crashed"}
          => owners[l] = {} /\ Idle(l)
    /\ stage[l] \in {"created", "versioned", "parsed"}
          => owners[l] = {Load} /\ Idle(l)
    /\ stage[l] = "loaded"    => owners[l] = LiveSlaves(l) \cup {Fmu}
    /\ stage[l] = "destroyed" => owners[l] = LiveSlaves(l)
    /\ dir[l] = None <=> stage[l] = "absent"

Sharing == \A l \in Loads : SharingAt(l)

UnpackedAt(l) ==
    /\ stage[l] \in {"versioned", "parsed", "loaded", "destroyed"}
    /\ owners[l] # {}
    /\ Alone(l)
    => disk[dir[l]] = l

Unpacked == \A l \in Loads : UnpackedAt(l)

HistoryAt(l) ==
    stage[l] # "crashed" =>
        /\ Fmu \in opened[l] => stage[l] \in {"parsed", "loaded", "failed", "destroyed"}
        /\ stage[l] = "destroyed" <=> frees[l][Fmu] = 1
        /\ \A s \in Slaves :
              /\ s \in opened[l] => slave[l][s] # "absent"
              /\ slave[l][s] \in {"freed", "destroyed", "failed"} <=> frees[l][s] = 1

History == \A l \in Loads : HistoryAt(l)

IInv == TypeOK /\ Sharing /\ Unpacked /\ DirsOwned /\ History

-----------------------------------------------------------------------------
(* A load starts with nothing. *)
LEMMA InitIInv == Init => IInv
<1> SUFFICES ASSUME Init PROVE IInv
  OBVIOUS
<1> USE ConstantsAssumption DEF Init
<1>1. TypeOK
  BY DEF TypeOK, Stages, SlaveStages, Handles
<1>2. Sharing
  BY DEF Sharing, SharingAt, Idle
<1>3. Unpacked
  BY DEF Unpacked, UnpackedAt
<1>4. DirsOwned
  BY DEF DirsOwned
<1>5. History
  BY DEF History, HistoryAt, Handles
<1> QED  BY <1>1, <1>2, <1>3, <1>4, <1>5 DEF IInv

(* What the shared_ptrs do to the disk. *)
LEMMA ShareEffect ==
    ASSUME TypeOK, NEW l \in Loads, dir[l] \in Names,
           NEW holders \in SUBSET (Handles \cup {Load}), Share(l, holders)
    PROVE  /\ owners' = [owners EXCEPT ![l] = holders]
           /\ owners' \in [Loads -> SUBSET (Handles \cup {Load})]
           /\ disk' \in [Names -> Loads \cup {"empty", None}]
           /\ left' \subseteq Loads
           /\ left \subseteq left'
           /\ \/ UNCHANGED <<disk, left>> /\ holders # {}
              \/ disk' = [disk EXCEPT ![dir[l]] = None] /\ holders = {}
              \/ left' = left \cup {l} /\ UNCHANGED disk /\ holders = {}
BY DEF Share, RemoveDir, TypeOK

-----------------------------------------------------------------------------
(* A load that has begun has drawn its directory. *)
LEMMA DirDrawn ==
    ASSUME TypeOK, Sharing, NEW l \in Loads, stage[l] # "absent"
    PROVE  dir[l] \in Names
BY DEF TypeOK, Sharing, SharingAt

(* The assignments the actions are made of keep the types. *)
LEMMA StageType ==
    ASSUME TypeOK, NEW l \in Loads, NEW from, NEW to \in Stages, Goto(l, from, to)
    PROVE  stage' \in [Loads -> Stages]
BY DEF TypeOK, Goto

LEMMA SlaveType ==
    ASSUME TypeOK, NEW l \in Loads, NEW s \in Slaves, NEW from,
           NEW to \in SlaveStages, SlaveGoto(l, s, from, to)
    PROVE  slave' \in [Loads -> [Slaves -> SlaveStages]]
BY DEF TypeOK, SlaveGoto

LEMMA OpenType ==
    ASSUME TypeOK, NEW l \in Loads, NEW h \in Handles, Open(l, h)
    PROVE  opened' \in [Loads -> SUBSET Handles]
BY DEF TypeOK, Open

LEMMA FreeType ==
    ASSUME TypeOK, NEW l \in Loads, NEW h \in Handles, Free(l, h), frees[l][h] # 1
    PROVE  frees' \in [Loads -> [Handles -> {0, 1}]]
<1>1. frees[l][h] + 1 = 1
  BY DEF TypeOK
<1> QED  BY <1>1 DEF TypeOK, Free

LEMMA DiesType ==
    ASSUME TypeOK, NEW l \in Loads, Dies(l)
    PROVE  TypeOK'
<1>1. stage' \in [Loads -> Stages]
  BY DEF TypeOK, Dies, Stages
<1>2. [s \in Slaves |-> "absent"] \in [Slaves -> SlaveStages]
  BY DEF SlaveStages
<1>3. slave' \in [Loads -> [Slaves -> SlaveStages]]
  BY <1>2 DEF TypeOK, Dies
<1>4. owners' \in [Loads -> SUBSET (Handles \cup {Load})]
  BY DEF TypeOK, Dies
<1> QED  BY <1>1, <1>3, <1>4 DEF TypeOK, Dies

LEMMA ShareType ==
    ASSUME TypeOK, Sharing, NEW l \in Loads, stage[l] # "absent",
           NEW holders, holders \subseteq Handles \cup {Load}, Share(l, holders)
    PROVE  /\ owners' \in [Loads -> SUBSET (Handles \cup {Load})]
           /\ disk' \in [Names -> Loads \cup {"empty", None}]
           /\ left' \subseteq Loads
BY DirDrawn, ShareEffect

(* Every step of a load keeps the types ... *)
LEMMA LoadType ==
    ASSUME IInv, NEW l \in Loads, LoadStep(l)
    PROVE  TypeOK'
<1>0. TypeOK /\ Sharing
  BY DEF IInv
<1> DEFINE Loading == {"created", "versioned", "parsed", "loaded", "destroyed",
                       "null", "failed", "crashed"}
<1>a. Loading \subseteq Stages /\ "absent" \notin Loading
  BY DEF Stages
<1> HIDE DEF Loading
<1>b. Fmu \in Handles
  BY DEF Handles
<1>1. CASE Create(l)
  <2>1. stage' \in [Loads -> Stages]
    BY <1>0, <1>1, <1>a, StageType DEF Create, Loading
  <2>2. dir' \in [Loads -> Names \cup {None}]
    BY <1>0, <1>1 DEF Create, TypeOK
  <2>3. disk' \in [Names -> Loads \cup {"empty", None}]
    BY <1>0, <1>1 DEF Create, TypeOK
  <2>4. owners' \in [Loads -> SUBSET (Handles \cup {Load})]
    BY <1>0, <1>1 DEF Create, TypeOK
  <2> QED  BY <1>0, <1>1, <2>1, <2>2, <2>3, <2>4 DEF Create, TypeOK
<1>2. CASE Unpack(l)
  <2>1. stage' \in [Loads -> Stages]
    BY <1>0, <1>2, <1>a, StageType DEF Unpack, Loading
  <2>2. disk' \in [Names -> Loads \cup {"empty", None}]
    BY <1>0, <1>2 DEF Unpack, TypeOK
  <2> QED  BY <1>0, <1>2, <2>1, <2>2 DEF Unpack, TypeOK
<1>3. CASE ReturnNull(l)
  <2>1. stage' \in [Loads -> Stages] /\ stage[l] # "absent"
    BY <1>0, <1>3, <1>a, StageType DEF ReturnNull, Loading, Goto
  <2> QED  BY <1>0, <1>3, <2>1, ShareType DEF ReturnNull, TypeOK
<1>4. CASE ParseFmu(l)
  <2>1. CASE Dies(l)
    BY <1>0, <2>1, DiesType
  <2>2. CASE Goto(l, "versioned", "parsed") /\ Open(l, Fmu)
             /\ UNCHANGED <<disk, exists, slave, dir, owners, frees, left>>
    <3>1. stage' \in [Loads -> Stages]
      BY <1>0, <2>2, <1>a, StageType DEF Loading
    <3>2. opened' \in [Loads -> SUBSET Handles]
      BY <1>0, <1>b, <2>2, OpenType
    <3> QED  BY <1>0, <2>2, <3>1, <3>2 DEF TypeOK
  <2> QED  BY <1>4, <2>1, <2>2 DEF ParseFmu
<1>5. CASE CheckKind(l)
  <2>1. PICK to \in {"loaded", "failed"} : Goto(l, "parsed", to)
    BY <1>5 DEF CheckKind
  <2>2. stage' \in [Loads -> Stages] /\ stage[l] # "absent"
    BY <1>0, <1>a, <2>1, StageType DEF Loading, Goto
  <2>3. PICK holders \in {{}, {Fmu}} : Share(l, holders)
    BY <1>5 DEF CheckKind
  <2>4. holders \subseteq Handles \cup {Load}
    BY <1>b, <2>3
  <2> QED  BY <1>0, <1>5, <2>2, <2>3, <2>4, ShareType DEF CheckKind, TypeOK
<1>6. CASE UseNull(l)
  <2>1. stage' \in [Loads -> Stages]
    BY <1>0, <1>6, <1>a, StageType DEF UseNull, Loading
  <2> QED  BY <1>0, <1>6, <2>1 DEF UseNull, TypeOK
<1>7. CASE DestroyFmu(l)
  <2>1. stage' \in [Loads -> Stages] /\ stage[l] = "loaded"
    BY <1>0, <1>7, <1>a, StageType DEF DestroyFmu, Loading, Goto
  <2>2. frees[l][Fmu] # 1
    BY <2>1 DEF IInv, History, HistoryAt
  <2>3. frees' \in [Loads -> [Handles -> {0, 1}]]
    BY <1>0, <1>7, <1>b, <2>2, FreeType DEF DestroyFmu
  <2>4. owners[l] \ {Fmu} \subseteq Handles \cup {Load}
    BY <1>0 DEF TypeOK
  <2>5. Share(l, owners[l] \ {Fmu})
    BY <1>7 DEF DestroyFmu
  <2> QED  BY <1>0, <1>7, <2>1, <2>3, <2>4, <2>5, ShareType DEF DestroyFmu, TypeOK
<1>8. CASE Crash(l)
    BY <1>0, <1>8, DiesType DEF Crash
<1> QED  BY <1>1, <1>2, <1>3, <1>4, <1>5, <1>6, <1>7, <1>8 DEF LoadStep

(* ... and so does every step of a slave. *)
LEMMA SlaveStepType ==
    ASSUME IInv, NEW l \in Loads, NEW s \in Slaves, SlaveStep(l, s)
    PROVE  TypeOK'
<1>0. TypeOK /\ Sharing
  BY DEF IInv
<1>a. {"parsed", "linked", "live", "freed", "destroyed", "unlinked", "failed"}
         \subseteq SlaveStages
  BY DEF SlaveStages
<1>b. s \in Handles /\ owners[l] \ {s} \subseteq Handles \cup {Load}
         /\ owners[l] \cup {s} \subseteq Handles \cup {Load}
  BY <1>0 DEF Handles, TypeOK
<1>c. slave[l][s] # "absent" => stage[l] # "absent" /\ stage[l] # "crashed"
  BY <1>0 DEF Sharing, SharingAt, Idle
<1>1. CASE NewInstance(l, s)
  <2>1. CASE Dies(l)
    BY <1>0, <2>1, DiesType
  <2>2. CASE /\ SlaveGoto(l, s, "absent", "parsed") /\ Open(l, s)
             /\ Share(l, owners[l] \cup {s})
             /\ UNCHANGED <<exists, stage, dir, frees>>
    <3>1. slave' \in [Loads -> [Slaves -> SlaveStages]]
      BY <1>0, <1>a, <2>2, SlaveType
    <3>2. opened' \in [Loads -> SUBSET Handles]
      BY <1>0, <1>b, <2>2, OpenType
    <3>3. stage[l] # "absent"
      BY <1>1 DEF NewInstance
    <3> QED  BY <1>0, <1>b, <2>2, <3>1, <3>2, <3>3, ShareType DEF TypeOK
  <2> QED  BY <1>1, <2>1, <2>2 DEF NewInstance
<1>2. CASE LoadDll(l, s)
  <2>1. slave' \in [Loads -> [Slaves -> SlaveStages]] /\ stage[l] # "absent"
    BY <1>0, <1>2, <1>a, <1>c, SlaveType DEF LoadDll, SlaveGoto
  <2>2. CASE Share(l, owners[l] \ {s})
    BY <1>0, <1>2, <1>b, <2>1, <2>2, ShareType DEF LoadDll, TypeOK
  <2>3. CASE UNCHANGED <<disk, owners, left>>
    BY <1>0, <1>2, <2>1, <2>3 DEF LoadDll, TypeOK
  <2> QED  BY <1>2, <2>2, <2>3 DEF LoadDll
<1>3. CASE Instantiate(l, s)
  <2>1. slave' \in [Loads -> [Slaves -> SlaveStages]] /\ stage[l] # "absent"
        /\ slave[l][s] = "linked"
    BY <1>0, <1>3, <1>a, <1>c, SlaveType DEF Instantiate, SlaveGoto
  <2>2. CASE Free(l, s) /\ Share(l, owners[l] \ {s})
    <3>1. frees[l][s] # 1
      BY <1>c, <2>1 DEF IInv, History, HistoryAt
    <3>2. frees' \in [Loads -> [Handles -> {0, 1}]]
      BY <1>0, <1>b, <2>2, <3>1, FreeType
    <3> QED  BY <1>0, <1>3, <1>b, <2>1, <2>2, <3>2, ShareType DEF Instantiate, TypeOK
  <2>3. CASE UNCHANGED <<disk, owners, left, frees>>
    BY <1>0, <1>3, <2>1, <2>3 DEF Instantiate, TypeOK
  <2> QED  BY <1>3, <2>2, <2>3 DEF Instantiate
<1>4. CASE FreeInstance(l, s)
  <2>1. slave' \in [Loads -> [Slaves -> SlaveStages]] /\ slave[l][s] = "live"
    BY <1>0, <1>4, <1>a, SlaveType DEF FreeInstance, SlaveGoto
  <2>2. frees[l][s] # 1
    BY <1>c, <2>1 DEF IInv, History, HistoryAt
  <2>3. frees' \in [Loads -> [Handles -> {0, 1}]]
    BY <1>0, <1>4, <1>b, <2>2, FreeType DEF FreeInstance
  <2> QED  BY <1>0, <1>4, <2>1, <2>3 DEF FreeInstance, TypeOK
<1>5. CASE DestroySlave(l, s)
  <2>1. slave' \in [Loads -> [Slaves -> SlaveStages]] /\ stage[l] # "absent"
        /\ slave[l][s] \in {"live", "freed"}
    BY <1>0, <1>5, <1>a, <1>c, SlaveType DEF DestroySlave, SlaveGoto
  <2>2. frees' \in [Loads -> [Handles -> {0, 1}]]
    <3>1. CASE slave[l][s] = "live" /\ Free(l, s)
      <4>1. frees[l][s] # 1
        BY <1>c, <3>1 DEF IInv, History, HistoryAt
      <4> QED  BY <1>0, <1>b, <3>1, <4>1, FreeType
    <3>2. CASE UNCHANGED frees
      BY <1>0, <3>2 DEF TypeOK
    <3> QED  BY <1>5, <3>1, <3>2 DEF DestroySlave, SlaveGoto
  <2> QED  BY <1>0, <1>5, <1>b, <2>1, <2>2, ShareType DEF DestroySlave, TypeOK
<1> QED  BY <1>1, <1>2, <1>3, <1>4, <1>5 DEF SlaveStep

-----------------------------------------------------------------------------
(* The step of one load, as seen by the others: only the disk can change. *)
LEMMA Elsewhere ==
    ASSUME IInv, NEW l \in Loads, LoadStep(l) \/ \E s \in Slaves : SlaveStep(l, s),
           NEW m \in Loads, m # l
    PROVE  /\ stage'[m] = stage[m] /\ slave'[m] = slave[m]
           /\ dir'[m] = dir[m] /\ owners'[m] = owners[m]
           /\ opened'[m] = opened[m] /\ frees'[m] = frees[m]
<1>0. TypeOK
  BY DEF IInv
<1>1. CASE LoadStep(l)
    BY <1>0, <1>1 DEF LoadStep, Create, Unpack, ReturnNull, ParseFmu, CheckKind, UseNull,
       DestroyFmu, Crash, Dies, Goto, Open, Free, Share, TypeOK
<1>2. ASSUME NEW s \in Slaves, SlaveStep(l, s)
      PROVE  /\ stage'[m] = stage[m] /\ slave'[m] = slave[m]
             /\ dir'[m] = dir[m] /\ owners'[m] = owners[m]
             /\ opened'[m] = opened[m] /\ frees'[m] = frees[m]
    BY <1>0, <1>2 DEF SlaveStep, NewInstance, LoadDll, Instantiate, FreeInstance,
       DestroySlave, Dies, SlaveGoto, Open, Free, Share, TypeOK
<1> QED  BY <1>1, <1>2

(* Who shares what after a step of a load. *)
LEMMA LoadSharing ==
    ASSUME IInv, NEW l \in Loads, LoadStep(l)
    PROVE  SharingAt(l)'
<1>0. TypeOK /\ SharingAt(l)
  BY DEF IInv, Sharing
<1> USE <1>0 DEF SharingAt, Idle, Goto, TypeOK
<1>1. CASE Create(l)
    BY <1>1, ConstantsAssumption DEF Create
<1>2. CASE Unpack(l)
    BY <1>2 DEF Unpack
<1>3. CASE ReturnNull(l)
    BY <1>3 DEF ReturnNull, Share
<1>4. CASE ParseFmu(l)
    BY <1>4 DEF ParseFmu, Dies
<1>5. CASE CheckKind(l)
    BY <1>5 DEF CheckKind, Share, LiveSlaves
<1>6. CASE UseNull(l)
    BY <1>6 DEF UseNull
<1>7. CASE DestroyFmu(l)
  <2>1. LiveSlaves(l)' = LiveSlaves(l) /\ Fmu \notin LiveSlaves(l)
    BY <1>7, ConstantsAssumption DEF DestroyFmu, LiveSlaves
  <2>2. owners'[l] = LiveSlaves(l) /\ stage'[l] = "destroyed" /\ stage[l] = "loaded"
    BY <1>7, <2>1 DEF DestroyFmu, Share
  <2> QED  BY <1>7, <2>1, <2>2 DEF DestroyFmu
<1>8. CASE Crash(l)
    BY <1>8 DEF Crash, Dies
<1> QED  BY <1>1, <1>2, <1>3, <1>4, <1>5, <1>6, <1>7, <1>8 DEF LoadStep

(* A slave that changes to a state is an owner as long as it is alive. *)
LEMMA SlaveSharing ==
    ASSUME IInv, NEW l \in Loads, NEW s \in Slaves, SlaveStep(l, s)
    PROVE  SharingAt(l)'
<1>0. TypeOK /\ SharingAt(l)
  BY DEF IInv, Sharing
<1>1. stage[l] \in {"loaded", "destroyed"}
  BY <1>0 DEF SlaveStep, NewInstance, LoadDll, Instantiate, FreeInstance, DestroySlave,
     SlaveGoto, SharingAt, Idle, TypeOK, Stages
<1> DEFINE Alive == {"parsed", "linked", "live", "freed"}
<1>2. ASSUME NEW from, NEW to, SlaveGoto(l, s, from, to)
      PROVE  LiveSlaves(l)' = IF to \in Alive THEN LiveSlaves(l) \cup {s}
                                              ELSE LiveSlaves(l) \ {s}
  BY <1>0, <1>2 DEF SlaveGoto, LiveSlaves, TypeOK
<1>3. ASSUME UNCHANGED <<stage, dir>>,
             owners'[l] = LiveSlaves(l)' \cup (owners[l] \cap {Fmu})
      PROVE  SharingAt(l)'
  <2>1. Fmu \notin LiveSlaves(l)
    BY ConstantsAssumption DEF LiveSlaves
  <2> QED  BY <1>0, <1>1, <1>3, <2>1 DEF SharingAt
<1>4. s # Fmu /\ Fmu \notin LiveSlaves(l)
  BY ConstantsAssumption DEF LiveSlaves
<1>5. owners[l] = LiveSlaves(l) \cup (owners[l] \cap {Fmu})
  BY <1>0, <1>1, <1>4 DEF SharingAt
<1>6. CASE NewInstance(l, s)
  <2>1. CASE Dies(l)
    BY <1>0, <2>1, <1>6 DEF Dies, SharingAt, Idle, TypeOK, NewInstance
  <2>2. CASE SlaveGoto(l, s, "absent", "parsed") /\ Share(l, owners[l] \cup {s})
             /\ UNCHANGED <<stage, dir>>
    <3>1. LiveSlaves(l)' = LiveSlaves(l) \cup {s}
      BY <1>2, <2>2
    <3>2. owners'[l] = owners[l] \cup {s}
      BY <1>0, <2>2 DEF Share, TypeOK
    <3> QED  BY <1>3, <1>4, <1>5, <2>2, <3>1, <3>2
  <2> QED  BY <1>6, <2>1, <2>2 DEF NewInstance
<1>7. CASE LoadDll(l, s)
  <2>1. CASE SlaveGoto(l, s, "parsed", "linked") /\ UNCHANGED owners
    <3>1. LiveSlaves(l)' = LiveSlaves(l)
      BY <1>0, <2>1 DEF SlaveGoto, LiveSlaves, TypeOK
    <3> QED  BY <1>3, <1>5, <1>7, <2>1, <3>1 DEF LoadDll
  <2>2. CASE SlaveGoto(l, s, "parsed", "unlinked") /\ Share(l, owners[l] \ {s})
    <3>1. LiveSlaves(l)' = LiveSlaves(l) \ {s}
      BY <1>2, <2>2
    <3>2. owners'[l] = owners[l] \ {s}
      BY <1>0, <2>2 DEF Share, TypeOK
    <3> QED  BY <1>3, <1>4, <1>5, <1>7, <3>1, <3>2 DEF LoadDll
  <2> QED  BY <1>7, <2>1, <2>2 DEF LoadDll
<1>8. CASE Instantiate(l, s)
  <2>1. CASE SlaveGoto(l, s, "linked", "live") /\ UNCHANGED owners
    <3>1. LiveSlaves(l)' = LiveSlaves(l)
      BY <1>0, <2>1 DEF SlaveGoto, LiveSlaves, TypeOK
    <3> QED  BY <1>3, <1>5, <1>8, <2>1, <3>1 DEF Instantiate
  <2>2. CASE SlaveGoto(l, s, "linked", "failed") /\ Share(l, owners[l] \ {s})
    <3>1. LiveSlaves(l)' = LiveSlaves(l) \ {s}
      BY <1>2, <2>2
    <3>2. owners'[l] = owners[l] \ {s}
      BY <1>0, <2>2 DEF Share, TypeOK
    <3> QED  BY <1>3, <1>4, <1>5, <1>8, <3>1, <3>2 DEF Instantiate
  <2> QED  BY <1>8, <2>1, <2>2 DEF Instantiate
<1>9. CASE FreeInstance(l, s)
  <2>1. LiveSlaves(l)' = LiveSlaves(l)
    BY <1>0, <1>9 DEF FreeInstance, SlaveGoto, LiveSlaves, TypeOK
  <2> QED  BY <1>3, <1>5, <1>9, <2>1 DEF FreeInstance
<1>10. CASE DestroySlave(l, s)
  <2>1. LiveSlaves(l)' = LiveSlaves(l) \ {s}
    BY <1>2, <1>10 DEF DestroySlave
  <2>2. owners'[l] = owners[l] \ {s}
    BY <1>0, <1>10 DEF DestroySlave, Share, TypeOK
  <2> QED  BY <1>3, <1>4, <1>5, <1>10, <2>1, <2>2 DEF DestroySlave
<1> QED  BY <1>6, <1>7, <1>8, <1>9, <1>10 DEF SlaveStep

-----------------------------------------------------------------------------
(* What a step of a load, or of a slave of it, does to the disk: it changes *)
(* the load's own directory, puts something there only as an owner, and     *)
(* leaves it behind without one only if nothing will remove it.             *)
DiskStep(l) ==
    /\ \A n \in Names : disk'[n] # disk[n] =>
          n = dir'[l] /\ (disk'[n] # None => owners'[l] # {})
    /\ owners[l] # {} \/ l \in left =>
          owners'[l] # {} \/ l \in left' \/ disk'[dir[l]] = None
    /\ left \subseteq left'
    /\ dir[l] # None => dir'[l] = dir[l]

LEMMA LoadDiskStep ==
    ASSUME IInv, NEW l \in Loads, LoadStep(l)
    PROVE  DiskStep(l)
<1>0. TypeOK /\ Sharing /\ SharingAt(l)
  BY DEF IInv, Sharing
<1>1. CASE Create(l)
    BY <1>0, <1>1 DEF Create, DiskStep, TypeOK, SharingAt, Goto
<1>2. CASE Unpack(l)
  <2>1. dir[l] \in Names /\ owners[l] = {Load}
    BY <1>0, <1>2, DirDrawn DEF Unpack, Goto, SharingAt
  <2> QED  BY <1>0, <1>2, <2>1 DEF Unpack, DiskStep, TypeOK
<1>3. CASE ReturnNull(l)
  <2>1. dir[l] \in Names
    BY <1>0, <1>3, DirDrawn DEF ReturnNull, Goto
  <2> QED  BY <1>0, <1>3, <2>1 DEF ReturnNull, Share, RemoveDir, DiskStep, TypeOK
<1>4. CASE ParseFmu(l)
    BY <1>4 DEF ParseFmu, Dies, DiskStep
<1>5. CASE CheckKind(l)
  <2>1. dir[l] \in Names
    BY <1>0, <1>5, DirDrawn DEF CheckKind, Goto
  <2> QED  BY <1>0, <1>5, <2>1 DEF CheckKind, Share, RemoveDir, DiskStep, TypeOK
<1>6. CASE UseNull(l)
    BY <1>6 DEF UseNull, DiskStep
<1>7. CASE DestroyFmu(l)
  <2>1. dir[l] \in Names
    BY <1>0, <1>7, DirDrawn DEF DestroyFmu, Goto
  <2> QED  BY <1>0, <1>7, <2>1 DEF DestroyFmu, Share, RemoveDir, DiskStep, TypeOK
<1>8. CASE Crash(l)
    BY <1>8 DEF Crash, Dies, DiskStep
<1> QED  BY <1>1, <1>2, <1>3, <1>4, <1>5, <1>6, <1>7, <1>8 DEF LoadStep

LEMMA SlaveDiskStep ==
    ASSUME IInv, NEW l \in Loads, NEW s \in Slaves, SlaveStep(l, s)
    PROVE  DiskStep(l)
<1>0. TypeOK /\ Sharing /\ SharingAt(l)
  BY DEF IInv, Sharing
<1>1. stage[l] # "absent"
  BY <1>0 DEF SlaveStep, NewInstance, LoadDll, Instantiate, FreeInstance, DestroySlave,
     SlaveGoto, SharingAt, Idle
<1>2. dir[l] \in Names
  BY <1>0, <1>1, DirDrawn
<1>3. UNCHANGED dir
  BY DEF SlaveStep, NewInstance, LoadDll, Instantiate, FreeInstance, DestroySlave, Dies
<1>4. CASE UNCHANGED <<disk, owners, left>>
  BY <1>3, <1>4 DEF DiskStep
<1>5. ASSUME NEW holders, Share(l, holders)
      PROVE  DiskStep(l)
  BY <1>0, <1>2, <1>3, <1>5 DEF Share, RemoveDir, DiskStep, TypeOK
<1>6. CASE Dies(l)
  BY <1>3, <1>6 DEF Dies, DiskStep
<1> QED  BY <1>4, <1>5, <1>6 DEF SlaveStep, NewInstance, LoadDll, Instantiate,
            FreeInstance, DestroySlave

(* The files of the others. *)
LEMMA OthersUnpacked ==
    ASSUME IInv, NEW l \in Loads, LoadStep(l) \/ \E s \in Slaves : SlaveStep(l, s),
           DiskStep(l), NEW m \in Loads, m # l
    PROVE  UnpackedAt(m)'
<1> SUFFICES ASSUME stage[m] \in {"versioned", "parsed", "loaded", "destroyed"},
                    owners[m] # {}, Alone(m)'
             PROVE  disk'[dir[m]] = m
  BY Elsewhere DEF UnpackedAt
<1>1. dir[m] \in Names
  BY DirDrawn DEF IInv
<1>2. \A k \in Loads : k # l => dir'[k] = dir[k]
  BY Elsewhere
<1>3. dir'[l] # dir[m]
  BY <1>2 DEF Alone
<1>4. dir[l] # dir[m]
  BY <1>1, <1>3, ConstantsAssumption DEF DiskStep
<1>5. Alone(m)
  BY <1>2, <1>4 DEF Alone
<1>6. disk[dir[m]] = m
  BY <1>5 DEF IInv, Unpacked, UnpackedAt
<1> QED  BY <1>1, <1>3, <1>6 DEF DiskStep

(* The files of the load that takes the step. *)
LEMMA LoadUnpacked ==
    ASSUME IInv, NEW l \in Loads, LoadStep(l)
    PROVE  UnpackedAt(l)'
<1>0. TypeOK /\ Sharing /\ UnpackedAt(l)
  BY DEF IInv, Unpacked
<1>1. CASE Create(l)
    BY <1>0, <1>1 DEF Create, Goto, UnpackedAt, TypeOK
<1>2. CASE Unpack(l)
  <2>1. dir[l] \in Names
    BY <1>0, <1>2, DirDrawn DEF Unpack, Goto
  <2> QED  BY <1>0, <1>2, <2>1 DEF Unpack, UnpackedAt, TypeOK
<1>3. CASE ReturnNull(l)
    BY <1>0, <1>3 DEF ReturnNull, Goto, UnpackedAt, TypeOK
<1>4. CASE ParseFmu(l)
  <2>1. CASE Dies(l)
    BY <1>0, <2>1 DEF Dies, UnpackedAt, TypeOK
  <2>2. CASE Goto(l, "versioned", "parsed") /\ UNCHANGED <<disk, dir, owners>>
    BY <1>0, <2>2 DEF Goto, UnpackedAt, Alone
  <2> QED  BY <1>4, <2>1, <2>2 DEF ParseFmu
<1>5. CASE CheckKind(l)
  <2>1. stage[l] = "parsed" /\ owners[l] # {} /\ UNCHANGED dir
    BY <1>0, <1>5 DEF CheckKind, Goto, Sharing, SharingAt
  <2>2. CASE Share(l, {})
    BY <1>0, <2>2 DEF Share, UnpackedAt, TypeOK
  <2>3. CASE Share(l, {Fmu})
    BY <1>0, <2>1, <2>3 DEF Share, UnpackedAt, Alone
  <2> QED  BY <1>5, <2>2, <2>3 DEF CheckKind
<1>6. CASE UseNull(l)
    BY <1>0, <1>6 DEF UseNull, Goto, UnpackedAt, TypeOK
<1>7. CASE DestroyFmu(l)
  <2>1. stage[l] = "loaded" /\ owners[l] # {} /\ UNCHANGED dir
    BY <1>0, <1>7 DEF DestroyFmu, Goto, Sharing, SharingAt
  <2>2. owners'[l] # {} => UNCHANGED disk
    BY <1>0, <1>7 DEF DestroyFmu, Share, TypeOK
  <2> QED  BY <1>0, <2>1, <2>2 DEF UnpackedAt, Alone
<1>8. CASE Crash(l)
    BY <1>0, <1>8 DEF Crash, Dies, UnpackedAt, TypeOK
<1> QED  BY <1>1, <1>2, <1>3, <1>4, <1>5, <1>6, <1>7, <1>8 DEF LoadStep

LEMMA SlaveUnpacked ==
    ASSUME IInv, NEW l \in Loads, NEW s \in Slaves, SlaveStep(l, s)
    PROVE  UnpackedAt(l)'
<1>0. TypeOK /\ SharingAt(l) /\ UnpackedAt(l)
  BY DEF IInv, Sharing, Unpacked
<1>1. CASE Dies(l)
  BY <1>0, <1>1 DEF Dies, UnpackedAt, TypeOK
<1>2. CASE UNCHANGED <<stage, dir>>
  <2>1. stage[l] \in {"loaded", "destroyed"}
    BY <1>0, <1>2 DEF SlaveStep, NewInstance, LoadDll, Instantiate, FreeInstance,
       DestroySlave, SlaveGoto, SharingAt, Idle, TypeOK, Stages
  <2>2. owners'[l] # {} => UNCHANGED disk /\ owners[l] # {}
    <3>1. CASE UNCHANGED <<disk, owners>>
      BY <3>1
    <3>2. CASE Share(l, owners[l] \ {s})
      BY <1>0, <3>2 DEF Share, TypeOK
    <3>3. CASE NewInstance(l, s)
      BY <1>0, <1>2, <3>3 DEF NewInstance, Share, TypeOK, Dies, SharingAt
    <3> QED  BY <3>1, <3>2, <3>3 DEF SlaveStep, LoadDll, Instantiate, FreeInstance,
                DestroySlave
  <2> QED  BY <1>0, <1>2, <2>1, <2>2 DEF UnpackedAt, Alone
<1> QED  BY <1>1, <1>2 DEF SlaveStep, NewInstance, LoadDll, Instantiate, FreeInstance,
            DestroySlave

(* A directory on disk keeps an owner, or somebody to blame. *)
LEMMA StepDirsOwned ==
    ASSUME IInv, NEW l \in Loads, LoadStep(l) \/ \E s \in Slaves : SlaveStep(l, s),
           DiskStep(l)
    PROVE  DirsOwned'
<1> SUFFICES ASSUME NEW n \in Names, disk'[n] # None
             PROVE  \E m \in Loads : dir'[m] = n /\ (owners'[m] # {} \/ m \in left')
  BY DEF DirsOwned
<1>1. CASE disk'[n] # disk[n]
  BY <1>1 DEF DiskStep
<1>2. CASE disk'[n] = disk[n]
  <2>1. PICK m \in Loads : dir[m] = n /\ (owners[m] # {} \/ m \in left)
    BY <1>2 DEF IInv, DirsOwned
  <2>2. CASE m # l
    BY <2>1, <2>2, Elsewhere DEF DiskStep
  <2>3. CASE m = l
    BY <2>1, <2>3, ConstantsAssumption DEF DiskStep
  <2> QED  BY <2>2, <2>3
<1> QED  BY <1>1, <1>2

-----------------------------------------------------------------------------
(* The handles after a step of a load. *)
LEMMA LoadHistory ==
    ASSUME IInv, NEW l \in Loads, LoadStep(l)
    PROVE  HistoryAt(l)'
<1>0. TypeOK /\ SharingAt(l) /\ HistoryAt(l)
  BY DEF IInv, Sharing, History
<1>a. \A s \in Slaves : s # Fmu /\ s \in Handles
  BY ConstantsAssumption DEF Handles
<1>b. Fmu \in Handles
  BY DEF Handles
<1> USE <1>0, <1>a, <1>b DEF HistoryAt, Goto, TypeOK
<1>1. CASE Create(l)
    BY <1>1 DEF Create
<1>2. CASE Unpack(l)
    BY <1>2 DEF Unpack
<1>3. CASE ReturnNull(l)
    BY <1>3 DEF ReturnNull
<1>4. CASE ParseFmu(l)
    BY <1>4 DEF ParseFmu, Dies, Open
<1>5. CASE CheckKind(l)
    BY <1>5 DEF CheckKind
<1>6. CASE UseNull(l)
    BY <1>6 DEF UseNull
<1>7. CASE DestroyFmu(l)
  <2>1. frees[l][Fmu] = 0
    BY <1>7 DEF DestroyFmu
  <2>2. frees'[l][Fmu] = 1 /\ \A s \in Slaves : frees'[l][s] = frees[l][s]
    BY <1>7, <2>1 DEF DestroyFmu, Free
  <2>3. stage[l] = "loaded" /\ stage'[l] = "destroyed" /\ UNCHANGED <<slave, opened>>
    BY <1>7 DEF DestroyFmu
  <2> QED  BY <2>2, <2>3
<1>8. CASE Crash(l)
    BY <1>8 DEF Crash, Dies
<1> QED  BY <1>1, <1>2, <1>3, <1>4, <1>5, <1>6, <1>7, <1>8 DEF LoadStep

LEMMA SlaveHistory ==
    ASSUME IInv, NEW l \in Loads, NEW s \in Slaves, SlaveStep(l, s)
    PROVE  HistoryAt(l)'
<1>0. TypeOK /\ HistoryAt(l)
  BY DEF IInv, History
<1>a. \A t \in Slaves : t # Fmu /\ t \in Handles
  BY ConstantsAssumption DEF Handles
<1>1. CASE Dies(l)
  BY <1>0, <1>1 DEF Dies, HistoryAt, TypeOK
<1>2. CASE UNCHANGED stage
  <2>1. stage[l] # "crashed" => frees[l][s] = 0
        \/ slave[l][s] \in {"freed", "destroyed", "failed"}
    BY <1>0, <1>a DEF HistoryAt, TypeOK
  <2>2. ASSUME NEW from, NEW to, SlaveGoto(l, s, from, to)
        PROVE  slave[l][s] = from /\ slave'[l][s] = to
               /\ \A t \in Slaves : t # s => slave'[l][t] = slave[l][t]
    BY <1>0, <2>2 DEF SlaveGoto, TypeOK
  <2>3. ASSUME Free(l, s), frees[l][s] = 0
        PROVE  frees'[l][s] = 1
               /\ \A h \in Handles : h # s => frees'[l][h] = frees[l][h]
    BY <1>0, <1>a, <2>3 DEF Free, TypeOK
  <2>4. CASE NewInstance(l, s) /\ ~Dies(l)
    <3>1. SlaveGoto(l, s, "absent", "parsed") /\ Open(l, s) /\ UNCHANGED frees
      BY <2>4 DEF NewInstance
    <3>2. opened'[l] = opened[l] \cup {s}
      BY <1>0, <3>1 DEF Open, TypeOK
    <3> QED  BY <1>0, <1>2, <1>a, <2>2, <3>1, <3>2 DEF HistoryAt
  <2>5. CASE LoadDll(l, s)
    <3>1. PICK to \in {"linked", "unlinked"} : SlaveGoto(l, s, "parsed", to)
      BY <2>5 DEF LoadDll
    <3> QED  BY <1>0, <1>2, <1>a, <2>2, <2>5, <3>1 DEF HistoryAt, LoadDll
  <2>6. CASE Instantiate(l, s)
    <3>1. CASE SlaveGoto(l, s, "linked", "live") /\ UNCHANGED frees
      BY <1>0, <1>2, <1>a, <2>2, <2>6, <3>1 DEF HistoryAt, Instantiate
    <3>2. CASE SlaveGoto(l, s, "linked", "failed") /\ Free(l, s)
      BY <1>0, <1>2, <1>a, <2>1, <2>2, <2>3, <2>6, <3>2 DEF HistoryAt, Instantiate, Handles
    <3> QED  BY <2>6, <3>1, <3>2 DEF Instantiate
  <2>7. CASE FreeInstance(l, s)
    BY <1>0, <1>2, <1>a, <2>1, <2>2, <2>3, <2>7 DEF HistoryAt, FreeInstance, Handles
  <2>8. CASE DestroySlave(l, s)
    <3>1. CASE SlaveGoto(l, s, "live", "destroyed") /\ Free(l, s)
      BY <1>0, <1>2, <1>a, <2>1, <2>2, <2>3, <2>8, <3>1 DEF HistoryAt, DestroySlave, Handles
    <3>2. CASE SlaveGoto(l, s, "freed", "destroyed") /\ UNCHANGED frees
      BY <1>0, <1>2, <1>a, <2>2, <2>8, <3>2 DEF HistoryAt, DestroySlave
    <3> QED  BY <2>8, <3>1, <3>2 DEF DestroySlave
  <2>9. CASE Dies(l)
    BY <1>1, <2>9
  <2> QED  BY <2>4, <2>5, <2>6, <2>7, <2>8, <2>9 DEF SlaveStep
<1> QED  BY <1>1, <1>2 DEF SlaveStep, NewInstance, LoadDll, Instantiate, FreeInstance,
            DestroySlave

-----------------------------------------------------------------------------
(* The invariant is inductive. *)
LEMMA NextIInv == IInv /\ [Next]_vars => IInv'
<1>1. ASSUME IInv, NEW l \in Loads, LoadStep(l) \/ \E s \in Slaves : SlaveStep(l, s)
      PROVE  IInv'
  <2>1. TypeOK'
    BY <1>1, LoadType, SlaveStepType
  <2>2. SharingAt(l)' /\ UnpackedAt(l)' /\ HistoryAt(l)'
    BY <1>1, LoadSharing, SlaveSharing, LoadUnpacked, SlaveUnpacked, LoadHistory,
       SlaveHistory
  <2>3. DiskStep(l)
    BY <1>1, LoadDiskStep, SlaveDiskStep
  <2>4. ASSUME NEW m \in Loads, m # l
        PROVE  SharingAt(m)' /\ UnpackedAt(m)' /\ HistoryAt(m)'
    <3>1. UnpackedAt(m)'
      BY <1>1, <2>3, <2>4, OthersUnpacked
    <3>2. /\ stage'[m] = stage[m] /\ slave'[m] = slave[m]
          /\ dir'[m] = dir[m] /\ owners'[m] = owners[m]
          /\ opened'[m] = opened[m] /\ frees'[m] = frees[m]
      BY <1>1, <2>4, Elsewhere
    <3>3. SharingAt(m) /\ HistoryAt(m)
      BY <1>1 DEF IInv, Sharing, History
    <3>4. SharingAt(m)'
      BY <3>2, <3>3 DEF SharingAt, LiveSlaves, Idle
    <3>5. HistoryAt(m)'
      BY <3>2, <3>3 DEF HistoryAt
    <3> QED  BY <3>1, <3>4, <3>5
  <2>5. DirsOwned'
    BY <1>1, <2>3, StepDirsOwned
  <2> QED  BY <2>1, <2>2, <2>4, <2>5 DEF IInv, Sharing, Unpacked, History
<1>2. CASE UNCHANGED vars
  BY <1>2 DEF vars, IInv, TypeOK, Sharing, SharingAt, LiveSlaves, Idle, Unpacked,
     UnpackedAt, Alone, DirsOwned, History, HistoryAt
<1> QED  BY <1>1, <1>2 DEF Next

THEOREM Invariant == Spec => []IInv
<1> QED  BY InitIInv, NextIInv, PTL DEF Spec

(* Every variable keeps its type; in particular no handle is freed twice    *)
(* (freeInstance and the destructors, fmi2_slave.cpp:179-192).              *)
THEOREM TypeCorrect == Spec => []TypeOK
<1>1. IInv => TypeOK
  BY DEF IInv
<1> QED  BY Invariant, <1>1, PTL

(* The files of an FMU are there as long as its fmu object or a slave is    *)
(* alive, in whatever order these go, unless another load drew the same     *)
(* directory (fmu.cpp:10-27, the shared tmpDir_).                           *)
THEOREM FilesAreThere == Spec => []FilesThere
<1>1. IInv => FilesThere
  <2> SUFFICES ASSUME IInv, NEW l \in Loads, NeedsFiles(l), Alone(l)
               PROVE  disk[dir[l]] = l
    BY DEF FilesThere
  <2>1. TypeOK /\ SharingAt(l) /\ UnpackedAt(l)
    BY DEF IInv, Sharing, Unpacked
  <2>2. CASE stage[l] \in {"versioned", "parsed", "loaded"}
    BY <2>1, <2>2 DEF SharingAt, UnpackedAt
  <2>3. ASSUME NEW s \in Slaves, InUse(l, s)
        PROVE  disk[dir[l]] = l
    <3>1. stage[l] \in {"loaded", "destroyed"}
      BY <2>1, <2>3 DEF SharingAt, Idle, InUse, TypeOK, Stages
    <3>2. s \in LiveSlaves(l)
      BY <2>3 DEF LiveSlaves, InUse
    <3> QED  BY <2>1, <3>1, <3>2 DEF SharingAt, UnpackedAt
  <2> QED  BY <2>2, <2>3 DEF NeedsFiles
<1> QED  BY Invariant, <1>1, PTL

(* No directory stays on disk without an owner that will remove it, unless  *)
(* a process died or a removal failed (temp_dir.hpp:49-56).                 *)
THEOREM DirectoriesAreOwned == Spec => []DirsOwned
<1>1. IInv => DirsOwned
  BY DEF IInv
<1> QED  BY Invariant, <1>1, PTL

(* Handles are freed exactly once, but for the two exceptions that leak one *)
(* (fmi2_fmu.cpp:20-22, fmi2_slave.cpp:41-43).                              *)
THEOREM HandlesAreFreed == Spec => []HandlesFreed
<1>1. IInv => HandlesFreed
  <2> SUFFICES ASSUME IInv, NEW l \in Loads
               PROVE
                 /\ stage[l] # "crashed" =>
                       /\ Fmu \in opened[l] /\ frees[l][Fmu] = 0
                             => stage[l] \in {"parsed", "loaded", "failed"}
                       /\ \A s \in Slaves :
                             s \in opened[l] /\ frees[l][s] = 0
                               => slave[l][s] \in {"parsed", "linked", "live", "unlinked"}
                 /\ \A h \in Handles : frees[l][h] <= 1
    BY DEF HandlesFreed
  <2>1. TypeOK /\ HistoryAt(l)
    BY DEF IInv, History
  <2>2. \A h \in Handles : frees[l][h] <= 1
    <3>1. \A h \in Handles : frees[l][h] \in {0, 1}
      BY <2>1 DEF TypeOK
    <3> QED  BY <3>1
  <2>3. ASSUME stage[l] # "crashed", NEW s \in Slaves, s \in opened[l], frees[l][s] = 0
        PROVE  slave[l][s] \in {"parsed", "linked", "live", "unlinked"}
    <3>1. slave[l][s] \in SlaveStages
      BY <2>1 DEF TypeOK
    <3> QED  BY <2>1, <2>3, <3>1 DEF HistoryAt, SlaveStages
  <2>4. ASSUME stage[l] # "crashed", Fmu \in opened[l], frees[l][Fmu] = 0
        PROVE  stage[l] \in {"parsed", "loaded", "failed"}
    BY <2>1, <2>4 DEF HistoryAt
  <2> QED  BY <2>2, <2>3, <2>4
<1> QED  BY Invariant, <1>1, PTL
=============================================================================
