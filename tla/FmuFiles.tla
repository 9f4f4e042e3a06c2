------------------------------- MODULE FmuFiles ------------------------------
(***************************************************************************)
(* Who owns the files and the FMI Library objects of an FMU: loadFmu, the  *)
(* constructors and destructors of fmi1_fmu, fmi2_fmu, fmi1_slave and      *)
(* fmi2_slave, and temp_dir.                                               *)
(*                                                                         *)
(* A load unpacks its FMU into a directory of its own below the system's   *)
(* directory for temporary files, and parses it into a handle. Each slave  *)
(* parses it again into a handle of its own, and may outlive the fmu, as   *)
(* it does in the service handler. The context and the directory belong to *)
(* whoever holds a shared_ptr to them and go with the last of these. The   *)
(* loads are processes (users and their children) that know nothing of     *)
(* each other but share the directory of temporary files; they are of FMUs *)
(* of one name, so that two can draw the same directory.                   *)
(***************************************************************************)
EXTENDS Integers, FiniteSets

CONSTANTS
    Loads,     \* calls of loadFmu
    Slaves,    \* the slaves one fmu object can make
    Names,     \* the directories generate_simple_id lets a load draw
    Faults     \* "crash": a process may die; "locked": remove_all may fail

Fmu  == "fmu"       \* the fmu object as an owner, and its handle
Load == "load"      \* the locals of loadFmu as owners
None == "none"      \* no directory yet

ASSUME ConstantsAssumption ==
    /\ Fmu \notin Slaves /\ Load \notin Slaves
    /\ None \notin Names /\ None \notin Loads /\ "empty" \notin Loads
    /\ Faults \subseteq {"crash", "locked"}

VARIABLES
    disk,     \* per name: whose FMU was unpacked there, "empty", or None
    exists,   \* per load: there is such a file as the one it is given
    stage,    \* per load: how far loadFmu has come, and the fate of the fmu
    slave,    \* per load and slave: the same for slaves
    dir,      \* per load: path_ of its temp_dir
    owners,   \* per load: who shares the context and the directory
    opened,   \* per load: the handles parse_xml has returned
    frees,    \* per load and handle: how often it was given to import_free
    left      \* the loads that cannot remove their directory any more

vars == <<disk, exists, stage, slave, dir, owners, opened, frees, left>>

Handles == Slaves \cup {Fmu}

Stages == {"absent", "created", "versioned", "parsed", "loaded", "destroyed",
           "null", "failed", "crashed"}

SlaveStages == {"absent", "parsed", "linked", "live", "freed", "destroyed",
                "unlinked", "failed"}

Init ==
    /\ disk   = [n \in Names |-> None]
    /\ exists \in [Loads -> BOOLEAN]
    /\ stage  = [l \in Loads |-> "absent"]
    /\ slave  = [l \in Loads |-> [s \in Slaves |-> "absent"]]
    /\ dir    = [l \in Loads |-> None]
    /\ owners = [l \in Loads |-> {}]
    /\ opened = [l \in Loads |-> {}]
    /\ frees  = [l \in Loads |-> [h \in Handles |-> 0]]
    /\ left   = {}

-----------------------------------------------------------------------------
Goto(l, from, to) == stage[l] = from /\ stage' = [stage EXCEPT ![l] = to]

SlaveGoto(l, s, from, to) ==
    slave[l][s] = from /\ slave' = [slave EXCEPT ![l][s] = to]

Open(l, h) == opened' = [opened EXCEPT ![l] = @ \cup {h}]
Free(l, h) == frees' = [frees EXCEPT ![l][h] = @ + 1]

(* ~temp_dir: what remove_all cannot remove is only reported. *)
RemoveDir(l) ==
    \/ /\ disk' = [disk EXCEPT ![dir[l]] = None]
       /\ UNCHANGED left
    \/ /\ "locked" \in Faults
       /\ left' = left \cup {l}
       /\ UNCHANGED disk

(* The shared_ptrs change hands; the last of them takes the directory along. *)
Share(l, holders) ==
    /\ owners' = [owners EXCEPT ![l] = holders]
    /\ IF holders = {} THEN RemoveDir(l) ELSE UNCHANGED <<disk, left>>

(* A context, and the constructor of temp_dir: create_directories takes an  *)
(* existing directory as it is.                                             *)
Create(l) ==
    /\ Goto(l, "absent", "created")
    /\ \E n \in Names :
          /\ dir'  = [dir EXCEPT ![l] = n]
          /\ disk' = [disk EXCEPT ![n] = IF @ = None THEN "empty" ELSE @]
    /\ owners' = [owners EXCEPT ![l] = {Load}]
    /\ UNCHANGED <<exists, slave, opened, frees, left>>

(* fmi_import_get_fmi_version unpacks the file, if there are a file and a   *)
(* directory, over what is there.                                           *)
Unpack(l) ==
    /\ Goto(l, "created", "versioned")
    /\ exists[l]
    /\ disk[dir[l]] # None
    /\ disk' = [disk EXCEPT ![dir[l]] = l]
    /\ UNCHANGED <<exists, slave, dir, owners, opened, frees, left>>

(* Mutant of ReturnNull: the directory is not released. *)
ReturnNullForgets(l) ==
    /\ Goto(l, "created", "null")
    /\ owners' = [owners EXCEPT ![l] = {}]
    /\ UNCHANGED <<disk, exists, slave, dir, opened, frees, left>>

(* It is not an FMU of version 1 or 2: loadFmu returns a null pointer. *)
ReturnNull(l) ==
    /\ Goto(l, "created", "null")
    /\ Share(l, {})
    /\ UNCHANGED <<exists, slave, dir, opened, frees>>

(* The process dies: no destructor runs, the directory stays. *)
Dies(l) ==
    /\ stage'  = [stage  EXCEPT ![l] = "crashed"]
    /\ slave'  = [slave  EXCEPT ![l] = [s \in Slaves |-> "absent"]]
    /\ owners' = [owners EXCEPT ![l] = {}]
    /\ left'   = left \cup {l}
    /\ UNCHANGED <<disk, exists, dir, opened, frees>>

(* The member initializers of the fmu: a malformed description gives a null *)
(* handle, which create_model_description goes on to use.                   *)
ParseFmu(l) ==
    \/ /\ Goto(l, "versioned", "parsed")
       /\ Open(l, Fmu)
       /\ UNCHANGED <<disk, exists, slave, dir, owners, frees, left>>
    \/ stage[l] = "versioned" /\ Dies(l)

(* The constructor's body: the FMU supports co-simulation or it throws,     *)
(* with a handle that no destructor will free.                              *)
CheckKind(l) ==
    /\ \/ Goto(l, "parsed", "loaded") /\ Share(l, {Fmu})
       \/ Goto(l, "parsed", "failed") /\ Share(l, {})
    /\ UNCHANGED <<exists, slave, dir, opened, frees>>

(* Every caller of loadFmu uses the result as it is; the constructor of     *)
(* proxy_fmu looks for the file only after that.                            *)
UseNull(l) ==
    /\ Goto(l, "null", "crashed")
    /\ UNCHANGED <<disk, exists, slave, dir, owners, opened, frees, left>>

(* Mutant of NewInstance: the slave does not share the fmu's temp_dir. *)
NewInstanceUnshared(l, s) ==
    /\ stage[l] = "loaded"
    /\ SlaveGoto(l, s, "absent", "parsed")
    /\ Open(l, s)
    /\ UNCHANGED <<disk, exists, stage, dir, owners, frees, left>>

(* new_instance: the member initializers of the slave, again without a      *)
(* test of the handle.                                                      *)
NewInstance(l, s) ==
    /\ stage[l] = "loaded"
    /\ slave[l][s] = "absent"
    /\ \/ /\ SlaveGoto(l, s, "absent", "parsed")
          /\ Open(l, s)
          /\ Share(l, owners[l] \cup {s})
          /\ UNCHANGED <<exists, stage, dir, frees>>
       \/ disk[dir[l]] # l /\ Dies(l)

(* create_dllfmu: a failure throws and leaves the handle as it is. *)
LoadDll(l, s) ==
    /\ \/ /\ SlaveGoto(l, s, "parsed", "linked")
          /\ UNCHANGED <<disk, owners, left>>
       \/ /\ SlaveGoto(l, s, "parsed", "unlinked")
          /\ Share(l, owners[l] \ {s})
    /\ UNCHANGED <<exists, stage, dir, opened, frees>>

(* Mutant of Instantiate: a failure leaves the freeing to the destructor,   *)
(* which a constructor that throws does not run.                            *)
InstantiateThrows(l, s) ==
    /\ \/ /\ SlaveGoto(l, s, "linked", "live")
          /\ UNCHANGED <<disk, owners, left, frees>>
       \/ /\ SlaveGoto(l, s, "linked", "failed")
          /\ Share(l, owners[l] \ {s})
          /\ UNCHANGED frees
    /\ UNCHANGED <<exists, stage, dir, opened>>

(* instantiate_slave: a failure frees the handle and throws. *)
Instantiate(l, s) ==
    /\ \/ /\ SlaveGoto(l, s, "linked", "live")
          /\ UNCHANGED <<disk, owners, left, frees>>
       \/ /\ SlaveGoto(l, s, "linked", "failed")
          /\ Free(l, s)
          /\ Share(l, owners[l] \ {s})
    /\ UNCHANGED <<exists, stage, dir, opened>>

FreeInstance(l, s) ==
    /\ SlaveGoto(l, s, "live", "freed")
    /\ Free(l, s)
    /\ UNCHANGED <<disk, exists, stage, dir, owners, opened, left>>

(* Mutant of DestroySlave: freed is not tested. *)
DestroyFreesAgain(l, s) ==
    /\ SlaveGoto(l, s, "live", "destroyed") \/ SlaveGoto(l, s, "freed", "destroyed")
    /\ Free(l, s)
    /\ Share(l, owners[l] \ {s})
    /\ UNCHANGED <<exists, stage, dir, opened>>

(* ~slave: freeInstance unless it is freed, then the members. *)
DestroySlave(l, s) ==
    /\ \/ SlaveGoto(l, s, "live", "destroyed") /\ Free(l, s)
       \/ SlaveGoto(l, s, "freed", "destroyed") /\ UNCHANGED frees
    /\ Share(l, owners[l] \ {s})
    /\ UNCHANGED <<exists, stage, dir, opened>>

(* new_instance is not running. *)
DestroyFmu(l) ==
    /\ \A s \in Slaves : slave[l][s] \notin {"parsed", "linked"}
    /\ Goto(l, "loaded", "destroyed")
    /\ Free(l, Fmu)
    /\ Share(l, owners[l] \ {Fmu})
    /\ UNCHANGED <<exists, slave, dir, opened>>

(* FMU code brings the process down, or something kills it. *)
Crash(l) == "crash" \in Faults /\ owners[l] # {} /\ Dies(l)

-----------------------------------------------------------------------------
SlaveStep(l, s) ==
    \/ NewInstance(l, s) \/ LoadDll(l, s) \/ Instantiate(l, s)
    \/ FreeInstance(l, s) \/ DestroySlave(l, s)

LoadStep(l) ==
    \/ Create(l) \/ Unpack(l) \/ ReturnNull(l) \/ ParseFmu(l) \/ CheckKind(l)
    \/ UseNull(l) \/ DestroyFmu(l) \/ Crash(l)

Next == \E l \in Loads : LoadStep(l) \/ \E s \in Slaves : SlaveStep(l, s)

Spec == Init /\ [][Next]_vars

-----------------------------------------------------------------------------
(* Properties *)

(* Every variable keeps its type. *)
TypeOK ==
    /\ disk   \in [Names -> Loads \cup {"empty", None}]
    /\ exists \in [Loads -> BOOLEAN]
    /\ stage  \in [Loads -> Stages]
    /\ slave  \in [Loads -> [Slaves -> SlaveStages]]
    /\ dir    \in [Loads -> Names \cup {None}]
    /\ owners \in [Loads -> SUBSET (Handles \cup {Load})]
    /\ opened \in [Loads -> SUBSET Handles]
    /\ frees  \in [Loads -> [Handles -> {0, 1}]]
    /\ left   \subseteq Loads

InUse(l, s) == slave[l][s] \in {"parsed", "linked", "live"}

NeedsFiles(l) ==
    \/ stage[l] \in {"versioned", "parsed", "loaded"}
    \/ \E s \in Slaves : InUse(l, s)

Alone(l) == \A k \in Loads : dir[k] = dir[l] => k = l

(* An fmu or a slave finds its FMU's files as long as it lives, in whatever *)
(* order the objects of a load are destroyed, unless another load drew the  *)
(* same six digits (temp_dir.hpp:39, fmi1_slave.hpp:23).                    *)
FilesThere == \A l \in Loads : NeedsFiles(l) /\ Alone(l) => disk[dir[l]] = l

(* A directory that is still on disk has an owner that will remove it, or   *)
(* was left there by a process that died or a removal that failed.          *)
DirsOwned ==
    \A n \in Names : disk[n] # None =>
        \E l \in Loads : dir[l] = n /\ (owners[l] # {} \/ l \in left)

(* An object that is over has freed its handle, once; only two exceptions   *)
(* leak one: no co-simulation (fmi2_fmu.cpp:21) and a library that cannot   *)
(* be loaded (fmi2_slave.cpp:42).                                           *)
HandlesFreed ==
    \A l \in Loads :
        /\ stage[l] # "crashed" =>
              /\ Fmu \in opened[l] /\ frees[l][Fmu] = 0
                    => stage[l] \in {"parsed", "loaded", "failed"}
              /\ \A s \in Slaves :
                    s \in opened[l] /\ frees[l][s] = 0
                        => slave[l][s] \in {"parsed", "linked", "live", "unlinked"}
        /\ \A h \in Handles : frees[l][h] <= 1

(* "No such file: " (proxy_fmu.cpp:19): a caller that names a file that is  *)
(* not there gets an exception.                                             *)
MissingFileThrows == \A l \in Loads : ~exists[l] => stage[l] # "crashed"
=============================================================================
