---------------------------- MODULE StartProcess ----------------------------
(***************************************************************************)
(* start_process of process_helper.hpp: the thread that launches the child *)
(* of an instance, reads its standard output, hands the announced port to  *)
(* the waiting creator under a mutex and a condition variable the creator  *)
(* owns, and then stays until the child has exited.                        *)
(*                                                                         *)
(* The creator gave the thread references to locals of a block it leaves   *)
(* as soon as it has a port. The thread may use them later: `scope` says   *)
(* whether they still exist, and a use of a dead one has any of the        *)
(* outcomes such a use has in practice.                                    *)
(***************************************************************************)
EXTENDS ProxyProcess

VARIABLES
    watch,    \* where the thread is
    port,     \* `int& port`
    mtx,      \* `std::mutex& mtx`: "free", or held by the "creator"
    asleep,   \* the creator is in the wait set of `std::condition_variable& cv`
    scope,    \* mtx and cv exist
    host      \* the process all threads belong to: "up" or "terminated"

watchVars == <<watch, port, mtx, asleep, scope, host>>

WatchStates == {"absent", "launching", "reading", "notifying", "reaping",
                "failing", "done", "stuck"}

WatchTypeOK ==
    /\ watch  \in [Instances -> WatchStates]
    /\ port   \in [Instances -> Ports \cup {Unset, Unbound}]
    /\ mtx    \in [Instances -> {"free", "creator"}]
    /\ asleep \in [Instances -> BOOLEAN]
    /\ scope  \in [Instances -> BOOLEAN]
    /\ host   \in {"up", "terminated"}

WatchInit ==
    /\ watch  = [i \in Instances |-> "absent"]
    /\ port   = [i \in Instances |-> Unset]
    /\ mtx    = [i \in Instances |-> "free"]
    /\ asleep = [i \in Instances |-> FALSE]
    /\ scope  = [i \in Instances |-> FALSE]
    /\ host   = "up"

-----------------------------------------------------------------------------
(* std::terminate: an exception left a thread, a destructor, or a           *)
(* constructor whose std::thread member is joinable. Every thread of the    *)
(* host is gone and its sockets are closed; the children live on.           *)
TerminateHost ==
    /\ host' = "terminated"
    /\ conn' = [i \in Instances |-> NoOne]

(* Lines 27-65: the executable is found and the child is spawned, or an     *)
(* exception leaves the thread function.                                    *)
Launch(i) ==
    /\ watch[i] = "launching"
    /\ \/ /\ watch' = [watch EXCEPT ![i] = "reading"]
          /\ child' = [child EXCEPT ![i] = "started"]
          /\ UNCHANGED <<host, conn>>
       \/ /\ "launch" \in Faults
          /\ TerminateHost
          /\ UNCHANGED <<watch, child>>
    /\ UNCHANGED <<attempt, listen, status, pipe, slave, served, backlog, call,
                   reply, port, mtx, asleep, scope>>

NextLine(i, text) ==
    /\ watch[i] = "reading"
    /\ pipe[i] # <<>>
    /\ Head(pipe[i]).text = text
    /\ pipe' = [pipe EXCEPT ![i] = Tail(@)]

(* Mutant of PublishPort: no notify_one after a port. *)
PublishPortQuietly(i) ==
    /\ mtx[i] = "free"
    /\ NextLine(i, "port")
    /\ port' = [port EXCEPT ![i] = Head(pipe[i]).port]
    /\ UNCHANGED <<child, attempt, listen, status, slave, served, networkVars,
                   watch, mtx, asleep, scope, host>>

(* Lines 70-75: the lock_guard's critical section. The creator is still in  *)
(* its block: it leaves only with a port.                                   *)
PublishPort(i) ==
    /\ mtx[i] = "free"
    /\ NextLine(i, "port")
    /\ port'  = [port  EXCEPT ![i] = Head(pipe[i]).port]
    /\ watch' = [watch EXCEPT ![i] = "notifying"]
    /\ UNCHANGED <<child, attempt, listen, status, slave, served, networkVars,
                   mtx, asleep, scope, host>>

(* Mutant of Notify: the notification reaches nobody. *)
NotifyNobody(i) ==
    /\ watch[i] = "notifying"
    /\ watch' = [watch EXCEPT ![i] = "reading"]
    /\ UNCHANGED <<processVars, port, mtx, asleep, scope, host>>

(* Line 76: notify_one, after the lock is released. If the creator has left *)
(* its block in between, cv is dead: the call does nothing or never returns. *)
Notify(i) ==
    /\ watch[i] = "notifying"
    /\ \/ watch' = [watch EXCEPT ![i] = "reading"]
       \/ ~scope[i] /\ watch' = [watch EXCEPT ![i] = "stuck"]
    /\ asleep' = [asleep EXCEPT ![i] = FALSE]
    /\ UNCHANGED <<processVars, port, mtx, scope, host>>

(* Lines 78-79: "[proxyfmu] freed", or 69: end of the child's output. *)
StopReading(i) ==
    /\ \/ NextLine(i, "freed")
       \/ /\ watch[i] = "reading"
          /\ pipe[i] = <<>>
          /\ child[i] = "exited"
          /\ UNCHANGED pipe
    /\ watch' = [watch EXCEPT ![i] = "reaping"]
    /\ UNCHANGED <<child, attempt, listen, status, slave, served, networkVars,
                   port, mtx, asleep, scope, host>>

(* Mutant of Reap: the exit status is not looked at. *)
ReapAsFailure(i) ==
    /\ watch[i] = "reaping"
    /\ child[i] = "exited"
    /\ watch' = [watch EXCEPT ![i] = "failing"]
    /\ UNCHANGED <<processVars, port, mtx, asleep, scope, host>>

(* Lines 85-90: `bound` holds as soon as a port was published. *)
Reap(i) ==
    /\ watch[i] = "reaping"
    /\ child[i] = "exited"
    /\ watch' = [watch EXCEPT ![i] =
                    IF status[i] = 0 /\ port[i] # Unset THEN "done" ELSE "failing"]
    /\ UNCHANGED <<processVars, port, mtx, asleep, scope, host>>

(* Lines 94-97: lock, port = -999, notify. When the creator has left its    *)
(* block the mutex is dead, and the lock may never be acquired.             *)
FailPort(i) ==
    /\ watch[i] = "failing"
    /\ \/ /\ mtx[i] = "free"
          /\ port'   = [port   EXCEPT ![i] = Unbound]
          /\ asleep' = [asleep EXCEPT ![i] = FALSE]
          /\ watch'  = [watch  EXCEPT ![i] = "done"]
       \/ /\ ~scope[i]
          /\ watch' = [watch EXCEPT ![i] = "stuck"]
          /\ UNCHANGED <<port, asleep>>
    /\ UNCHANGED <<processVars, mtx, scope, host>>

WatchStep(i) ==
    \/ Launch(i) \/ PublishPort(i) \/ Notify(i)
    \/ StopReading(i) \/ Reap(i) \/ FailPort(i)
=============================================================================
