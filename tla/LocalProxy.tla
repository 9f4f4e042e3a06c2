----------------------------- MODULE LocalProxy -----------------------------
(***************************************************************************)
(* proxy_slave of client/proxy_slave.cpp without a remote_info: a slave    *)
(* object in the host process, the start_process thread it owns            *)
(* (StartProcess) and the child that runs the FMU (ProxyProcess).          *)
(*                                                                         *)
(* The constructor waits for the port, connects and instantiates; every    *)
(* method is one request and its reply; freeInstance asks the child to     *)
(* stop and joins the thread; the destructor is noexcept and calls         *)
(* freeInstance. An exception that has nowhere to go, and a thread_ that   *)
(* is destroyed while joinable, end the host (TerminateHost).              *)
(***************************************************************************)
EXTENDS StartProcess

VARIABLES
    pc,      \* where the slave object's user is
    inDtor   \* the free in progress was called by the destructor

proxyVars == <<pc, inDtor>>
vars == <<processVars, watchVars, proxyVars>>

ProxyStates == {"absent", "locking", "testing", "waiting", "checking",
                "rejoining", "failed", "connecting", "instantiating",
                "ready", "invoking", "freeing", "broken", "joining",
                "freed", "gone"}

Init ==
    /\ ProcessInit
    /\ WatchInit
    /\ pc     = [i \in Instances |-> "absent"]
    /\ inDtor = [i \in Instances |-> FALSE]

Goto(i, from, to) == pc[i] = from /\ pc' = [pc EXCEPT ![i] = to]

-----------------------------------------------------------------------------
(* Constructor, lines 58-60: mtx and cv are made, the thread is started. *)
Construct(i) ==
    /\ Goto(i, "absent", "locking")
    /\ watch' = [watch EXCEPT ![i] = "launching"]
    /\ scope' = [scope EXCEPT ![i] = TRUE]
    /\ UNCHANGED <<processVars, port, mtx, asleep, host, inDtor>>

(* Line 61, and the end of cv.wait. *)
Lock(i) ==
    /\ Goto(i, "locking", "testing")
    /\ mtx[i] = "free"
    /\ mtx' = [mtx EXCEPT ![i] = "creator"]
    /\ UNCHANGED <<processVars, watch, port, asleep, scope, host, inDtor>>

(* Line 62, no port yet: cv.wait releases the mutex and sleeps in one step. *)
Sleep(i) ==
    /\ Goto(i, "testing", "waiting")
    /\ port[i] = Unset
    /\ mtx'    = [mtx    EXCEPT ![i] = "free"]
    /\ asleep' = [asleep EXCEPT ![i] = TRUE]
    /\ UNCHANGED <<processVars, watch, port, scope, host, inDtor>>

(* Line 63: the loop is done; unlock, and mtx and cv go out of scope. *)
LeaveScope(i) ==
    /\ Goto(i, "testing", "checking")
    /\ port[i] # Unset
    /\ mtx'   = [mtx   EXCEPT ![i] = "free"]
    /\ scope' = [scope EXCEPT ![i] = FALSE]
    /\ UNCHANGED <<processVars, watch, port, asleep, host, inDtor>>

Wake(i) ==
    /\ Goto(i, "waiting", "locking")
    /\ ~asleep[i]
    /\ UNCHANGED <<processVars, watchVars, inDtor>>

(* A condition variable may wake a waiter nobody notified. *)
SpuriousWake(i) ==
    /\ Goto(i, "waiting", "locking")
    /\ asleep[i]
    /\ asleep' = [asleep EXCEPT ![i] = FALSE]
    /\ UNCHANGED <<processVars, watch, port, mtx, scope, host, inDtor>>

(* Line 94, outside the lock. *)
CheckPort(i) ==
    /\ \/ port[i] = Unbound /\ Goto(i, "checking", "rejoining")
       \/ port[i] # Unbound /\ Goto(i, "checking", "connecting")
    /\ UNCHANGED <<processVars, watchVars, inDtor>>

(* Lines 95-96: join, then throw to the caller. *)
ThrowUnableToBind(i) ==
    /\ Goto(i, "rejoining", "failed")
    /\ watch[i] = "done"
    /\ UNCHANGED <<processVars, watchVars, inDtor>>

(* Lines 99-107: connect to whoever listens on the port by now and send     *)
(* instantiate; a refused connection throws out of the constructor.         *)
Open(i) ==
    /\ pc[i] = "connecting"
    /\ \/ \E j \in Instances :
             /\ listen[j] = port[i]
             /\ conn'    = [conn    EXCEPT ![i] = j]
             /\ backlog' = [backlog EXCEPT ![i] = j]
             /\ call'    = [call    EXCEPT ![i] = "instantiate"]
             /\ pc'      = [pc      EXCEPT ![i] = "instantiating"]
             /\ UNCHANGED host
       \/ /\ \A j \in Instances : listen[j] # port[i]
          /\ TerminateHost
          /\ UNCHANGED <<backlog, call, pc>>
    /\ UNCHANGED <<serverVars, reply, watch, port, mtx, asleep, scope, inDtor>>

-----------------------------------------------------------------------------
InstantiateReturns(i) ==
    /\ \/ /\ Goto(i, "instantiating", "ready")
          /\ Answered(i, "ok")
          /\ UNCHANGED <<host, conn>>
       \/ /\ pc[i] = "instantiating"
          /\ Throws(i)
          /\ TerminateHost
          /\ UNCHANGED pc
    /\ UNCHANGED <<serverVars, backlog, watch, port, mtx, asleep, scope, inDtor>>

(* Any method but freeInstance; its exceptions reach the caller. *)
Invoke(i) ==
    /\ Goto(i, "ready", "invoking")
    /\ call' = [call EXCEPT ![i] = "invoke"]
    /\ UNCHANGED <<serverVars, conn, backlog, reply, watchVars, inDtor>>

InvokeReturns(i) ==
    /\ Goto(i, "invoking", "ready")
    /\ Answered(i, "ok") \/ Throws(i)
    /\ UNCHANGED <<serverVars, conn, backlog, watchVars, inDtor>>

(* Lines 226-228, called by the user or by the destructor. *)
FreeInstance(i) ==
    /\ Goto(i, "ready", "freeing")
    /\ inDtor' \in {inDtor, [inDtor EXCEPT ![i] = TRUE]}
    /\ call' = [call EXCEPT ![i] = "free"]
    /\ UNCHANGED <<serverVars, conn, backlog, reply, watchVars>>

FreeReturns(i) ==
    /\ \/ /\ Goto(i, "freeing", "joining")
          /\ Answered(i, "ok")
          /\ UNCHANGED <<host, conn>>
       \/ /\ ~inDtor[i]
          /\ Goto(i, "freeing", "broken")
          /\ Throws(i)
          /\ UNCHANGED <<host, conn>>
       \/ /\ inDtor[i]
          /\ pc[i] = "freeing"
          /\ Throws(i)
          /\ TerminateHost
          /\ UNCHANGED pc
    /\ UNCHANGED <<serverVars, backlog, watch, port, mtx, asleep, scope, inDtor>>

(* Mutant of Join: the thread is detached. *)
Detach(i) ==
    /\ \/ ~inDtor[i] /\ Goto(i, "joining", "freed") /\ UNCHANGED conn
       \/ inDtor[i]  /\ Goto(i, "joining", "gone")  /\ Disconnect(i)
    /\ UNCHANGED <<serverVars, backlog, call, reply, watchVars, inDtor>>

(* Line 229. *)
Join(i) ==
    /\ watch[i] = "done"
    /\ \/ ~inDtor[i] /\ Goto(i, "joining", "freed") /\ UNCHANGED conn
       \/ inDtor[i]  /\ Goto(i, "joining", "gone")  /\ Disconnect(i)
    /\ UNCHANGED <<serverVars, backlog, call, reply, watchVars, inDtor>>

(* The destructor after a freeInstance that returned, or that threw before  *)
(* the join: `freed` is set either way, and thread_ is still joinable in    *)
(* the second case.                                                         *)
Destroy(i) ==
    /\ \/ Goto(i, "freed", "gone") /\ Disconnect(i) /\ UNCHANGED host
       \/ pc[i] = "broken" /\ TerminateHost /\ UNCHANGED pc
    /\ UNCHANGED <<serverVars, backlog, call, reply, watch, port, mtx, asleep,
                   scope, inDtor>>

-----------------------------------------------------------------------------
(* What the host's threads do once they are called. *)
ProxyStep(i) ==
    \/ Lock(i) \/ Sleep(i) \/ LeaveScope(i) \/ Wake(i) \/ CheckPort(i)
    \/ ThrowUnableToBind(i) \/ Open(i)
    \/ InstantiateReturns(i) \/ InvokeReturns(i) \/ FreeReturns(i) \/ Join(i)

(* What the application chooses to call. *)
UserStep(i) == Construct(i) \/ Invoke(i) \/ FreeInstance(i) \/ Destroy(i)

HostStep(i) ==
    /\ host = "up"
    /\ \/ WatchStep(i) /\ UNCHANGED proxyVars
       \/ ProxyStep(i) \/ UserStep(i) \/ SpuriousWake(i)

ChildStep(i) ==
    /\ ProcessStep(i) \/ Crash(i)
    /\ UNCHANGED <<watchVars, proxyVars>>

Next == \E i \in Instances : HostStep(i) \/ ChildStep(i)

Spec == Init /\ [][Next]_vars

(* Threads and processes keep running; a thread that wants the mutex gets   *)
(* it if it is free again and again. Nothing obliges the application to     *)
(* call anything, a child to crash, or a waiter to wake by itself.          *)
Fairness ==
    \A i \in Instances :
        /\ WF_vars(ProcessStep(i) /\ UNCHANGED <<watchVars, proxyVars>>)
        /\ WF_vars(host = "up" /\ WatchStep(i) /\ UNCHANGED proxyVars)
        /\ SF_vars(/\ host = "up"
                   /\ PublishPort(i) \/ FailPort(i)
                   /\ UNCHANGED proxyVars)
        /\ WF_vars(host = "up" /\ ProxyStep(i))

FairSpec == Spec /\ Fairness

-----------------------------------------------------------------------------
(* Properties *)

(* Every variable keeps its type. *)
TypeOK ==
    /\ ProcessTypeOK
    /\ WatchTypeOK
    /\ pc     \in [Instances -> ProxyStates]
    /\ inDtor \in [Instances -> BOOLEAN]

(* A port reaches the constructor only once its child listens on it, and    *)
(* the child keeps listening there until it exits (preServe announces the   *)
(* port after listen, proxyfmu.cpp:128-135).                                *)
AnnouncedPortIsListenedOn ==
    \A i \in Instances :
        port[i] \in Ports => listen[i] = port[i] \/ child[i] = "exited"

(* No wakeup is lost: a constructor sleeps in cv.wait although the port is  *)
(* set only while start_process is on its way to notify_one, which finds cv *)
(* alive (process_helper.hpp:71-76, proxy_slave.cpp:61-62).                 *)
NoLostWakeup ==
    \A i \in Instances :
        asleep[i] /\ port[i] # Unset => watch[i] = "notifying" /\ scope[i]

(* A constructor that threw to its caller and a freeInstance that returned  *)
(* leave neither a process nor a thread behind (proxy_slave.cpp:95, 229).   *)
NothingLeftBehind ==
    \A i \in Instances :
        pc[i] \in {"failed", "freed", "gone"}
            => child[i] = "exited" /\ watch[i] = "done"

(* start_process locks the mutex of a constructor that is gone only when    *)
(* the child ended abnormally after its port was handed over                *)
(* (process_helper.hpp:88-97).                                              *)
CleanExitLocksNoDeadMutex ==
    \A i \in Instances :
        watch[i] = "failing" /\ ~scope[i] => status[i] # 0 /\ port[i] # Unset

(* As long as the host lives, none of its slaves is replaced in its child   *)
(* by another one's (fmu_service_handler.cpp:22).                           *)
SlavesAreKept == host = "up" => InstantiateFindsNoSlave

(* The host process outlives its slaves. *)
HostSurvives == host = "up"

Unconnected == {"absent", "locking", "testing", "waiting", "checking",
                 "rejoining", "failed"}

(* The child ended abnormally after its slave had taken the port.           *)
DiedLate(i) == status[i] # 0 /\ pc[i] \notin Unconnected

(* Only three failures end the host: a child that cannot be launched, an    *)
(* FMU that cannot be instantiated, and a child that dies after its port    *)
(* was handed over. A child that is never bound and a freeInstance that     *)
(* races with the end of the server do not (process_helper.hpp:46,          *)
(* proxy_slave.cpp:105, 228).                                               *)
HostEndsOnlyByFault ==
    host = "terminated" =>
        \E i \in Instances :
            \/ watch[i] = "launching"
            \/ pc[i] = "instantiating" /\ reply[i] = "none" /\ call[i] = "none"
            \/ DiedLate(i)

(* A slave whose child died reached the child of another slave, which       *)
(* serves no one else meanwhile.                                            *)
Crossed == \E i, j \in Instances : conn[i] = j /\ i # j

Ended(i) == host = "terminated" \/ watch[i] = "stuck" \/ Crossed

(* A constructor that was called ends: with a connected and instantiated    *)
(* slave, with an exception, or with the end of the host. Crossed slaves    *)
(* are the exception: theirs may wait for each other's connection to end.   *)
ConstructorEnds ==
    \A i \in Instances :
        pc[i] = "locking" ~> pc[i] \in {"ready", "failed"} \/ Ended(i)

(* freeInstance ends, although the child stops only after its reply, the    *)
(* client keeps the connection open while it joins, and the thread joins    *)
(* only after the child has exited.                                         *)
FreeInstanceEnds ==
    \A i \in Instances :
        pc[i] = "freeing" ~> pc[i] \in {"freed", "gone", "broken"} \/ Ended(i)
=============================================================================
