------------------------------- MODULE Booter -------------------------------
(***************************************************************************)
(* Remote instances: `proxyfmu boot --port P` (run_booter_application and  *)
(* boot_service_handler) and the clients that reach it, proxy_slave with a *)
(* remote_info. A client dials the booter until somebody listens, hands    *)
(* the FMU over, is told the port of a child and talks to the child from   *)
(* then on.                                                                *)
(*                                                                         *)
(* The booter is the host of StartProcess: it launches one child and one   *)
(* thread per load, serves one client at a time, and ends when somebody    *)
(* presses Enter and all its threads have been joined. The clients are     *)
(* processes of their own: the connections of networkVars do not end with  *)
(* the booter.                                                             *)
(***************************************************************************)
EXTENDS StartProcess

CONSTANT MaxRetries   \* max_retries

ASSUME MaxRetriesAssumption == MaxRetries \in Nat

VARIABLES
    main,     \* run_booter_application and what it waits for
    server,   \* its thread t: the TSimpleServer
    current,  \* the client that server is serving, or NoOne
    load,     \* loadFromBinaryData, per client
    told,     \* the port its reply carries
    dirs,     \* the loads whose temporary directory is on disk
    pc,       \* the client
    retries   \* its failed attempts to reach the booter

booterVars == <<main, server, current, load, told, dirs>>
clientVars == <<pc, retries>>
vars == <<processVars, watchVars, booterVars, clientVars>>

LoadStates == {"none", "called", "thrown", "locking", "testing", "waiting",
               "returned"}

ClientStates == {"absent", "dialing", "dialed", "loading", "connecting",
                 "instantiating", "ready", "invoking", "freeing", "freed",
                 "gone", "failed", "dead"}

Init ==
    /\ ProcessInit
    /\ WatchInit
    /\ main    = "waiting"
    /\ server  = "starting"
    /\ current = NoOne
    /\ load    = [i \in Instances |-> "none"]
    /\ told    = [i \in Instances |-> Unset]
    /\ dirs    = {}
    /\ pc      = [i \in Instances |-> "absent"]
    /\ retries = [i \in Instances |-> 0]

-----------------------------------------------------------------------------
(* The server thread: serve() listens, or what it throws ends the booter. *)
Serve ==
    /\ server = "starting"
    /\ \/ server' = "serving" /\ UNCHANGED host
       \/ "launch" \in Faults /\ host' = "terminated" /\ UNCHANGED server
    /\ UNCHANGED <<processVars, watch, port, mtx, asleep, scope, main, current,
                   load, told, dirs, clientVars>>

Attached(i) == pc[i] \in {"dialed", "loading"}

(* A client whose connection the server has yet to serve, or whose request   *)
(* it has yet to read: that one may be dead by now.                         *)
Waits(i) == Attached(i) \/ load[i] = "called"

(* Mutant of AcceptLoad: a threaded server. *)
AcceptLoadAlways ==
    /\ server = "serving"
    /\ \E i \in Instances : Waits(i) /\ current' = i
    /\ UNCHANGED <<processVars, watchVars, main, server, load, told, dirs,
                   clientVars>>

(* One connection at a time: the others wait in the backlog. *)
AcceptLoad ==
    /\ server = "serving"
    /\ current = NoOne
    /\ \E i \in Instances : Waits(i) /\ current' = i
    /\ UNCHANGED <<processVars, watchVars, main, server, load, told, dirs,
                   clientVars>>

InHandler(i) == load[i] \in {"locking", "testing", "waiting"}

(* The connection has ended, or stop() interrupts its next read. *)
EndLoad ==
    /\ current # NoOne
    /\ ~InHandler(current)
    /\ ~Waits(current) \/ server = "stopping"
    /\ current' = NoOne
    /\ UNCHANGED <<processVars, watchVars, main, server, load, told, dirs,
                   clientVars>>

ServeReturns ==
    /\ server = "stopping"
    /\ current = NoOne
    /\ server' = "returned"
    /\ UNCHANGED <<processVars, watchVars, main, current, load, told, dirs,
                   clientVars>>

LoadGoto(i, from, to) == load[i] = from /\ load' = [load EXCEPT ![i] = to]

(* loadFromBinaryData, lines 25-35: the FMU is written to a new directory   *)
(* and a thread is started on references to locals of this call. If one or  *)
(* the other cannot be made, no directory is left and the reply is an       *)
(* exception.                                                               *)
Load(i) ==
    /\ current = i
    /\ \/ /\ LoadGoto(i, "called", "locking")
          /\ watch' = [watch EXCEPT ![i] = "launching"]
          /\ scope' = [scope EXCEPT ![i] = TRUE]
          /\ dirs'  = dirs \cup {i}
       \/ /\ "launch" \in Faults
          /\ LoadGoto(i, "called", "thrown")
          /\ UNCHANGED <<watch, scope, dirs>>
    /\ UNCHANGED <<processVars, port, mtx, asleep, host, main, server, current,
                   told, clientVars>>

(* Line 37, and the end of cv.wait. *)
LoadLock(i) ==
    /\ \/ LoadGoto(i, "locking", "testing")
       \/ ~asleep[i] /\ LoadGoto(i, "waiting", "testing")
    /\ mtx[i] = "free"
    /\ mtx' = [mtx EXCEPT ![i] = "creator"]
    /\ UNCHANGED <<processVars, watch, port, asleep, scope, host, main, server,
                   current, told, dirs, clientVars>>

(* Line 38: no port yet. *)
LoadSleep(i) ==
    /\ LoadGoto(i, "testing", "waiting")
    /\ port[i] = Unset
    /\ mtx'    = [mtx    EXCEPT ![i] = "free"]
    /\ asleep' = [asleep EXCEPT ![i] = TRUE]
    /\ UNCHANGED <<processVars, watch, port, scope, host, main, server, current,
                   told, dirs, clientVars>>

(* A spurious wakeup. *)
LoadWakes(i) ==
    /\ load[i] = "waiting"
    /\ asleep[i]
    /\ asleep' = [asleep EXCEPT ![i] = FALSE]
    /\ UNCHANGED <<processVars, watch, port, mtx, scope, host, booterVars,
                   clientVars>>

(* Mutant of LoadReturns: the directory is a local of the call. *)
LoadReturnsWithoutDir(i) ==
    /\ LoadGoto(i, "testing", "returned")
    /\ port[i] # Unset
    /\ told'  = [told  EXCEPT ![i] = port[i]]
    /\ mtx'   = [mtx   EXCEPT ![i] = "free"]
    /\ scope' = [scope EXCEPT ![i] = FALSE]
    /\ dirs'  = dirs \ {i}
    /\ UNCHANGED <<processVars, watch, port, asleep, host, main, server, current,
                   clientVars>>

(* Line 40: the port is copied into the reply; the locals the thread refers *)
(* to are gone. -999 is a reply like any other.                             *)
LoadReturns(i) ==
    /\ LoadGoto(i, "testing", "returned")
    /\ port[i] # Unset
    /\ told'  = [told  EXCEPT ![i] = port[i]]
    /\ mtx'   = [mtx   EXCEPT ![i] = "free"]
    /\ scope' = [scope EXCEPT ![i] = FALSE]
    /\ UNCHANGED <<processVars, watch, port, asleep, host, main, server, current,
                   dirs, clientVars>>

(* The thread of a load: start_process. What it throws ends the booter.     *)
Thread(i) ==
    /\ \/ UNCHANGED host /\ WatchStep(i)
       \/ /\ watch[i] = "launching"
          /\ "launch" \in Faults
          /\ host' = "terminated"
          /\ UNCHANGED <<processVars, watch, port, mtx, asleep, scope>>
    /\ UNCHANGED <<booterVars, clientVars>>

-----------------------------------------------------------------------------
(* The main thread reads standard input up to a line's end. *)
WaitForInput == main = "waiting" /\ main' = "stopping"

(* Enter stops the server, unless it does not listen yet: interrupting a    *)
(* socket that is not open does nothing, now or later.                      *)
PressEnter ==
    /\ WaitForInput
    /\ server' = IF server = "serving" THEN "stopping" ELSE server
    /\ UNCHANGED <<processVars, watchVars, current, load, told, dirs, clientVars>>

JoinServer ==
    /\ main = "stopping"
    /\ server = "returned"
    /\ main' = "joining"
    /\ UNCHANGED <<processVars, watchVars, server, current, load, told, dirs,
                   clientVars>>

(* The handler's destructor joins every thread; only then do its members    *)
(* and with them the directories go.                                        *)
JoinThreads ==
    /\ main = "joining"
    /\ \A i \in Instances : watch[i] \in {"absent", "done"}
    /\ main' = "gone"
    /\ dirs' = {}
    /\ UNCHANGED <<processVars, watchVars, server, current, load, told,
                   clientVars>>

-----------------------------------------------------------------------------
Goto(i, from, to) == pc[i] = from /\ pc' = [pc EXCEPT ![i] = to]

Construct(i) ==
    /\ Goto(i, "absent", "dialing")
    /\ UNCHANGED <<processVars, watchVars, booterVars, retries>>

Listens == host = "up" /\ server = "serving"

(* Mutant of Dial: a failed attempt is not counted. *)
DialForever(i) ==
    /\ pc[i] = "dialing"
    /\ retries[i] < MaxRetries
    /\ IF Listens THEN Goto(i, "dialing", "dialed") ELSE UNCHANGED pc
    /\ UNCHANGED <<processVars, watchVars, booterVars, retries>>

(* Lines 73-84: retries++ > max_retries never holds inside the loop, so its *)
(* throw is never reached. The counter ends with the block of the loop.     *)
Dial(i) ==
    /\ pc[i] = "dialing"
    /\ retries[i] < MaxRetries
    /\ \/ /\ Listens
          /\ Goto(i, "dialing", "dialed")
          /\ retries' = [retries EXCEPT ![i] = 0]
       \/ /\ ~Listens
          /\ retries' = [retries EXCEPT ![i] = @ + 1]
          /\ UNCHANGED pc
    /\ UNCHANGED <<processVars, watchVars, booterVars>>

(* After the last retry loadFromBinaryData finds the transport closed. *)
LoadUndialed(i) ==
    /\ Goto(i, "dialing", "failed")
    /\ retries[i] = MaxRetries
    /\ retries' = [retries EXCEPT ![i] = 0]
    /\ UNCHANGED <<processVars, watchVars, booterVars>>

(* Lines 86-90: the FMU file is read and sent. *)
CallLoad(i) ==
    /\ Goto(i, "dialed", "loading")
    /\ load' = [load EXCEPT ![i] = "called"]
    /\ UNCHANGED <<processVars, watchVars, main, server, current, told, dirs,
                   retries>>

Replied(i) == load[i] \in {"returned", "thrown"}

(* Mutant of LoseBooter: stop() cuts the connection of a load in progress. *)
LoseBooterInCall(i) ==
    /\ Attached(i)
    /\ ~Replied(i)
    /\ host = "terminated" \/ server \in {"stopping", "returned"}
    /\ pc' = [pc EXCEPT ![i] = "failed"]
    /\ UNCHANGED <<processVars, watchVars, booterVars, retries>>

(* The booter has ended, or stopped before it came to this client's call.   *)
LoseBooter(i) ==
    /\ Attached(i)
    /\ ~Replied(i)
    /\ \/ host = "terminated"
       \/ server \in {"stopping", "returned"} /\ current # i
    /\ pc' = [pc EXCEPT ![i] = "failed"]
    /\ UNCHANGED <<processVars, watchVars, booterVars, retries>>

(* Mutant of LoadReplied: -999 is taken for a port. *)
LoadRepliedUnchecked(i) ==
    /\ \/ load[i] = "returned" /\ Goto(i, "loading", "connecting")
       \/ load[i] = "thrown" /\ Goto(i, "loading", "failed")
    /\ UNCHANGED <<processVars, watchVars, booterVars, retries>>

(* Lines 90-97: the reply, and the throw without a thread to join. *)
LoadReplied(i) ==
    /\ \/ /\ load[i] = "returned"
          /\ told[i] # Unbound
          /\ Goto(i, "loading", "connecting")
       \/ /\ \/ load[i] = "thrown"
             \/ load[i] = "returned" /\ told[i] = Unbound
          /\ Goto(i, "loading", "failed")
    /\ UNCHANGED <<processVars, watchVars, booterVars, retries>>

(* Lines 99-107. There is no thread_: whatever throws reaches the caller.   *)
Open(i) ==
    /\ \/ \E j \in Instances :
             /\ listen[j] = told[i]
             /\ Goto(i, "connecting", "instantiating")
             /\ conn'    = [conn    EXCEPT ![i] = j]
             /\ backlog' = [backlog EXCEPT ![i] = j]
             /\ call'    = [call    EXCEPT ![i] = "instantiate"]
       \/ /\ \A j \in Instances : listen[j] # told[i]
          /\ Goto(i, "connecting", "failed")
          /\ UNCHANGED <<conn, backlog, call>>
    /\ UNCHANGED <<serverVars, reply, watchVars, booterVars, retries>>

Request(i, from, to, c) ==
    /\ Goto(i, from, to)
    /\ call' = [call EXCEPT ![i] = c]
    /\ UNCHANGED <<serverVars, conn, backlog, reply, watchVars, booterVars, retries>>

Invoke(i) == Request(i, "ready", "invoking", "invoke")

FreeInstance(i) == Request(i, "ready", "freeing", "free")

(* A freeInstance that throws to the user leaves nothing to join; from the  *)
(* destructor it ends the client: "failed" stands for both.                 *)
Returns(i) ==
    /\ \/ /\ \/ Goto(i, "instantiating", "ready")
             \/ Goto(i, "invoking", "ready")
             \/ Goto(i, "freeing", "freed")
          /\ Answered(i, "ok")
          /\ UNCHANGED conn
       \/ /\ Goto(i, "invoking", "ready")
          /\ Throws(i)
          /\ UNCHANGED conn
       \/ /\ \/ Goto(i, "instantiating", "failed")
             \/ Goto(i, "freeing", "failed")
          /\ Throws(i)
          /\ Disconnect(i)
    /\ UNCHANGED <<serverVars, backlog, watchVars, booterVars, retries>>

Destroy(i) ==
    /\ Goto(i, "freed", "gone")
    /\ Disconnect(i)
    /\ UNCHANGED <<serverVars, backlog, call, reply, watchVars, booterVars, retries>>

(* The client's process ends without a freeInstance. *)
Die(i) ==
    /\ "client" \in Faults
    /\ pc[i] \notin {"absent", "gone", "failed", "dead"}
    /\ pc' = [pc EXCEPT ![i] = "dead"]
    /\ Disconnect(i)
    /\ UNCHANGED <<serverVars, backlog, call, reply, watchVars, booterVars, retries>>

-----------------------------------------------------------------------------
Handler(i) == Load(i) \/ LoadLock(i) \/ LoadSleep(i) \/ LoadReturns(i)

ServerStep == Serve \/ AcceptLoad \/ EndLoad \/ ServeReturns

MainStep == JoinServer \/ JoinThreads

BooterStep ==
    /\ host = "up"
    /\ \/ ServerStep \/ MainStep \/ PressEnter
       \/ \E i \in Instances : Handler(i) \/ LoadWakes(i) \/ Thread(i)

ClientStep(i) ==
    \/ Dial(i) \/ LoadUndialed(i) \/ CallLoad(i) \/ LoseBooter(i)
    \/ LoadReplied(i) \/ Open(i) \/ Returns(i)

UserStep(i) == Construct(i) \/ Invoke(i) \/ FreeInstance(i) \/ Destroy(i)

ChildStep(i) ==
    /\ ProcessStep(i) \/ Crash(i)
    /\ UNCHANGED <<watchVars, booterVars, clientVars>>

Next ==
    \/ BooterStep
    \/ \E i \in Instances :
          ClientStep(i) \/ UserStep(i) \/ Die(i) \/ ChildStep(i)

Spec == Init /\ [][Next]_vars

(* Some thread of the booter, some client and some child that can run does; *)
(* a start_process thread that wants its mutex gets it if it is free again  *)
(* and again; and an application that lives frees and destroys its slaves,  *)
(* as leaving a slave's scope does. Nobody has to press Enter.              *)
Fairness ==
    /\ WF_vars(host = "up" /\ (ServerStep \/ MainStep \/ \E i \in Instances : Handler(i)))
    /\ SF_vars(host = "up" /\ \E i \in Instances : Thread(i))
    /\ WF_vars(\E i \in Instances : ClientStep(i) \/ Destroy(i))
    /\ SF_vars(\E i \in Instances : FreeInstance(i))
    /\ WF_vars(/\ \E i \in Instances : ProcessStep(i)
               /\ UNCHANGED <<watchVars, booterVars, clientVars>>)

FairSpec == Spec /\ Fairness

-----------------------------------------------------------------------------
(* Properties *)

(* Every variable keeps its type. *)
TypeOK ==
    /\ ProcessTypeOK
    /\ WatchTypeOK
    /\ main    \in {"waiting", "stopping", "joining", "gone"}
    /\ server  \in {"starting", "serving", "stopping", "returned"}
    /\ current \in Instances \cup {NoOne}
    /\ load    \in [Instances -> LoadStates]
    /\ told    \in [Instances -> Ports \cup {Unset, Unbound}]
    /\ dirs    \subseteq Instances
    /\ pc      \in [Instances -> ClientStates]
    /\ retries \in [Instances -> 0 .. MaxRetries]

(* The handler's vectors of threads and directories have no lock: no two    *)
(* loads run at once, and none runs once the destructor goes through them   *)
(* (boot_service_handler.cpp:34-35, 45).                                    *)
OneLoadAtATime ==
    /\ \A i, j \in Instances : InHandler(i) /\ InHandler(j) => i = j
    /\ main \in {"joining", "gone"} => \A i \in Instances : ~InHandler(i)

(* A client that is told a port finds its own child there, unless that      *)
(* child has exited (boot_service_handler.cpp:40, proxy_slave.cpp:99).      *)
ToldPortIsListenedOn ==
    \A i \in Instances :
        told[i] \in Ports => listen[i] = told[i] \/ child[i] = "exited"

(* A child's FMU file is on disk as long as the child may load it: long     *)
(* after loadFromBinaryData has returned, until its thread has seen it exit *)
(* (boot_service_handler.cpp:25, 35, 43-48).                                *)
FmuFileThere ==
    \A i \in Instances : child[i] \notin {"absent", "exited"} => i \in dirs

(* A client whose constructor threw since no child was bound leaves none    *)
(* behind; nobody dials a port of -999 (proxy_slave.cpp:94-97).             *)
UnboundLeavesNothing ==
    \A i \in Instances :
        told[i] = Unbound =>
            /\ child[i] \in {"absent", "exited"}
            /\ watch[i] = "done"
            /\ pc[i] \in {"loading", "failed", "dead"}

(* A child that serves although the client it was launched for is over and  *)
(* can free it no more.                                                     *)
Abandoned(i) == child[i] = "serving" /\ pc[i] \in {"failed", "dead"}

(* No child serves a client that lives but was refused: whenever the booter *)
(* is stopped, a load that has launched a child answers its client before   *)
(* the server ends (proxyfmu.cpp:101-102).                                  *)
NoChildAbandoned ==
    \A i \in Instances : child[i] = "serving" => pc[i] # "failed"

Stuck == host = "terminated" \/ \E i \in Instances : watch[i] = "stuck"

(* A remote constructor ends, whether the booter runs, comes late, never    *)
(* comes or is stopped meanwhile, and whenever other clients die.           *)
ConstructorEnds ==
    \A i \in Instances :
        pc[i] = "dialing" ~> pc[i] \in {"ready", "failed", "dead"} \/ Stuck

(* Once its server is interrupted the booter ends, unless a child has been  *)
(* abandoned or a thread hangs on the locals of a load that returned.       *)
ShutdownEnds ==
    main = "stopping" /\ server \in {"stopping", "returned"}
        ~> main = "gone" \/ Stuck \/ \E i \in Instances : Abandoned(i)
=============================================================================
