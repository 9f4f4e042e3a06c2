---------------------------- MODULE ProxyProcess ----------------------------
(***************************************************************************)
(* The child process `proxyfmu --fmu F --instanceName N`, one per FMU      *)
(* instance: main and run_application of tool/proxyfmu.cpp, the control of *)
(* fmu_service_handler, and the Thrift TSimpleServer it runs (external,    *)
(* modelled from how run_application uses it).                             *)
(*                                                                         *)
(* A child picks random ports until listen() succeeds, announces the port  *)
(* on its standard output, serves one connection at a time, and exits when *)
(* a freeInstance call stops the server.                                   *)
(***************************************************************************)
EXTENDS Integers, Sequences

CONSTANTS
    Instances,       \* the FMU instances; each has one child and one client
    NoOne,           \* "no instance"
    Ports,           \* the ports rng.next() may return
    MaxPortRetries,  \* max_port_retries
    Faults           \* which faults the environment injects

Unset   == -1        \* `int port = -1`: nothing handed over yet
Unbound == -999      \* `port = -999`: the child never bound, or died

ASSUME ConstantsAssumption ==
    /\ NoOne \notin Instances
    /\ Ports \subseteq Nat
    /\ MaxPortRetries \in Nat \ {0}
    /\ Faults \subseteq {"launch", "crash", "fmu", "client"}

VARIABLES
    child,    \* where the child process of an instance is
    attempt,  \* `i` of the bind loop
    listen,   \* the port its server socket listens on, or Unset
    status,   \* exit status: 0 or not 0 (a signal counts as not 0)
    pipe,     \* lines it wrote to standard output that nobody has read
    slave,    \* the handler's slave_: "none", "live" or "freed"
    served,   \* the client TSimpleServer is serving, or NoOne
    conn,     \* per client: the child its TCP connection leads to, or NoOne
    backlog,  \* per client: the child whose accept it waits for, or NoOne
    call,     \* per client: the request that child has not handled yet
    reply     \* per client: the answer the client has not read yet

serverVars  == <<child, attempt, listen, status, pipe, slave, served>>
networkVars == <<conn, backlog, call, reply>>
processVars == <<serverVars, networkVars>>

ChildStates == {"absent", "started", "binding", "bound", "serving",
                "stopping", "exited"}

Lines == [text : {"port"}, port : Ports] \cup [text : {"freed"}, port : {Unset}]

ProcessTypeOK ==
    /\ child   \in [Instances -> ChildStates]
    /\ attempt \in [Instances -> 0 .. MaxPortRetries]
    /\ listen  \in [Instances -> Ports \cup {Unset}]
    /\ status  \in [Instances -> {0, 1}]
    /\ pipe    \in [Instances -> Seq(Lines)]
    /\ slave   \in [Instances -> {"none", "live", "freed"}]
    /\ served  \in [Instances -> Instances \cup {NoOne}]
    /\ conn    \in [Instances -> Instances \cup {NoOne}]
    /\ backlog \in [Instances -> Instances \cup {NoOne}]
    /\ call    \in [Instances -> {"none", "instantiate", "invoke", "free"}]
    /\ reply   \in [Instances -> {"none", "ok", "exception"}]

ProcessInit ==
    /\ child   = [i \in Instances |-> "absent"]
    /\ attempt = [i \in Instances |-> 0]
    /\ listen  = [i \in Instances |-> Unset]
    /\ status  = [i \in Instances |-> 0]
    /\ pipe    = [i \in Instances |-> <<>>]
    /\ slave   = [i \in Instances |-> "none"]
    /\ served  = [i \in Instances |-> NoOne]
    /\ conn    = [i \in Instances |-> NoOne]
    /\ backlog = [i \in Instances |-> NoOne]
    /\ call    = [i \in Instances |-> "none"]
    /\ reply   = [i \in Instances |-> "none"]

-----------------------------------------------------------------------------
(* The process ends: the kernel closes its sockets. *)
Exit(i, code) ==
    /\ child'  = [child  EXCEPT ![i] = "exited"]
    /\ status' = [status EXCEPT ![i] = code]
    /\ listen' = [listen EXCEPT ![i] = Unset]
    /\ served' = [served EXCEPT ![i] = NoOne]

(* main: no such FMU file is COMMANDLINE_ERROR, otherwise run_application. *)
Main(i) ==
    /\ child[i] = "started"
    /\ \/ /\ child' = [child EXCEPT ![i] = "binding"]
          /\ UNCHANGED <<status, listen, served>>
       \/ Exit(i, 1)
    /\ UNCHANGED <<attempt, pipe, slave, networkVars>>

(* serve() on a random port: listen() succeeds ... *)
Bind(i) ==
    /\ child[i] = "binding"
    /\ \E p \in Ports :
          /\ \A j \in Instances : listen[j] # p
          /\ listen' = [listen EXCEPT ![i] = p]
    /\ child' = [child EXCEPT ![i] = "bound"]
    /\ UNCHANGED <<attempt, status, pipe, slave, served, networkVars>>

(* Mutant of BindFails: the loop runs to i <= max_port_retries. *)
BindFailsOnceMore(i) ==
    /\ child[i] = "binding"
    /\ attempt' = [attempt EXCEPT ![i] = @ + 1]
    /\ IF attempt[i] < MaxPortRetries
       THEN UNCHANGED <<child, status, listen, served>>
       ELSE Exit(i, 1)
    /\ UNCHANGED <<pipe, slave, networkVars>>

(* ... or throws TTransportException, since a child of this host or another *)
(* program owns the port. The last attempt leaves final_port at -1 and the  *)
(* process returns 1.                                                       *)
BindFails(i) ==
    /\ child[i] = "binding"
    /\ attempt' = [attempt EXCEPT ![i] = @ + 1]
    /\ IF attempt[i] + 1 < MaxPortRetries
       THEN UNCHANGED <<child, status, listen, served>>
       ELSE Exit(i, 1)
    /\ UNCHANGED <<pipe, slave, networkVars>>

(* Mutant of PreServe: the lambda captures `port` by reference and the port  *)
(* of another attempt is announced.                                         *)
AnnounceAnyPort(i) ==
    /\ child[i] = "bound"
    /\ child' = [child EXCEPT ![i] = "serving"]
    /\ \E p \in Ports :
          pipe' = [pipe EXCEPT ![i] = Append(@, [text |-> "port", port |-> p])]
    /\ UNCHANGED <<attempt, listen, status, slave, served, networkVars>>

(* preServe, which TSimpleServer calls once the socket listens. *)
PreServe(i) ==
    /\ child[i] = "bound"
    /\ child' = [child EXCEPT ![i] = "serving"]
    /\ pipe'  = [pipe EXCEPT ![i] = Append(@, [text |-> "port", port |-> listen[i]])]
    /\ UNCHANGED <<attempt, listen, status, slave, served, networkVars>>

(* Mutant of Accept: a threaded server, which accepts while it serves. *)
AcceptAlways(j) ==
    /\ child[j] = "serving"
    /\ \E i \in Instances :
          /\ backlog[i] = j
          /\ served'  = [served  EXCEPT ![j] = i]
          /\ backlog' = [backlog EXCEPT ![i] = NoOne]
    /\ UNCHANGED <<child, attempt, listen, status, pipe, slave, conn, call, reply>>

(* TSimpleServer serves one connection until it closes, then the next. The   *)
(* kernel has accepted them all: a client that is gone by now is served too, *)
(* and what it sent is still there to be read.                              *)
Accept(j) ==
    /\ child[j] = "serving"
    /\ served[j] = NoOne
    /\ \E i \in Instances :
          /\ backlog[i] = j
          /\ served'  = [served  EXCEPT ![j] = i]
          /\ backlog' = [backlog EXCEPT ![i] = NoOne]
    /\ UNCHANGED <<child, attempt, listen, status, pipe, slave, conn, call, reply>>

(* The client's end is closed, which the server sees after its last request. *)
ClientGone(j) ==
    /\ served[j] # NoOne
    /\ conn[served[j]] # j
    /\ call[served[j]] = "none"
    /\ served' = [served EXCEPT ![j] = NoOne]
    /\ UNCHANGED <<child, attempt, listen, status, pipe, slave, networkVars>>

Answer(i, a) ==
    /\ call'  = [call  EXCEPT ![i] = "none"]
    /\ reply' = [reply EXCEPT ![i] = a]
    /\ UNCHANGED <<conn, backlog>>

(* Mutant of Instantiate: the handler swallows the exception. *)
InstantiateQuietly(j, i) ==
    /\ call[i] = "instantiate"
    /\ \/ slave' = [slave EXCEPT ![j] = "live"]
       \/ "fmu" \in Faults /\ UNCHANGED slave
    /\ Answer(i, "ok")
    /\ UNCHANGED child

(* instantiate: loadFmu and new_instance either make the slave or throw,    *)
(* which the Thrift processor turns into an exception reply.                *)
Instantiate(j, i) ==
    /\ call[i] = "instantiate"
    /\ \/ /\ slave' = [slave EXCEPT ![j] = "live"]
          /\ Answer(i, "ok")
       \/ /\ "fmu" \in Faults
          /\ Answer(i, "exception")
          /\ UNCHANGED slave
    /\ UNCHANGED child

(* Every handler that forwards to slave_. None of them tests it for null:    *)
(* that it never is null here is NoCallWithoutSlave.                        *)
Forward(j, i) ==
    /\ call[i] = "invoke"
    /\ \/ Answer(i, "ok")
       \/ "fmu" \in Faults /\ Answer(i, "exception")
    /\ UNCHANGED <<slave, child>>

(* Mutant of FreeSlave: the connection goes down before the reply is out. *)
FreeSlaveNoReply(j, i) ==
    /\ call[i] = "free"
    /\ slave' = [slave EXCEPT ![j] = "freed"]
    /\ child' = [child EXCEPT ![j] = "stopping"]
    /\ Answer(i, "none")

(* Mutant of FreeSlave: the server is not stopped. *)
FreeSlaveWithoutStop(j, i) ==
    /\ call[i] = "free"
    /\ slave' = [slave EXCEPT ![j] = "freed"]
    /\ Answer(i, "ok")
    /\ UNCHANGED child

(* freeInstance: frees the slave and stops the server, whose stop()         *)
(* interrupts the accept and the read of the connection being served; the   *)
(* reply still goes out.                                                    *)
FreeSlave(j, i) ==
    /\ call[i] = "free"
    /\ slave' = [slave EXCEPT ![j] = "freed"]
    /\ child' = [child EXCEPT ![j] = "stopping"]
    /\ Answer(i, "ok")

Handle(j) ==
    /\ child[j] = "serving"
    /\ \E i \in Instances :
          /\ served[j] = i
          /\ Instantiate(j, i) \/ Forward(j, i) \/ FreeSlave(j, i)
    /\ UNCHANGED <<attempt, listen, status, pipe, served>>

(* Mutant of Return: stop() waits for the client to close its connection. *)
ReturnWhenClosed(j) ==
    /\ child[j] = "stopping"
    /\ served[j] = NoOne
    /\ Exit(j, 0)
    /\ pipe' = [pipe EXCEPT ![j] = Append(@, [text |-> "freed", port |-> Unset])]
    /\ UNCHANGED <<attempt, slave, networkVars>>

(* serve() has returned: "[proxyfmu] freed" is flushed and main returns 0. *)
Return(j) ==
    /\ child[j] = "stopping"
    /\ Exit(j, 0)
    /\ pipe' = [pipe EXCEPT ![j] = Append(@, [text |-> "freed", port |-> Unset])]
    /\ UNCHANGED <<attempt, slave, networkVars>>

(* FMU code brings the process down, or something kills it. *)
Crash(j) ==
    /\ "crash" \in Faults
    /\ child[j] \notin {"absent", "exited"}
    /\ Exit(j, 1)
    /\ UNCHANGED <<attempt, pipe, slave, networkVars>>

ProcessStep(j) ==
    \/ Main(j) \/ Bind(j) \/ BindFails(j) \/ PreServe(j)
    \/ Accept(j) \/ ClientGone(j) \/ Handle(j) \/ Return(j)

-----------------------------------------------------------------------------
(* The client: a request ends with a reply, or with its connection. *)
Answered(i, a) ==
    /\ reply[i] = a
    /\ reply' = [reply EXCEPT ![i] = "none"]
    /\ UNCHANGED call

Broken(i) ==
    /\ reply[i] = "none"
    /\ conn[i] # NoOne
    /\ child[conn[i]] = "exited"
    /\ call' = [call EXCEPT ![i] = "none"]
    /\ UNCHANGED reply

Throws(i) == Answered(i, "exception") \/ Broken(i)

(* The client's transport is closed. *)
Disconnect(i) == conn' = [conn EXCEPT ![i] = NoOne]

-----------------------------------------------------------------------------
(* Properties of children and clients, whoever launches the children and    *)
(* wherever the clients run.                                                *)

(* A slave talks to the FMU of another instance only if its own child died  *)
(* between announcing the port and the connect, which goes to whoever       *)
(* listens there (proxy_slave.cpp:99-105).                                  *)
ConnectedToOwnChild ==
    \A i, j \in Instances :
        conn[i] = j /\ i # j => child[i] = "exited"

(* fmu_service_handler dereferences slave_ without a test: a call that      *)
(* needs it never reaches a child that has none, even if its client ends    *)
(* while it is handled.                                                     *)
NoCallWithoutSlave ==
    \A i, j \in Instances :
        /\ conn[i] = j \/ served[j] = i
        /\ call[i] \in {"invoke", "free"}
        /\ child[j] = "serving"
        => slave[j] = "live"

(* instantiate assigns slave_ blindly (fmu_service_handler.cpp:22): no      *)
(* client's instantiate is handled while another one's slave lives there.   *)
InstantiateFindsNoSlave ==
    \A i, j \in Instances :
        /\ served[j] = i
        /\ call[i] = "instantiate"
        /\ child[j] = "serving"
        => slave[j] = "none"
=============================================================================
