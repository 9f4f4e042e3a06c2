---------------------------- MODULE BooterProofs ----------------------------
(* Theorems about Booter for every set of clients and of ports. *)
EXTENDS Booter, TLAPS

(* What a load and its start_process thread agree on, and what the reply    *)
(* says of the port they share.                                             *)
Handover ==
    \A i \in Instances :
        /\ scope[i] <=> InHandler(i)
        /\ mtx[i] = "creator" <=> load[i] = "testing"
        /\ asleep[i] => load[i] = "waiting"
        /\ watch[i] = "absent" <=> load[i] \in {"none", "called", "thrown"}
        /\ watch[i] \in {"absent", "launching"} => port[i] = Unset
        /\ watch[i] \in {"absent", "launching"} <=> child[i] = "absent"
        /\ watch[i] \in {"failing", "done"} => child[i] = "exited"
        /\ port[i] = Unbound => watch[i] = "done"
        /\ load[i] = "returned" <=> told[i] # Unset
        /\ told[i] = Unbound => port[i] = Unbound

(* Where a port number can be: the listening socket, lines not read yet,    *)
(* the load's variable and its reply.                                       *)
Listening ==
    /\ \A i, j \in Instances :
          listen[i] = listen[j] /\ listen[i] # Unset => i = j
    /\ \A i \in Instances :
          /\ child[i] \in {"absent", "started", "binding"}
                => /\ pipe[i] = <<>>
                   /\ port[i] \notin Ports /\ told[i] \notin Ports
                   /\ attempt[i] < MaxPortRetries
          /\ child[i] = "bound" => listen[i] \in Ports
          /\ port[i] \in Ports => listen[i] = port[i] \/ child[i] = "exited"
          /\ told[i] \in Ports => listen[i] = told[i] \/ child[i] = "exited"
          /\ \A n \in DOMAIN pipe[i] :
                pipe[i][n].text = "port"
                    => listen[i] = pipe[i][n].port \/ child[i] = "exited"

(* Loads run on the server's thread, which main has joined before it goes   *)
(* through the handler's members.                                           *)
Serving ==
    /\ current # NoOne => server \in {"serving", "stopping"}
    /\ main \in {"joining", "gone"} => server = "returned"
    /\ \A i \in Instances : InHandler(i) => current = i

(* A directory lives from the launch of its thread to the last join. *)
Directories ==
    \A i \in Instances :
        /\ watch[i] # "absent" => i \in dirs \/ main = "gone"
        /\ main = "gone" => watch[i] \in {"absent", "done"}

(* How far a client is, and what the booter has done for it. *)
Undialed == {"absent", "dialing", "dialed"}

Clients ==
    \A i \in Instances :
        /\ pc[i] \in Undialed => load[i] = "none"
        /\ pc[i] = "loading" => load[i] # "none"
        /\ pc[i] \notin Undialed \cup {"loading", "failed", "dead"} => told[i] \in Ports

IInv == TypeOK /\ Handover /\ Listening /\ Serving /\ Directories /\ Clients

-----------------------------------------------------------------------------
(* What a client does is its own, but for its call of the booter and its    *)
(* connection to a child.                                                   *)
LEMMA ClientEffect ==
    ASSUME TypeOK, NEW i \in Instances, ClientStep(i) \/ UserStep(i) \/ Die(i)
    PROVE  /\ UNCHANGED <<serverVars, watchVars, main, server, current, told, dirs>>
           /\ UNCHANGED load \/ CallLoad(i)
           /\ \A j \in Instances \ {i} : pc'[j] = pc[j]
<1> USE DEF TypeOK, booterVars, processVars, networkVars, Goto
<1>1. CASE Dial(i)
    BY <1>1 DEF Dial
<1>2. CASE LoadUndialed(i)
    BY <1>2 DEF LoadUndialed
<1>3. CASE CallLoad(i)
    BY <1>3 DEF CallLoad
<1>4. CASE LoseBooter(i)
    BY <1>4 DEF LoseBooter
<1>5. CASE LoadReplied(i)
    BY <1>5 DEF LoadReplied
<1>6. CASE Open(i)
    BY <1>6 DEF Open
<1>7. CASE Returns(i)
    BY <1>7 DEF Returns
<1>8. CASE Construct(i)
    BY <1>8 DEF Construct
<1>9. CASE Invoke(i)
    BY <1>9 DEF Invoke, Request
<1>10. CASE FreeInstance(i)
    BY <1>10 DEF FreeInstance, Request
<1>11. CASE Destroy(i)
    BY <1>11 DEF Destroy
<1>12. CASE Die(i)
    BY <1>12 DEF Die
<1> QED  BY <1>1, <1>2, <1>3, <1>4, <1>5, <1>6, <1>7, <1>8, <1>9, <1>10, <1>11,
            <1>12 DEF ClientStep, UserStep

(* A client keeps the types of its own state ... *)
LEMMA ClientStatesType ==
    ASSUME TypeOK, NEW i \in Instances, ClientStep(i) \/ UserStep(i) \/ Die(i)
    PROVE  /\ pc' \in [Instances -> ClientStates]
           /\ retries' \in [Instances -> 0 .. MaxRetries]
           /\ load' \in [Instances -> LoadStates]
<1> USE MaxRetriesAssumption DEF TypeOK, ClientStates, LoadStates, booterVars, Goto
<1>1. CASE Dial(i)
    BY <1>1 DEF Dial
<1>2. CASE LoadUndialed(i)
    BY <1>2 DEF LoadUndialed
<1>3. CASE CallLoad(i)
    BY <1>3 DEF CallLoad
<1>4. CASE LoseBooter(i)
    BY <1>4 DEF LoseBooter
<1>5. CASE LoadReplied(i)
    BY <1>5 DEF LoadReplied
<1>6. CASE Open(i)
    BY <1>6 DEF Open
<1>7. CASE Returns(i)
    BY <1>7 DEF Returns
<1>8. CASE Construct(i)
    BY <1>8 DEF Construct
<1>9. CASE Invoke(i)
    BY <1>9 DEF Invoke, Request
<1>10. CASE FreeInstance(i)
    BY <1>10 DEF FreeInstance, Request
<1>11. CASE Destroy(i)
    BY <1>11 DEF Destroy
<1>12. CASE Die(i)
    BY <1>12 DEF Die
<1> QED  BY <1>1, <1>2, <1>3, <1>4, <1>5, <1>6, <1>7, <1>8, <1>9, <1>10, <1>11,
            <1>12 DEF ClientStep, UserStep

(* ... and of its connection. *)
LEMMA ClientNetworkType ==
    ASSUME TypeOK, NEW i \in Instances, ClientStep(i) \/ UserStep(i) \/ Die(i)
    PROVE  /\ conn'  \in [Instances -> Instances \cup {NoOne}]
           /\ backlog' \in [Instances -> Instances \cup {NoOne}]
           /\ call'  \in [Instances -> {"none", "instantiate", "invoke", "free"}]
           /\ reply' \in [Instances -> {"none", "ok", "exception"}]
<1> USE DEF TypeOK, ProcessTypeOK, booterVars, processVars, networkVars, Disconnect
<1>1. CASE Dial(i)
    BY <1>1 DEF Dial
<1>2. CASE LoadUndialed(i)
    BY <1>2 DEF LoadUndialed
<1>3. CASE CallLoad(i)
    BY <1>3 DEF CallLoad
<1>4. CASE LoseBooter(i)
    BY <1>4 DEF LoseBooter
<1>5. CASE LoadReplied(i)
    BY <1>5 DEF LoadReplied
<1>6. CASE Open(i)
  <2>1. CASE \E j \in Instances : /\ conn' = [conn EXCEPT ![i] = j]
                                /\ backlog' = [backlog EXCEPT ![i] = j]
                                /\ call' = [call EXCEPT ![i] = "instantiate"]
    BY <1>6, <2>1 DEF Open
  <2>2. CASE UNCHANGED <<conn, backlog, call>>
    BY <1>6, <2>2 DEF Open
  <2> QED  BY <1>6, <2>1, <2>2 DEF Open
<1>7. CASE Returns(i)
  <2>1. conn' \in [Instances -> Instances \cup {NoOne}] /\ UNCHANGED backlog
    BY <1>7 DEF Returns
  <2>2. Answered(i, "ok") \/ Answered(i, "exception") \/ Broken(i)
    BY <1>7 DEF Returns, Throws
  <2> QED  BY <2>1, <2>2 DEF Answered, Broken
<1>8. CASE Construct(i)
    BY <1>8 DEF Construct
<1>9. CASE Invoke(i)
    BY <1>9 DEF Invoke, Request
<1>10. CASE FreeInstance(i)
    BY <1>10 DEF FreeInstance, Request
<1>11. CASE Destroy(i)
    BY <1>11 DEF Destroy
<1>12. CASE Die(i)
    BY <1>12 DEF Die
<1> QED  BY <1>1, <1>2, <1>3, <1>4, <1>5, <1>6, <1>7, <1>8, <1>9, <1>10, <1>11,
            <1>12 DEF ClientStep, UserStep

(* The invariant survives what clients do: CallLoad is the only step the     *)
(* booter sees, and a client proceeds past it only with a port.             *)
LEMMA ClientInvariant ==
    ASSUME IInv, NEW i \in Instances, ClientStep(i) \/ UserStep(i) \/ Die(i)
    PROVE  IInv'
<1> USE DEF IInv
<1>1. /\ UNCHANGED <<serverVars, watchVars, main, server, current, told, dirs>>
      /\ UNCHANGED load \/ CallLoad(i)
      /\ \A j \in Instances \ {i} : pc'[j] = pc[j]
  BY ClientEffect
<1>2. TypeOK'
  BY <1>1, ClientStatesType, ClientNetworkType DEF TypeOK, ProcessTypeOK, WatchTypeOK,
     serverVars, watchVars
<1>3. CASE UNCHANGED load
  <2>1. (Handover /\ Listening /\ Serving /\ Directories)'
    BY <1>1, <1>3 DEF Handover, Listening, Serving, Directories, InHandler, serverVars,
       watchVars
  <2>2. Clients'
    <3> USE <1>3, <1>1 DEF TypeOK, Clients, Undialed, ClientStates, booterVars, Goto
    <3>1. CASE Dial(i)
      BY <3>1 DEF Dial
    <3>2. CASE LoadUndialed(i)
      BY <3>2 DEF LoadUndialed
    <3>3. CASE CallLoad(i)
      BY <1>3, <3>3 DEF CallLoad, LoadStates
    <3>4. CASE LoseBooter(i)
      BY <3>4 DEF LoseBooter
    <3>5. CASE LoadReplied(i)
      BY <3>5 DEF LoadReplied, Handover
    <3>6. CASE Open(i)
      BY <3>6 DEF Open
    <3>7. CASE Returns(i)
      BY <3>7 DEF Returns
    <3>8. CASE Construct(i)
      BY <3>8 DEF Construct
    <3>9. CASE Invoke(i)
      BY <3>9 DEF Invoke, Request
    <3>10. CASE FreeInstance(i)
      BY <3>10 DEF FreeInstance, Request
    <3>11. CASE Destroy(i)
      BY <3>11 DEF Destroy
    <3>12. CASE Die(i)
      BY <3>12 DEF Die
    <3> QED  BY <3>1, <3>2, <3>3, <3>4, <3>5, <3>6, <3>7, <3>8, <3>9, <3>10, <3>11,
                <3>12 DEF ClientStep, UserStep
  <2> QED  BY <1>2, <2>1, <2>2
<1>4. CASE CallLoad(i)
  <2>1. /\ load[i] = "none" /\ load' = [load EXCEPT ![i] = "called"]
        /\ pc' = [pc EXCEPT ![i] = "loading"]
    BY <1>4 DEF CallLoad, Goto, Clients, Undialed
  <2>2. \A j \in Instances : InHandler(j)' <=> InHandler(j)
    BY <2>1 DEF InHandler, TypeOK
  <2>3. Handover'
    BY <1>1, <2>1, <2>2 DEF Handover, TypeOK, watchVars, serverVars
  <2>4. (Listening /\ Serving /\ Directories)'
    BY <1>1, <2>2 DEF Listening, Serving, Directories, serverVars, watchVars
  <2>5. Clients'
    BY <1>1, <2>1 DEF Clients, Undialed, TypeOK
  <2> QED  BY <1>2, <2>3, <2>4, <2>5
<1> QED  BY <1>1, <1>3, <1>4

-----------------------------------------------------------------------------
(* A child announces a real port and stops retrying in time. *)
LEMMA ChildProcessType ==
    ASSUME TypeOK, Listening, NEW i \in Instances, ChildStep(i)
    PROVE  ProcessTypeOK'
<1> USE ConstantsAssumption DEF TypeOK, ProcessTypeOK, ChildStates, Unset, networkVars
<1>1. CASE Main(i)
  <2>1. CASE Exit(i, 1)
    BY <1>1, <2>1 DEF Main, Exit
  <2>2. CASE /\ child' = [child EXCEPT ![i] = "binding"]
             /\ UNCHANGED <<status, listen, served>>
    BY <1>1, <2>2 DEF Main
  <2> QED  BY <1>1, <2>1, <2>2 DEF Main
<1>2. CASE Bind(i)
    BY <1>2 DEF Bind
<1>3. CASE BindFails(i)
  <2>1. attempt[i] + 1 \in 0 .. MaxPortRetries
    BY <1>3 DEF BindFails, Listening
  <2>2. attempt' \in [Instances -> 0 .. MaxPortRetries]
    BY <1>3, <2>1 DEF BindFails
  <2>3. CASE attempt[i] + 1 < MaxPortRetries
    BY <1>3, <2>2, <2>3 DEF BindFails
  <2>4. CASE ~(attempt[i] + 1 < MaxPortRetries)
    <3>1. Exit(i, 1) /\ UNCHANGED <<pipe, slave, networkVars>>
      BY <1>3, <2>4 DEF BindFails
    <3> QED  BY <2>2, <3>1 DEF Exit
  <2> QED  BY <2>3, <2>4
<1>4. CASE PreServe(i)
    BY <1>4 DEF PreServe, Lines, Listening
<1>5. CASE Accept(i)
    BY <1>5 DEF Accept
<1>6. CASE ClientGone(i)
    BY <1>6 DEF ClientGone
<1>7. CASE Handle(i)
  <2>1. PICK c \in Instances : Instantiate(i, c) \/ Forward(i, c) \/ FreeSlave(i, c)
    BY <1>7 DEF Handle
  <2>2. PICK a \in {"ok", "exception"} :
           /\ call'  = [call  EXCEPT ![c] = "none"]
           /\ reply' = [reply EXCEPT ![c] = a]
           /\ UNCHANGED <<conn, backlog>>
    BY <2>1 DEF Instantiate, Forward, FreeSlave, Answer
  <2>3. /\ child' \in [Instances -> ChildStates]
        /\ slave' \in [Instances -> {"none", "live", "freed"}]
    <3>1. child' = child \/ child' = [child EXCEPT ![i] = "stopping"]
      BY <2>1 DEF Instantiate, Forward, FreeSlave
    <3>2. \/ slave' = slave
          \/ slave' = [slave EXCEPT ![i] = "live"]
          \/ slave' = [slave EXCEPT ![i] = "freed"]
      BY <2>1 DEF Instantiate, Forward, FreeSlave
    <3>3. child' \in [Instances -> ChildStates]
      BY <3>1
    <3>4. slave' \in [Instances -> {"none", "live", "freed"}]
      BY <3>2
    <3> QED  BY <3>3, <3>4
  <2>4. UNCHANGED <<attempt, listen, status, pipe, served>>
    BY <1>7 DEF Handle
  <2> QED  BY <2>2, <2>3, <2>4
<1>8. CASE Return(i)
    BY <1>8 DEF Return, Exit, Lines
<1>9. CASE Crash(i)
    BY <1>9 DEF Crash, Exit
<1> QED  BY <1>1, <1>2, <1>3, <1>4, <1>5, <1>6, <1>7, <1>8, <1>9 DEF ChildStep,
            ProcessStep

(* A child is launched by its thread, and its end is final. *)
LEMMA ChildEffect ==
    ASSUME TypeOK, NEW i \in Instances, ChildStep(i)
    PROVE  /\ UNCHANGED <<watchVars, booterVars, clientVars>>
           /\ \A j \in Instances : /\ child[j] = "absent" <=> child'[j] = "absent"
                                   /\ child[j] = "exited" => child'[j] = "exited"
<1> USE DEF TypeOK, ProcessTypeOK, ChildStep, networkVars
<1>1. CASE Main(i)
    BY <1>1 DEF Main, Exit
<1>2. CASE Bind(i)
    BY <1>2 DEF Bind
<1>3. CASE BindFails(i)
    BY <1>3 DEF BindFails, Exit
<1>4. CASE PreServe(i)
    BY <1>4 DEF PreServe
<1>5. CASE Accept(i)
    BY <1>5 DEF Accept
<1>6. CASE ClientGone(i)
    BY <1>6 DEF ClientGone
<1>7. CASE Handle(i)
  <2>1. PICK c \in Instances : Instantiate(i, c) \/ Forward(i, c) \/ FreeSlave(i, c)
    BY <1>7 DEF Handle
  <2> QED  BY <1>7, <2>1 DEF Handle, Instantiate, Forward, FreeSlave
<1>8. CASE Return(i)
    BY <1>8 DEF Return, Exit
<1>9. CASE Crash(i)
    BY <1>9 DEF Crash, Exit
<1> QED  BY <1>1, <1>2, <1>3, <1>4, <1>5, <1>6, <1>7, <1>8, <1>9 DEF ProcessStep

(* A child announces only the port it has bound, and keeps it until it      *)
(* exits.                                                                   *)
LEMMA ChildListening ==
    ASSUME TypeOK, Listening, NEW i \in Instances, ChildStep(i)
    PROVE  Listening'
<1> USE ConstantsAssumption DEF TypeOK, ProcessTypeOK, WatchTypeOK, Listening, Unset,
       ChildStep, watchVars, booterVars, networkVars
<1>1. CASE Main(i)
  <2>1. CASE Exit(i, 1)
    BY <1>1, <2>1 DEF Main, Exit
  <2>2. CASE child' = [child EXCEPT ![i] = "binding"] /\ UNCHANGED listen
    BY <1>1, <2>2 DEF Main
  <2> QED  BY <1>1, <2>1, <2>2 DEF Main
<1>2. CASE Bind(i)
  <2>1. PICK p \in Ports : /\ \A j \in Instances : listen[j] # p
                          /\ listen' = [listen EXCEPT ![i] = p]
    BY <1>2 DEF Bind
  <2>2. /\ child[i] = "binding" /\ child' = [child EXCEPT ![i] = "bound"]
        /\ UNCHANGED <<attempt, pipe, port, told>>
    BY <1>2 DEF Bind
  <2>3. \A j, k \in Instances : listen'[j] = listen'[k] /\ listen'[j] # Unset => j = k
    BY <2>1
  <2>4. pipe[i] = <<>> /\ port[i] \notin Ports /\ told[i] \notin Ports
    BY <2>2
  <2> QED  BY <2>1, <2>2, <2>3, <2>4
<1>3. CASE BindFails(i)
  <2>1. CASE attempt[i] + 1 < MaxPortRetries
    BY <1>3, <2>1 DEF BindFails
  <2>2. CASE Exit(i, 1)
    BY <1>3, <2>2 DEF BindFails, Exit
  <2> QED  BY <1>3, <2>1, <2>2 DEF BindFails
<1>4. CASE PreServe(i)
    BY <1>4 DEF PreServe, Lines
<1>5. CASE Accept(i)
    BY <1>5 DEF Accept
<1>6. CASE ClientGone(i)
    BY <1>6 DEF ClientGone
<1>7. CASE Handle(i)
  <2>1. \E c \in Instances : Instantiate(i, c) \/ Forward(i, c) \/ FreeSlave(i, c)
    BY <1>7 DEF Handle
  <2>2. child' = child \/ child' = [child EXCEPT ![i] = "stopping"]
    BY <2>1 DEF Instantiate, Forward, FreeSlave
  <2>3. UNCHANGED <<attempt, listen, pipe, port, told>> /\ child[i] = "serving"
    BY <1>7 DEF Handle
  <2> QED  BY <2>2, <2>3
<1>8. CASE Return(i)
    BY <1>8 DEF Return, Exit, Lines
<1>9. CASE Crash(i)
    BY <1>9 DEF Crash, Exit
<1> QED  BY <1>1, <1>2, <1>3, <1>4, <1>5, <1>6, <1>7, <1>8, <1>9 DEF ProcessStep

(* The invariant survives the children's steps. *)
LEMMA ChildInvariant ==
    ASSUME IInv, NEW i \in Instances, ChildStep(i)
    PROVE  IInv'
<1> USE DEF IInv
<1>1. /\ UNCHANGED <<watchVars, booterVars, clientVars>>
      /\ \A j \in Instances : /\ child[j] = "absent" <=> child'[j] = "absent"
                              /\ child[j] = "exited" => child'[j] = "exited"
  BY ChildEffect
<1>2. TypeOK'
  BY <1>1, ChildProcessType DEF TypeOK, WatchTypeOK, watchVars, booterVars, clientVars
<1>3. Handover'
  BY <1>1 DEF Handover, InHandler, watchVars, booterVars
<1>4. Listening'
  BY ChildListening
<1>5. (Serving /\ Directories /\ Clients)'
  BY <1>1 DEF Serving, Directories, Clients, InHandler, watchVars, booterVars, clientVars
<1> QED  BY <1>2, <1>3, <1>4, <1>5

-----------------------------------------------------------------------------
(* A thread's step but for the one that ends the booter. *)
LEMMA ThreadProcessType ==
    ASSUME TypeOK, NEW i \in Instances, WatchStep(i), UNCHANGED host, host = "up"
    PROVE  ProcessTypeOK'
<1> USE DEF TypeOK, ProcessTypeOK, ChildStates, processVars, serverVars, networkVars
<1>1. CASE Launch(i)
    BY <1>1 DEF Launch, TerminateHost
<1>2. CASE PublishPort(i)
    BY <1>2 DEF PublishPort, NextLine
<1>3. CASE Notify(i)
    BY <1>3 DEF Notify
<1>4. CASE StopReading(i)
  <2>1. CASE NextLine(i, "freed")
    BY <1>4, <2>1 DEF StopReading, NextLine
  <2>2. CASE UNCHANGED pipe
    BY <1>4, <2>2 DEF StopReading
  <2> QED  BY <1>4, <2>1, <2>2 DEF StopReading
<1>5. CASE Reap(i)
    BY <1>5 DEF Reap
<1>6. CASE FailPort(i)
    BY <1>6 DEF FailPort
<1> QED  BY <1>1, <1>2, <1>3, <1>4, <1>5, <1>6 DEF WatchStep

LEMMA ThreadWatchType ==
    ASSUME TypeOK, NEW i \in Instances, WatchStep(i), UNCHANGED host, host = "up"
    PROVE  WatchTypeOK'
<1> USE DEF TypeOK, ProcessTypeOK, WatchTypeOK, WatchStates
<1>1. CASE Launch(i)
    BY <1>1 DEF Launch, TerminateHost
<1>2. CASE PublishPort(i)
    BY <1>2 DEF PublishPort, NextLine, Lines, Unset
<1>3. CASE Notify(i)
    BY <1>3 DEF Notify
<1>4. CASE StopReading(i)
    BY <1>4 DEF StopReading
<1>5. CASE Reap(i)
    BY <1>5 DEF Reap
<1>6. CASE FailPort(i)
    BY <1>6 DEF FailPort
<1> QED  BY <1>1, <1>2, <1>3, <1>4, <1>5, <1>6 DEF WatchStep

(* The thread writes the port the load waits for, or, when the child has    *)
(* exited, that there is none.                                              *)
LEMMA ThreadHandover ==
    ASSUME TypeOK, Handover, NEW i \in Instances, WatchStep(i), UNCHANGED host,
           host = "up", UNCHANGED booterVars
    PROVE  Handover'
<1> USE ConstantsAssumption DEF TypeOK, ProcessTypeOK, WatchTypeOK, Handover, InHandler,
       Unset, Unbound, booterVars, processVars, serverVars
<1>1. CASE Launch(i)
    BY <1>1 DEF Launch, TerminateHost
<1>2. CASE PublishPort(i)
    BY <1>2 DEF PublishPort, NextLine, Lines
<1>3. CASE Notify(i)
    BY <1>3 DEF Notify
<1>4. CASE StopReading(i)
  <2>1. watch[i] = "reading"
    BY <1>4 DEF StopReading, NextLine
  <2>2. /\ watch' = [watch EXCEPT ![i] = "reaping"]
        /\ UNCHANGED <<child, status, port, mtx, asleep, scope>>
    BY <1>4 DEF StopReading
  <2> QED  BY <2>1, <2>2
<1>5. CASE Reap(i)
    BY <1>5 DEF Reap
<1>6. CASE FailPort(i)
  <2>1. CASE /\ port'   = [port   EXCEPT ![i] = Unbound]
             /\ asleep' = [asleep EXCEPT ![i] = FALSE]
             /\ watch'  = [watch  EXCEPT ![i] = "done"]
    BY <1>6, <2>1 DEF FailPort
  <2>2. CASE watch' = [watch EXCEPT ![i] = "stuck"] /\ UNCHANGED <<port, asleep>>
    BY <1>6, <2>2 DEF FailPort
  <2> HIDE DEF TypeOK, Handover
  <2> QED  BY <1>6, <2>1, <2>2 DEF FailPort
<1> QED  BY <1>1, <1>2, <1>3, <1>4, <1>5, <1>6 DEF WatchStep

(* A line that is read leaves the lines behind it in the pipe. *)
LEMMA LineRead ==
    ASSUME ProcessTypeOK, Listening, NEW i \in Instances, NEW t, NextLine(i, t)
    PROVE  /\ Len(pipe[i]) > 0
           /\ Head(pipe[i]) = pipe[i][1]
           /\ pipe[i][1] \in Lines
           /\ \A j \in Instances : pipe[j] = <<>> => pipe'[j] = <<>>
           /\ \A j \in Instances : \A n \in DOMAIN pipe'[j] :
                 pipe'[j][n].text = "port"
                    => listen[j] = pipe'[j][n].port \/ child[j] = "exited"
<1> DEFINE Told(j, line) == line.text = "port"
                               => listen[j] = line.port \/ child[j] = "exited"
<1>1. /\ pipe \in [Instances -> Seq(Lines)]
      /\ pipe[i] # <<>>
      /\ pipe' = [pipe EXCEPT ![i] = Tail(pipe[i])]
  BY DEF NextLine, ProcessTypeOK
<1>2. \A j \in Instances : \A n \in DOMAIN pipe[j] : Told(j, pipe[j][n])
  BY DEF Listening
<1> HIDE DEF Told
<1>3. /\ Len(pipe[i]) > 0
      /\ Head(pipe[i]) = pipe[i][1]
      /\ pipe[i][1] \in Lines
  BY <1>1
<1>4. \A j \in Instances \ {i} : pipe'[j] = pipe[j]
  BY <1>1
<1>5. pipe'[i] = Tail(pipe[i])
  BY <1>1
<1>6. \A n \in DOMAIN pipe'[i] : n + 1 \in DOMAIN pipe[i]
                                 /\ pipe'[i][n] = pipe[i][n + 1]
  <2>1. pipe[i] \in Seq(Lines)
    BY <1>1
  <2> QED  BY <1>3, <1>5, <2>1
<1>7. \A j \in Instances : pipe[j] = <<>> => pipe'[j] = <<>>
  BY <1>1, <1>4
<1>8. \A j \in Instances : \A n \in DOMAIN pipe'[j] : Told(j, pipe'[j][n])
  <2> SUFFICES ASSUME NEW j \in Instances, NEW n \in DOMAIN pipe'[j]
               PROVE  Told(j, pipe'[j][n])
    OBVIOUS
  <2>1. CASE j = i
    BY <1>2, <1>6, <2>1
  <2>2. CASE j # i
    <3>1. pipe'[j] = pipe[j]
      BY <1>4, <2>2
    <3> QED  BY <1>2, <3>1
  <2> QED  BY <2>1, <2>2
<1> QED  BY <1>3, <1>7, <1>8 DEF Told

(* It hands over what it has read, or Unbound. *)
LEMMA ThreadListening ==
    ASSUME TypeOK, Handover, Listening, NEW i \in Instances, WatchStep(i),
           UNCHANGED host, host = "up", UNCHANGED booterVars
    PROVE  Listening'
<1>0. /\ ProcessTypeOK
      /\ \A t : NextLine(i, t)
                => /\ Len(pipe[i]) > 0
                   /\ Head(pipe[i]) = pipe[i][1]
                   /\ \A j \in Instances : pipe[j] = <<>> => pipe'[j] = <<>>
                   /\ \A j \in Instances : \A n \in DOMAIN pipe'[j] :
                         pipe'[j][n].text = "port"
                            => listen[j] = pipe'[j][n].port \/ child[j] = "exited"
  <2>1. ProcessTypeOK
    BY DEF TypeOK
  <2> QED  BY <2>1, LineRead
<1> USE ConstantsAssumption DEF TypeOK, ProcessTypeOK, WatchTypeOK, Listening, Handover,
       Unset, Unbound, booterVars, processVars, serverVars
<1>1. CASE Launch(i)
    BY <1>1 DEF Launch, TerminateHost
<1>2. CASE PublishPort(i)
  <2>1. /\ NextLine(i, "port")
        /\ watch[i] = "reading"
        /\ Head(pipe[i]).text = "port"
        /\ port' = [port EXCEPT ![i] = Head(pipe[i]).port]
        /\ UNCHANGED <<child, listen, attempt, told>>
    BY <1>2 DEF PublishPort, NextLine
  <2>2. /\ Len(pipe[i]) > 0
        /\ Head(pipe[i]) = pipe[i][1]
        /\ \A j \in Instances : pipe[j] = <<>> => pipe'[j] = <<>>
        /\ \A j \in Instances : \A n \in DOMAIN pipe'[j] :
              pipe'[j][n].text = "port"
                 => listen[j] = pipe'[j][n].port \/ child[j] = "exited"
    BY <1>0, <2>1
  <2>3. /\ pipe[i] # <<>>
        /\ listen[i] = Head(pipe[i]).port \/ child[i] = "exited"
    BY <2>1, <2>2
  <2>4. /\ port'[i] = Head(pipe[i]).port
        /\ \A j \in Instances \ {i} : port'[j] = port[j]
    BY <2>1
  <2>5. child[i] \notin {"absent", "started", "binding"}
    BY <2>3
  <2> HIDE DEF TypeOK, ProcessTypeOK, WatchTypeOK, Handover
  <2> QED  BY <2>1, <2>2, <2>3, <2>4, <2>5
<1>3. CASE Notify(i)
    BY <1>3 DEF Notify
<1>4. CASE StopReading(i)
  <2>1. /\ watch[i] = "reading"
        /\ UNCHANGED <<child, listen, attempt, port, told>>
    BY <1>4 DEF StopReading, NextLine
  <2>2. CASE UNCHANGED pipe
    BY <2>1, <2>2
  <2>3. CASE NextLine(i, "freed")
    <3>1. /\ \A j \in Instances : pipe[j] = <<>> => pipe'[j] = <<>>
          /\ \A j \in Instances : \A n \in DOMAIN pipe'[j] :
                pipe'[j][n].text = "port"
                   => listen[j] = pipe'[j][n].port \/ child[j] = "exited"
      BY <1>0, <2>3
    <3> HIDE DEF TypeOK, ProcessTypeOK, WatchTypeOK, Handover
    <3> QED  BY <2>1, <3>1
  <2> QED  BY <1>4, <2>2, <2>3 DEF StopReading
<1>5. CASE Reap(i)
    BY <1>5 DEF Reap
<1>6. CASE FailPort(i)
  <2>1. /\ watch[i] = "failing"
        /\ UNCHANGED <<child, listen, attempt, pipe, told>>
    BY <1>6 DEF FailPort
  <2>2. CASE port' = [port EXCEPT ![i] = Unbound]
    BY <2>1, <2>2
  <2>3. CASE UNCHANGED port
    BY <2>1, <2>3
  <2> QED  BY <1>6, <2>2, <2>3 DEF FailPort
<1> QED  BY <1>1, <1>2, <1>3, <1>4, <1>5, <1>6 DEF WatchStep

(* A thread that has ended does nothing any more. *)
LEMMA ThreadWatch ==
    ASSUME TypeOK, NEW i \in Instances, WatchStep(i), UNCHANGED host, host = "up"
    PROVE  /\ watch[i] \notin {"absent", "done"}
           /\ watch'[i] # "absent"
           /\ \A j \in Instances \ {i} : watch'[j] = watch[j]
<1> USE DEF TypeOK, WatchTypeOK
<1>1. CASE Launch(i)
    BY <1>1 DEF Launch, TerminateHost
<1>2. CASE PublishPort(i)
    BY <1>2 DEF PublishPort, NextLine
<1>3. CASE Notify(i)
    BY <1>3 DEF Notify
<1>4. CASE StopReading(i)
    BY <1>4 DEF StopReading, NextLine
<1>5. CASE Reap(i)
    BY <1>5 DEF Reap
<1>6. CASE FailPort(i)
    BY <1>6 DEF FailPort
<1> QED  BY <1>1, <1>2, <1>3, <1>4, <1>5, <1>6 DEF WatchStep

(* The invariant survives the threads' steps. *)
LEMMA ThreadInvariant ==
    ASSUME IInv, host = "up", NEW i \in Instances, Thread(i)
    PROVE  IInv'
<1> USE DEF IInv
<1>1. UNCHANGED <<booterVars, clientVars>>
  BY DEF Thread
<1>2. CASE UNCHANGED host /\ WatchStep(i)
  <2>1. TypeOK'
    BY <1>1, <1>2, ThreadProcessType, ThreadWatchType DEF TypeOK, booterVars, clientVars
  <2>2. Handover' /\ Listening'
    BY <1>1, <1>2, ThreadHandover, ThreadListening
  <2>3. Serving' /\ Clients'
    BY <1>1 DEF Serving, Clients, InHandler, booterVars, clientVars
  <2>4. Directories'
    BY <1>1, <1>2, ThreadWatch DEF Directories, booterVars
  <2> QED  BY <2>1, <2>2, <2>3, <2>4
<1>3. CASE /\ host' = "terminated"
           /\ UNCHANGED <<processVars, watch, port, mtx, asleep, scope>>
  <2>1. TypeOK'
    BY <1>1, <1>3 DEF TypeOK, ProcessTypeOK, WatchTypeOK, booterVars, clientVars,
       processVars, serverVars, networkVars
  <2>2. (Handover /\ Listening /\ Serving /\ Directories /\ Clients)'
    BY <1>1, <1>3 DEF Handover, Listening, Serving, Directories, Clients, InHandler,
       booterVars, clientVars, processVars, serverVars
  <2> QED  BY <2>1, <2>2
<1> QED  BY <1>2, <1>3 DEF Thread

-----------------------------------------------------------------------------
(* A load is served on the connection the server has accepted; it answers   *)
(* with the port its thread has written.                                    *)
LEMMA HandlerInvariant ==
    ASSUME IInv, NEW i \in Instances, Handler(i) \/ LoadWakes(i)
    PROVE  IInv'
<1> USE ConstantsAssumption DEF IInv, TypeOK, ProcessTypeOK, WatchTypeOK, LoadStates,
       processVars, serverVars, networkVars, clientVars
<1>1. CASE Load(i)
  <2>1. /\ current = i /\ load[i] = "called"
        /\ UNCHANGED <<processVars, port, mtx, asleep, host, main, server, current, told,
                       clientVars>>
    BY <1>1 DEF Load, LoadGoto
  <2>2. watch[i] = "absent" /\ main # "gone"
    BY <2>1 DEF Handover, Serving
  <2>3. CASE /\ load'  = [load  EXCEPT ![i] = "locking"]
             /\ watch' = [watch EXCEPT ![i] = "launching"]
             /\ scope' = [scope EXCEPT ![i] = TRUE]
             /\ dirs'  = dirs \cup {i}
    <3>1. TypeOK'
      BY <2>1, <2>3 DEF WatchStates
    <3>2. Handover'
      BY <2>1, <2>2, <2>3 DEF Handover, InHandler
    <3>3. Listening' /\ Serving' /\ Directories' /\ Clients'
      BY <2>1, <2>2, <2>3 DEF Listening, Serving, Directories, Clients, InHandler
    <3> QED  BY <3>1, <3>2, <3>3
  <2>4. CASE load' = [load EXCEPT ![i] = "thrown"] /\ UNCHANGED <<watch, scope, dirs>>
    <3>1. TypeOK'
      BY <2>1, <2>4 DEF WatchStates
    <3>2. Handover'
      BY <2>1, <2>2, <2>4 DEF Handover, InHandler
    <3>3. Listening' /\ Serving' /\ Directories' /\ Clients'
      BY <2>1, <2>2, <2>4 DEF Listening, Serving, Directories, Clients, InHandler
    <3> QED  BY <3>1, <3>2, <3>3
  <2> QED  BY <1>1, <2>3, <2>4 DEF Load, LoadGoto
<1>2. CASE LoadLock(i)
  <2>1. /\ load[i] \in {"locking", "waiting"} /\ ~(load[i] = "waiting" /\ asleep[i])
        /\ load' = [load EXCEPT ![i] = "testing"]
        /\ mtx' = [mtx EXCEPT ![i] = "creator"]
        /\ UNCHANGED <<processVars, watch, port, asleep, scope, host, main, server,
                       current, told, dirs, clientVars>>
    BY <1>2 DEF LoadLock, LoadGoto
  <2>2. TypeOK'
    BY <2>1 DEF WatchStates
  <2>3. Handover'
    BY <2>1 DEF Handover, InHandler
  <2>4. Listening' /\ Serving' /\ Directories' /\ Clients'
    BY <2>1 DEF Listening, Serving, Directories, Clients, InHandler
  <2> QED  BY <2>2, <2>3, <2>4
<1>3. CASE LoadSleep(i)
  <2>1. /\ load[i] = "testing"
        /\ load' = [load EXCEPT ![i] = "waiting"]
        /\ mtx' = [mtx EXCEPT ![i] = "free"]
        /\ asleep' = [asleep EXCEPT ![i] = TRUE]
        /\ UNCHANGED <<processVars, watch, port, scope, host, main, server, current,
                       told, dirs, clientVars>>
    BY <1>3 DEF LoadSleep, LoadGoto
  <2>2. TypeOK'
    BY <2>1 DEF WatchStates
  <2>3. Handover'
    BY <2>1 DEF Handover, InHandler
  <2>4. Listening' /\ Serving' /\ Directories' /\ Clients'
    BY <2>1 DEF Listening, Serving, Directories, Clients, InHandler
  <2> QED  BY <2>2, <2>3, <2>4
<1>4. CASE LoadReturns(i)
  <2>1. /\ load[i] = "testing" /\ port[i] # Unset
        /\ load' = [load EXCEPT ![i] = "returned"]
        /\ told' = [told EXCEPT ![i] = port[i]]
        /\ mtx' = [mtx EXCEPT ![i] = "free"]
        /\ scope' = [scope EXCEPT ![i] = FALSE]
        /\ UNCHANGED <<processVars, watch, port, asleep, host, main, server, current,
                       dirs, clientVars>>
    BY <1>4 DEF LoadReturns, LoadGoto
  <2>2. TypeOK'
    BY <2>1 DEF WatchStates
  <2>3. Handover'
    BY <2>1 DEF Handover, InHandler
  <2>4. Listening' /\ Serving' /\ Directories'
    BY <2>1 DEF Listening, Serving, Directories, InHandler
  <2>5. Clients'
    <3>1. told[i] = Unset
      BY <2>1 DEF Handover
    <3> QED  BY <2>1, <3>1 DEF Clients, Undialed, Unset
  <2> QED  BY <2>2, <2>3, <2>4, <2>5
<1>5. CASE LoadWakes(i)
  <2>1. /\ load[i] = "waiting" /\ asleep' = [asleep EXCEPT ![i] = FALSE]
        /\ UNCHANGED <<processVars, watch, port, mtx, scope, host, booterVars, clientVars>>
    BY <1>5 DEF LoadWakes
  <2>2. TypeOK'
    BY <2>1 DEF booterVars
  <2>3. (Handover /\ Listening /\ Serving /\ Directories /\ Clients)'
    BY <2>1 DEF booterVars, Handover, Listening, Serving, Directories, Clients, InHandler
  <2> QED  BY <2>2, <2>3
<1> QED  BY <1>1, <1>2, <1>3, <1>4, <1>5 DEF Handler

(* The server and the main thread leave the loads alone. *)
LEMMA ServerInvariant ==
    ASSUME IInv, ServerStep \/ MainStep \/ PressEnter
    PROVE  IInv'
<1> USE ConstantsAssumption DEF IInv
<1>1. UNCHANGED <<processVars, watch, port, mtx, asleep, scope, load, told, clientVars>>
  BY DEF ServerStep, MainStep, PressEnter, Serve, AcceptLoad, EndLoad, ServeReturns,
     JoinServer, JoinThreads, watchVars
<1>2. (Handover /\ Listening /\ Clients)'
  BY <1>1 DEF Handover, Listening, Clients, InHandler, processVars, serverVars, clientVars
<1>3. ASSUME host' \in {"up", "terminated"},
             main' \in {"waiting", "stopping", "joining", "gone"},
             server' \in {"starting", "serving", "stopping", "returned"},
             current' \in Instances \cup {NoOne}, dirs' \subseteq Instances
      PROVE  TypeOK'
  BY <1>1, <1>3 DEF TypeOK, ProcessTypeOK, WatchTypeOK, processVars, serverVars,
     networkVars, clientVars
<1> USE <1>1 DEF TypeOK, Serving, Directories, InHandler
<1>4. CASE Serve
  BY <1>2, <1>3, <1>4 DEF Serve, WatchTypeOK
<1>5. CASE AcceptLoad
  BY <1>2, <1>3, <1>5 DEF AcceptLoad, WatchTypeOK, watchVars
<1>6. CASE EndLoad
  BY <1>2, <1>3, <1>6 DEF EndLoad, WatchTypeOK, watchVars
<1>7. CASE ServeReturns
  BY <1>2, <1>3, <1>7 DEF ServeReturns, WatchTypeOK, watchVars
<1>8. CASE JoinServer
  BY <1>2, <1>3, <1>8 DEF JoinServer, WatchTypeOK, watchVars
<1>9. CASE JoinThreads
  BY <1>2, <1>3, <1>9 DEF JoinThreads, WatchTypeOK, watchVars
<1>10. CASE PressEnter
  BY <1>2, <1>3, <1>10 DEF PressEnter, WaitForInput, WatchTypeOK, watchVars
<1> QED  BY <1>4, <1>5, <1>6, <1>7, <1>8, <1>9, <1>10 DEF ServerStep, MainStep

-----------------------------------------------------------------------------
(* The invariant holds initially ... *)
LEMMA InvariantInit == Init => IInv
<1> SUFFICES ASSUME Init PROVE IInv
  OBVIOUS
<1> USE ConstantsAssumption, MaxRetriesAssumption DEF Init, ProcessInit, WatchInit
<1>1. TypeOK
  BY DEF TypeOK, ProcessTypeOK, WatchTypeOK, ChildStates, WatchStates, LoadStates,
     ClientStates
<1>2. Handover
  <2>1. Unset # Unbound
    BY DEF Unset, Unbound
  <2> QED  BY <2>1 DEF Handover, InHandler
<1>3. Listening
  BY DEF Listening, Unset
<1>4. Serving /\ Directories /\ Clients
  BY DEF Serving, Directories, Clients, Undialed, InHandler
<1> QED  BY <1>1, <1>2, <1>3, <1>4 DEF IInv

(* ... every step preserves it ... *)
LEMMA InvariantStep == IInv /\ [Next]_vars => IInv'
<1> SUFFICES ASSUME IInv, [Next]_vars PROVE IInv'
  OBVIOUS
<1>1. CASE UNCHANGED vars
  BY <1>1 DEF IInv, vars, processVars, serverVars, networkVars, watchVars, booterVars,
     clientVars, TypeOK, ProcessTypeOK, WatchTypeOK, Handover, Listening, Serving,
     Directories, Clients, InHandler
<1>2. CASE BooterStep
  BY <1>2, ServerInvariant, HandlerInvariant, ThreadInvariant DEF BooterStep
<1>3. ASSUME NEW i \in Instances, ClientStep(i) \/ UserStep(i) \/ Die(i) PROVE IInv'
  BY <1>3, ClientInvariant
<1>4. ASSUME NEW i \in Instances, ChildStep(i) PROVE IInv'
  BY <1>4, ChildInvariant
<1> QED  BY <1>1, <1>2, <1>3, <1>4 DEF Next

(* ... and so it always holds. *)
LEMMA Invariant == Spec => []IInv
BY InvariantInit, InvariantStep, PTL DEF Spec

(* Every variable of the booter, its clients and their children keeps its   *)
(* type.                                                                    *)
THEOREM TypeCorrect == Spec => []TypeOK
<1>1. IInv => TypeOK
  BY DEF IInv
<1> QED  BY <1>1, Invariant, PTL

(* The vectors of threads and directories are never used by two loads, or   *)
(* by a load and the destructor (boot_service_handler.cpp:34-35, 45).       *)
THEOREM LoadsDoNotOverlap == Spec => []OneLoadAtATime
<1>1. IInv => OneLoadAtATime
  BY ConstantsAssumption DEF IInv, Serving, OneLoadAtATime
<1> QED  BY <1>1, Invariant, PTL

(* A client that is told a port finds its own child there, unless that      *)
(* child has exited (boot_service_handler.cpp:40, proxy_slave.cpp:99).      *)
THEOREM ClientsAreToldTheirChild == Spec => []ToldPortIsListenedOn
<1>1. IInv => ToldPortIsListenedOn
  BY DEF IInv, Listening, ToldPortIsListenedOn
<1> QED  BY <1>1, Invariant, PTL

(* The file a child was given exists until the child has exited             *)
(* (boot_service_handler.cpp:25, 35, 43-48).                                *)
THEOREM FmuFileIsThere == Spec => []FmuFileThere
<1>1. IInv => FmuFileThere
  BY DEF IInv, Handover, Directories, FmuFileThere
<1> QED  BY <1>1, Invariant, PTL

(* A port of -999 in the reply means that there is neither child nor thread *)
(* left, and that nobody dials it (proxy_slave.cpp:94-97).                  *)
THEOREM UnboundMeansNothingLeft == Spec => []UnboundLeavesNothing
<1>1. TypeOK /\ Handover /\ Clients => UnboundLeavesNothing
  <2> SUFFICES ASSUME TypeOK, Handover, Clients,
                      NEW i \in Instances, told[i] = Unbound
               PROVE  /\ child[i] \in {"absent", "exited"}
                      /\ watch[i] = "done"
                      /\ pc[i] \in {"loading", "failed", "dead"}
    BY DEF UnboundLeavesNothing
  <2>1. watch[i] = "done" /\ child[i] = "exited" /\ load[i] = "returned"
    BY DEF Handover, Unset, Unbound
  <2>2. told[i] \notin Ports
    BY ConstantsAssumption DEF Unbound
  <2> QED  BY <2>1, <2>2 DEF Clients
<1> QED  BY <1>1, Invariant, PTL DEF IInv

-----------------------------------------------------------------------------
(* The booter starts children, and has no part in what they do. *)
LEMMA BooterApart ==
    ASSUME IInv, BooterStep
    PROVE  /\ UNCHANGED <<slave, served, networkVars, clientVars>>
           /\ \A j \in Instances :
                 child'[j] = child[j] \/ (child[j] = "absent" /\ child'[j] = "started")
<1>1. CASE UNCHANGED <<processVars, clientVars>>
  BY <1>1 DEF processVars, serverVars, networkVars
<1>2. ASSUME NEW i \in Instances, WatchStep(i), UNCHANGED host
      PROVE  /\ UNCHANGED <<slave, served, networkVars>>
             /\ \A j \in Instances :
                   child'[j] = child[j] \/ (child[j] = "absent" /\ child'[j] = "started")
  <2>1. CASE Launch(i)
    <3>1. host # "terminated"
      BY DEF BooterStep
    <3>2. child[i] = "absent" /\ child \in [Instances -> ChildStates]
      BY <2>1 DEF IInv, TypeOK, ProcessTypeOK, Handover, Launch
    <3>3. /\ child' = [child EXCEPT ![i] = "started"]
          /\ UNCHANGED <<slave, served, networkVars>>
      BY <1>2, <2>1, <3>1 DEF Launch, TerminateHost, networkVars
    <3> QED  BY <3>2, <3>3
  <2>2. CASE UNCHANGED <<child, slave, served, networkVars>>
    BY <2>2 DEF networkVars
  <2> QED  BY <1>2, <2>1, <2>2 DEF WatchStep, PublishPort, Notify, StopReading, Reap,
              FailPort, processVars, serverVars
<1>3. ASSUME NEW i \in Instances, Thread(i)
      PROVE  UNCHANGED <<processVars, clientVars>>
             \/ (WatchStep(i) /\ UNCHANGED host /\ UNCHANGED clientVars)
  BY <1>3 DEF Thread
<1>4. ASSUME NEW i \in Instances, Handler(i) \/ LoadWakes(i)
      PROVE  UNCHANGED <<processVars, clientVars>>
  BY <1>4 DEF Handler, Load, LoadLock, LoadSleep, LoadReturns, LoadWakes
<1>5. ASSUME ServerStep \/ MainStep \/ PressEnter
      PROVE  UNCHANGED <<processVars, clientVars>>
  BY <1>5 DEF ServerStep, MainStep, PressEnter, Serve, AcceptLoad, EndLoad, ServeReturns,
     JoinServer, JoinThreads
<1>6. ASSUME NEW i \in Instances, WatchStep(i), UNCHANGED host, UNCHANGED clientVars
      PROVE  /\ UNCHANGED <<slave, served, networkVars, clientVars>>
             /\ \A j \in Instances :
                   child'[j] = child[j] \/ (child[j] = "absent" /\ child'[j] = "started")
  BY <1>2, <1>6
<1>7. \/ UNCHANGED <<processVars, clientVars>>
      \/ \E i \in Instances : WatchStep(i) /\ UNCHANGED host /\ UNCHANGED clientVars
  BY <1>3, <1>4, <1>5 DEF BooterStep
<1> QED  BY <1>1, <1>6, <1>7

-----------------------------------------------------------------------------
(* When no FMU refuses: a client fails only if its child has exited, was    *)
(* never launched, or never will be, since the server that should do so has *)
(* stopped before it came to this client or the booter was terminated. The  *)
(* load of the thread whose launch throws is then the one being served. A   *)
(* client whose own child has exited may have dialed another one's.         *)
Refusals ==
    /\ host = "terminated" =>
          \A i \in Instances : InHandler(i) => child[i] = "absent"
    /\ \A i \in Instances :
          /\ reply[i] # "exception"
          /\ \A j \in Instances : conn[i] = j /\ i # j => child[i] = "exited"
          /\ pc[i] = "failed" =>
                \/ child[i] = "exited"
                \/ load[i] \in {"none", "thrown"}
                \/ host = "terminated" /\ child[i] = "absent"
                \/ /\ load[i] = "called"
                   /\ server \in {"stopping", "returned"}
                   /\ current # i

(* The clients' steps: an exception without an exited child is impossible.   *)
LEMMA ClientRefusals ==
    ASSUME IInv, Refusals, NEW i \in Instances, ClientStep(i) \/ UserStep(i) \/ Die(i)
    PROVE  Refusals'
<1> USE ConstantsAssumption DEF IInv, TypeOK, ProcessTypeOK, Refusals, booterVars,
       InHandler, processVars, serverVars, watchVars, networkVars, Goto, Disconnect
<1>1. CASE Dial(i)
  BY <1>1 DEF Dial
<1>2. CASE LoadUndialed(i)
  BY <1>2 DEF LoadUndialed, Clients, Undialed
<1>3. CASE CallLoad(i)
  BY <1>3 DEF CallLoad
<1>4. CASE LoseBooter(i)
  <2>1. CASE host = "terminated"
    <3>1. child[i] = "absent"
      BY <1>4, <2>1 DEF LoseBooter, Replied, LoadStates, Handover
    <3> QED  BY <1>4, <2>1, <3>1 DEF LoseBooter
  <2>2. CASE server \in {"stopping", "returned"} /\ current # i
    <3>1. load[i] \in {"none", "called"}
      BY <1>4, <2>2 DEF LoseBooter, Replied, LoadStates, Serving
    <3> QED  BY <1>4, <2>2, <3>1 DEF LoseBooter
  <2> QED  BY <1>4, <2>1, <2>2 DEF LoseBooter
<1>5. CASE LoadReplied(i)
  <2>1. told[i] = Unbound => child[i] = "exited"
    BY DEF Handover
  <2> QED  BY <1>5, <2>1 DEF LoadReplied
<1>6. CASE Open(i)
  <2>1. pc[i] = "connecting" /\ UNCHANGED <<serverVars, reply, watchVars, booterVars>>
    BY <1>6 DEF Open
  <2>2. told[i] \in Ports
    BY <2>1 DEF Clients, Undialed
  <2>3. listen[i] = told[i] \/ child[i] = "exited"
    BY <2>2 DEF Listening
  <2>4. ASSUME NEW j \in Instances, listen[j] = told[i],
               conn' = [conn EXCEPT ![i] = j],
               pc' = [pc EXCEPT ![i] = "instantiating"]
        PROVE  Refusals'
    <3>1. i = j \/ child[i] = "exited"
      BY <2>2, <2>3, <2>4 DEF Listening, Unset
    <3> QED  BY <2>1, <2>4, <3>1
  <2>5. CASE /\ \A j \in Instances : listen[j] # told[i]
             /\ pc' = [pc EXCEPT ![i] = "failed"]
             /\ UNCHANGED conn
    BY <2>1, <2>3, <2>5
  <2> QED  BY <1>6, <2>4, <2>5 DEF Open
<1>7. CASE Returns(i)
  <2>1. UNCHANGED <<serverVars, watchVars, booterVars>>
    BY <1>7 DEF Returns
  <2>2. reply'[i] # "exception" /\ \A j \in Instances \ {i} : reply'[j] = reply[j]
    BY <1>7 DEF Returns, Throws, Answered, Broken
  <2>3. UNCHANGED conn \/ conn' = [conn EXCEPT ![i] = NoOne]
    BY <1>7 DEF Returns
  <2>4. CASE /\ pc[i] \in {"instantiating", "freeing"} /\ Throws(i)
             /\ pc' = [pc EXCEPT ![i] = "failed"]
    <3>1. child[i] = "exited"
      BY <2>4 DEF Throws, Answered, Broken
    <3> QED  BY <2>1, <2>2, <2>3, <2>4, <3>1
  <2>5. CASE \E s \in {"ready", "freed"} : pc' = [pc EXCEPT ![i] = s]
    BY <2>1, <2>2, <2>3, <2>5
  <2> QED  BY <1>7, <2>4, <2>5 DEF Returns
<1>8. CASE Construct(i)
  BY <1>8 DEF Construct
<1>9. CASE Invoke(i)
  BY <1>9 DEF Invoke, Request
<1>10. CASE FreeInstance(i)
  BY <1>10 DEF FreeInstance, Request
<1>11. CASE Destroy(i)
  BY <1>11 DEF Destroy
<1>12. CASE Die(i)
  BY <1>12 DEF Die
<1> QED  BY <1>1, <1>2, <1>3, <1>4, <1>5, <1>6, <1>7, <1>8, <1>9, <1>10, <1>11,
            <1>12 DEF ClientStep, UserStep

(* The children answer without exceptions. *)
LEMMA ChildRefusals ==
    ASSUME IInv, Refusals, "fmu" \notin Faults, NEW i \in Instances, ChildStep(i)
    PROVE  Refusals'
<1> USE DEF IInv, TypeOK, ProcessTypeOK
<1>1. /\ UNCHANGED <<watchVars, booterVars, clientVars>>
      /\ \A j \in Instances : /\ child[j] = "exited" => child'[j] = "exited"
                              /\ child[j] = "absent" => child'[j] = "absent"
  BY ChildEffect
<1>2. UNCHANGED conn /\ \A j \in Instances : reply'[j] # "exception"
  <2>1. CASE UNCHANGED <<conn, reply>>
    BY <2>1 DEF Refusals
  <2>2. CASE Handle(i)
    <3>1. PICK c \in Instances : Instantiate(i, c) \/ Forward(i, c) \/ FreeSlave(i, c)
      BY <2>2 DEF Handle
    <3>2. reply' = [reply EXCEPT ![c] = "ok"] /\ UNCHANGED conn
      BY <3>1 DEF Instantiate, Forward, FreeSlave, Answer
    <3> QED  BY <3>2 DEF Refusals
  <2> QED  BY <2>1, <2>2 DEF ChildStep, ProcessStep, Main, Bind, BindFails, PreServe,
              Accept, ClientGone, Return, Crash, networkVars
<1> QED  BY <1>1, <1>2 DEF Refusals, InHandler, watchVars, booterVars, clientVars

(* The booter launches no child for a client it has refused. *)
LEMMA BooterRefusals ==
    ASSUME IInv, Refusals, BooterStep
    PROVE  Refusals'
<1> USE DEF IInv, TypeOK, ProcessTypeOK, WatchTypeOK, Refusals
<1>1. host = "up"
  BY DEF BooterStep
<1>2. ASSUME NEW i \in Instances, WatchStep(i), UNCHANGED <<host, booterVars, clientVars>>
      PROVE  Refusals'
  <2>1. UNCHANGED <<conn, reply, load, server, current, host, pc>>
    BY <1>2, BooterApart DEF booterVars, clientVars, networkVars
  <2>2. \A j \in Instances : child[j] = "exited" => child'[j] = "exited"
    BY BooterApart
  <2> QED  BY <1>1, <2>1, <2>2 DEF InHandler
<1>3. ASSUME NEW i \in Instances, watch[i] = "launching", host' = "terminated",
             UNCHANGED <<processVars, booterVars, clientVars>>
      PROVE  Refusals'
  <2>1. child[i] = "absent" /\ told[i] = Unset
    BY <1>3, ConstantsAssumption DEF Handover, Listening, Unset, Unbound
  <2>2. InHandler(i)
    BY <1>3, <2>1 DEF Handover, InHandler, LoadStates
  <2>3. \A j \in Instances : InHandler(j) => j = i
    BY <2>2 DEF Serving
  <2>4. UNCHANGED <<child, conn, reply, load, server, current, pc>>
    BY <1>3 DEF processVars, serverVars, networkVars, booterVars, clientVars
  <2> QED  BY <1>1, <1>3, <2>1, <2>3, <2>4 DEF InHandler
<1>4. ASSUME NEW i \in Instances, Handler(i) \/ LoadWakes(i) PROVE Refusals'
  <2>1. UNCHANGED <<processVars, host, server, current, clientVars>>
    BY <1>4 DEF Handler, Load, LoadLock, LoadSleep, LoadReturns, LoadWakes, booterVars
  <2>2. \A j \in Instances : load[j] \in {"none", "called"} /\ current # j
                                => load'[j] = load[j]
    BY <1>4 DEF Handler, Load, LoadLock, LoadSleep, LoadReturns, LoadWakes, LoadGoto,
       booterVars
  <2>3. \A j \in Instances : load[j] \in {"none", "thrown"} => load'[j] = load[j]
    BY <1>4 DEF Handler, Load, LoadLock, LoadSleep, LoadReturns, LoadWakes, LoadGoto,
       booterVars
  <2> QED  BY <1>1, <2>1, <2>2, <2>3 DEF processVars, serverVars, networkVars, clientVars
<1>5. ASSUME ServerStep \/ MainStep \/ PressEnter PROVE Refusals'
  <2>1. UNCHANGED <<processVars, load, clientVars>>
    BY <1>5 DEF ServerStep, MainStep, PressEnter, Serve, AcceptLoad, EndLoad, ServeReturns,
       JoinServer, JoinThreads, watchVars
  <2>2. UNCHANGED host \/ server = "starting"
    BY <1>5 DEF ServerStep, MainStep, PressEnter, Serve, AcceptLoad, EndLoad, ServeReturns,
       JoinServer, JoinThreads, watchVars
  <2>3. server = "starting" => \A j \in Instances : ~InHandler(j)
    BY ConstantsAssumption DEF Serving
  <2>4. server \in {"stopping", "returned"} =>
           /\ server' \in {"stopping", "returned"}
           /\ current' \in {current, NoOne}
    BY <1>5 DEF ServerStep, MainStep, PressEnter, Serve, AcceptLoad, EndLoad, ServeReturns,
       JoinServer, JoinThreads
  <2> QED  BY <1>1, <2>1, <2>2, <2>3, <2>4, ConstantsAssumption DEF InHandler, processVars,
              serverVars, networkVars, clientVars
<1>6. ASSUME NEW i \in Instances, Thread(i) PROVE Refusals'
  BY <1>2, <1>3, <1>6 DEF Thread
<1> QED  BY <1>4, <1>5, <1>6 DEF BooterStep

(* No child is left to serve a client that was refused, as long as no FMU   *)
(* refuses to be instantiated: even if launches throw and end the booter,   *)
(* children crash, clients die, and the booter is stopped at any moment     *)
(* (proxyfmu.cpp:101-102, proxy_slave.cpp:86-107).                          *)
THEOREM RefusedClientsLeaveNoChild ==
    ASSUME "fmu" \notin Faults
    PROVE  Spec => []NoChildAbandoned
<1>1. Init => Refusals
  BY ConstantsAssumption DEF Init, ProcessInit, WatchInit, Refusals
<1>2. IInv /\ Refusals /\ [Next]_vars => Refusals'
  <2> SUFFICES ASSUME IInv, Refusals, [Next]_vars PROVE Refusals'
    OBVIOUS
  <2>1. CASE UNCHANGED vars
    BY <2>1 DEF Refusals, vars, processVars, serverVars, networkVars, watchVars,
       InHandler, booterVars, clientVars
  <2> QED  BY <2>1, ClientRefusals, ChildRefusals, BooterRefusals DEF Next
<1>3. IInv /\ Refusals => NoChildAbandoned
  BY DEF IInv, Refusals, Handover, NoChildAbandoned
<1> QED  BY <1>1, <1>2, <1>3, Invariant, PTL DEF Spec

-----------------------------------------------------------------------------
(* The sessions of the clients with their children. A client that dies      *)
(* leaves the request or the reply of its last call behind.                 *)
Linked == {"instantiating", "ready", "invoking", "freeing", "freed"}

Requests ==
    \A i \in Instances :
        /\ pc[i] \notin Linked => conn[i] = NoOne
        /\ pc[i] \notin Linked \cup {"dead"} => call[i] = "none" /\ reply[i] = "none"
        /\ call[i] = "invoke" => pc[i] \in {"invoking", "dead"}
        /\ call[i] = "free" => pc[i] \in {"freeing", "dead"}
        /\ call[i] = "instantiate" => pc[i] \in {"instantiating", "dead"}
        /\ reply[i] # "none" =>
              /\ call[i] = "none"
              /\ pc[i] \in {"instantiating", "invoking", "freeing", "dead"}

(* Who is connected to which child, is served there, and what it finds.     *)
Connections ==
    \A i, j \in Instances :
        /\ served[j] = i \/ backlog[i] = j =>
              /\ pc[i] \in Linked \cup {"gone", "failed", "dead"}
              /\ conn[i] \in {j, NoOne}
        /\ served[j] = i => backlog[i] = NoOne
        /\ backlog[i] = j /\ child[j] \notin {"stopping", "exited"}
              => call[i] = "instantiate"
        /\ conn[i] = j /\ i # j => child[i] = "exited"
        /\ \A k \in Instances : served[j] = i /\ served[k] = i => j = k
        /\ /\ conn[i] = j \/ served[j] = i
           /\ child[j] \notin {"stopping", "exited"}
           /\ \/ pc[i] \in {"ready", "invoking", "freeing"}
              \/ call[i] \in {"invoke", "free"}
              \/ pc[i] = "instantiating" /\ reply[i] = "ok"
           => slave[j] = "live"

Sessions == Requests /\ Connections

(* What touches neither requests nor slaves can only end a session. *)
LEMMA SessionsEnd ==
    ASSUME IInv, Sessions, UNCHANGED <<slave, networkVars, pc>>,
           \A j \in Instances :
              /\ served'[j] \in {served[j], NoOne}
              /\ child[j] = "exited" => child'[j] = "exited"
              /\ child[j] = "stopping" => child'[j] \in {"stopping", "exited"}
    PROVE  Sessions'
<1>1. Requests'
  BY DEF Sessions, Requests, networkVars
<1>2. Connections'
  BY ConstantsAssumption DEF Sessions, Connections, networkVars
<1> QED  BY <1>1, <1>2 DEF Sessions

(* A server accepts a client that no other one serves. *)
LEMMA AcceptSessions ==
    ASSUME IInv, Sessions, NEW j \in Instances, Accept(j), UNCHANGED pc
    PROVE  Sessions'
<1>1. UNCHANGED <<child, slave, conn, call, reply, pc>>
  BY DEF Accept, networkVars
<1>2. Requests'
  BY <1>1 DEF Sessions, Requests
<1>3. PICK k \in Instances : /\ backlog[k] = j
                            /\ served'  = [served  EXCEPT ![j] = k]
                            /\ backlog' = [backlog EXCEPT ![k] = NoOne]
  BY DEF Accept
<1>4. /\ served'[j] = k /\ backlog'[k] = NoOne /\ child[j] = "serving"
      /\ \A n \in Instances \ {j} : served'[n] = served[n]
      /\ \A n \in Instances \ {k} : backlog'[n] = backlog[n]
  BY <1>3 DEF IInv, TypeOK, ProcessTypeOK, Accept
<1>5. /\ pc[k] \in Linked \cup {"gone", "failed", "dead"}
      /\ conn[k] \in {j, NoOne}
      /\ call[k] = "instantiate" /\ reply[k] = "none"
      /\ pc[k] \in {"instantiating", "dead"}
  BY <1>3, <1>4 DEF Sessions, Connections, Requests
<1>6. \A n \in Instances : served[n] # k
  BY <1>3, ConstantsAssumption DEF Sessions, Connections
<1>7. Connections'
  BY <1>1, <1>3, <1>4, <1>5, <1>6, ConstantsAssumption DEF Sessions, Connections
<1> QED  BY <1>2, <1>7 DEF Sessions

(* A request is handled in the child that serves its client, and answered.  *)
LEMMA HandleSessions ==
    ASSUME IInv, Sessions, NEW j \in Instances, Handle(j), UNCHANGED pc
    PROVE  Sessions'
<1>1. PICK c \in Instances :
         served[j] = c /\ (Instantiate(j, c) \/ Forward(j, c) \/ FreeSlave(j, c))
  BY DEF Handle
<1>2. UNCHANGED <<served, conn, backlog, pc>>
  BY <1>1 DEF Handle, Instantiate, Forward, FreeSlave, Answer
<1>3. /\ call'[c] = "none" /\ reply'[c] \in {"ok", "exception"}
      /\ \A n \in Instances \ {c} : call'[n] = call[n] /\ reply'[n] = reply[n]
  BY <1>1 DEF IInv, TypeOK, ProcessTypeOK, Instantiate, Forward, FreeSlave, Answer
<1>4. Requests'
  <2>1. pc[c] \in {"instantiating", "invoking", "freeing", "dead"}
    BY <1>1 DEF Sessions, Instantiate, Forward, FreeSlave, Requests
  <2> QED  BY <1>2, <1>3, <2>1 DEF Sessions, Requests, Linked
<1>5. /\ child'[j] \notin {"stopping", "exited"} =>
            /\ slave'[j] = "live" \/ slave'[j] = slave[j]
            /\ pc[c] = "instantiating" /\ reply'[c] = "ok" => slave'[j] = "live"
      /\ \A n \in Instances \ {j} : child'[n] = child[n] /\ slave'[n] = slave[n]
      /\ child[j] = "serving"
  <2> USE DEF IInv, TypeOK, ProcessTypeOK, Sessions
  <2>1. CASE Instantiate(j, c)
    BY <2>1 DEF Handle, Instantiate, Answer
  <2>2. CASE Forward(j, c)
    BY <2>2 DEF Handle, Forward, Requests
  <2>3. CASE FreeSlave(j, c)
    BY <2>3 DEF Handle, FreeSlave
  <2> QED  BY <1>1, <2>1, <2>2, <2>3
<1>6. Connections'
  <2> SUFFICES ASSUME NEW m \in Instances, NEW n \in Instances
               PROVE  /\ served[n] = m \/ backlog[m] = n =>
                            /\ pc[m] \in Linked \cup {"gone", "failed", "dead"}
                            /\ conn[m] \in {n, NoOne}
                      /\ served[n] = m => backlog[m] = NoOne
                      /\ backlog[m] = n /\ child'[n] \notin {"stopping", "exited"}
                            => call'[m] = "instantiate"
                      /\ conn[m] = n /\ m # n => child'[m] = "exited"
                      /\ \A k \in Instances : served[n] = m /\ served[k] = m => n = k
                      /\ /\ conn[m] = n \/ served[n] = m
                         /\ child'[n] \notin {"stopping", "exited"}
                         /\ \/ pc[m] \in {"ready", "invoking", "freeing"}
                            \/ call'[m] \in {"invoke", "free"}
                            \/ pc[m] = "instantiating" /\ reply'[m] = "ok"
                         => slave'[n] = "live"
    BY <1>2 DEF Connections
  <2> USE DEF Sessions
  <2>1. /\ child[m] = "exited" => child'[m] = "exited"
        /\ child[n] \in {"stopping", "exited"} => child'[n] \in {"stopping", "exited"}
    BY <1>5
  <2>2. m = c => backlog[m] = NoOne
    BY <1>1 DEF Connections
  <2>3. backlog[m] = n /\ child'[n] \notin {"stopping", "exited"}
           => call'[m] = "instantiate"
    BY <1>3, <2>1, <2>2, ConstantsAssumption DEF Connections
  <2>4. ASSUME conn[m] = n \/ served[n] = m,
               child'[n] \notin {"stopping", "exited"},
               \/ pc[m] \in {"ready", "invoking", "freeing"}
               \/ call'[m] \in {"invoke", "free"}
               \/ pc[m] = "instantiating" /\ reply'[m] = "ok"
        PROVE  slave'[n] = "live"
    <3>1. child[n] \notin {"stopping", "exited"}
      BY <1>5, <2>4
    <3>2. CASE pc[m] = "instantiating" /\ reply'[m] = "ok" /\ m = c
      <4>1. n = j
        BY <1>1, <2>4, <3>2, ConstantsAssumption DEF Connections
      <4> QED  BY <1>5, <2>4, <3>2, <4>1
    <3>3. CASE ~(pc[m] = "instantiating" /\ reply'[m] = "ok" /\ m = c)
      <4>1. slave[n] = "live"
        BY <1>3, <2>4, <3>1, <3>3 DEF Connections
      <4> QED  BY <1>5, <2>4, <4>1
    <3> QED  BY <3>2, <3>3
  <2> QED  BY <2>1, <2>2, <2>3, <2>4 DEF Connections
<1> QED  BY <1>4, <1>6 DEF Sessions

(* The children's steps. *)
LEMMA ChildSessions ==
    ASSUME IInv, Sessions, NEW i \in Instances, ChildStep(i)
    PROVE  Sessions'
<1>1. UNCHANGED pc /\ \A j \in Instances : child[j] = "exited" => child'[j] = "exited"
  BY ChildEffect DEF IInv, clientVars
<1>2. CASE Accept(i)
  BY <1>1, <1>2, AcceptSessions
<1>3. CASE Handle(i)
  BY <1>1, <1>3, HandleSessions
<1>4. CASE \/ Main(i) \/ Bind(i) \/ BindFails(i) \/ PreServe(i) \/ ClientGone(i)
           \/ Return(i) \/ Crash(i)
  <2>1. UNCHANGED <<slave, networkVars>>
    BY <1>4 DEF Main, Bind, BindFails, PreServe, ClientGone, Return, Crash, networkVars
  <2>2. UNCHANGED served \/ served' = [served EXCEPT ![i] = NoOne]
    BY <1>4 DEF Main, Bind, BindFails, PreServe, ClientGone, Return, Crash, Exit
  <2>3. \/ UNCHANGED child
        \/ child' = [child EXCEPT ![i] = "exited"]
        \/ /\ child[i] # "stopping"
           /\ \E s \in ChildStates : child' = [child EXCEPT ![i] = s]
    BY <1>4 DEF Main, Bind, BindFails, PreServe, ClientGone, Return, Crash, Exit,
       ChildStates
  <2>4. \A j \in Instances : served'[j] \in {served[j], NoOne}
    BY <2>2 DEF IInv, TypeOK, ProcessTypeOK
  <2>5. \A j \in Instances : child[j] = "stopping" => child'[j] \in {"stopping", "exited"}
    BY <2>3 DEF IInv, TypeOK, ProcessTypeOK
  <2> QED  BY <1>1, <2>1, <2>4, <2>5, SessionsEnd
<1> QED  BY <1>2, <1>3, <1>4 DEF ChildStep, ProcessStep

(* The booter has no part in a session. *)
LEMMA BooterSessions ==
    ASSUME IInv, Sessions, BooterStep
    PROVE  Sessions'
BY BooterApart, SessionsEnd DEF clientVars

(* A client that is not connected yet is served nowhere and waits nowhere, *)
LEMMA NotServed ==
    ASSUME Sessions, NEW i \in Instances,
           pc[i] \notin Linked \cup {"gone", "failed", "dead"}
    PROVE  \A j \in Instances : served[j] # i /\ backlog[i] # j
BY DEF Sessions, Connections

(* and has no session. *)
LEMMA Unlinked ==
    ASSUME IInv, Sessions, NEW i \in Instances,
           pc[i] \in Undialed \cup {"loading", "connecting"},
           NEW s \in ClientStates \ Linked,
           UNCHANGED pc \/ pc' = [pc EXCEPT ![i] = s],
           UNCHANGED processVars
    PROVE  Sessions'
<1> USE ConstantsAssumption DEF IInv, TypeOK, ProcessTypeOK, Sessions, Linked, Undialed
<1>1. UNCHANGED <<child, slave, served, conn, backlog, call, reply>>
  BY DEF processVars, serverVars, networkVars
<1>2. \A j \in Instances : served[j] # i /\ backlog[i] # j
  BY NotServed
<1>3. conn[i] = NoOne /\ call[i] = "none" /\ reply[i] = "none"
  BY DEF Requests
<1>4. \A j \in Instances \ {i} : pc'[j] = pc[j]
  OBVIOUS
<1>5. pc'[i] \notin Linked
  OBVIOUS
<1>6. Requests'
  BY <1>1, <1>3, <1>4, <1>5 DEF Requests
<1>7. Connections'
  BY <1>1, <1>2, <1>3, <1>4 DEF Connections
<1> QED  BY <1>6, <1>7

(* A client connects to the child that listens on the port it was told.     *)
LEMMA Connects ==
    ASSUME IInv, Sessions, NEW i \in Instances, NEW j \in Instances,
           pc[i] = "connecting", listen[j] = told[i],
           conn' = [conn EXCEPT ![i] = j],
           backlog' = [backlog EXCEPT ![i] = j],
           call' = [call EXCEPT ![i] = "instantiate"],
           pc'   = [pc   EXCEPT ![i] = "instantiating"],
           UNCHANGED <<serverVars, reply>>
    PROVE  Sessions'
<1>1. told[i] \in Ports
  BY DEF IInv, Clients, Undialed
<1>2. i = j \/ child[i] = "exited"
  BY <1>1, ConstantsAssumption DEF IInv, Listening, Unset
<1>3. \A k \in Instances : served[k] # i
  BY NotServed DEF Linked
<1>4. /\ conn'[i] = j /\ call'[i] = "instantiate" /\ pc'[i] = "instantiating"
      /\ backlog'[i] = j
      /\ \A k \in Instances \ {i} : /\ conn'[k] = conn[k] /\ call'[k] = call[k]
                                    /\ pc'[k] = pc[k] /\ backlog'[k] = backlog[k]
  BY DEF IInv, TypeOK, ProcessTypeOK
<1>5. reply[i] = "none"
  BY DEF Sessions, Requests, Linked
<1>6. UNCHANGED <<child, slave, served, reply>>
  BY DEF serverVars
<1>7. Requests'
  BY <1>4, <1>5, <1>6 DEF Sessions, Requests, Linked
<1>8. Connections'
  BY <1>2, <1>3, <1>4, <1>5, <1>6, ConstantsAssumption DEF Sessions, Connections, Linked
<1> QED  BY <1>7, <1>8 DEF Sessions

(* What clients do to the sessions. *)
LEMMA ClientSessions ==
    ASSUME IInv, Sessions, NEW i \in Instances, ClientStep(i) \/ UserStep(i) \/ Die(i)
    PROVE  Sessions'
<1>1. CASE \/ Dial(i) \/ LoadUndialed(i) \/ CallLoad(i) \/ LoseBooter(i)
           \/ LoadReplied(i) \/ Construct(i)
  <2>1. UNCHANGED processVars /\ pc[i] \in Undialed \cup {"loading", "connecting"}
    BY <1>1 DEF Dial, LoadUndialed, CallLoad, LoseBooter, LoadReplied, Construct, Goto,
       Undialed, Attached
  <2>2. UNCHANGED pc \/ \E s \in {"dialing", "dialed", "loading", "connecting", "failed"} :
                           pc' = [pc EXCEPT ![i] = s]
    BY <1>1 DEF Dial, LoadUndialed, CallLoad, LoseBooter, LoadReplied, Construct, Goto
  <2>3. {"dialing", "dialed", "loading", "connecting", "failed"} \subseteq
           ClientStates \ Linked
    BY DEF ClientStates, Linked
  <2> QED  BY <2>1, <2>2, <2>3, Unlinked
<1> USE ConstantsAssumption DEF IInv, TypeOK, ProcessTypeOK, Sessions, Requests,
       Connections, Linked, booterVars, processVars, serverVars, networkVars, Goto,
       Disconnect
<1>2. CASE Open(i)
  <2>1. pc[i] = "connecting" /\ UNCHANGED <<serverVars, reply>>
    BY <1>2 DEF Open
  <2>2. ASSUME NEW j \in Instances, listen[j] = told[i],
               conn' = [conn EXCEPT ![i] = j],
               backlog' = [backlog EXCEPT ![i] = j],
               call' = [call EXCEPT ![i] = "instantiate"],
               pc'   = [pc   EXCEPT ![i] = "instantiating"]
        PROVE  Sessions'
    BY <2>1, <2>2, Connects
  <2>3. CASE pc' = [pc EXCEPT ![i] = "failed"] /\ UNCHANGED <<conn, backlog, call>>
    BY <2>1, <2>3
  <2> QED  BY <1>2, <2>2, <2>3 DEF Open
<1>3. CASE Returns(i)
  <2>1. UNCHANGED <<serverVars, backlog>>
    BY <1>3 DEF Returns
  <2>2. /\ call'[i] = "none" /\ reply'[i] = "none"
        /\ \A j \in Instances \ {i} : call'[j] = call[j] /\ reply'[j] = reply[j]
    BY <1>3 DEF Returns, Throws, Answered, Broken
  <2>3. CASE \E s \in {"ready", "freed"} :
                /\ pc' = [pc EXCEPT ![i] = s]
                /\ UNCHANGED conn
                /\ \/ pc[i] = "instantiating" /\ reply[i] = "ok" /\ s = "ready"
                   \/ pc[i] = "invoking" /\ s = "ready"
                   \/ pc[i] = "freeing" /\ s = "freed"
    <3>1. Requests'
      BY <2>2, <2>3
    <3>2. Connections'
      BY <2>1, <2>2, <2>3
    <3> QED  BY <3>1, <3>2
  <2>4. CASE /\ pc' = [pc EXCEPT ![i] = "failed"]
             /\ conn' = [conn EXCEPT ![i] = NoOne]
             /\ Throws(i)
    <3>1. Requests'
      BY <2>2, <2>4
    <3>2. ASSUME NEW j \in Instances, backlog[i] = j
          PROVE  child[j] \in {"stopping", "exited"}
      BY <2>4, <3>2 DEF Throws, Answered, Broken
    <3>3. Connections'
      BY <2>1, <2>2, <2>4, <3>2
    <3> QED  BY <3>1, <3>3
  <2> QED  BY <1>3, <2>3, <2>4 DEF Returns, Answered
<1>4. CASE Invoke(i)
  BY <1>4 DEF Invoke, Request
<1>5. CASE FreeInstance(i)
  BY <1>5 DEF FreeInstance, Request
<1>6. CASE Destroy(i)
  BY <1>6 DEF Destroy
<1>7. CASE Die(i)
  BY <1>7 DEF Die
<1> QED  BY <1>1, <1>2, <1>3, <1>4, <1>5, <1>6, <1>7 DEF ClientStep, UserStep

LEMMA SessionsInvariant == Spec => []Sessions
<1>1. Init => Sessions
  BY ConstantsAssumption DEF Init, ProcessInit, Sessions, Requests, Connections, Linked
<1>2. IInv /\ Sessions /\ [Next]_vars => Sessions'
  <2> SUFFICES ASSUME IInv, Sessions, [Next]_vars PROVE Sessions'
    OBVIOUS
  <2>1. CASE UNCHANGED vars
    BY <2>1 DEF Sessions, Requests, Connections, vars, processVars, serverVars,
       networkVars, clientVars
  <2> QED  BY <2>1, ClientSessions, ChildSessions, BooterSessions DEF Next
<1> QED  BY <1>1, <1>2, Invariant, PTL DEF Spec

(* Only the death of its own child can lead a remote slave to another one's *)
(* (proxy_slave.cpp:99-105).                                                *)
THEOREM RemoteSlavesReachTheirOwnChild == Spec => []ConnectedToOwnChild
<1>1. Sessions => ConnectedToOwnChild
  BY DEF Sessions, Connections, ConnectedToOwnChild
<1> QED  BY <1>1, SessionsInvariant, PTL

(* The handler's slave_ is never null when a remote client's call uses it,  *)
(* nor when that client has died meanwhile (fmu_service_handler.cpp:25-170). *)
THEOREM SlaveIsThereForRemoteCalls == Spec => []NoCallWithoutSlave
<1>1. Sessions => NoCallWithoutSlave
  BY DEF Sessions, Connections, NoCallWithoutSlave
<1> QED  BY <1>1, SessionsInvariant, PTL

-----------------------------------------------------------------------------
(* As long as no child crashes, a child whose port has left it exits only   *)
(* when its slave has been freed, and every client is served by its own     *)
(* child.                                                                   *)
Announced(i) ==
    \/ port[i] \in Ports \/ told[i] \in Ports
    \/ \E n \in DOMAIN pipe[i] : pipe[i][n].text = "port"

OwnChild ==
    /\ \A i, j \in Instances : conn[i] = j \/ served[j] = i \/ backlog[i] = j => i = j
    /\ \A i \in Instances :
          /\ slave[i] # "none" => /\ pc[i] \in Linked \cup {"gone", "failed", "dead"}
                                  /\ call[i] # "instantiate"
          /\ slave[i] = "freed" => pc[i] \in {"freeing", "freed", "gone", "failed", "dead"}
          /\ child[i] = "stopping" => slave[i] = "freed"
          /\ child[i] = "exited" /\ Announced(i) => slave[i] = "freed"

(* The booter passes on what a child has announced. *)
LEMMA BooterAnnounces ==
    ASSUME IInv, BooterStep, NEW j \in Instances, Announced(j)'
    PROVE  Announced(j)
<1> USE ConstantsAssumption DEF IInv, TypeOK, ProcessTypeOK, WatchTypeOK, Announced
<1>1. CASE UNCHANGED <<pipe, port, told>>
  BY <1>1
<1>2. ASSUME NEW i \in Instances, LoadReturns(i) PROVE Announced(j)
  <2>1. told' = [told EXCEPT ![i] = port[i]] /\ UNCHANGED <<pipe, port>>
    BY <1>2 DEF LoadReturns, processVars, serverVars
  <2> QED  BY <2>1
<1>3. ASSUME NEW i \in Instances, WatchStep(i), UNCHANGED told PROVE Announced(j)
  <2>1. CASE PublishPort(i)
    <3>1. /\ Len(pipe[i]) > 0 /\ pipe[i][1].text = "port"
          /\ pipe' = [pipe EXCEPT ![i] = Tail(@)]
          /\ port' = [port EXCEPT ![i] = pipe[i][1].port]
      BY <2>1 DEF PublishPort, NextLine
    <3>2. CASE i = j
      BY <3>1, <3>2
    <3>3. CASE i # j
      BY <1>3, <3>1, <3>3
    <3> QED  BY <3>2, <3>3
  <2>2. CASE StopReading(i)
    <3>1. CASE NextLine(i, "freed")
      <4>1. Len(pipe[i]) > 0 /\ pipe' = [pipe EXCEPT ![i] = Tail(@)] /\ UNCHANGED port
        BY <2>2, <3>1 DEF StopReading, NextLine
      <4>2. CASE i = j
        <5>1. \A n \in DOMAIN pipe'[j] : n + 1 \in DOMAIN pipe[j]
                                         /\ pipe'[j][n] = pipe[j][n + 1]
          BY <4>1, <4>2
        <5> QED  BY <1>3, <4>1, <5>1
      <4>3. CASE i # j
        BY <1>3, <4>1, <4>3
      <4> QED  BY <4>2, <4>3
    <3>2. CASE UNCHANGED pipe
      BY <1>3, <2>2, <3>2 DEF StopReading
    <3> QED  BY <2>2, <3>1, <3>2 DEF StopReading
  <2>3. CASE FailPort(i)
    <3>1. UNCHANGED pipe /\ (port' = [port EXCEPT ![i] = Unbound] \/ UNCHANGED port)
      BY <2>3 DEF FailPort, processVars, serverVars
    <3>2. CASE port' = [port EXCEPT ![i] = Unbound]
      <4>1. Unbound \notin Ports
        BY DEF Unbound
      <4>2. port'[j] \in Ports => port[j] \in Ports
        BY <3>2, <4>1
      <4> QED  BY <1>3, <3>1, <4>2
    <3>3. CASE UNCHANGED port
      BY <1>3, <3>1, <3>3
    <3> QED  BY <3>1, <3>2, <3>3
  <2>4. CASE UNCHANGED <<pipe, port>>
    BY <1>3, <2>4
  <2> QED  BY <1>3, <2>1, <2>2, <2>3, <2>4 DEF WatchStep, Launch, TerminateHost, Notify,
              Reap, processVars, serverVars
<1>4. ASSUME NEW i \in Instances, Thread(i) PROVE Announced(j)
  BY <1>1, <1>3, <1>4 DEF Thread, processVars, serverVars, booterVars
<1>5. ASSUME NEW i \in Instances, Handler(i) \/ LoadWakes(i)
      PROVE  LoadReturns(i) \/ UNCHANGED <<pipe, port, told>>
  BY <1>5 DEF Handler, Load, LoadLock, LoadSleep, LoadWakes, processVars, serverVars,
     booterVars
<1>6. ASSUME ServerStep \/ MainStep \/ PressEnter PROVE UNCHANGED <<pipe, port, told>>
  BY <1>6 DEF ServerStep, MainStep, PressEnter, Serve, AcceptLoad, EndLoad, ServeReturns,
     JoinServer, JoinThreads, processVars, serverVars, watchVars
<1> QED  BY <1>1, <1>2, <1>4, <1>5, <1>6 DEF BooterStep

LEMMA BooterOwnChild ==
    ASSUME IInv, OwnChild, BooterStep
    PROVE  OwnChild'
<1>1. pc' = pc
  BY BooterApart DEF clientVars
<1>2. \A j \in Instances : child'[j] = "exited" => child[j] = "exited"
  BY BooterApart
<1>3. \A j \in Instances : child'[j] = "stopping" => child[j] = "stopping"
  BY BooterApart
<1> QED  BY <1>1, <1>2, <1>3, BooterApart, BooterAnnounces DEF OwnChild, networkVars

(* A child that has not been freed exits before it announces a port. *)
LEMMA ChildOwnChild ==
    ASSUME IInv, Sessions, OwnChild, "crash" \notin Faults, NEW i \in Instances,
           ChildStep(i)
    PROVE  OwnChild'
<1> USE ConstantsAssumption DEF IInv, TypeOK, ProcessTypeOK, WatchTypeOK, OwnChild,
       ChildStep, watchVars, booterVars, clientVars, networkVars
<1>1. CASE Main(i)
  <2>1. CASE Exit(i, 1)
    <3>1. ~Announced(i)
      BY <1>1 DEF Main, Listening, Announced
    <3> QED  BY <1>1, <2>1, <3>1 DEF Main, Exit, Announced
  <2>2. CASE child' = [child EXCEPT ![i] = "binding"] /\ UNCHANGED <<pipe, served>>
    BY <1>1, <2>2 DEF Main, Announced
  <2> QED  BY <1>1, <2>1, <2>2 DEF Main
<1>2. CASE Bind(i)
  BY <1>2 DEF Bind, Announced
<1>3. CASE BindFails(i)
  <2>1. CASE Exit(i, 1)
    <3>1. ~Announced(i)
      BY <1>3 DEF BindFails, Listening, Announced
    <3> QED  BY <1>3, <2>1, <3>1 DEF BindFails, Exit, Announced
  <2>2. CASE UNCHANGED <<child, pipe, served>>
    BY <1>3, <2>2 DEF BindFails, Announced
  <2> QED  BY <1>3, <2>1, <2>2 DEF BindFails
<1>4. CASE PreServe(i)
  BY <1>4 DEF PreServe, Announced
<1>5. CASE Accept(i)
  BY <1>5 DEF Accept, Announced
<1>6. CASE ClientGone(i)
  BY <1>6 DEF ClientGone, Announced
<1>7. CASE Handle(i)
  <2>1. /\ served[i] = i
        /\ Instantiate(i, i) \/ Forward(i, i) \/ FreeSlave(i, i)
    BY <1>7 DEF Handle
  <2>2. pc[i] \in Linked \cup {"gone", "failed", "dead"}
    BY <2>1 DEF Sessions, Connections
  <2> USE <1>7, <2>1, <2>2 DEF Handle, Answer, Announced
  <2>3. CASE Instantiate(i, i)
    <3>1. slave[i] = "none"
      BY <2>3 DEF Instantiate
    <3> QED  BY <2>3, <3>1 DEF Instantiate
  <2>4. CASE Forward(i, i)
    BY <2>4 DEF Forward
  <2>5. CASE FreeSlave(i, i)
    <3>1. pc[i] \in {"freeing", "dead"}
      BY <2>5 DEF FreeSlave, Sessions, Requests
    <3> QED  BY <2>5, <3>1 DEF FreeSlave
  <2> QED  BY <2>3, <2>4, <2>5
<1>8. CASE Return(i)
  <2>1. slave[i] = "freed"
    BY <1>8 DEF Return
  <2> QED  BY <1>8, <2>1 DEF Return, Exit, Announced
<1> QED  BY <1>1, <1>2, <1>3, <1>4, <1>5, <1>6, <1>7, <1>8 DEF ProcessStep, Crash

(* A client that has been told a port finds its own child. *)
LEMMA ClientOwnChild ==
    ASSUME IInv, Sessions, OwnChild, NEW i \in Instances,
           ClientStep(i) \/ UserStep(i) \/ Die(i)
    PROVE  OwnChild'
<1>1. UNCHANGED serverVars /\ \A j \in Instances : Announced(j)' = Announced(j)
  BY ClientEffect DEF IInv, Announced, serverVars, watchVars
<1>2. CASE \/ Dial(i) \/ LoadUndialed(i) \/ CallLoad(i) \/ LoseBooter(i)
           \/ LoadReplied(i) \/ Construct(i)
  <2>1. UNCHANGED processVars /\ pc[i] \in Undialed \cup {"loading", "connecting"}
    BY <1>2 DEF Dial, LoadUndialed, CallLoad, LoseBooter, LoadReplied, Construct, Goto,
       Undialed, Attached
  <2>2. pc' \in [Instances -> ClientStates] /\ \A j \in Instances \ {i} : pc'[j] = pc[j]
    BY ClientEffect, ClientStatesType DEF IInv
  <2>3. slave[i] = "none"
    BY <2>1 DEF IInv, TypeOK, ProcessTypeOK, OwnChild, Linked, Undialed
  <2> QED  BY <1>1, <2>1, <2>2, <2>3 DEF OwnChild, processVars, serverVars, networkVars
<1>3. ASSUME Returns(i)
      PROVE  /\ call'[i] = "none"
             /\ \A j \in Instances \ {i} : call'[j] = call[j]
  BY <1>3 DEF IInv, TypeOK, ProcessTypeOK, Sessions, Requests, Returns, Throws, Answered,
     Broken
<1> USE <1>1, ConstantsAssumption DEF IInv, TypeOK, ProcessTypeOK, OwnChild, Linked,
       serverVars, booterVars, processVars, networkVars, Goto, Disconnect
<1>4. CASE Open(i)
  <2>1. pc[i] = "connecting" /\ slave[i] = "none"
    BY <1>4 DEF Open
  <2>2. told[i] \in Ports
    BY <2>1 DEF Clients, Undialed
  <2>3. listen[i] = told[i]
    BY <2>1, <2>2 DEF Listening, Announced
  <2>4. ASSUME NEW j \in Instances, listen[j] = told[i],
               conn' = [conn EXCEPT ![i] = j],
               backlog' = [backlog EXCEPT ![i] = j],
               call' = [call EXCEPT ![i] = "instantiate"],
               pc'   = [pc   EXCEPT ![i] = "instantiating"]
        PROVE  OwnChild'
    <3>1. i = j
      BY <2>2, <2>3, <2>4 DEF Listening, Unset
    <3> QED  BY <2>1, <2>4, <3>1
  <2>5. CASE pc' = [pc EXCEPT ![i] = "failed"] /\ UNCHANGED <<conn, backlog, call>>
    BY <2>1, <2>5
  <2> QED  BY <1>4, <2>4, <2>5 DEF Open
<1>5. CASE Returns(i)
  <2>1. /\ call'[i] = "none"
        /\ \A j \in Instances \ {i} : call'[j] = call[j]
    BY <1>3, <1>5
  <2>2. UNCHANGED backlog /\ (UNCHANGED conn \/ conn' = [conn EXCEPT ![i] = NoOne])
    BY <1>5 DEF Returns
  <2>3. \/ pc[i] = "instantiating" /\ pc' = [pc EXCEPT ![i] = "ready"]
        \/ pc[i] = "invoking" /\ pc' = [pc EXCEPT ![i] = "ready"]
        \/ pc[i] = "freeing" /\ pc' = [pc EXCEPT ![i] = "freed"]
        \/ pc' = [pc EXCEPT ![i] = "failed"]
    BY <1>5 DEF Returns
  <2>4. \A m, j \in Instances :
           conn'[m] = j \/ served'[j] = m \/ backlog'[m] = j => m = j
    BY <2>2
  <2>5. ASSUME NEW j \in Instances
        PROVE  /\ slave[j] # "none" => /\ pc'[j] \in Linked \cup {"gone", "failed", "dead"}
                                       /\ call'[j] # "instantiate"
               /\ slave[j] = "freed" => pc'[j] \in {"freeing", "freed", "gone", "failed",
                                                     "dead"}
    <3>1. CASE j # i
      <4>1. pc'[j] = pc[j] /\ call'[j] = call[j]
        BY <2>1, <2>3, <3>1
      <4> QED  BY <4>1
    <3>2. CASE j = i
      <4>1. \/ pc[i] \in {"instantiating", "invoking"} /\ pc'[i] = "ready"
            \/ pc[i] = "freeing" /\ pc'[i] = "freed"
            \/ pc'[i] = "failed"
        BY <2>3
      <4> QED  BY <2>1, <3>2, <4>1
    <3> QED  BY <3>1, <3>2
  <2>6. UNCHANGED <<slave, child>> /\ \A j \in Instances : Announced(j)' = Announced(j)
    OBVIOUS
  <2> HIDE <1>1 DEF IInv, TypeOK, ProcessTypeOK
  <2> QED  BY <2>4, <2>5, <2>6 DEF OwnChild
<1>6. CASE Invoke(i)
  BY <1>6 DEF Invoke, Request
<1>7. CASE FreeInstance(i)
  BY <1>7 DEF FreeInstance, Request
<1>8. CASE Destroy(i)
  BY <1>8 DEF Destroy
<1>9. CASE Die(i)
  BY <1>9 DEF Die
<1> QED  BY <1>2, <1>4, <1>5, <1>6, <1>7, <1>8, <1>9 DEF ClientStep, UserStep

(* No instantiate of a remote client overwrites a slave, unless a child can *)
(* crash and so lead another child's client astray                          *)
(* (fmu_service_handler.cpp:22).                                            *)
THEOREM NoRemoteSlaveIsOverwritten ==
    ASSUME "crash" \notin Faults
    PROVE  Spec => []InstantiateFindsNoSlave
<1>1. Init => OwnChild
  BY ConstantsAssumption DEF Init, ProcessInit, WatchInit, OwnChild, Announced, Unset
<1>2. IInv /\ Sessions /\ OwnChild /\ [Next]_vars => OwnChild'
  <2> SUFFICES ASSUME IInv, Sessions, OwnChild, [Next]_vars PROVE OwnChild'
    OBVIOUS
  <2>1. CASE UNCHANGED vars
    BY <2>1 DEF OwnChild, Announced, vars, processVars, serverVars, networkVars,
       watchVars, booterVars, clientVars
  <2> QED  BY <2>1, ClientOwnChild, ChildOwnChild, BooterOwnChild DEF Next
<1>3. OwnChild => InstantiateFindsNoSlave
  BY DEF OwnChild, InstantiateFindsNoSlave
<1> QED  BY <1>1, <1>2, <1>3, Invariant, SessionsInvariant, PTL DEF Spec
=============================================================================
