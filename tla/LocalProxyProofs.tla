-------------------------- MODULE LocalProxyProofs --------------------------
(* Theorems about LocalProxy for every set of instances and of ports. *)
EXTENDS LocalProxy, TLAPS

(* What the creator and the start_process thread of an instance agree on.   *)
InScope == {"locking", "testing", "waiting"}

Handover ==
    \A i \in Instances :
        /\ scope[i] <=> pc[i] \in InScope
        /\ mtx[i] = "creator" <=> pc[i] = "testing"
        /\ asleep[i] => pc[i] = "waiting"
        /\ asleep[i] /\ port[i] # Unset => watch[i] = "notifying"
        /\ watch[i] = "absent" <=> pc[i] = "absent"
        /\ watch[i] \in {"absent", "launching"} => port[i] = Unset
        /\ watch[i] \in {"absent", "launching"} <=> child[i] = "absent"
        /\ pc[i] \notin InScope \cup {"absent"} => port[i] # Unset
        /\ watch[i] \in {"failing", "done"} => child[i] = "exited"
        /\ watch[i] = "failing" => status[i] # 0 \/ port[i] = Unset
        /\ pc[i] \in {"failed", "freed", "gone"} => watch[i] = "done"

(* Where a port number can be: the listening socket, lines not read yet,    *)
(* and the creator's variable.                                              *)
Listening ==
    /\ \A i, j \in Instances :
          listen[i] = listen[j] /\ listen[i] # Unset => i = j
    /\ \A i \in Instances :
          /\ child[i] \in {"absent", "started", "binding"}
                => /\ pipe[i] = <<>>
                   /\ port[i] \notin Ports
                   /\ attempt[i] < MaxPortRetries
          /\ child[i] = "bound" => listen[i] \in Ports
          /\ port[i] \in Ports => listen[i] = port[i] \/ child[i] = "exited"
          /\ \A n \in DOMAIN pipe[i] :
                pipe[i][n].text = "port"
                    => listen[i] = pipe[i][n].port \/ child[i] = "exited"

(* Where a connection, a request and a reply can be. *)
Connected == {"instantiating", "ready", "invoking", "freeing", "broken",
              "joining", "freed", "gone"}

Requests ==
    \A i \in Instances :
        /\ pc[i] \notin Connected =>
              conn[i] = NoOne /\ call[i] = "none" /\ reply[i] = "none"
        /\ call[i] = "invoke" => pc[i] = "invoking"
        /\ call[i] = "free" => pc[i] = "freeing"
        /\ call[i] = "instantiate" => pc[i] = "instantiating"
        /\ reply[i] # "none" => /\ call[i] = "none"
                               /\ pc[i] \in {"instantiating", "invoking",
                                      "freeing"}

(* Who is connected to which child, and what it finds there. *)
Connections ==
    \A i, j \in Instances :
        /\ served[j] = i \/ backlog[i] = j =>
              /\ pc[i] \in Connected
              /\ conn[i] \in {j, NoOne}
              /\ i # j => child[i] = "exited"
        /\ conn[i] = j /\ i # j => child[i] = "exited"
        /\ served[j] = i => backlog[i] = NoOne
        /\ backlog[i] = j /\ child[j] \notin {"stopping", "exited"}
              => call[i] = "instantiate"
        /\ \A k \in Instances : served[j] = i /\ served[k] = i => j = k
        /\ /\ conn[i] = j \/ served[j] = i
           /\ child[j] \notin {"stopping", "exited"}
           /\ \/ pc[i] \in {"ready", "invoking", "freeing"}
              \/ pc[i] = "instantiating" /\ reply[i] = "ok"
           => slave[j] = "live"

IInv == TypeOK /\ Handover /\ Listening /\ Requests /\ Connections

-----------------------------------------------------------------------------
(* The slaves' steps: the program counters keep their type ... *)
LEMMA ProxyStatesType ==
    ASSUME TypeOK, NEW i \in Instances,
           ProxyStep(i) \/ UserStep(i) \/ SpuriousWake(i)
    PROVE  /\ pc' \in [Instances -> ProxyStates]
           /\ inDtor' \in [Instances -> BOOLEAN]
<1> USE DEF TypeOK, ProxyStates, Goto
<1>1. CASE Lock(i)
    BY <1>1 DEF Lock
<1>2. CASE Sleep(i)
    BY <1>2 DEF Sleep
<1>3. CASE LeaveScope(i)
    BY <1>3 DEF LeaveScope
<1>4. CASE Wake(i)
    BY <1>4 DEF Wake
<1>5. CASE CheckPort(i)
    BY <1>5 DEF CheckPort
<1>6. CASE ThrowUnableToBind(i)
    BY <1>6 DEF ThrowUnableToBind
<1>7. CASE Open(i)
    BY <1>7 DEF Open, TerminateHost
<1>8. CASE InstantiateReturns(i)
    BY <1>8 DEF InstantiateReturns, TerminateHost, Throws, Answered, Broken
<1>9. CASE InvokeReturns(i)
    BY <1>9 DEF InvokeReturns, Throws, Answered, Broken
<1>10. CASE FreeReturns(i)
    BY <1>10 DEF FreeReturns, TerminateHost, Throws, Answered, Broken
<1>11. CASE Join(i)
    BY <1>11 DEF Join, Disconnect
<1>12. CASE Construct(i)
    BY <1>12 DEF Construct
<1>13. CASE Invoke(i)
    BY <1>13 DEF Invoke
<1>14. CASE FreeInstance(i)
    BY <1>14 DEF FreeInstance
<1>15. CASE Destroy(i)
    BY <1>15 DEF Destroy, TerminateHost, Disconnect
<1>16. CASE SpuriousWake(i)
    BY <1>16 DEF SpuriousWake
<1> QED  BY <1>1, <1>2, <1>3, <1>4, <1>5, <1>6, <1>7, <1>8, <1>9, <1>10,
       <1>11, <1>12, <1>13, <1>14, <1>15, <1>16 DEF ProxyStep, UserStep

(* ... the variables shared with start_process keep theirs ... *)
LEMMA ProxyWatchType ==
    ASSUME TypeOK, NEW i \in Instances,
           ProxyStep(i) \/ UserStep(i) \/ SpuriousWake(i)
    PROVE  WatchTypeOK'
<1> USE DEF TypeOK, WatchTypeOK, watchVars, WatchStates
<1>1. CASE Lock(i)
    BY <1>1 DEF Lock
<1>2. CASE Sleep(i)
    BY <1>2 DEF Sleep
<1>3. CASE LeaveScope(i)
    BY <1>3 DEF LeaveScope
<1>4. CASE Wake(i)
    BY <1>4 DEF Wake
<1>5. CASE CheckPort(i)
    BY <1>5 DEF CheckPort
<1>6. CASE ThrowUnableToBind(i)
    BY <1>6 DEF ThrowUnableToBind
<1>7. CASE Open(i)
    BY <1>7 DEF Open, TerminateHost
<1>8. CASE InstantiateReturns(i)
    BY <1>8 DEF InstantiateReturns, TerminateHost, Throws, Answered, Broken
<1>9. CASE InvokeReturns(i)
    BY <1>9 DEF InvokeReturns, Throws, Answered, Broken
<1>10. CASE FreeReturns(i)
    BY <1>10 DEF FreeReturns, TerminateHost, Throws, Answered, Broken
<1>11. CASE Join(i)
    BY <1>11 DEF Join, Disconnect
<1>12. CASE Construct(i)
    BY <1>12 DEF Construct
<1>13. CASE Invoke(i)
    BY <1>13 DEF Invoke
<1>14. CASE FreeInstance(i)
    BY <1>14 DEF FreeInstance
<1>15. CASE Destroy(i)
    BY <1>15 DEF Destroy, TerminateHost, Disconnect
<1>16. CASE SpuriousWake(i)
    BY <1>16 DEF SpuriousWake
<1> QED  BY <1>1, <1>2, <1>3, <1>4, <1>5, <1>6, <1>7, <1>8, <1>9, <1>10,
       <1>11, <1>12, <1>13, <1>14, <1>15, <1>16 DEF ProxyStep, UserStep

(* ... and so do those of the children and the network. *)
LEMMA ProxyProcessType ==
    ASSUME TypeOK, NEW i \in Instances,
           ProxyStep(i) \/ UserStep(i) \/ SpuriousWake(i)
    PROVE  ProcessTypeOK'
<1> USE DEF TypeOK, ProcessTypeOK, processVars, serverVars, networkVars
<1>1. CASE Lock(i)
    BY <1>1 DEF Lock
<1>2. CASE Sleep(i)
    BY <1>2 DEF Sleep
<1>3. CASE LeaveScope(i)
    BY <1>3 DEF LeaveScope
<1>4. CASE Wake(i)
    BY <1>4 DEF Wake
<1>5. CASE CheckPort(i)
    BY <1>5 DEF CheckPort
<1>6. CASE ThrowUnableToBind(i)
    BY <1>6 DEF ThrowUnableToBind
<1>7. CASE Open(i)
  <2>1. conn' \in [Instances -> Instances \cup {NoOne}]
    <3>1. CASE \E j \in Instances : conn' = [conn EXCEPT ![i] = j]
      <4>1. PICK j \in Instances : conn' = [conn EXCEPT ![i] = j]
        BY <3>1
      <4> QED  BY <4>1
    <3>2. CASE conn' = [j \in Instances |-> NoOne]
      BY <3>2
    <3> QED  BY <1>7, <3>1, <3>2 DEF Open, TerminateHost
  <2>2. /\ call' \in [Instances -> {"none", "instantiate", "invoke", "free"}]
        /\ reply' \in [Instances -> {"none", "ok", "exception"}]
    BY <1>7 DEF Open
  <2> QED  BY <1>7, <2>1, <2>2 DEF Open
<1>8. CASE InstantiateReturns(i)
  <2>1. conn' \in [Instances -> Instances \cup {NoOne}]
    BY <1>8 DEF InstantiateReturns, TerminateHost
  <2>2. /\ call' \in [Instances -> {"none", "instantiate", "invoke", "free"}]
        /\ reply' \in [Instances -> {"none", "ok", "exception"}]
    BY <1>8 DEF InstantiateReturns, Throws, Answered, Broken
  <2> QED  BY <1>8, <2>1, <2>2 DEF InstantiateReturns
<1>9. CASE InvokeReturns(i)
    BY <1>9 DEF InvokeReturns, Throws, Answered, Broken
<1>10. CASE FreeReturns(i)
  <2>1. conn' \in [Instances -> Instances \cup {NoOne}]
    BY <1>10 DEF FreeReturns, TerminateHost
  <2>2. /\ call' \in [Instances -> {"none", "instantiate", "invoke", "free"}]
        /\ reply' \in [Instances -> {"none", "ok", "exception"}]
    BY <1>10 DEF FreeReturns, Throws, Answered, Broken
  <2> QED  BY <1>10, <2>1, <2>2 DEF FreeReturns
<1>11. CASE Join(i)
    BY <1>11 DEF Join, Disconnect
<1>12. CASE Construct(i)
    BY <1>12 DEF Construct
<1>13. CASE Invoke(i)
    BY <1>13 DEF Invoke
<1>14. CASE FreeInstance(i)
    BY <1>14 DEF FreeInstance
<1>15. CASE Destroy(i)
    BY <1>15 DEF Destroy, TerminateHost, Disconnect
<1>16. CASE SpuriousWake(i)
    BY <1>16 DEF SpuriousWake
<1> QED  BY <1>1, <1>2, <1>3, <1>4, <1>5, <1>6, <1>7, <1>8, <1>9, <1>10,
       <1>11, <1>12, <1>13, <1>14, <1>15, <1>16 DEF ProxyStep, UserStep

(* A child announces a real port and stops retrying in time: its steps keep *)
(* the types, given where the ports are.                                    *)
LEMMA ChildProcessType ==
    ASSUME TypeOK, Listening, NEW i \in Instances, ChildStep(i)
    PROVE  ProcessTypeOK'
<1> USE ConstantsAssumption DEF TypeOK, ProcessTypeOK, ChildStates, Unset,
       networkVars
<1>1. CASE Main(i)
    BY <1>1 DEF Main, Exit
<1>2. CASE Bind(i)
    BY <1>2 DEF Bind
<1>3. CASE BindFails(i)
  <2>1. attempt[i] + 1 \in 0 .. MaxPortRetries
    BY <1>3 DEF BindFails, Listening
  <2>2. attempt' \in [Instances -> 0 .. MaxPortRetries]
    BY <1>3, <2>1 DEF BindFails
  <2>3. CASE attempt[i] + 1 < MaxPortRetries
    BY <1>3, <2>2, <2>3 DEF BindFails
  <2>4. CASE ~(attempt[i] + 1 < MaxPortRetries)
    <3>1. Exit(i, 1) /\ UNCHANGED <<pipe, slave, networkVars>>
      BY <1>3, <2>4 DEF BindFails
    <3> QED  BY <2>2, <3>1 DEF Exit
  <2> QED  BY <2>3, <2>4
<1>4. CASE PreServe(i)
    BY <1>4 DEF PreServe, Lines, Listening
<1>5. CASE Accept(i)
    BY <1>5 DEF Accept
<1>6. CASE ClientGone(i)
    BY <1>6 DEF ClientGone
<1>7. CASE Handle(i)
  <2>1. PICK c \in Instances :
           Instantiate(i, c) \/ Forward(i, c) \/ FreeSlave(i, c)
    BY <1>7 DEF Handle
  <2> USE <1>7 DEF Handle, Answer
  <2>2. CASE Instantiate(i, c)
    BY <2>2 DEF Instantiate
  <2>3. CASE Forward(i, c)
    BY <2>3 DEF Forward
  <2>4. CASE FreeSlave(i, c)
    BY <2>4 DEF FreeSlave
  <2> QED  BY <2>1, <2>2, <2>3, <2>4
<1>8. CASE Return(i)
    BY <1>8 DEF Return, Exit, Lines
<1>9. CASE Crash(i)
    BY <1>9 DEF Crash, Exit
<1> QED  BY <1>1, <1>2, <1>3, <1>4, <1>5, <1>6, <1>7, <1>8, <1>9 DEF
       ChildStep, ProcessStep

(* The start_process threads' steps keep the children's types ... *)
LEMMA WatchProcessType ==
    ASSUME TypeOK, NEW i \in Instances, WatchStep(i)
    PROVE  ProcessTypeOK'
<1> USE DEF TypeOK, ProcessTypeOK, ChildStates, processVars, serverVars,
       networkVars
<1>1. CASE Launch(i)
  <2>1. CASE child' = [child EXCEPT ![i] = "started"] /\ UNCHANGED conn
    BY <1>1, <2>1 DEF Launch
  <2>2. CASE TerminateHost /\ UNCHANGED child
    BY <1>1, <2>2 DEF Launch, TerminateHost
  <2> QED  BY <1>1, <2>1, <2>2 DEF Launch
<1>2. CASE PublishPort(i)
    BY <1>2 DEF PublishPort, NextLine
<1>3. CASE Notify(i)
    BY <1>3 DEF Notify
<1>4. CASE StopReading(i)
  <2>1. CASE NextLine(i, "freed")
    BY <1>4, <2>1 DEF StopReading, NextLine
  <2>2. CASE UNCHANGED pipe
    BY <1>4, <2>2 DEF StopReading
  <2> QED  BY <1>4, <2>1, <2>2 DEF StopReading
<1>5. CASE Reap(i)
    BY <1>5 DEF Reap
<1>6. CASE FailPort(i)
    BY <1>6 DEF FailPort
<1> QED  BY <1>1, <1>2, <1>3, <1>4, <1>5, <1>6 DEF WatchStep

(* ... and their own. *)
LEMMA WatchWatchType ==
    ASSUME TypeOK, NEW i \in Instances, WatchStep(i)
    PROVE  WatchTypeOK'
<1> USE DEF TypeOK, ProcessTypeOK, WatchTypeOK, WatchStates
<1>1. CASE Launch(i)
    BY <1>1 DEF Launch, TerminateHost
<1>2. CASE PublishPort(i)
    BY <1>2 DEF PublishPort, NextLine, Lines, Unset
<1>3. CASE Notify(i)
    BY <1>3 DEF Notify
<1>4. CASE StopReading(i)
    BY <1>4 DEF StopReading
<1>5. CASE Reap(i)
    BY <1>5 DEF Reap
<1>6. CASE FailPort(i)
    BY <1>6 DEF FailPort
<1> QED  BY <1>1, <1>2, <1>3, <1>4, <1>5, <1>6 DEF WatchStep

(* Every variable keeps its type. *)
LEMMA TypeStep ==
    ASSUME TypeOK, Listening, [Next]_vars
    PROVE  TypeOK'
<1>1. CASE UNCHANGED vars
  BY <1>1 DEF vars, processVars, serverVars, networkVars, watchVars, proxyVars,
              TypeOK, ProcessTypeOK, WatchTypeOK
<1>2. ASSUME NEW i \in Instances, ChildStep(i) PROVE TypeOK'
  BY <1>2, ChildProcessType DEF ChildStep, TypeOK, WatchTypeOK, watchVars,
         proxyVars
<1>3. ASSUME NEW i \in Instances, WatchStep(i), UNCHANGED proxyVars PROVE
       TypeOK'
  BY <1>3, WatchProcessType, WatchWatchType DEF TypeOK, proxyVars
<1>4. ASSUME NEW i \in Instances,
             ProxyStep(i) \/ UserStep(i) \/ SpuriousWake(i)
      PROVE  TypeOK'
  BY <1>4, ProxyStatesType, ProxyWatchType, ProxyProcessType DEF TypeOK
<1> QED  BY <1>1, <1>2, <1>3, <1>4 DEF Next, HostStep

(* A child's steps do not disturb the handover: its exit is final. *)
LEMMA ChildHandover ==
    ASSUME TypeOK, Handover, NEW i \in Instances,
           ChildStep(i)
    PROVE  Handover'
<1> USE DEF TypeOK, ProcessTypeOK, WatchTypeOK, Handover, InScope, ChildStep,
       watchVars, proxyVars, networkVars
<1>1. CASE Main(i)
    BY <1>1 DEF Main, Exit
<1>2. CASE Bind(i)
    BY <1>2 DEF Bind
<1>3. CASE BindFails(i)
    BY <1>3 DEF BindFails, Exit
<1>4. CASE PreServe(i)
    BY <1>4 DEF PreServe
<1>5. CASE Accept(i)
    BY <1>5 DEF Accept
<1>6. CASE ClientGone(i)
    BY <1>6 DEF ClientGone
<1>7. CASE Handle(i)
  <2>1. PICK c \in Instances :
           Instantiate(i, c) \/ Forward(i, c) \/ FreeSlave(i, c)
    BY <1>7 DEF Handle
  <2> QED  BY <1>7, <2>1 DEF Handle, Instantiate, Forward, FreeSlave
<1>8. CASE Return(i)
    BY <1>8 DEF Return, Exit
<1>9. CASE Crash(i)
    BY <1>9 DEF Crash, Exit
<1> QED  BY <1>1, <1>2, <1>3, <1>4, <1>5, <1>6, <1>7, <1>8, <1>9 DEF
       ChildStep, ProcessStep

(* The thread publishes, notifies and ends in an order the creator can      *)
(* rely on.                                                                 *)
LEMMA WatchHandover ==
    ASSUME TypeOK, Handover, NEW i \in Instances,
           WatchStep(i), UNCHANGED proxyVars
    PROVE  Handover'
<1> USE ConstantsAssumption DEF TypeOK, ProcessTypeOK, WatchTypeOK, Handover,
       InScope, proxyVars, Unset, Unbound, processVars, serverVars
<1>1. CASE Launch(i)
    BY <1>1 DEF Launch
<1>2. CASE PublishPort(i)
    BY <1>2 DEF PublishPort, NextLine, Lines
<1>3. CASE Notify(i)
    BY <1>3 DEF Notify
<1>4. CASE StopReading(i)
  <2>1. watch[i] = "reading"
    BY <1>4 DEF StopReading, NextLine
  <2>2. /\ watch' = [watch EXCEPT ![i] = "reaping"]
        /\ UNCHANGED <<child, status, port, mtx, asleep, scope>>
    BY <1>4 DEF StopReading
  <2> QED  BY <2>1, <2>2
<1>5. CASE Reap(i)
    BY <1>5 DEF Reap
<1>6. CASE FailPort(i)
    BY <1>6 DEF FailPort
<1> QED  BY <1>1, <1>2, <1>3, <1>4, <1>5, <1>6 DEF WatchStep

(* The creator leaves the block of mtx and cv only with a port. *)
LEMMA ProxyHandover ==
    ASSUME TypeOK, Handover, NEW i \in Instances,
           ProxyStep(i) \/ UserStep(i) \/ SpuriousWake(i)
    PROVE  Handover'
<1> USE DEF TypeOK, ProcessTypeOK, WatchTypeOK, Handover, InScope, watchVars,
       processVars, serverVars, Goto
<1>1. CASE Lock(i)
    BY <1>1 DEF Lock
<1>2. CASE Sleep(i)
    BY <1>2 DEF Sleep
<1>3. CASE LeaveScope(i)
    BY <1>3 DEF LeaveScope
<1>4. CASE Wake(i)
    BY <1>4 DEF Wake
<1>5. CASE CheckPort(i)
    BY <1>5 DEF CheckPort
<1>6. CASE ThrowUnableToBind(i)
    BY <1>6 DEF ThrowUnableToBind
<1>7. CASE Open(i)
    BY <1>7 DEF Open
<1>8. CASE InstantiateReturns(i)
    BY <1>8 DEF InstantiateReturns
<1>9. CASE InvokeReturns(i)
    BY <1>9 DEF InvokeReturns
<1>10. CASE FreeReturns(i)
    BY <1>10 DEF FreeReturns
<1>11. CASE Join(i)
    BY <1>11 DEF Join
<1>12. CASE Construct(i)
    BY <1>12 DEF Construct
<1>13. CASE Invoke(i)
    BY <1>13 DEF Invoke
<1>14. CASE FreeInstance(i)
    BY <1>14 DEF FreeInstance
<1>15. CASE Destroy(i)
    BY <1>15 DEF Destroy
<1>16. CASE SpuriousWake(i)
    BY <1>16 DEF SpuriousWake
<1> QED  BY <1>1, <1>2, <1>3, <1>4, <1>5, <1>6, <1>7, <1>8, <1>9, <1>10,
       <1>11, <1>12, <1>13, <1>14, <1>15, <1>16 DEF ProxyStep, UserStep

(* A child announces only the port it has bound, and keeps it until it      *)
(* exits.                                                                   *)
LEMMA ChildListening ==
    ASSUME TypeOK, Handover, Listening, NEW i \in Instances,
           ChildStep(i)
    PROVE  Listening'
<1> USE ConstantsAssumption DEF TypeOK, ProcessTypeOK, WatchTypeOK, Listening,
       Unset, ChildStep, watchVars, proxyVars, networkVars
<1>1. CASE Main(i)
  <2>1. CASE Exit(i, 1)
    BY <1>1, <2>1 DEF Main, Exit
  <2>2. CASE child' = [child EXCEPT ![i] = "binding"] /\ UNCHANGED listen
    BY <1>1, <2>2 DEF Main
  <2> QED  BY <1>1, <2>1, <2>2 DEF Main
<1>2. CASE Bind(i)
  <2>1. PICK p \in Ports :
           /\ \A j \in Instances : listen[j] # p
           /\ listen' = [listen EXCEPT ![i] = p]
    BY <1>2 DEF Bind
  <2>2. /\ child[i] = "binding" /\ child' = [child EXCEPT ![i] = "bound"]
        /\ UNCHANGED <<attempt, pipe, port>>
    BY <1>2 DEF Bind
  <2> QED  BY <2>1, <2>2
<1>3. CASE BindFails(i)
  <2>1. CASE attempt[i] + 1 < MaxPortRetries
    BY <1>3, <2>1 DEF BindFails
  <2>2. CASE Exit(i, 1)
    BY <1>3, <2>2 DEF BindFails, Exit
  <2> QED  BY <1>3, <2>1, <2>2 DEF BindFails
<1>4. CASE PreServe(i)
    BY <1>4 DEF PreServe, Lines
<1>5. CASE Accept(i)
    BY <1>5 DEF Accept
<1>6. CASE ClientGone(i)
    BY <1>6 DEF ClientGone
<1>7. CASE Handle(i)
  <2>1. PICK c \in Instances :
           Instantiate(i, c) \/ Forward(i, c) \/ FreeSlave(i, c)
    BY <1>7 DEF Handle
  <2> QED  BY <1>7, <2>1 DEF Handle, Instantiate, Forward, FreeSlave
<1>8. CASE Return(i)
    BY <1>8 DEF Return, Exit, Lines
<1>9. CASE Crash(i)
    BY <1>9 DEF Crash, Exit
<1> QED  BY <1>1, <1>2, <1>3, <1>4, <1>5, <1>6, <1>7, <1>8, <1>9 DEF
       ChildStep, ProcessStep

(* The thread hands over what it read, or Unbound. *)
LEMMA WatchListening ==
    ASSUME TypeOK, Handover, Listening, NEW i \in Instances,
           WatchStep(i), UNCHANGED proxyVars
    PROVE  Listening'
<1> USE ConstantsAssumption DEF TypeOK, ProcessTypeOK, WatchTypeOK, Listening,
       Handover, proxyVars, Unset, Unbound, processVars, serverVars
<1>1. CASE Launch(i)
    BY <1>1 DEF Launch
<1>2. CASE PublishPort(i)
    BY <1>2 DEF PublishPort, NextLine, Lines
<1>3. CASE Notify(i)
    BY <1>3 DEF Notify
<1>4. CASE StopReading(i)
  <2>1. /\ watch[i] = "reading"
        /\ UNCHANGED <<child, listen, attempt, port>>
    BY <1>4 DEF StopReading, NextLine
  <2>2. CASE UNCHANGED pipe
    BY <2>1, <2>2
  <2>3. CASE NextLine(i, "freed")
    BY <2>1, <2>3 DEF NextLine
  <2> QED  BY <1>4, <2>2, <2>3 DEF StopReading
<1>5. CASE Reap(i)
    BY <1>5 DEF Reap
<1>6. CASE FailPort(i)
  <2>1. /\ watch[i] = "failing"
        /\ UNCHANGED <<child, listen, attempt, pipe>>
    BY <1>6 DEF FailPort
  <2>2. CASE port' = [port EXCEPT ![i] = Unbound]
    BY <2>1, <2>2
  <2>3. CASE UNCHANGED port
    BY <2>1, <2>3
  <2> QED  BY <1>6, <2>2, <2>3 DEF FailPort
<1> QED  BY <1>1, <1>2, <1>3, <1>4, <1>5, <1>6 DEF WatchStep

(* The slaves' steps leave the ports alone. *)
LEMMA ProxyListening ==
    ASSUME Listening, NEW i \in Instances,
           ProxyStep(i) \/ UserStep(i) \/ SpuriousWake(i)
    PROVE  Listening'
<1>1. UNCHANGED <<child, attempt, listen, pipe, port>>
  BY DEF ProxyStep, UserStep, Lock, Sleep, LeaveScope, Wake, CheckPort,
         ThrowUnableToBind, Open, InstantiateReturns, InvokeReturns,
         FreeReturns, Join, Construct, Invoke, FreeInstance, Destroy,
         SpuriousWake, processVars, serverVars, watchVars
<1> QED  BY <1>1 DEF Listening


(* A child answers the request of the client it serves. *)
LEMMA ChildRequests ==
    ASSUME TypeOK, Handover, Requests, Connections, NEW i \in Instances,
           ChildStep(i)
    PROVE  Requests'
<1> USE ConstantsAssumption DEF TypeOK, ProcessTypeOK, Requests, Connected,
       ChildStep, watchVars, proxyVars, networkVars
<1>1. CASE Main(i)
    BY <1>1 DEF Main, Exit
<1>2. CASE Bind(i)
    BY <1>2 DEF Bind
<1>3. CASE BindFails(i)
    BY <1>3 DEF BindFails, Exit
<1>4. CASE PreServe(i)
    BY <1>4 DEF PreServe
<1>5. CASE Accept(i)
    BY <1>5 DEF Accept
<1>6. CASE ClientGone(i)
    BY <1>6 DEF ClientGone
<1>7. CASE Handle(i)
  <2>1. PICK c \in Instances :
           /\ served[i] = c
           /\ Instantiate(i, c) \/ Forward(i, c) \/ FreeSlave(i, c)
    BY <1>7 DEF Handle
  <2> USE <1>7, <2>1 DEF Handle, Answer
  <2>2. CASE Instantiate(i, c)
    BY <2>2 DEF Instantiate
  <2>3. CASE Forward(i, c)
    BY <2>3 DEF Forward
  <2>4. CASE FreeSlave(i, c)
    BY <2>4 DEF FreeSlave
  <2> QED  BY <2>1, <2>2, <2>3, <2>4
<1>8. CASE Return(i)
    BY <1>8 DEF Return, Exit
<1>9. CASE Crash(i)
    BY <1>9 DEF Crash, Exit
<1> QED  BY <1>1, <1>2, <1>3, <1>4, <1>5, <1>6, <1>7, <1>8, <1>9 DEF
       ChildStep, ProcessStep

(* The thread may end the host, which drops every connection. *)
LEMMA WatchRequests ==
    ASSUME TypeOK, Handover, Requests, Connections, NEW i \in Instances,
           WatchStep(i), UNCHANGED proxyVars
    PROVE  Requests'
<1> USE ConstantsAssumption DEF TypeOK, ProcessTypeOK, Requests, Connected,
       Handover, proxyVars, processVars, serverVars, networkVars
<1>1. CASE Launch(i)
    BY <1>1 DEF Launch, TerminateHost
<1>2. CASE PublishPort(i)
    BY <1>2 DEF PublishPort
<1>3. CASE Notify(i)
    BY <1>3 DEF Notify
<1>4. CASE StopReading(i)
    BY <1>4 DEF StopReading
<1>5. CASE Reap(i)
    BY <1>5 DEF Reap
<1>6. CASE FailPort(i)
    BY <1>6 DEF FailPort
<1> QED  BY <1>1, <1>2, <1>3, <1>4, <1>5, <1>6 DEF WatchStep

(* A slave has one request or one reply outstanding, in the state that      *)
(* waits for it.                                                            *)
LEMMA ProxyRequests ==
    ASSUME TypeOK, Handover, Requests, Connections, NEW i \in Instances,
           ProxyStep(i) \/ UserStep(i) \/ SpuriousWake(i)
    PROVE  Requests'
<1> USE ConstantsAssumption DEF TypeOK, ProcessTypeOK, Requests, Connected,
       processVars, serverVars, networkVars, Goto
<1>1. CASE Lock(i)
    BY <1>1 DEF Lock
<1>2. CASE Sleep(i)
    BY <1>2 DEF Sleep
<1>3. CASE LeaveScope(i)
    BY <1>3 DEF LeaveScope
<1>4. CASE Wake(i)
    BY <1>4 DEF Wake
<1>5. CASE CheckPort(i)
    BY <1>5 DEF CheckPort
<1>6. CASE ThrowUnableToBind(i)
    BY <1>6 DEF ThrowUnableToBind
<1>7. CASE Open(i)
    BY <1>7 DEF Open, TerminateHost
<1>8. CASE InstantiateReturns(i)
  <2>1. CASE Goto(i, "instantiating", "ready") /\ Answered(i, "ok")
    BY <1>8, <2>1 DEF InstantiateReturns, TerminateHost, Answered
  <2>2. CASE Throws(i) /\ TerminateHost /\ UNCHANGED pc
    <3>1. CASE Answered(i, "exception")
      BY <2>2, <3>1 DEF TerminateHost, Answered
    <3>2. CASE Broken(i)
      BY <2>2, <3>2 DEF TerminateHost, Broken
    <3> QED  BY <2>2, <3>1, <3>2 DEF Throws
  <2> QED  BY <1>8, <2>1, <2>2 DEF InstantiateReturns
<1>9. CASE InvokeReturns(i)
    BY <1>9 DEF InvokeReturns, Throws, Answered, Broken
<1>10. CASE FreeReturns(i)
  <2>1. CASE Goto(i, "freeing", "joining") /\ Answered(i, "ok") /\ UNCHANGED conn
    BY <1>10, <2>1 DEF FreeReturns, Answered
  <2>2. CASE Goto(i, "freeing", "broken") /\ Throws(i) /\ UNCHANGED conn
    BY <1>10, <2>2 DEF FreeReturns, Throws, Answered, Broken
  <2>3. CASE Throws(i) /\ TerminateHost /\ UNCHANGED pc
    BY <1>10, <2>3 DEF FreeReturns, TerminateHost, Throws, Answered, Broken
  <2> QED  BY <1>10, <2>1, <2>2, <2>3 DEF FreeReturns
<1>11. CASE Join(i)
    BY <1>11 DEF Join, Disconnect
<1>12. CASE Construct(i)
    BY <1>12 DEF Construct
<1>13. CASE Invoke(i)
    BY <1>13 DEF Invoke
<1>14. CASE FreeInstance(i)
    BY <1>14 DEF FreeInstance
<1>15. CASE Destroy(i)
    BY <1>15 DEF Destroy, TerminateHost, Disconnect
<1>16. CASE SpuriousWake(i)
    BY <1>16 DEF SpuriousWake
<1> QED  BY <1>1, <1>2, <1>3, <1>4, <1>5, <1>6, <1>7, <1>8, <1>9, <1>10,
       <1>11, <1>12, <1>13, <1>14, <1>15, <1>16 DEF ProxyStep, UserStep

(* A child is served, instantiated and freed over the connection it         *)
(* accepted.                                                                *)
LEMMA ChildConnections ==
    ASSUME TypeOK, Handover, Requests, Connections, NEW i \in Instances,
           ChildStep(i)
    PROVE  Connections'
<1> USE ConstantsAssumption DEF TypeOK, ProcessTypeOK, Requests, Connected,
       Connections, ChildStep, watchVars, proxyVars, networkVars
<1>1. CASE Main(i)
    BY <1>1 DEF Main, Exit
<1>2. CASE Bind(i)
    BY <1>2 DEF Bind
<1>3. CASE BindFails(i)
    BY <1>3 DEF BindFails, Exit
<1>4. CASE PreServe(i)
    BY <1>4 DEF PreServe
<1>5. CASE Accept(i)
    BY <1>5 DEF Accept
<1>6. CASE ClientGone(i)
    BY <1>6 DEF ClientGone
<1>7. CASE Handle(i)
  <2>1. PICK c \in Instances :
           /\ served[i] = c
           /\ Instantiate(i, c) \/ Forward(i, c) \/ FreeSlave(i, c)
    BY <1>7 DEF Handle
  <2> USE <1>7, <2>1 DEF Handle, Answer
  <2>2. CASE Instantiate(i, c)
    BY <2>2 DEF Instantiate
  <2>3. CASE Forward(i, c)
    BY <2>3 DEF Forward
  <2>4. CASE FreeSlave(i, c)
    BY <2>4 DEF FreeSlave
  <2> QED  BY <2>1, <2>2, <2>3, <2>4
<1>8. CASE Return(i)
    BY <1>8 DEF Return, Exit
<1>9. CASE Crash(i)
    BY <1>9 DEF Crash, Exit
<1> QED  BY <1>1, <1>2, <1>3, <1>4, <1>5, <1>6, <1>7, <1>8, <1>9 DEF
       ChildStep, ProcessStep

(* The threads make no connection. *)
LEMMA WatchConnections ==
    ASSUME TypeOK, Handover, Requests, Connections, NEW i \in Instances,
           WatchStep(i), UNCHANGED proxyVars
    PROVE  Connections'
<1> USE ConstantsAssumption DEF TypeOK, ProcessTypeOK, Requests, Connected,
       Connections, Handover, proxyVars, processVars, serverVars, networkVars
<1>1. CASE Launch(i)
  <2>1. CASE child' = [child EXCEPT ![i] = "started"] /\ UNCHANGED conn
    BY <1>1, <2>1 DEF Launch
  <2>2. CASE TerminateHost /\ UNCHANGED child
    BY <1>1, <2>2 DEF Launch, TerminateHost
  <2> QED  BY <1>1, <2>1, <2>2 DEF Launch
<1>2. CASE PublishPort(i)
    BY <1>2 DEF PublishPort
<1>3. CASE Notify(i)
    BY <1>3 DEF Notify
<1>4. CASE StopReading(i)
    BY <1>4 DEF StopReading
<1>5. CASE Reap(i)
    BY <1>5 DEF Reap
<1>6. CASE FailPort(i)
    BY <1>6 DEF FailPort
<1> QED  BY <1>1, <1>2, <1>3, <1>4, <1>5, <1>6 DEF WatchStep

(* A slave that has no connection before or after a step changes none. *)
LEMMA UnconnectedConnections ==
    ASSUME Connections, NEW i \in Instances,
           pc[i] \notin Connected, pc'[i] \notin Connected,
           \A k \in Instances \ {i} : pc'[k] = pc[k],
           UNCHANGED <<child, served, slave, conn, backlog, call, reply>>
    PROVE  Connections'
<1>1. \A k \in Instances : pc'[k] \in Connected => k # i
  OBVIOUS
<1>2. \A k \in Instances : pc[k] \in Connected => pc'[k] = pc[k]
  OBVIOUS
<1> QED  BY <1>1, <1>2 DEF Connections, Connected

(* A slave connects to the child that listens on its port. *)
LEMMA ProxyConnections ==
    ASSUME TypeOK, Handover, Requests, Connections, Listening, NEW i \in
           Instances,
           ProxyStep(i) \/ UserStep(i) \/ SpuriousWake(i)
    PROVE  Connections'
<1> USE ConstantsAssumption DEF TypeOK, ProcessTypeOK, Requests, Connected,
       Connections, processVars, serverVars, networkVars, Goto
<1>1. CASE Lock(i)
    BY <1>1 DEF Lock
<1>2. CASE Sleep(i)
    BY <1>2 DEF Sleep
<1>3. CASE LeaveScope(i)
    BY <1>3 DEF LeaveScope
<1>4. CASE Wake(i)
    BY <1>4 DEF Wake
<1>5. CASE CheckPort(i)
  <2>1. /\ pc[i] \notin Connected /\ pc'[i] \notin Connected
        /\ \A k \in Instances \ {i} : pc'[k] = pc[k]
        /\ UNCHANGED <<child, served, slave, conn, backlog, call, reply>>
    BY <1>5 DEF CheckPort
  <2> HIDE DEF Connections, Connected
  <2> QED  BY <2>1, UnconnectedConnections
<1>6. CASE ThrowUnableToBind(i)
    BY <1>6 DEF ThrowUnableToBind
<1>7. CASE Open(i)
  <2>1. CASE TerminateHost /\ UNCHANGED <<call, pc>>
    BY <1>7, <2>1 DEF Open, TerminateHost
  <2>2. ASSUME NEW j \in Instances,
               listen[j] = port[i],
               conn'    = [conn    EXCEPT ![i] = j],
               backlog' = [backlog EXCEPT ![i] = j],
               call'    = [call    EXCEPT ![i] = "instantiate"],
               pc'      = [pc      EXCEPT ![i] = "instantiating"]
        PROVE  Connections'
    <3>1. pc[i] = "connecting" /\ UNCHANGED <<child, served, slave, reply>>
      BY <1>7 DEF Open
    <3>2. port[i] \in Ports
      <4>1. listen[j] \in Ports \cup {Unset}
        OBVIOUS
      <4>2. port[i] # Unset
        BY <3>1 DEF Handover, InScope
      <4> QED  BY <2>2, <4>1, <4>2
    <3>3. i = j \/ child[i] = "exited"
      BY <2>2, <3>2 DEF Listening, Unset
    <3> QED  BY <2>2, <3>1, <3>3
  <2> QED  BY <1>7, <2>1, <2>2 DEF Open
<1>8. CASE InstantiateReturns(i)
  <2>1. CASE TerminateHost
    BY <1>8, <2>1 DEF InstantiateReturns, TerminateHost, Throws, Answered, Broken
  <2>2. CASE Goto(i, "instantiating", "ready") /\ Answered(i, "ok") /\
         UNCHANGED conn
    BY <1>8, <2>2 DEF InstantiateReturns, Answered
  <2> QED  BY <1>8, <2>1, <2>2 DEF InstantiateReturns
<1>9. CASE InvokeReturns(i)
    BY <1>9 DEF InvokeReturns, Throws, Answered, Broken
<1>10. CASE FreeReturns(i)
  <2>1. CASE inDtor[i] /\ TerminateHost
    BY <1>10, <2>1 DEF FreeReturns, TerminateHost, Throws, Answered, Broken
  <2>2. CASE ~inDtor[i] /\ Goto(i, "freeing", "broken") /\ Throws(i) /\ UNCHANGED conn
    BY <1>10, <2>2 DEF FreeReturns, Throws, Answered, Broken
  <2>3. CASE Goto(i, "freeing", "joining") /\ Answered(i, "ok") /\ UNCHANGED conn
    BY <1>10, <2>3 DEF FreeReturns, Answered
  <2> QED  BY <1>10, <2>1, <2>2, <2>3 DEF FreeReturns
<1>11. CASE Join(i)
    BY <1>11 DEF Join, Disconnect
<1>12. CASE Construct(i)
    BY <1>12 DEF Construct
<1>13. CASE Invoke(i)
    BY <1>13 DEF Invoke
<1>14. CASE FreeInstance(i)
    BY <1>14 DEF FreeInstance
<1>15. CASE Destroy(i)
    BY <1>15 DEF Destroy, TerminateHost, Disconnect
<1>16. CASE SpuriousWake(i)
    BY <1>16 DEF SpuriousWake
<1> QED  BY <1>1, <1>2, <1>3, <1>4, <1>5, <1>6, <1>7, <1>8, <1>9, <1>10,
       <1>11, <1>12, <1>13, <1>14, <1>15, <1>16 DEF ProxyStep, UserStep

-----------------------------------------------------------------------------
(* The invariant holds initially ... *)
LEMMA InvariantInit == Init => IInv
<1> SUFFICES ASSUME Init PROVE IInv
  OBVIOUS
<1> USE ConstantsAssumption DEF Init, ProcessInit, WatchInit
<1>1. TypeOK
  BY DEF TypeOK, ProcessTypeOK, WatchTypeOK, ChildStates, WatchStates,
         ProxyStates
<1>2. Handover
  BY DEF Handover, InScope
<1>3. Listening
  BY DEF Listening, Unset
<1>4. Requests /\ Connections
  BY DEF Requests, Connections, Connected
<1> QED  BY <1>1, <1>2, <1>3, <1>4 DEF IInv

(* ... every step preserves it ... *)
LEMMA InvariantStep == IInv /\ [Next]_vars => IInv'
<1> SUFFICES ASSUME IInv, [Next]_vars PROVE IInv'
  OBVIOUS
<1> USE DEF IInv
<1>1. TypeOK'
  BY TypeStep
<1>2. CASE UNCHANGED vars
  BY <1>1, <1>2 DEF vars, processVars, serverVars, networkVars, watchVars,
         proxyVars,
                    Handover, Listening, Requests, Connections
<1>3. ASSUME NEW i \in Instances, ChildStep(i) PROVE IInv'
  BY <1>1, <1>3, ChildHandover, ChildListening, ChildRequests, ChildConnections
<1>4. ASSUME NEW i \in Instances, WatchStep(i), UNCHANGED proxyVars PROVE IInv'
  BY <1>1, <1>4, WatchHandover, WatchListening, WatchRequests, WatchConnections
<1>5. ASSUME NEW i \in Instances,
             ProxyStep(i) \/ UserStep(i) \/ SpuriousWake(i)
      PROVE  IInv'
  BY <1>1, <1>5, ProxyHandover, ProxyListening, ProxyRequests, ProxyConnections
<1> QED  BY <1>2, <1>3, <1>4, <1>5 DEF Next, HostStep

(* ... and so it always holds. *)
LEMMA Invariant == Spec => []IInv
BY InvariantInit, InvariantStep, PTL DEF Spec

(* Every variable of the composed system keeps its type. *)
THEOREM TypeCorrect == Spec => []TypeOK
<1>1. IInv => TypeOK
  BY DEF IInv
<1> QED  BY <1>1, Invariant, PTL

(* A port the constructor has is one its living child listens on            *)
(* (proxyfmu.cpp:128-135).                                                  *)
THEOREM PortsAnnouncedAreListenedOn == Spec => []AnnouncedPortIsListenedOn
<1>1. IInv => AnnouncedPortIsListenedOn
  BY DEF IInv, Listening, AnnouncedPortIsListenedOn
<1> QED  BY <1>1, Invariant, PTL

(* The handover of the port loses no wakeup, for any number of instances    *)
(* and any interleaving (process_helper.hpp:71-76, proxy_slave.cpp:61-62).  *)
THEOREM NoWakeupLost == Spec => []NoLostWakeup
<1>1. IInv => NoLostWakeup
  BY DEF IInv, Handover, InScope, NoLostWakeup
<1> QED  BY <1>1, Invariant, PTL

(* Only the death of its own child can lead a slave to another one's        *)
(* (proxy_slave.cpp:99-105).                                                *)
THEOREM SlavesReachTheirOwnChild == Spec => []ConnectedToOwnChild
<1>1. IInv => ConnectedToOwnChild
  BY DEF IInv, Connections, ConnectedToOwnChild
<1> QED  BY <1>1, Invariant, PTL

(* The handler's slave_ is never null when it is used                       *)
(* (fmu_service_handler.cpp:25-170).                                        *)
THEOREM SlaveIsThereWhenCalled == Spec => []NoCallWithoutSlave
<1>1. IInv => NoCallWithoutSlave
  BY DEF IInv, Requests, Connections, NoCallWithoutSlave
<1> QED  BY <1>1, Invariant, PTL

(* A slave that is done, or was never made, has neither a process nor a     *)
(* thread left (proxy_slave.cpp:95, 229).                                   *)
THEOREM DoneMeansNothingLeft == Spec => []NothingLeftBehind
<1>1. IInv => NothingLeftBehind
  BY DEF IInv, Handover, InScope, NothingLeftBehind
<1> QED  BY <1>1, Invariant, PTL

(* The mutex of a constructor that is gone is locked only after an abnormal *)
(* exit of the child (process_helper.hpp:88-97).                            *)
THEOREM CleanExitIsSafe == Spec => []CleanExitLocksNoDeadMutex
<1>1. IInv => CleanExitLocksNoDeadMutex
  BY DEF IInv, Handover, InScope, CleanExitLocksNoDeadMutex
<1> QED  BY <1>1, Invariant, PTL
=============================================================================
