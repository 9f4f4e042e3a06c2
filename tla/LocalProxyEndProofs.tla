------------------------ MODULE LocalProxyEndProofs ------------------------
(* Theorems about LocalProxy that need to know how sessions and hosts end:  *)
(* by whom a child was freed, and what can have terminated the host.        *)
EXTENDS LocalProxyProofs

Over(j) == child[j] \in {"stopping", "exited"}

Freed(i) ==
    \/ pc[i] = "freeing" /\ reply[i] = "ok"
    \/ pc[i] \in {"joining", "freed", "gone"}

(* As long as the host lives, a child serves the client it was instantiated *)
(* by until that one has freed it.                                          *)
Sessions ==
    /\ host = "terminated" => \A i \in Instances : conn[i] = NoOne
    /\ \A i \in Instances :
          call[i] = "instantiate" => conn[i] # NoOne \/ host = "terminated"
    /\ \A i, j \in Instances : conn[i] = j /\ Freed(i) => Over(j)
    /\ \A j \in Instances :
          host = "up" /\ ~Over(j) /\ slave[j] # "none" =>
              \E k \in Instances :
                 served[j] = k /\ call[k] # "instantiate" /\ conn[k] = j

SomeDiedLate == \E c \in Instances : DiedLate(c)

(* A child ends well only if its own client freed it, or if one whose child *)
(* died late did; and only a late death makes a freeInstance throw.         *)
Endings ==
    /\ HostEndsOnlyByFault
    /\ \A i \in Instances :
          /\ status[i] # 0 => child[i] = "exited"
          /\ pc[i] = "freeing" => reply[i] # "exception"
          /\ pc[i] = "broken" => SomeDiedLate
          /\ port[i] = Unbound /\ pc[i] \notin Unconnected => status[i] # 0
          /\ child[i] = "stopping" \/ (child[i] = "exited" /\ status[i] = 0)
                => Freed(i) \/ SomeDiedLate

-----------------------------------------------------------------------------
(* The children's steps: only the client that is served gets its request    *)
(* handled.                                                                 *)
LEMMA ChildSessions ==
    ASSUME IInv, Sessions, NEW i \in Instances, ChildStep(i)
    PROVE  Sessions'
<1> USE ConstantsAssumption DEF IInv, TypeOK, ProcessTypeOK, Requests, Connections,
       Connected, Sessions, Over, Freed, ChildStep, watchVars, proxyVars, networkVars
<1>1. CASE Main(i)
  <2>1. CASE Exit(i, 1)
    BY <1>1, <2>1 DEF Main, Exit
  <2>2. CASE child' = [child EXCEPT ![i] = "binding"] /\ UNCHANGED served
    BY <1>1, <2>2 DEF Main
  <2> QED  BY <1>1, <2>1, <2>2 DEF Main
<1>2. CASE Bind(i)
    BY <1>2 DEF Bind
<1>3. CASE BindFails(i)
  <2>1. CASE Exit(i, 1)
    BY <1>3, <2>1 DEF BindFails, Exit
  <2>2. CASE UNCHANGED <<child, served>>
    BY <1>3, <2>2 DEF BindFails
  <2> QED  BY <1>3, <2>1, <2>2 DEF BindFails
<1>4. CASE PreServe(i)
    BY <1>4 DEF PreServe
<1>5. CASE Accept(i)
    BY <1>5 DEF Accept
<1>6. CASE ClientGone(i)
    BY <1>6 DEF ClientGone
<1>7. CASE Handle(i)
  <2>1. PICK c \in Instances :
           /\ served[i] = c
           /\ Instantiate(i, c) \/ Forward(i, c) \/ FreeSlave(i, c)
    BY <1>7 DEF Handle
  <2> USE <1>7, <2>1 DEF Handle, Answer
  <2>2. CASE Instantiate(i, c)
    <3>1. /\ call' = [call EXCEPT ![c] = "none"]
          /\ \A j \in Instances \ {i} : slave'[j] = slave[j]
          /\ \A k \in Instances \ {c} : reply'[k] = reply[k]
          /\ UNCHANGED <<child, conn, served, pc, host>>
      BY <2>2 DEF Instantiate
    <3>2. child[i] = "serving" /\ pc[c] = "instantiating"
      BY <2>2 DEF Instantiate
    <3>3. host = "up" => conn[c] = i
      BY <2>2 DEF Instantiate
    <3>4. \A k \in Instances : Freed(k)' <=> Freed(k)
      BY <3>1, <3>2
    <3> QED  BY <3>1, <3>2, <3>3, <3>4
  <2>3. CASE Forward(i, c)
    BY <2>3 DEF Forward
  <2>4. CASE FreeSlave(i, c)
    <3>1. /\ child' = [child EXCEPT ![i] = "stopping"]
          /\ slave' = [slave EXCEPT ![i] = "freed"]
          /\ call'  = [call  EXCEPT ![c] = "none"]
          /\ reply' = [reply EXCEPT ![c] = "ok"]
          /\ UNCHANGED <<conn, served, pc, host>>
      BY <2>4 DEF FreeSlave
    <3>2. child[i] = "serving" /\ conn[c] \in {i, NoOne}
      OBVIOUS
    <3>3. ASSUME NEW k \in Instances, NEW j \in Instances
          PROVE  conn'[k] = j /\ Freed(k)' => Over(j)'
      BY <3>1, <3>2, <3>3
    <3>4. ASSUME NEW j \in Instances, host' = "up", ~Over(j)', slave'[j] # "none"
          PROVE  \E k \in Instances :
                    /\ served'[j] = k
                    /\ call'[k] # "instantiate"
                    /\ conn'[k] = j
      <4>1. j # i
        BY <3>1, <3>4
      <4> QED  BY <3>1, <3>4, <4>1
    <3> QED  BY <3>1, <3>3, <3>4
  <2> QED  BY <2>1, <2>2, <2>3, <2>4
<1>8. CASE Return(i)
    BY <1>8 DEF Return, Exit
<1>9. CASE Crash(i)
    BY <1>9 DEF Crash, Exit
<1> QED  BY <1>1, <1>2, <1>3, <1>4, <1>5, <1>6, <1>7, <1>8, <1>9 DEF
       ChildStep, ProcessStep

(* The threads' steps: a launch may end the host and with it every          *)
(* connection.                                                              *)
LEMMA WatchSessions ==
    ASSUME IInv, Sessions, host = "up", NEW i \in Instances,
           WatchStep(i), UNCHANGED proxyVars
    PROVE  Sessions'
<1> USE ConstantsAssumption DEF IInv, TypeOK, ProcessTypeOK, Handover, Sessions, Over,
       Freed, proxyVars, processVars, serverVars, networkVars
<1>1. CASE Launch(i)
  <2>1. child[i] = "absent" /\ UNCHANGED <<served, slave, call, reply, pc>>
    BY <1>1 DEF Launch
  <2>2. CASE child' = [child EXCEPT ![i] = "started"] /\ UNCHANGED <<host, conn>>
    BY <2>1, <2>2
  <2>3. CASE TerminateHost /\ UNCHANGED child
    BY <2>1, <2>3 DEF TerminateHost
  <2> QED  BY <1>1, <2>2, <2>3 DEF Launch
<1>2. CASE PublishPort(i)
    BY <1>2 DEF PublishPort
<1>3. CASE Notify(i)
    BY <1>3 DEF Notify
<1>4. CASE StopReading(i)
    BY <1>4 DEF StopReading
<1>5. CASE Reap(i)
    BY <1>5 DEF Reap
<1>6. CASE FailPort(i)
    BY <1>6 DEF FailPort
<1> QED  BY <1>1, <1>2, <1>3, <1>4, <1>5, <1>6 DEF WatchStep

(* What a slave's step does to the sessions: it connects before it is       *)
(* served, hangs up only after it has freed its child, and otherwise sends  *)
(* no instantiate. If it ends the host, every connection is closed.         *)
ProxyEffect(i) ==
    /\ UNCHANGED <<child, served, slave>>
    /\ \A k \in Instances \ {i} :
          call'[k] = call[k] /\ pc'[k] = pc[k] /\ reply'[k] = reply[k]
    /\ \/ /\ host' = "terminated"
          /\ conn' = [k \in Instances |-> NoOne]
          /\ call'[i] = "instantiate" => call[i] = "instantiate"
       \/ /\ UNCHANGED host
          /\ \A k \in Instances \ {i} : conn'[k] = conn[k]
          /\ \/ pc[i] = "connecting" /\ ~Freed(i)' /\ conn'[i] \in Instances
             \/ /\ call'[i] = "instantiate" => call[i] = "instantiate"
                /\ conn'[i] = conn[i]
                /\ Freed(i)' => Freed(i)
             \/ Freed(i) /\ conn'[i] = NoOne /\ UNCHANGED call

LEMMA ProxyHasEffect ==
    ASSUME TypeOK, Requests, host = "up", NEW i \in Instances,
           ProxyStep(i) \/ UserStep(i) \/ SpuriousWake(i)
    PROVE  ProxyEffect(i)
<1> USE DEF TypeOK, ProcessTypeOK, Requests, Connected, Freed, ProxyEffect,
            processVars, serverVars, networkVars, watchVars, Goto
<1>1. CASE Lock(i)
    BY <1>1 DEF Lock
<1>2. CASE Sleep(i)
    BY <1>2 DEF Sleep
<1>3. CASE LeaveScope(i)
    BY <1>3 DEF LeaveScope
<1>4. CASE Wake(i)
    BY <1>4 DEF Wake
<1>5. CASE CheckPort(i)
    BY <1>5 DEF CheckPort
<1>6. CASE ThrowUnableToBind(i)
    BY <1>6 DEF ThrowUnableToBind
<1>7. CASE Open(i)
    BY <1>7 DEF Open, TerminateHost
<1>8. CASE InstantiateReturns(i)
    BY <1>8 DEF InstantiateReturns, Throws, Answered, Broken, TerminateHost
<1>9. CASE InvokeReturns(i)
    BY <1>9 DEF InvokeReturns, Throws, Answered, Broken
<1>10. CASE FreeReturns(i)
  <2>1. CASE inDtor[i] /\ TerminateHost
    BY <1>10, <2>1 DEF FreeReturns, TerminateHost, Throws, Answered, Broken
  <2>2. CASE ~inDtor[i] /\ Goto(i, "freeing", "broken") /\ Throws(i) /\ UNCHANGED conn
    BY <1>10, <2>2 DEF FreeReturns, Throws, Answered, Broken
  <2>3. CASE Goto(i, "freeing", "joining") /\ Answered(i, "ok") /\ UNCHANGED conn
    BY <1>10, <2>3 DEF FreeReturns, Answered
  <2> QED  BY <1>10, <2>1, <2>2, <2>3 DEF FreeReturns
<1>11. CASE Join(i)
    BY <1>11 DEF Join, Disconnect
<1>12. CASE Construct(i)
    BY <1>12 DEF Construct
<1>13. CASE Invoke(i)
    BY <1>13 DEF Invoke
<1>14. CASE FreeInstance(i)
  <2>1. pc[i] = "ready" /\ reply[i] = "none"
    BY <1>14 DEF FreeInstance
  <2> QED  BY <1>14, <2>1 DEF FreeInstance
<1>15. CASE Destroy(i)
    BY <1>15 DEF Destroy, TerminateHost, Disconnect
<1>16. CASE SpuriousWake(i)
    BY <1>16 DEF SpuriousWake
<1> QED  BY <1>1, <1>2, <1>3, <1>4, <1>5, <1>6, <1>7, <1>8, <1>9, <1>10,
       <1>11, <1>12, <1>13, <1>14, <1>15, <1>16 DEF ProxyStep, UserStep

(* ... and so a child keeps the client it was instantiated by. *)
LEMMA ProxySessions ==
    ASSUME IInv, Sessions, host = "up", NEW i \in Instances,
           ProxyStep(i) \/ UserStep(i) \/ SpuriousWake(i)
    PROVE  Sessions'
<1> USE ConstantsAssumption DEF IInv, Sessions
<1>1. ProxyEffect(i)
  BY ProxyHasEffect
<1> USE DEF ProxyEffect
<1>2. \A k \in Instances \ {i} : Freed(k)' <=> Freed(k)
  BY <1>1 DEF Freed
<1>3. \A j \in Instances : Over(j)' <=> Over(j)
  BY <1>1 DEF Over
<1>4. \A k, j \in Instances : served[j] = k => pc[k] \in Connected
  BY DEF Connections
<1>5. (host = "terminated" => \A k \in Instances : conn[k] = NoOne)'
  BY <1>1
<1>6. ASSUME NEW k \in Instances, call'[k] = "instantiate"
      PROVE  conn'[k] # NoOne \/ host' = "terminated"
  BY <1>1, <1>6 DEF Freed, Requests
<1>7. ASSUME NEW k \in Instances, NEW j \in Instances
      PROVE  conn'[k] = j /\ Freed(k)' => Over(j)'
  BY <1>1, <1>2, <1>3, <1>7
<1>8. ASSUME NEW j \in Instances, host' = "up", ~Over(j)', slave'[j] # "none"
      PROVE  \E k \in Instances :
                /\ served'[j] = k
                /\ call'[k] # "instantiate"
                /\ conn'[k] = j
  <2>1. PICK k \in Instances : /\ served[j] = k
                               /\ call[k] # "instantiate"
                               /\ conn[k] = j
    BY <1>1, <1>3, <1>8
  <2>2. pc[k] # "connecting" /\ ~Freed(k)
    BY <1>3, <1>4, <1>8, <2>1 DEF Connected
  <2> QED  BY <1>1, <1>8, <2>1, <2>2
<1> QED  BY <1>5, <1>7, <1>8, <1>6

-----------------------------------------------------------------------------
(* A late death is for ever: an exit status is final, and a slave that is   *)
(* connected never waits for its port again.                                *)
LEMMA ChildStatus ==
    ASSUME IInv, Endings, NEW i \in Instances, ChildStep(i)
    PROVE  /\ \A k \in Instances :
                 /\ status[k] # 0 => status'[k] # 0
                 /\ status'[k] # 0 => child'[k] = "exited"
           /\ SomeDiedLate => SomeDiedLate'
<1> USE DEF IInv, TypeOK, ProcessTypeOK, Endings, ChildStep, networkVars
<1>1. ASSUME NEW k \in Instances
      PROVE  /\ status[k] # 0 => status'[k] # 0
             /\ status'[k] # 0 => child'[k] = "exited"
  <2>1. CASE Main(i)
    BY <2>1 DEF Main, Exit
  <2>2. CASE Bind(i)
    BY <2>2 DEF Bind
  <2>3. CASE BindFails(i)
    BY <2>3 DEF BindFails, Exit
  <2>4. CASE PreServe(i)
    BY <2>4 DEF PreServe
  <2>5. CASE Accept(i)
    BY <2>5 DEF Accept
  <2>6. CASE ClientGone(i)
    BY <2>6 DEF ClientGone
  <2>7. CASE Handle(i)
    BY <2>7 DEF Handle, Instantiate, Forward, FreeSlave
  <2>8. CASE Return(i)
    BY <2>8 DEF Return, Exit
  <2>9. CASE Crash(i)
    BY <2>9 DEF Crash, Exit
  <2> QED  BY <2>1, <2>2, <2>3, <2>4, <2>5, <2>6, <2>7, <2>8, <2>9 DEF ProcessStep
<1>2. UNCHANGED pc
  BY DEF proxyVars
<1> QED  BY <1>1, <1>2 DEF SomeDiedLate, DiedLate

(* A child is stopped by the client it serves, which is its own unless that *)
(* client's own child died late.                                            *)
LEMMA ChildEndsWell ==
    ASSUME IInv, Sessions, Endings, NEW i \in Instances, ChildStep(i),
           NEW k \in Instances,
           child'[k] = "stopping" \/ (child'[k] = "exited" /\ status'[k] = 0)
    PROVE  Freed(k)' \/ SomeDiedLate'
<1> USE DEF IInv, TypeOK, ProcessTypeOK, ChildStep, networkVars, proxyVars
<1>1. CASE Handle(i)
  <2>1. PICK c \in Instances :
           /\ served[i] = c
           /\ Instantiate(i, c) \/ Forward(i, c) \/ FreeSlave(i, c)
    BY <1>1 DEF Handle
  <2>2. UNCHANGED <<pc, status>>
    BY <1>1 DEF Handle
  <2>3. CASE FreeSlave(i, c)
    <3>1. /\ child' = [child EXCEPT ![i] = "stopping"]
          /\ reply' = [reply EXCEPT ![c] = "ok"]
          /\ call[c] = "free" /\ pc[c] = "freeing" /\ reply[c] = "none"
      BY <2>3 DEF FreeSlave, Answer, Requests
    <3>2. CASE c = i
      <4>1. CASE k = i
        BY <2>2, <3>1, <3>2, <4>1 DEF Freed
      <4>2. CASE k # i
        <5>1. Freed(k) \/ SomeDiedLate
          BY <2>2, <3>1, <4>2 DEF Endings
        <5>2. Freed(k) => Freed(k)'
          BY <2>2, <3>1 DEF Freed
        <5> QED  BY <5>1, <5>2, ChildStatus
      <4> QED  BY <4>1, <4>2
    <3>3. CASE c # i
      <4>1. child[c] = "exited"
        BY <2>1, <3>3 DEF Connections
      <4>2. status[c] # 0 \/ SomeDiedLate
        BY <3>1, <4>1 DEF Endings, Freed
      <4>3. SomeDiedLate
        BY <3>1, <4>2 DEF SomeDiedLate, DiedLate, Unconnected
      <4> QED  BY <4>3, ChildStatus
    <3> QED  BY <3>2, <3>3
  <2>4. CASE Instantiate(i, c) \/ Forward(i, c)
    <3>1. UNCHANGED child /\ call[c] \in {"instantiate", "invoke"}
      BY <2>4 DEF Instantiate, Forward
    <3>2. /\ pc[c] \in {"instantiating", "invoking"}
          /\ \A d \in Instances \ {c} : reply'[d] = reply[d]
      BY <2>4, <3>1 DEF Instantiate, Forward, Answer, Requests
    <3>3. Freed(k) \/ SomeDiedLate
      BY <2>2, <3>1 DEF Endings
    <3>4. Freed(k) => Freed(k)'
      BY <2>2, <3>2 DEF Freed
    <3> QED  BY <3>3, <3>4, ChildStatus
  <2> QED  BY <2>1, <2>3, <2>4
<1>2. CASE ~Handle(i)
  <2>1. UNCHANGED <<pc, reply>>
    BY <1>2 DEF ProcessStep, Main, Bind, BindFails, PreServe, Accept, ClientGone,
                Return, Crash
  <2>2. child[k] = "stopping" \/ (child[k] = "exited" /\ status[k] = 0)
    BY <1>2 DEF ProcessStep, Main, Bind, BindFails, PreServe, Accept, ClientGone,
                Return, Crash, Exit
  <2>3. Freed(k) \/ SomeDiedLate
    BY <2>2 DEF Endings
  <2> QED  BY <2>1, <2>3, ChildStatus DEF Freed
<1> QED  BY <1>1, <1>2

LEMMA ChildEndings ==
    ASSUME IInv, Sessions, Endings, NEW i \in Instances, ChildStep(i)
    PROVE  Endings'
<1> USE DEF IInv, TypeOK, ProcessTypeOK, ChildStep, watchVars, proxyVars, networkVars
<1>1. UNCHANGED <<watch, host, pc, port>>
  OBVIOUS
<1>2. ASSUME NEW k \in Instances
      PROVE  /\ call[k] = "none" => call'[k] = "none" /\ reply'[k] = reply[k]
             /\ pc[k] = "freeing" => reply'[k] \in {reply[k], "ok"}
  <2>1. CASE Handle(i)
    <3>1. PICK c \in Instances :
             Instantiate(i, c) \/ Forward(i, c) \/ FreeSlave(i, c)
      BY <2>1 DEF Handle
    <3> QED  BY <3>1 DEF Instantiate, Forward, FreeSlave, Answer, Requests
  <2>2. CASE ~Handle(i)
    BY <2>2 DEF ProcessStep, Main, Bind, BindFails, PreServe, Accept, ClientGone,
                Return, Crash
  <2> QED  BY <2>1, <2>2
<1>3. HostEndsOnlyByFault'
  <2> SUFFICES ASSUME host' = "terminated" PROVE HostEndsOnlyByFault'
    BY DEF HostEndsOnlyByFault
  <2>1. PICK k \in Instances :
           \/ watch[k] = "launching"
           \/ pc[k] = "instantiating" /\ reply[k] = "none" /\ call[k] = "none"
           \/ DiedLate(k)
    BY <1>1 DEF Endings, HostEndsOnlyByFault
  <2>2. DiedLate(k) => DiedLate(k)'
    BY <1>1, ChildStatus DEF DiedLate
  <2> QED  BY <1>1, <1>2, <2>1, <2>2 DEF HostEndsOnlyByFault
<1>4. ASSUME NEW k \in Instances
      PROVE  /\ status'[k] # 0 => child'[k] = "exited"
             /\ pc'[k] = "freeing" => reply'[k] # "exception"
             /\ pc'[k] = "broken" => SomeDiedLate'
             /\ port'[k] = Unbound /\ pc'[k] \notin Unconnected => status'[k] # 0
  BY <1>1, <1>2, ChildStatus DEF Endings
<1> QED  BY <1>3, <1>4, ChildEndsWell DEF Endings

(* The thread reports a child that died late by -999; only a failed launch   *)
(* ends the host.                                                           *)
LEMMA WatchEndings ==
    ASSUME IInv, Endings, host = "up", NEW i \in Instances,
           WatchStep(i), UNCHANGED proxyVars
    PROVE  Endings'
<1> USE ConstantsAssumption DEF IInv, TypeOK, ProcessTypeOK, WatchTypeOK, proxyVars,
       processVars, serverVars, networkVars
<1>1. UNCHANGED <<status, pc, reply>>
  BY DEF WatchStep, Launch, PublishPort, Notify, StopReading, Reap, FailPort
<1>2. SomeDiedLate => SomeDiedLate'
  BY <1>1 DEF SomeDiedLate, DiedLate
<1>3. HostEndsOnlyByFault'
  <2>1. CASE Launch(i)
    BY <2>1 DEF Launch, HostEndsOnlyByFault
  <2>2. CASE ~Launch(i)
    BY <2>2 DEF WatchStep, PublishPort, Notify, StopReading, Reap, FailPort,
                HostEndsOnlyByFault
  <2> QED  BY <2>1, <2>2
<1>4. ASSUME NEW k \in Instances
      PROVE  child'[k] # child[k] => child[k] = "absent" /\ child'[k] = "started"
  <2>1. CASE Launch(i)
    BY <2>1 DEF Launch, Handover
  <2>2. CASE ~Launch(i)
    BY <2>2 DEF WatchStep, PublishPort, Notify, StopReading, Reap, FailPort
  <2> QED  BY <2>1, <2>2
<1>5. ASSUME NEW k \in Instances, port'[k] = Unbound, pc'[k] \notin Unconnected
      PROVE  status'[k] # 0
  <2>1. CASE FailPort(i)
    BY <1>1, <1>5, <2>1 DEF FailPort, Endings, Handover, InScope, Unconnected
  <2>2. CASE PublishPort(i)
    BY <1>1, <1>5, <2>2 DEF PublishPort, NextLine, Endings, Lines, Unbound
  <2>3. CASE ~FailPort(i) /\ ~PublishPort(i)
    BY <1>1, <1>5, <2>3 DEF WatchStep, Launch, Notify, StopReading, Reap, Endings
  <2> QED  BY <2>1, <2>2, <2>3
<1>6. ASSUME NEW k \in Instances
      PROVE  /\ status'[k] # 0 => child'[k] = "exited"
             /\ pc'[k] = "freeing" => reply'[k] # "exception"
             /\ pc'[k] = "broken" => SomeDiedLate'
             /\ child'[k] = "stopping" \/ (child'[k] = "exited" /\ status'[k] = 0)
                   => Freed(k)' \/ SomeDiedLate'
  BY <1>1, <1>2, <1>4 DEF Endings, Freed
<1> QED  BY <1>3, <1>5, <1>6 DEF Endings

(* How far a slave's step brings it: what was freed stays so, a slave that  *)
(* was connected does not wait for its port again, and one that connects    *)
(* has a real port.                                                         *)
ProxyProgress(i) ==
    /\ Freed(i) => Freed(i)'
    /\ pc[i] \notin Unconnected => pc'[i] \notin Unconnected
    /\ pc[i] \in Unconnected /\ pc'[i] \notin Unconnected => port[i] # Unbound
    /\ pc'[i] = "freeing" =>
          reply'[i] = "none" \/ (pc[i] = "freeing" /\ UNCHANGED reply)

LEMMA ProxyProgresses ==
    ASSUME IInv, NEW i \in Instances,
           ProxyStep(i) \/ UserStep(i) \/ SpuriousWake(i)
    PROVE  ProxyProgress(i)
<1> USE DEF IInv, TypeOK, ProcessTypeOK, Requests, Connected, Freed, Unconnected,
            ProxyProgress, processVars, networkVars, Goto
<1>1. CASE Lock(i)
    BY <1>1 DEF Lock
<1>2. CASE Sleep(i)
    BY <1>2 DEF Sleep
<1>3. CASE LeaveScope(i)
    BY <1>3 DEF LeaveScope
<1>4. CASE Wake(i)
    BY <1>4 DEF Wake
<1>5. CASE CheckPort(i)
    BY <1>5 DEF CheckPort
<1>6. CASE ThrowUnableToBind(i)
    BY <1>6 DEF ThrowUnableToBind
<1>7. CASE Open(i)
    BY <1>7 DEF Open, TerminateHost
<1>8. CASE InstantiateReturns(i)
    BY <1>8 DEF InstantiateReturns, Throws, Answered, Broken, TerminateHost
<1>9. CASE InvokeReturns(i)
    BY <1>9 DEF InvokeReturns, Throws, Answered, Broken
<1>10. CASE FreeReturns(i)
    BY <1>10 DEF FreeReturns, TerminateHost, Throws, Answered, Broken
<1>11. CASE Join(i)
    BY <1>11 DEF Join, Disconnect
<1>12. CASE Construct(i)
    BY <1>12 DEF Construct
<1>13. CASE Invoke(i)
    BY <1>13 DEF Invoke
<1>14. CASE FreeInstance(i)
  <2>1. pc[i] = "ready" /\ reply[i] = "none"
    BY <1>14 DEF FreeInstance
  <2> QED  BY <1>14, <2>1 DEF FreeInstance
<1>15. CASE Destroy(i)
    BY <1>15 DEF Destroy, TerminateHost, Disconnect
<1>16. CASE SpuriousWake(i)
    BY <1>16 DEF SpuriousWake
<1> QED  BY <1>1, <1>2, <1>3, <1>4, <1>5, <1>6, <1>7, <1>8, <1>9, <1>10,
       <1>11, <1>12, <1>13, <1>14, <1>15, <1>16 DEF ProxyStep, UserStep

(* When the connection of a request breaks, some child died late: the       *)
(* slave's own, unless its client is over or another one's died.            *)
LEMMA BrokenByLateDeath ==
    ASSUME IInv, Sessions, Endings, NEW i \in Instances,
           pc[i] = "freeing", Broken(i)
    PROVE  SomeDiedLate
<1>1. PICK j \in Instances : conn[i] = j /\ child[j] = "exited"
  BY DEF Broken, IInv, TypeOK, ProcessTypeOK
<1>2. child[i] = "exited"
  BY <1>1 DEF IInv, Connections
<1>3. ~Freed(i)
  BY DEF Broken, Freed
<1>4. CASE status[i] # 0
  BY <1>4 DEF SomeDiedLate, DiedLate, Unconnected
<1>5. CASE status[i] = 0
  BY <1>2, <1>3, <1>5 DEF Endings
<1> QED  BY <1>4, <1>5

(* The steps of a slave that end the host.                                  *)
LEMMA ProxyEndsHost ==
    ASSUME IInv, Sessions, Endings, host = "up", NEW i \in Instances,
           ProxyStep(i) \/ UserStep(i) \/ SpuriousWake(i),
           host' = "terminated"
    PROVE  \/ pc'[i] = "instantiating" /\ reply'[i] = "none" /\ call'[i] = "none"
           \/ SomeDiedLate
<1> USE DEF IInv, TypeOK, ProcessTypeOK
<1>1. CASE Open(i)
  <2>1. pc[i] = "connecting" /\ \A j \in Instances : listen[j] # port[i]
    BY <1>1 DEF Open
  <2>2. CASE port[i] = Unbound
    BY <2>1, <2>2 DEF Endings, SomeDiedLate, DiedLate, Unconnected
  <2>3. CASE port[i] # Unbound
    <3>1. port[i] \in Ports
      <4>1. port[i] \in Ports \cup {Unset, Unbound}
        BY DEF WatchTypeOK
      <4>2. port[i] # Unset
        BY <2>1 DEF Handover, InScope
      <4> QED  BY <2>3, <4>1, <4>2
    <3>2. child[i] = "exited"
      BY <2>1, <3>1 DEF Listening
    <3> QED  BY <2>1, <3>2 DEF Endings, Freed, SomeDiedLate, DiedLate, Unconnected
  <2> QED  BY <2>2, <2>3
<1>2. CASE InstantiateReturns(i)
  BY <1>2 DEF InstantiateReturns, Throws, Answered, Broken, Requests
<1>3. CASE FreeReturns(i)
  <2>1. pc[i] = "freeing" /\ Throws(i)
    BY <1>3 DEF FreeReturns, Goto
  <2>2. Broken(i)
    BY <2>1 DEF Throws, Answered, Endings
  <2> QED  BY <2>1, <2>2, BrokenByLateDeath
<1>4. CASE Destroy(i)
  BY <1>4 DEF Destroy, Endings
<1>5. CASE ~(Open(i) \/ InstantiateReturns(i) \/ FreeReturns(i) \/ Destroy(i))
  BY <1>5 DEF ProxyStep, UserStep, SpuriousWake, Lock, Sleep, LeaveScope, Wake,
       CheckPort, ThrowUnableToBind, InvokeReturns, Join, Construct, Invoke,
       FreeInstance, watchVars
<1> QED  BY <1>1, <1>2, <1>3, <1>4, <1>5

LEMMA ProxyEndings ==
    ASSUME IInv, Sessions, Endings, host = "up", NEW i \in Instances,
           ProxyStep(i) \/ UserStep(i) \/ SpuriousWake(i)
    PROVE  Endings'
<1> USE DEF IInv
<1>1. ProxyEffect(i) /\ ProxyProgress(i)
  BY ProxyHasEffect, ProxyProgresses
<1>2. UNCHANGED <<child, status, port>>
  BY DEF ProxyStep, UserStep, Lock, Sleep, LeaveScope, Wake, CheckPort,
         ThrowUnableToBind, Open, InstantiateReturns, InvokeReturns,
         FreeReturns, Join, Construct, Invoke, FreeInstance, Destroy,
         SpuriousWake, processVars, serverVars, watchVars
<1>3. SomeDiedLate => SomeDiedLate'
  BY <1>1, <1>2 DEF SomeDiedLate, DiedLate, ProxyEffect, ProxyProgress
<1>4. HostEndsOnlyByFault'
  <2>1. CASE host' = "terminated"
    BY <1>3, <2>1, ProxyEndsHost DEF HostEndsOnlyByFault, SomeDiedLate
  <2>2. CASE host' # "terminated"
    BY <2>2 DEF HostEndsOnlyByFault
  <2> QED  BY <2>1, <2>2
<1>5. pc'[i] = "broken" => SomeDiedLate
  <2>1. CASE FreeReturns(i)
    <3>1. CASE Throws(i) /\ pc[i] = "freeing"
      BY <3>1, BrokenByLateDeath DEF Throws, Answered, Endings
    <3>2. CASE Goto(i, "freeing", "joining")
      BY <3>2 DEF Goto, TypeOK
    <3> QED  BY <2>1, <3>1, <3>2 DEF FreeReturns, Goto
  <2>2. CASE ~FreeReturns(i)
    <3>1. pc'[i] = "broken" => pc[i] = "broken"
      BY <2>2 DEF ProxyStep, UserStep, Lock, Sleep, LeaveScope, Wake, CheckPort,
         ThrowUnableToBind, Open, InstantiateReturns, InvokeReturns, Join,
         Construct, Invoke, FreeInstance, Destroy, SpuriousWake, Goto, TypeOK
    <3> QED  BY <3>1 DEF Endings
  <2> QED  BY <2>1, <2>2
<1>6. ASSUME NEW k \in Instances
      PROVE  /\ status'[k] # 0 => child'[k] = "exited"
             /\ pc'[k] = "freeing" => reply'[k] # "exception"
             /\ pc'[k] = "broken" => SomeDiedLate'
             /\ port'[k] = Unbound /\ pc'[k] \notin Unconnected => status'[k] # 0
             /\ child'[k] = "stopping" \/ (child'[k] = "exited" /\ status'[k] = 0)
                   => Freed(k)' \/ SomeDiedLate'
  <2>1. CASE k = i
    BY <1>1, <1>2, <1>3, <1>5, <2>1 DEF Endings, ProxyProgress
  <2>2. CASE k # i
    BY <1>1, <1>2, <1>3, <2>2 DEF Endings, ProxyEffect, Freed
  <2> QED  BY <2>1, <2>2
<1> QED  BY <1>4, <1>6 DEF Endings

-----------------------------------------------------------------------------
LEMMA EndInvariantInit == Init => Sessions /\ Endings
<1> SUFFICES ASSUME Init PROVE Sessions /\ Endings
  OBVIOUS
<1> USE ConstantsAssumption DEF Init, ProcessInit, WatchInit
<1>1. Sessions
  BY DEF Sessions, Freed
<1>2. Endings
  BY DEF Endings, HostEndsOnlyByFault, Unset, Unbound
<1> QED  BY <1>1, <1>2

LEMMA EndInvariantStep ==
    IInv /\ Sessions /\ Endings /\ [Next]_vars => Sessions' /\ Endings'
<1> SUFFICES ASSUME IInv, Sessions, Endings, [Next]_vars
             PROVE  Sessions' /\ Endings'
  OBVIOUS
<1>1. CASE UNCHANGED vars
  BY <1>1 DEF vars, processVars, serverVars, networkVars, watchVars, proxyVars,
       Sessions, Over, Freed, Endings, HostEndsOnlyByFault, SomeDiedLate, DiedLate
<1>2. ASSUME NEW i \in Instances, ChildStep(i)
      PROVE  Sessions' /\ Endings'
  BY <1>2, ChildSessions, ChildEndings
<1>3. ASSUME NEW i \in Instances, host = "up", WatchStep(i), UNCHANGED proxyVars
      PROVE  Sessions' /\ Endings'
  BY <1>3, WatchSessions, WatchEndings
<1>4. ASSUME NEW i \in Instances, host = "up",
             ProxyStep(i) \/ UserStep(i) \/ SpuriousWake(i)
      PROVE  Sessions' /\ Endings'
  BY <1>4, ProxySessions, ProxyEndings
<1> QED  BY <1>1, <1>2, <1>3, <1>4 DEF Next, HostStep

LEMMA EndInvariant == Spec => [](Sessions /\ Endings)
BY Invariant, EndInvariantInit, EndInvariantStep, PTL DEF Spec

(* As long as the host lives no instantiate is handled where another slave  *)
(* lives, and so none is overwritten (fmu_service_handler.cpp:22), for any  *)
(* number of instances and any child that dies at any moment. After its end *)
(* a crossed client's instantiate may still wait in a child's backlog, and  *)
(* overwrite a slave that nobody can use any more.                          *)
THEOREM NoSlaveIsOverwritten == Spec => []SlavesAreKept
<1>1. Sessions => SlavesAreKept
  BY ConstantsAssumption DEF Sessions, Over, SlavesAreKept, InstantiateFindsNoSlave
<1> QED  BY <1>1, EndInvariant, PTL

(* The host is terminated only by a child that cannot be launched, an FMU   *)
(* that cannot be instantiated, or a child that died after its slave had    *)
(* its port (process_helper.hpp:46, proxy_slave.cpp:105, 107, 228).         *)
THEOREM HostEndsByFaultOnly == Spec => []HostEndsOnlyByFault
<1>1. Endings => HostEndsOnlyByFault
  BY DEF Endings
<1> QED  BY <1>1, EndInvariant, PTL
=============================================================================
