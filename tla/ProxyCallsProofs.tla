--------------------------- MODULE ProxyCallsProofs --------------------------
(***************************************************************************)
(* The calls of a proxy_slave are those of a slave, for FMUs with any      *)
(* variables and values and experiments with any times. The invariant says *)
(* of the message on the connection to which call it belongs, and of the   *)
(* members of fmi1_slave that they hold the experiment asked for.          *)
(***************************************************************************)
EXTENDS ProxyCalls, TLAPS

USE ConstantsAssumption

(* A reply that is not to a read carries no values. *)
Correspondence ==
    /\ OneMessage
    /\ reply # None /\ want.op # "get" /\ reply.kind = "reply" => reply.value = <<>>

(* What will be told, or has been told, is what was asked for. *)
Remembered ==
    /\ version = 1 /\ Starting /\ asked # None => asked = Told(start_time, stop_time)
    /\ version = 2 => asked = fmu.told
    /\ StartsAsAsked

IInv == TypeOK /\ Correspondence /\ Remembered

-----------------------------------------------------------------------------
(* Lemmas on what is sent. *)

LEMMA OpOfRequests ==
    ASSUME NEW r \in Calls!Requests
    PROVE  /\ r.op \in {"setup", "enter", "exit", "step", "terminate", "state", "get", "set"}
           /\ r.op = "setup" => r.start \in Starts /\ r.stop \in Stops
           /\ r.op = "get" => r.vr \in Calls!References
           /\ r.op = "set" => r.vr \in Calls!References /\ r.values \in [DOMAIN r.vr -> Values]
  BY DEF Calls!Requests

LEMMA ListsOfLength ==
    ASSUME NEW vr \in Calls!References
    PROVE  /\ \E n \in 0 .. MaxLen : DOMAIN vr = 1 .. n
           /\ \A k \in DOMAIN vr : vr[k] \in Vars
           /\ [DOMAIN vr -> Values] \subseteq Calls!ValueLists
  <1>1. PICK n \in 0 .. MaxLen : vr \in [1 .. n -> Vars] BY DEF Calls!References
  <1>2. DOMAIN vr = 1 .. n BY <1>1
  <1>3. [DOMAIN vr -> Values] \subseteq Calls!ValueLists BY <1>2 DEF Calls!ValueLists
  <1> QED BY <1>1, <1>2, <1>3

LEMMA EmptyList == <<>> \in Calls!ValueLists
  <1>1. <<>> \in [1 .. 0 -> Values] OBVIOUS
  <1> QED BY <1>1 DEF Calls!ValueLists

LEMMA SelectedType ==
    ASSUME NEW vals \in [Vars -> Values], NEW vr \in Calls!References
    PROVE  Calls!Selected(vals, vr) \in [DOMAIN vr -> Values]
  BY ListsOfLength DEF Calls!Selected

LEMMA AssignedType ==
    ASSUME NEW vals \in [Vars -> Values], NEW vr \in Calls!References,
           NEW values \in [DOMAIN vr -> Values]
    PROVE  Calls!Assigned(vals, vr, values) \in [Vars -> Values]
  <1> SUFFICES ASSUME NEW v \in Vars
               PROVE  (IF \E n \in DOMAIN vr : vr[n] = v
                       THEN values[CHOOSE n \in DOMAIN vr : vr[n] = v]
                       ELSE vals[v]) \in Values
    BY DEF Calls!Assigned
  <1>1. CASE \E n \in DOMAIN vr : vr[n] = v
    <2>1. (CHOOSE n \in DOMAIN vr : vr[n] = v) \in DOMAIN vr BY <1>1
    <2> QED BY <1>1, <2>1
  <1>2. CASE ~ \E n \in DOMAIN vr : vr[n] = v BY <1>2
  <1> QED BY <1>1, <1>2

LEMMA ToldType ==
    ASSUME NEW start \in Starts, NEW stop \in Stops
    PROVE  /\ Told(start, stop) \in Calls!Experiments
           /\ Told(start, stop) # None
           /\ Told(start, stop) = Calls!Experiment(start, stop)
  BY NoneAssumption DEF Told, Calls!Experiments, Calls!Experiment

-----------------------------------------------------------------------------
(* Types. *)

FmuType == [phase : Calls!Phases, vals : [Vars -> Values],
            told : Calls!Experiments \cup {None}, times : Calls!Experiments \cup {None}]

ReplyType == [kind : {"reply"}, status : Statuses, value : Calls!ValueLists]

LEMMA AnswerType ==
    ASSUME NEW ok \in BOOLEAN, NEW value \in Calls!ValueLists, Answer(ok, value)
    PROVE  /\ reply' \in ReplyType
           /\ reply' # None
           /\ reply'.kind = "reply" /\ reply'.value = value
           /\ reply'.status = "OK_STATUS" <=> ok
  BY NoneAssumption DEF Answer, ReplyType, Statuses

LEMMA AskType ==
    ASSUME fmu \in FmuType, NEW state \in FmuType, NEW fits \in BOOLEAN, Ask(fits, state)
    PROVE  /\ fmu' \in FmuType
           /\ reply' \in ReplyType /\ reply' # None
           /\ reply'.kind = "reply" /\ reply'.value = <<>>
           /\ fmu' = fmu \/ (fits /\ fmu' = state)
           /\ reply'.status = "OK_STATUS" => fits /\ fmu' = state
  <1>1. PICK taken \in BOOLEAN, ok \in BOOLEAN :
            /\ taken => fits
            /\ ok => taken
            /\ fmu' = IF taken THEN state ELSE fmu
            /\ Answer(ok, <<>>)
    BY DEF Ask
  <1>2. /\ reply' \in ReplyType /\ reply' # None
        /\ reply'.kind = "reply" /\ reply'.value = <<>>
        /\ reply'.status = "OK_STATUS" <=> ok
    BY <1>1, EmptyList, AnswerType
  <1> QED BY <1>1, <1>2

(* The simulation, as the caller is promised one. *)
Sim == [phase |-> fmu.phase, vals |-> fmu.vals, experiment |-> asked, times |-> fmu.times]

Typed ==
    /\ version \in Versions
    /\ fmu \in FmuType
    /\ start_time \in Starts /\ stop_time \in Stops
    /\ asked \in Calls!Experiments \cup {None}

(* What every request does but a read and a state call. *)
Effect ==
    /\ Typed' /\ Remembered'
    /\ reply' \in ReplyType /\ reply' # None
    /\ reply'.kind = "reply" /\ reply'.value = <<>>
    /\ Sim' \in Calls!After(Sim, request) \cup {Sim}
    /\ reply'.status = "OK_STATUS" => Sim' \in Calls!After(Sim, request)

LEMMA SetupEffect ==
    ASSUME Typed, Remembered, request \in Calls!Requests, request.op = "setup",
           SetupExperiment(request), UNCHANGED version
    PROVE  Effect
  <1> DEFINE e == Told(request.start, request.stop)
  <1>1. request.start \in Starts /\ request.stop \in Stops BY OpOfRequests
  <1>2. e \in Calls!Experiments /\ e # None /\ e = Calls!Experiment(request.start, request.stop)
    BY <1>1, ToldType
  <1>3. Calls!After(Sim, request) =
            {IF Starting THEN [Sim EXCEPT !.experiment = e] ELSE Sim}
    BY <1>2 DEF Calls!After, Calls!Starting, Starting, Sim
  <1> HIDE DEF e
  <1>4. CASE SetupFmi1(request)
    <2>1. /\ version = 1 /\ version' = 1
          /\ start_time' = request.start /\ stop_time' = request.stop
          /\ asked' = IF Starting THEN e ELSE asked
          /\ fmu' = fmu
          /\ Answer(TRUE, <<>>)
      BY <1>4 DEF SetupFmi1, e
    <2>2. /\ reply' \in ReplyType /\ reply' # None
          /\ reply'.kind = "reply" /\ reply'.value = <<>>
      BY <2>1, EmptyList, AnswerType
    <2>3. Typed' BY <1>1, <1>2, <2>1 DEF Typed
    <2>4. Remembered'
      BY <2>1 DEF Remembered, StartsAsAsked, Starting, Typed, FmuType, Calls!Phases, e
    <2>5. Sim' \in Calls!After(Sim, request)
      BY <1>3, <2>1 DEF Sim
    <2> QED BY <2>2, <2>3, <2>4, <2>5 DEF Effect
  <1>5. CASE SetupFmi2(request)
    <2> DEFINE state == [fmu EXCEPT !.told = e]
    <2>1. /\ version = 2 /\ version' = 2
          /\ Ask(fmu.phase = "created", state)
          /\ asked' = fmu'.told
          /\ UNCHANGED members
      BY <1>5 DEF SetupFmi2, e
    <2>2. state \in FmuType BY <1>2 DEF Typed, FmuType
    <2> HIDE DEF state
    <2>3. /\ fmu' \in FmuType
          /\ reply' \in ReplyType /\ reply' # None
          /\ reply'.kind = "reply" /\ reply'.value = <<>>
          /\ fmu' = fmu \/ (fmu.phase = "created" /\ fmu' = state)
          /\ reply'.status = "OK_STATUS" => fmu.phase = "created" /\ fmu' = state
      BY <2>1, <2>2, AskType DEF Typed
    <2>4. Typed' BY <2>1, <2>3 DEF Typed, FmuType, members
    <2>5. asked = fmu.told BY <2>1 DEF Remembered
    <2>6. Remembered'
      BY <2>1, <2>3, <2>5 DEF Remembered, StartsAsAsked, Typed, FmuType, state
    <2>7. fmu' = fmu => Sim' = Sim BY <2>1, <2>5 DEF Sim
    <2>8. fmu.phase = "created" /\ fmu' = state => Sim' \in Calls!After(Sim, request)
      BY <1>3, <2>1 DEF Sim, Starting, state, Typed, FmuType
    <2> QED BY <2>3, <2>4, <2>6, <2>7, <2>8 DEF Effect
  <1> QED BY <1>4, <1>5 DEF SetupExperiment

(* The FMU's part of the other requests. *)
LEMMA AskEffect ==
    ASSUME Typed, Remembered, NEW state \in FmuType, NEW fits \in BOOLEAN,
           Ask(fits, state), UNCHANGED <<version, members, asked>>,
           state.told = fmu.told,
           fits => \/ state.phase = fmu.phase /\ state.times = fmu.times
                   \/ Starting /\ state.phase = "initializing" /\ state.times = fmu.times
                   \/ Starting /\ (asked # None => state.times = asked)
                      /\ state.phase = "running"
                   \/ fmu.phase = "running" /\ state.phase = "ended" /\ state.times = fmu.times,
           fits => [phase |-> state.phase, vals |-> state.vals,
                    experiment |-> asked, times |-> state.times] \in Calls!After(Sim, request)
    PROVE  Effect
  <1>1. /\ fmu' \in FmuType
        /\ reply' \in ReplyType /\ reply' # None
        /\ reply'.kind = "reply" /\ reply'.value = <<>>
        /\ fmu' = fmu \/ (fits /\ fmu' = state)
        /\ reply'.status = "OK_STATUS" => fits /\ fmu' = state
    BY AskType DEF Typed
  <1>2. Typed' BY <1>1 DEF Typed, members
  <1>3. fmu' = fmu => Sim' = Sim /\ Remembered'
    BY DEF Sim, members, Remembered, StartsAsAsked, Starting
  <1>4. fits /\ fmu' = state => Sim' \in Calls!After(Sim, request)
    BY DEF Sim
  <1>5. fits /\ fmu' = state => Remembered'
    BY DEF members, Remembered, StartsAsAsked, Starting
  <1> QED BY <1>1, <1>2, <1>3, <1>4, <1>5 DEF Effect

LEMMA EnterEffect ==
    ASSUME Typed, Remembered, request.op = "enter",
           EnterInitializationMode, UNCHANGED version
    PROVE  Effect
  <1> DEFINE state == [fmu EXCEPT !.phase = "initializing"]
  <1>1. Calls!After(Sim, request) =
            {Sim} \cup IF Starting THEN {[Sim EXCEPT !.phase = "initializing"]} ELSE {}
    BY DEF Calls!After, Calls!Starting, Starting, Sim
  <1>2. UNCHANGED <<version, members, asked>> BY DEF EnterInitializationMode
  <1>3. CASE version = 1 /\ Answer(TRUE, <<>>) /\ UNCHANGED fmu
    <2>1. /\ reply' \in ReplyType /\ reply' # None
          /\ reply'.kind = "reply" /\ reply'.value = <<>>
      BY <1>3, EmptyList, AnswerType
    <2>2. Typed' /\ Remembered' /\ Sim' = Sim
      BY <1>2, <1>3 DEF Typed, Remembered, StartsAsAsked, Starting, Sim, members
    <2> QED BY <1>1, <2>1, <2>2 DEF Effect
  <1>4. CASE version = 2 /\ Ask(fmu.phase = "created", state)
    <2>1. state \in FmuType /\ state.told = fmu.told /\ state.times = fmu.times
          /\ state.phase = "initializing" /\ state.vals = fmu.vals
      BY DEF Typed, FmuType, Calls!Phases
    <2> HIDE DEF state
    <2>2. fmu.phase = "created" =>
             [phase |-> state.phase, vals |-> state.vals,
              experiment |-> asked, times |-> state.times] \in Calls!After(Sim, request)
      BY <1>1, <2>1 DEF Starting, Sim
    <2> QED BY <1>2, <1>4, <2>1, <2>2, AskEffect DEF Starting
  <1> QED BY <1>3, <1>4 DEF EnterInitializationMode

LEMMA ExitEffect ==
    ASSUME Typed, Remembered, request.op = "exit",
           ExitInitializationMode, UNCHANGED version
    PROVE  Effect
  <1> DEFINE state(times) == [fmu EXCEPT !.phase = "running", !.times = times]
  <1>1. Starting => Calls!After(Sim, request) =
            {[phase |-> "running", vals |-> fmu.vals, experiment |-> asked, times |-> t] :
                t \in IF asked = None THEN Calls!Experiments \cup {None} ELSE {asked}}
    BY DEF Calls!After, Calls!Starting, Starting, Sim
  <1>2. UNCHANGED <<version, members, asked>> BY DEF ExitInitializationMode
  <1>3. ASSUME NEW fits \in BOOLEAN, NEW times \in Calls!Experiments, Ask(fits, state(times)),
               fits => Starting, asked # None => times = asked
        PROVE  Effect
    <2> DEFINE st == state(times)
    <2>1. /\ st \in FmuType
          /\ st.told = fmu.told /\ st.times = times
          /\ st.phase = "running" /\ st.vals = fmu.vals
      BY DEF Typed, FmuType, Calls!Phases
    <2>2. Ask(fits, st) BY <1>3
    <2> HIDE DEF st
    <2>3. fits => [phase |-> st.phase, vals |-> st.vals,
                   experiment |-> asked, times |-> st.times] \in Calls!After(Sim, request)
      BY <1>1, <1>3, <2>1
    <2> QED BY <1>2, <1>3, <2>1, <2>2, <2>3, AskEffect
  <1>4. CASE version = 1 /\ Ask(Starting, state(Told(start_time, stop_time)))
    <2>1. Told(start_time, stop_time) \in Calls!Experiments BY ToldType DEF Typed
    <2>2. Starting \in BOOLEAN BY DEF Starting
    <2>3. CASE Starting
      <3>1. asked # None => Told(start_time, stop_time) = asked
        BY <1>4, <2>3 DEF Remembered
      <3> QED BY <1>3, <1>4, <2>1, <2>2, <2>3, <3>1
    <2>4. CASE ~Starting
      <3>1. Ask(FALSE, fmu) BY <1>4, <2>4 DEF Ask
      <3> QED BY <1>2, <3>1, AskEffect DEF Typed
    <2> QED BY <2>3, <2>4
  <1>5. CASE version = 2 /\ \E times \in IF fmu.told = None THEN Calls!Experiments
                                                            ELSE {fmu.told} :
                               Ask(fmu.phase = "initializing", state(times))
    <2>1. PICK times \in IF fmu.told = None THEN Calls!Experiments ELSE {fmu.told} :
              Ask(fmu.phase = "initializing", state(times))
      BY <1>5
    <2>2. times \in Calls!Experiments /\ (asked # None => times = asked)
      BY <1>5 DEF Typed, FmuType, Remembered
    <2>3. fmu.phase = "initializing" => Starting BY DEF Starting
    <2> QED BY <1>3, <2>1, <2>2, <2>3
  <1> QED BY <1>4, <1>5 DEF ExitInitializationMode

LEMMA StepEffect ==
    ASSUME Typed, Remembered, request.op = "step", Step, UNCHANGED version
    PROVE  Effect
  <1>1. PICK vals \in [Vars -> Values] : Ask(fmu.phase = "running", [fmu EXCEPT !.vals = vals])
    BY DEF Step
  <1> DEFINE st == [fmu EXCEPT !.vals = vals]
  <1>2. /\ st \in FmuType
        /\ st.told = fmu.told /\ st.times = fmu.times
        /\ st.phase = fmu.phase /\ st.vals = vals
    BY DEF Typed, FmuType
  <1>3. Ask(fmu.phase = "running", st) BY <1>1
  <1> HIDE DEF st
  <1>4. fmu.phase = "running" =>
            Calls!After(Sim, request) = {[Sim EXCEPT !.vals = v] : v \in [Vars -> Values]}
    BY DEF Calls!After, Sim
  <1>5. fmu.phase = "running" =>
            [phase |-> st.phase, vals |-> st.vals,
             experiment |-> asked, times |-> st.times] \in Calls!After(Sim, request)
    BY <1>2, <1>4 DEF Sim
  <1> QED BY <1>2, <1>3, <1>5, AskEffect DEF Step

LEMMA TerminateEffect ==
    ASSUME Typed, Remembered, request.op = "terminate", Terminate, UNCHANGED version
    PROVE  Effect
  <1> DEFINE st == [fmu EXCEPT !.phase = "ended"]
  <1>1. /\ st \in FmuType
        /\ st.told = fmu.told /\ st.times = fmu.times
        /\ st.phase = "ended" /\ st.vals = fmu.vals
    BY DEF Typed, FmuType, Calls!Phases
  <1>2. Ask(fmu.phase = "running", st) BY DEF Terminate
  <1> HIDE DEF st
  <1>3. fmu.phase = "running" =>
            [phase |-> st.phase, vals |-> st.vals,
             experiment |-> asked, times |-> st.times] \in Calls!After(Sim, request)
    BY <1>1 DEF Calls!After, Sim
  <1> QED BY <1>1, <1>2, <1>3, AskEffect DEF Terminate

LEMMA WriteEffect ==
    ASSUME Typed, Remembered, request \in Calls!Requests, request.op = "set",
           Write(request), UNCHANGED version
    PROVE  Effect
  <1> DEFINE vals == Calls!Assigned(fmu.vals, request.vr, request.values)
             st == [fmu EXCEPT !.vals = vals]
  <1>1. vals \in [Vars -> Values] BY OpOfRequests, AssignedType DEF Typed, FmuType
  <1>2. Calls!After(Sim, request) = {[Sim EXCEPT !.vals = vals]}
    BY DEF Calls!After, Sim
  <1>3. Ask(TRUE, st) BY DEF Write
  <1> HIDE DEF vals
  <1>4. /\ st \in FmuType
        /\ st.told = fmu.told /\ st.times = fmu.times
        /\ st.phase = fmu.phase /\ st.vals = vals
    BY <1>1 DEF Typed, FmuType
  <1> HIDE DEF st
  <1>5. [phase |-> st.phase, vals |-> st.vals,
         experiment |-> asked, times |-> st.times] \in Calls!After(Sim, request)
    BY <1>2, <1>4 DEF Sim
  <1> QED BY <1>3, <1>4, <1>5, AskEffect DEF Write

-----------------------------------------------------------------------------
(* Handling a request. *)

(* The three ways it goes. *)
Served ==
    /\ request.op # "get" /\ Effect
    /\ UNCHANGED <<version, child>>

Unsupported ==
    /\ request.op = "state"
    /\ reply' = [kind |-> "undeclared"]
    /\ UNCHANGED <<slaveVars, child>>

HasRead ==
    /\ request.op = "get"
    /\ \/ /\ reply' \in ReplyType /\ reply' # None /\ reply'.kind = "reply"
          /\ reply'.value \in [DOMAIN request.vr -> Values]
          /\ reply'.status = "OK_STATUS" =>
                reply'.value = Calls!Selected(fmu.vals, request.vr)
          /\ UNCHANGED child
       \/ child' = "dead" /\ UNCHANGED reply
    /\ UNCHANGED slaveVars

LEMMA HandleCases ==
    ASSUME IInv, Handle
    PROVE  /\ child = "up" /\ request # None /\ request = want /\ reply = None
           /\ request \in Calls!Requests
           /\ request' = None /\ UNCHANGED <<want, given>>
           /\ Served \/ Unsupported \/ HasRead
  <1>1. /\ child = "up" /\ request # None /\ request = want /\ reply = None
        /\ request \in Calls!Requests
        /\ request' = None /\ UNCHANGED <<version, want, given>>
    BY DEF IInv, TypeOK, Correspondence, OneMessage, Handle
  <1>2. Typed /\ Remembered BY DEF IInv, TypeOK, Typed, FmuType
  <1>3. ASSUME request.op = "get", Read(request)
        PROVE  HasRead
    <2>0. UNCHANGED slaveVars BY <1>3 DEF Read
    <2>1. request.vr \in Calls!References BY <1>1, <1>3, OpOfRequests
    <2>2. [DOMAIN request.vr -> Values] \subseteq Calls!ValueLists BY <2>1, ListsOfLength
    <2>3. CASE /\ \E ok \in BOOLEAN : Answer(ok, Calls!Selected(fmu.vals, request.vr))
               /\ UNCHANGED child
      <3>1. Calls!Selected(fmu.vals, request.vr) \in [DOMAIN request.vr -> Values]
        BY <1>2, <2>1, SelectedType DEF Typed, FmuType
      <3>2. /\ reply' \in ReplyType /\ reply' # None /\ reply'.kind = "reply"
            /\ reply'.value = Calls!Selected(fmu.vals, request.vr)
        BY <2>2, <2>3, <3>1, AnswerType
      <3> QED BY <1>3, <2>0, <2>3, <3>1, <3>2 DEF HasRead
    <2>4. CASE /\ \E list \in [DOMAIN request.vr -> Values] : Answer(FALSE, list)
               /\ UNCHANGED child
      <3>1. PICK list \in [DOMAIN request.vr -> Values] : Answer(FALSE, list) BY <2>4
      <3>2. /\ reply' \in ReplyType /\ reply' # None /\ reply'.kind = "reply"
            /\ reply'.value = list /\ reply'.status # "OK_STATUS"
        BY <2>2, <3>1, NoneAssumption DEF Answer, ReplyType, Statuses
      <3> QED BY <1>3, <2>0, <2>4, <3>2 DEF HasRead
    <2>5. CASE child' = "dead" /\ UNCHANGED reply BY <1>3, <2>0, <2>5 DEF HasRead
    <2> QED BY <1>1, <1>3, <2>3, <2>4, <2>5 DEF Read
  <1>4. CASE /\ \/ request.op = "setup" /\ SetupExperiment(request)
                \/ request.op = "enter" /\ EnterInitializationMode
                \/ request.op = "exit" /\ ExitInitializationMode
                \/ request.op = "step" /\ Step
                \/ request.op = "terminate" /\ Terminate
                \/ request.op = "set" /\ Write(request)
             /\ UNCHANGED child
    <2>1. Effect
      BY <1>1, <1>2, <1>4, SetupEffect, EnterEffect, ExitEffect, StepEffect,
         TerminateEffect, WriteEffect
    <2> QED BY <1>1, <1>4, <2>1 DEF Served
  <1>5. CASE request.op = "state" /\ StateCall /\ UNCHANGED child
    BY <1>1, <1>5 DEF Unsupported, StateCall
  <1> QED BY <1>1, <1>3, <1>4, <1>5 DEF Handle

-----------------------------------------------------------------------------
(* The invariant. *)

LEMMA InitInv == Init => IInv
  <1> SUFFICES ASSUME Init PROVE IInv OBVIOUS
  <1>1. TypeOK BY DEF Init, TypeOK, Calls!Phases
  <1>2. Correspondence BY DEF Init, Correspondence, OneMessage
  <1>3. Remembered BY DEF Init, Remembered, StartsAsAsked
  <1> QED BY <1>1, <1>2, <1>3 DEF IInv

LEMMA CallInv ==
    ASSUME IInv, NEW r \in Calls!Requests, Call(r)
    PROVE  IInv'
  <1>1. r # None /\ reply = None
    BY NoneAssumption DEF IInv, Correspondence, OneMessage, Call
  <1>2. TypeOK' BY DEF IInv, TypeOK, Call, slaveVars, members
  <1>3. Correspondence' BY <1>1 DEF Correspondence, OneMessage, Call
  <1>4. Remembered'
    BY DEF IInv, Remembered, StartsAsAsked, Starting, Call, slaveVars, members
  <1> QED BY <1>2, <1>3, <1>4 DEF IInv

LEMMA HandleInv ==
    ASSUME IInv, Handle
    PROVE  IInv'
  <1>1. /\ request # None /\ request = want /\ reply = None /\ request \in Calls!Requests
        /\ request' = None /\ UNCHANGED <<want, given>>
        /\ Served \/ Unsupported \/ HasRead
    BY HandleCases
  <1>2. given \in Calls!Outcomes \cup {None} BY DEF IInv, TypeOK
  <1>3. CASE Served
    <2>1. TypeOK'
      BY <1>1, <1>2, <1>3 DEF Served, Effect, Typed, FmuType, ReplyType, TypeOK, IInv
    <2>2. Correspondence'
      BY <1>1, <1>3 DEF Served, Effect, Correspondence, OneMessage
    <2> QED BY <1>3, <2>1, <2>2 DEF Served, Effect, IInv
  <1>4. CASE Unsupported
    <2>1. TypeOK' BY <1>1, <1>4 DEF Unsupported, TypeOK, IInv, slaveVars, members
    <2>2. Correspondence' BY <1>1, <1>4 DEF Unsupported, Correspondence, OneMessage
    <2>3. Remembered'
      BY <1>4 DEF Unsupported, IInv, Remembered, StartsAsAsked, Starting, slaveVars, members
    <2> QED BY <2>1, <2>2, <2>3 DEF IInv
  <1>5. CASE HasRead
    <2>1. TypeOK' BY <1>1, <1>5 DEF HasRead, ReplyType, TypeOK, IInv, slaveVars, members
    <2>2. Correspondence' BY <1>1, <1>5 DEF HasRead, Correspondence, OneMessage
    <2>3. Remembered'
      BY <1>5 DEF HasRead, IInv, Remembered, StartsAsAsked, Starting, slaveVars, members
    <2> QED BY <2>1, <2>2, <2>3 DEF IInv
  <1> QED BY <1>1, <1>3, <1>4, <1>5

(* What the caller is given is what the reply says. *)
LEMMA ReturnGives ==
    ASSUME IInv, Return
    PROVE  /\ want # None
           /\ reply.kind # "undeclared" =>
                 given' = [kind |-> "returned", ok |-> reply.status = "OK_STATUS",
                           values |-> reply.value]
           /\ reply.kind = "undeclared" => given' = [kind |-> "undeclared"]
           /\ given' \in Calls!Outcomes
  <1>1. want # None /\ want \in Calls!Requests
    BY DEF IInv, Correspondence, OneMessage, Return, TypeOK
  <1>2. CASE reply.kind = "undeclared"
    <2>1. given' = [kind |-> "undeclared"] BY <1>2 DEF Return
    <2> QED BY <1>1, <1>2, <2>1 DEF Calls!Outcomes
  <1>3. CASE reply.kind # "undeclared"
    <2>1. reply \in ReplyType BY <1>3 DEF IInv, TypeOK, ReplyType, Return
    <2> DEFINE list == IF want.op = "get"
                       THEN [n \in DOMAIN want.vr |-> reply.value[n]] ELSE <<>>
    <2>2. given' = [kind |-> "returned", ok |-> reply.status = "OK_STATUS", values |-> list]
      BY <1>3 DEF Return
    <2>3. list = reply.value
      <3>1. CASE want.op = "get"
        <4>1. DOMAIN reply.value = DOMAIN want.vr
          BY <1>3, <2>1, <3>1 DEF IInv, Correspondence, OneMessage, Return, ReplyType
        <4>2. PICK n \in 0 .. MaxLen : reply.value \in [1 .. n -> Values]
          BY <2>1 DEF ReplyType, Calls!ValueLists
        <4>3. reply.value = [k \in DOMAIN reply.value |-> reply.value[k]] BY <4>2
        <4> QED BY <3>1, <4>1, <4>3
      <3>2. CASE want.op # "get"
        BY <1>3, <2>1, <3>2 DEF IInv, Correspondence, Return, ReplyType
      <3> QED BY <3>1, <3>2
    <2> HIDE DEF list
    <2>4. (reply.status = "OK_STATUS") \in BOOLEAN OBVIOUS
    <2>5. given' \in Calls!Outcomes
      BY <2>1, <2>2, <2>3, <2>4 DEF Calls!Outcomes, ReplyType
    <2> QED BY <1>1, <1>3, <2>2, <2>3, <2>5
  <1> QED BY <1>2, <1>3

LEMMA ReturnInv ==
    ASSUME IInv, Return
    PROVE  IInv'
  <1>1. given' \in Calls!Outcomes BY ReturnGives
  <1>2. TypeOK' BY <1>1 DEF IInv, TypeOK, Return, slaveVars, members
  <1>3. request = None BY DEF IInv, Correspondence, OneMessage, Return
  <1>4. Correspondence' BY <1>3 DEF Correspondence, OneMessage, Return
  <1>5. Remembered'
    BY DEF IInv, Remembered, StartsAsAsked, Starting, Return, slaveVars, members
  <1> QED BY <1>2, <1>4, <1>5 DEF IInv

LEMMA StepInv == IInv /\ [Next]_vars => IInv'
  <1> SUFFICES ASSUME IInv, [Next]_vars PROVE IInv' OBVIOUS
  <1>1. CASE \E r \in Calls!Requests : Call(r) BY <1>1, CallInv
  <1>2. CASE Handle BY <1>2, HandleInv
  <1>3. CASE Return BY <1>3, ReturnInv
  <1>4. CASE Crash
    <2>1. TypeOK' BY <1>4 DEF IInv, TypeOK, Crash, slaveVars, members
    <2>2. Correspondence' /\ Remembered'
      BY <1>4 DEF IInv, Correspondence, OneMessage, Remembered, StartsAsAsked, Starting,
                  Crash, slaveVars, members
    <2> QED BY <2>1, <2>2 DEF IInv
  <1>5. CASE Broken
    <2>1. [kind |-> "broken"] \in Calls!Outcomes BY DEF Calls!Outcomes
    <2>2. TypeOK' BY <1>5, <2>1 DEF IInv, TypeOK, Broken, slaveVars, members
    <2>3. Correspondence' /\ Remembered'
      BY <1>5 DEF IInv, Correspondence, OneMessage, Remembered, StartsAsAsked, Starting,
                  Broken, slaveVars, members
    <2> QED BY <2>2, <2>3 DEF IInv
  <1>6. CASE UNCHANGED vars
    BY <1>6 DEF IInv, TypeOK, Correspondence, OneMessage, Remembered, StartsAsAsked, Starting,
                vars, slaveVars, members
  <1> QED BY <1>1, <1>2, <1>3, <1>4, <1>5, <1>6 DEF Next

THEOREM Invariant == Spec => []IInv
  <1> QED BY InitInv, StepInv, PTL DEF Spec

(* Type correctness of the calls of a proxy_slave. *)
THEOREM TypeCorrect == Spec => []TypeOK
  <1>1. IInv => TypeOK BY DEF IInv
  <1> QED BY Invariant, <1>1, PTL

(* A simulation starts with the experiment that was set up last. *)
THEOREM ExperimentIsKept == Spec => []StartsAsAsked
  <1>1. IInv => StartsAsAsked BY DEF IInv, Remembered
  <1> QED BY Invariant, <1>1, PTL

(* No call is given the reply to another. *)
THEOREM RepliesCorrespond == Spec => []OneMessage
  <1>1. IInv => OneMessage BY DEF IInv, Correspondence
  <1> QED BY Invariant, <1>1, PTL

-----------------------------------------------------------------------------
(* The refinement. *)

(* What has come of the call the caller is in. *)
Done == IF reply = None THEN None
        ELSE IF reply.kind = "undeclared" THEN [kind |-> "undeclared"]
        ELSE [kind |-> "returned", ok |-> reply.status = "OK_STATUS", values |-> reply.value]

Gone == child = "dead"

LEMMA InitRefines == Init => Calls!Init
  <1> SUFFICES ASSUME Init PROVE Calls!Init OBVIOUS
  <1>1. fmu.phase = "created" /\ fmu.vals \in [Vars -> Values] /\ fmu.times = None
    BY DEF Init
  <1> QED BY <1>1 DEF Init, Calls!Init

(* A reply to a request the slave has taken, or refused. *)
LEMMA ServedPerforms ==
    ASSUME IInv, Handle, Served
    PROVE  Calls!Perform
  <1>1. /\ child = "up" /\ request # None /\ request = want /\ reply = None
        /\ UNCHANGED <<want, given>>
    BY HandleCases
  <1>2. /\ reply' \in ReplyType /\ reply' # None
        /\ reply'.kind = "reply" /\ reply'.value = <<>>
        /\ Sim' \in Calls!After(Sim, want) \cup {Sim}
        /\ reply'.status = "OK_STATUS" => Sim' \in Calls!After(Sim, want)
        /\ want.op # "get" /\ child' = child
    BY <1>1 DEF Served, Effect
  <1>3. Done = None /\ Gone = FALSE /\ Gone' = Gone BY <1>1, <1>2 DEF Done, Gone
  <1>4. CASE reply'.status = "OK_STATUS"
    <2>1. Done' = [kind |-> "returned", ok |-> TRUE, values |-> <<>>]
      BY <1>2, <1>4 DEF Done
    <2>2. Done' \in Calls!Answers(want, TRUE, {Calls!Selected(Sim.vals, want.vr)})
      BY <1>2, <2>1 DEF Calls!Answers
    <2> QED BY <1>1, <1>2, <1>3, <1>4, <2>2 DEF Calls!Perform, Sim, Done, Gone
  <1>5. CASE reply'.status # "OK_STATUS"
    <2>1. Done' = [kind |-> "returned", ok |-> FALSE, values |-> <<>>]
      BY <1>2, <1>5 DEF Done
    <2>2. Done' \in Calls!Answers(want, FALSE, [DOMAIN want.vr -> Values])
      BY <1>2, <2>1 DEF Calls!Answers
    <2> QED BY <1>1, <1>2, <1>3, <1>5, <2>2 DEF Calls!Perform, Sim, Done, Gone
  <1> QED BY <1>4, <1>5

LEMMA UnsupportedPerforms ==
    ASSUME IInv, Handle, Unsupported
    PROVE  Calls!Perform
  <1>1. /\ child = "up" /\ want # None /\ request = want /\ reply = None
        /\ UNCHANGED <<want, given>>
    BY HandleCases
  <1>2. /\ reply' = [kind |-> "undeclared"] /\ reply' # None
        /\ want.op = "state" /\ child' = child /\ Sim' = Sim
    BY <1>1, NoneAssumption DEF Unsupported, Sim, slaveVars, Calls!Outcomes
  <1>3. Done = None /\ Gone = FALSE /\ Gone' = Gone /\ Done' = [kind |-> "undeclared"]
    BY <1>1, <1>2 DEF Done, Gone
  <1> QED BY <1>1, <1>2, <1>3 DEF Calls!Perform, Sim, Done, Gone

LEMMA HasReadPerforms ==
    ASSUME IInv, Handle, HasRead
    PROVE  Calls!Perform \/ Calls!Break
  <1>1. /\ child = "up" /\ want # None /\ request = want /\ reply = None
        /\ UNCHANGED <<want, given>>
        /\ want \in Calls!Requests
    BY HandleCases
  <1>2. want.op = "get" /\ Sim' = Sim BY <1>1 DEF HasRead, Sim, slaveVars
  <1>3. Done = None /\ Gone = FALSE BY <1>1 DEF Done, Gone
  <1>4. CASE /\ reply' \in ReplyType /\ reply' # None /\ reply'.kind = "reply"
             /\ reply'.value \in [DOMAIN request.vr -> Values]
             /\ reply'.status = "OK_STATUS" =>
                   reply'.value = Calls!Selected(fmu.vals, request.vr)
             /\ UNCHANGED child
    <2>1. Gone' = Gone BY <1>4 DEF Gone
    <2>2. Sim \in Calls!After(Sim, want) BY <1>2 DEF Calls!After
    <2>3. CASE reply'.status = "OK_STATUS"
      <3>1. Done' = [kind |-> "returned", ok |-> TRUE,
                     values |-> Calls!Selected(Sim.vals, want.vr)]
        BY <1>1, <1>4, <2>3 DEF Done, Sim
      <3>2. Done' \in Calls!Answers(want, TRUE, {Calls!Selected(Sim.vals, want.vr)})
        BY <1>2, <3>1 DEF Calls!Answers
      <3> QED BY <1>1, <1>2, <1>3, <2>1, <2>2, <3>2 DEF Calls!Perform, Sim, Done, Gone
    <2>4. CASE reply'.status # "OK_STATUS"
      <3>1. Done' = [kind |-> "returned", ok |-> FALSE, values |-> reply'.value]
        BY <1>4, <2>4 DEF Done
      <3>2. Done' \in Calls!Answers(want, FALSE, [DOMAIN want.vr -> Values])
        BY <1>1, <1>2, <1>4, <3>1 DEF Calls!Answers
      <3> QED BY <1>1, <1>2, <1>3, <2>1, <2>2, <3>2 DEF Calls!Perform, Sim, Done, Gone
    <2> QED BY <2>3, <2>4
  <1>5. CASE child' = "dead" /\ UNCHANGED reply
    BY <1>1, <1>2, <1>5 DEF Calls!Break, Sim
  <1> QED BY <1>4, <1>5 DEF HasRead

LEMMA ReturnRefines ==
    ASSUME IInv, Return
    PROVE  Calls!Return
  <1>1. want # None /\ given' = Done /\ Done # None
    <2>1. Done \in Calls!Outcomes /\ given' = Done /\ want # None
      BY ReturnGives DEF Done, Return
    <2> QED BY <2>1, NoneAssumption
  <1>2. want' = None /\ Done' = None /\ Sim' = Sim /\ Gone' = Gone
    BY DEF Return, Done, Sim, Gone, slaveVars
  <1> QED BY <1>1, <1>2 DEF Calls!Return, Done, Sim, Gone

LEMMA StepRefines == IInv /\ [Next]_vars => [Calls!Next]_(Calls!vars)
  <1> SUFFICES ASSUME IInv, [Next]_vars PROVE Calls!Next \/ UNCHANGED Calls!vars
    OBVIOUS
  <1>1. ASSUME NEW r \in Calls!Requests, Call(r) PROVE Calls!Next
    <2>1. Calls!Call(r) BY <1>1 DEF Call, Calls!Call, slaveVars
    <2> QED BY <2>1 DEF Calls!Next
  <1>2. CASE Handle
    BY <1>2, HandleCases, ServedPerforms, UnsupportedPerforms, HasReadPerforms DEF Calls!Next
  <1>3. CASE Return BY <1>3, ReturnRefines DEF Calls!Next
  <1>4. CASE Crash
    <2>1. Calls!Break BY <1>4 DEF Crash, Calls!Break, slaveVars
    <2> QED BY <2>1 DEF Calls!Next
  <1>5. CASE Broken
    <2>1. Calls!Return BY <1>5 DEF Broken, Calls!Return, slaveVars
    <2> QED BY <2>1 DEF Calls!Next
  <1>6. CASE UNCHANGED vars BY <1>6 DEF vars, slaveVars, Calls!vars
  <1> QED BY <1>1, <1>2, <1>3, <1>4, <1>5, <1>6 DEF Next

(* The calls of a proxy_slave do what a slave promises: every behaviour of  *)
(* proxy, connection, handler and slave is one of SlaveCalls.               *)
THEOREM Refines == Spec => SlaveIsTransparent
  <1> QED BY InitRefines, Invariant, StepRefines, PTL
          DEF Spec, SlaveIsTransparent, Calls!Spec
=============================================================================
