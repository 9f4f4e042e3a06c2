----------------------------- MODULE ProxyCalls ------------------------------
(***************************************************************************)
(* The calls of a proxy_slave: the request it sends, the method of         *)
(* fmu_service_handler that serves it, the method of fmi1_slave or         *)
(* fmi2_slave that one calls, the reply, and what the proxy makes of it    *)
(* for the caller. An FMI 1.0 slave has no call for the experiment and     *)
(* keeps start and stop time for exit_initialization_mode.                 *)
(*                                                                         *)
(* The FMU is external: it may take a call that fits its phase, take it    *)
(* with a warning, or refuse it, and it always answers. The integer, real  *)
(* and boolean methods differ in nothing that is modelled here. The state  *)
(* calls are those of FMI 1.0; ProxyStates has those of FMI 2.0. The       *)
(* asserts, gone from a release build, are not guards.                     *)
(***************************************************************************)
EXTENDS Integers

CONSTANTS
    Vars, Values,    \* the FMU's variables and what they can hold
    Starts, Stops,   \* start and stop times
    MaxLen,          \* length of the longest list of value references
    None,
    Versions,        \* the FMI versions of the FMUs
    Faults           \* "crash": the child may die

ASSUME ConstantsAssumption ==
    /\ Starts \subseteq Int /\ Stops \subseteq Int
    /\ MaxLen \in Nat
    /\ Versions \subseteq {1, 2}
    /\ Faults \subseteq {"crash"}

VARIABLES
    version,               \* of the FMU
    fmu,                   \* the FMI instance
    start_time, stop_time, \* members of fmi1_slave
    asked,                 \* history: the experiment set up last before the start
    child,                 \* the child process is "up" or "dead"
    request, reply,        \* on the connection
    want,                  \* the method the caller is in, or None
    given                  \* what the last one gave it

members == <<start_time, stop_time>>
slaveVars == <<version, fmu, members, asked>>
vars == <<slaveVars, child, request, reply, want, given>>

(* What the caller is promised of all this. *)
Calls == INSTANCE SlaveCalls WITH
    sim    <- [phase |-> fmu.phase, vals |-> fmu.vals,
               experiment |-> asked, times |-> fmu.times],
    done   <- IF reply = None THEN None
              ELSE IF reply.kind = "undeclared" THEN [kind |-> "undeclared"]
              ELSE [kind |-> "returned", ok |-> reply.status = "OK_STATUS",
                    values |-> reply.value],
    broken <- child = "dead"

Statuses == {"OK_STATUS", "ERROR_STATUS"}

(* What the FMU knows of an experiment: a stop time of 0 or less is none. *)
Told(start, stop) == [start |-> start, stop |-> IF stop > 0 THEN stop ELSE None]

ASSUME NoneAssumption ==
    /\ None \notin Calls!Requests \cup Calls!Experiments \cup Calls!Outcomes
    /\ None \notin [kind : {"reply"}, status : Statuses, value : Calls!ValueLists]

(* start_time_ and stop_time_ have no initial value. *)
Init ==
    /\ version \in Versions
    /\ fmu \in [phase : {"created"}, vals : [Vars -> Values],
                told : {None}, times : {None}]
    /\ start_time \in Starts /\ stop_time \in Stops
    /\ asked = None
    /\ child = "up"
    /\ request = None /\ reply = None
    /\ want = None /\ given = None

-----------------------------------------------------------------------------
(* The proxy sends what it is asked for. *)
Call(r) ==
    /\ want = None
    /\ r.op = "state" => version = 1
    /\ want'    = r
    /\ request' = r
    /\ given'   = None
    /\ UNCHANGED <<slaveVars, child, reply>>

(* The handler turns the slave's true and false into a status. *)
Answer(ok, value) ==
    reply' = [kind   |-> "reply",
              status |-> IF ok THEN "OK_STATUS" ELSE "ERROR_STATUS",
              value  |-> value]

(* A call of the FMU that changes it to `state`: it may take it if it fits, *)
(* and the slave says true to fmi_status_ok only, not to a warning.         *)
Ask(fits, state) ==
    \E taken, ok \in BOOLEAN :
        /\ taken => fits
        /\ ok => taken
        /\ fmu' = IF taken THEN state ELSE fmu
        /\ Answer(ok, <<>>)

Starting == fmu.phase \in {"created", "initializing"}

(* Mutant of SetupFmi1: the first setup_experiment counts. *)
SetupFmi1Once(r) ==
    /\ version = 1
    /\ start_time' = IF asked = None THEN r.start ELSE start_time
    /\ stop_time'  = IF asked = None THEN r.stop ELSE stop_time
    /\ asked' = IF Starting THEN Told(r.start, r.stop) ELSE asked
    /\ Answer(TRUE, <<>>)
    /\ UNCHANGED fmu

(* fmi1_slave keeps the times and says true, even when it is too late. *)
SetupFmi1(r) ==
    /\ version = 1
    /\ start_time' = r.start
    /\ stop_time'  = r.stop
    /\ asked' = IF Starting THEN Told(r.start, r.stop) ELSE asked
    /\ Answer(TRUE, <<>>)
    /\ UNCHANGED fmu

(* fmi2_slave hands them on, and the FMU remembers them. *)
SetupFmi2(r) ==
    /\ version = 2
    /\ Ask(fmu.phase = "created", [fmu EXCEPT !.told = Told(r.start, r.stop)])
    /\ asked' = fmu'.told
    /\ UNCHANGED members

SetupExperiment(r) == SetupFmi1(r) \/ SetupFmi2(r)

(* An FMI 1.0 slave has nothing to enter. *)
EnterInitializationMode ==
    /\ \/ version = 1 /\ Answer(TRUE, <<>>) /\ UNCHANGED fmu
       \/ version = 2 /\ Ask(fmu.phase = "created", [fmu EXCEPT !.phase = "initializing"])
    /\ UNCHANGED <<members, asked>>

(* Mutant of ExitInitializationMode: a stop time of 0 is a stop time. *)
ExitWithStop ==
    /\ \/ /\ version = 1
          /\ Ask(Starting, [fmu EXCEPT !.phase = "running",
                                       !.times = [start |-> start_time, stop |-> stop_time]])
       \/ /\ version = 2
          /\ \E times \in IF fmu.told = None THEN Calls!Experiments ELSE {fmu.told} :
                Ask(fmu.phase = "initializing",
                    [fmu EXCEPT !.phase = "running", !.times = times])
    /\ UNCHANGED <<members, asked>>

(* An FMI 1.0 FMU learns of the experiment here; an FMI 2.0 FMU that was    *)
(* told of none starts with one of its own.                                 *)
ExitInitializationMode ==
    /\ \/ /\ version = 1
          /\ Ask(Starting, [fmu EXCEPT !.phase = "running",
                                       !.times = Told(start_time, stop_time)])
       \/ /\ version = 2
          /\ \E times \in IF fmu.told = None THEN Calls!Experiments ELSE {fmu.told} :
                Ask(fmu.phase = "initializing",
                    [fmu EXCEPT !.phase = "running", !.times = times])
    /\ UNCHANGED <<members, asked>>

(* A step computes new values. *)
Step ==
    /\ \E vals \in [Vars -> Values] :
          Ask(fmu.phase = "running", [fmu EXCEPT !.vals = vals])
    /\ UNCHANGED <<members, asked>>

Terminate ==
    /\ Ask(fmu.phase = "running", [fmu EXCEPT !.phase = "ended"])
    /\ UNCHANGED <<members, asked>>

Write(r) ==
    /\ Ask(TRUE, [fmu EXCEPT !.vals = Calls!Assigned(fmu.vals, r.vr, r.values)])
    /\ UNCHANGED <<members, asked>>

(* Mutant of Read: the status of the FMU's answer is not looked at. *)
ReadSaysYes(r) ==
    /\ \E list \in [DOMAIN r.vr -> Values] : Answer(TRUE, list)
    /\ UNCHANGED <<child, slaveVars>>

(* Mutant of Read: the vector is not resized before it is handed on. *)
ReadUnsized(r) ==
    /\ Answer(FALSE, <<>>)
    /\ UNCHANGED <<child, slaveVars>>

(* The handler sends a vector as long as the list of references. The FMU    *)
(* fills it, or leaves in it what it likes. get_string copies from the      *)
(* pointers of an FMU that refused, and where it left one null the child    *)
(* is gone.                                                                 *)
Read(r) ==
    /\ \/ /\ \E ok \in BOOLEAN : Answer(ok, Calls!Selected(fmu.vals, r.vr))
          /\ UNCHANGED child
       \/ /\ \E list \in [DOMAIN r.vr -> Values] : Answer(FALSE, list)
          /\ UNCHANGED child
       \/ /\ r.type = "string" /\ r.vr # <<>>
          /\ child' = "dead"
          /\ UNCHANGED reply
    /\ UNCHANGED slaveVars

(* Mutant of StateCall: nothing is sent for an exception. *)
StateCallSilent == UNCHANGED <<reply, slaveVars>>

(* fmi1_slave throws a std::runtime_error, which is not an exception the    *)
(* service declares.                                                        *)
StateCall ==
    /\ reply' = [kind |-> "undeclared"]
    /\ UNCHANGED slaveVars

(* The server's thread calls the handler for the request it has read. *)
Handle ==
    /\ child = "up" /\ request # None
    /\ \/ request.op = "get" /\ Read(request)
       \/ /\ \/ request.op = "setup" /\ SetupExperiment(request)
             \/ request.op = "enter" /\ EnterInitializationMode
             \/ request.op = "exit" /\ ExitInitializationMode
             \/ request.op = "step" /\ Step
             \/ request.op = "terminate" /\ Terminate
             \/ request.op = "set" /\ Write(request)
             \/ request.op = "state" /\ StateCall
          /\ UNCHANGED child
    /\ request' = None
    /\ UNCHANGED <<version, want, given>>

(* The proxy has the reply. A get_ function copies as many values as it was *)
(* given references; an undeclared exception is thrown on.                  *)
Return ==
    /\ reply # None
    /\ given' = IF reply.kind = "undeclared" THEN [kind |-> "undeclared"]
                ELSE [kind |-> "returned", ok |-> reply.status = "OK_STATUS",
                      values |-> IF want.op = "get"
                                 THEN [n \in DOMAIN want.vr |-> reply.value[n]] ELSE <<>>]
    /\ reply' = None
    /\ want'  = None
    /\ UNCHANGED <<slaveVars, child, request>>

(* The child dies in any state, or the connection's other end is gone. *)
Crash ==
    /\ "crash" \in Faults
    /\ child' = "dead"
    /\ UNCHANGED <<slaveVars, request, reply, want, given>>

Broken ==
    /\ child = "dead" /\ want # None
    /\ given'   = [kind |-> "broken"]
    /\ request' = None
    /\ reply'   = None
    /\ want'    = None
    /\ UNCHANGED <<slaveVars, child>>

-----------------------------------------------------------------------------
Next ==
    \/ \E r \in Calls!Requests : Call(r)
    \/ Handle \/ Return \/ Crash \/ Broken

Spec == Init /\ [][Next]_vars

(* The child's server reads requests as long as it lives, an FMU's function *)
(* returns, and a caller's thread runs.                                     *)
FairSpec == Spec /\ WF_vars(Handle) /\ WF_vars(Return) /\ WF_vars(Broken)

-----------------------------------------------------------------------------
(* Properties *)

(* Every variable keeps its type. *)
TypeOK ==
    /\ version \in Versions
    /\ fmu \in [phase : Calls!Phases, vals : [Vars -> Values],
                told  : Calls!Experiments \cup {None},
                times : Calls!Experiments \cup {None}]
    /\ start_time \in Starts /\ stop_time \in Stops
    /\ asked \in Calls!Experiments \cup {None}
    /\ child \in {"up", "dead"}
    /\ request \in Calls!Requests \cup {None}
    /\ reply \in [kind : {"reply"}, status : Statuses, value : Calls!ValueLists]
                 \cup {[kind |-> "undeclared"], None}
    /\ want \in Calls!Requests \cup {None}
    /\ given \in Calls!Outcomes \cup {None}

(* The proxy, the wire, the handler and the slave do what a slave promises  *)
(* to do (slave.hpp:20-43), of either FMI version and when the child dies   *)
(* in the middle of a call.                                                 *)
SlaveIsTransparent == Calls!Spec

(* A simulation starts with the experiment that was set up last: fmi1_slave *)
(* keeps it in two members until exit_initialization_mode                   *)
(* (fmi1_slave.cpp:66-67, 78-79).                                           *)
StartsAsAsked ==
    fmu.phase \in {"running", "ended"} /\ asked # None => fmu.times = asked

(* There is one message on the connection at a time, and it belongs to the  *)
(* call the caller is in: no call is given the reply to another.            *)
OneMessage ==
    /\ request = None \/ reply = None
    /\ request # None => request = want
    /\ reply # None => /\ want # None
                       /\ reply.kind = "reply" /\ want.op = "get"
                             => DOMAIN reply.value = DOMAIN want.vr

(* Every call of a proxy_slave ends, in a child that dies as well. *)
CallsEnd == want # None ~> want = None
=============================================================================
