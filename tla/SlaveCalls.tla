------------------------------ MODULE SlaveCalls -----------------------------
(***************************************************************************)
(* What the calls of a slave promise their caller (the virtual functions   *)
(* of fmi/slave.hpp:20-43), of whichever FMI version the FMU is and        *)
(* wherever it runs: a call happens once, or not at all, between the time  *)
(* it is made and the time it returns; it returns true only if the FMU has *)
(* taken it; what a successful read returns is what the FMU had; the       *)
(* simulation starts with the experiment that was set up last. A slave     *)
(* that breaks throws, in the call it breaks in and in every later one.    *)
(***************************************************************************)
EXTENDS Integers

CONSTANTS
    Vars, Values,    \* the FMU's variables and what they can hold
    Starts, Stops,   \* start and stop times
    MaxLen,          \* length of the longest list of references
    None

(* Lists without repetition of references, and lists of as many values. *)
References == UNION {{vr \in [1 .. n -> Vars] : \A k, m \in 1 .. n : vr[k] = vr[m] => k = m}
                        : n \in 0 .. MaxLen}
ValueLists == UNION {[1 .. n -> Values] : n \in 0 .. MaxLen}

Requests ==
    [op : {"setup"}, start : Starts, stop : Stops]
    \cup [op : {"enter", "exit", "step", "terminate", "state"}]
    \cup [op : {"get"}, type : {"number", "string"}, vr : References]
    \cup UNION {[op : {"set"}, vr : {vr}, values : [DOMAIN vr -> Values]] :
                    vr \in References}

Outcomes == [kind : {"returned"}, ok : BOOLEAN, values : ValueLists]
            \cup [kind : {"undeclared", "broken"}]

Phases == {"created", "initializing", "running", "ended"}

(* An experiment, as the FMU is told: a stop time of 0 stands for none. *)
Experiment(start, stop) == [start |-> start, stop |-> IF stop > 0 THEN stop ELSE None]
Experiments == {Experiment(start, stop) : start \in Starts, stop \in Stops}

VARIABLES
    sim,     \* the simulation
    want,    \* the call the caller is in, or None
    done,    \* what came of it, once it has happened
    given,   \* what the caller was given by its last call
    broken

vars == <<sim, want, done, given, broken>>

Sims == [phase : Phases, vals : [Vars -> Values],
         experiment : Experiments \cup {None}, times : Experiments \cup {None}]

Init ==
    /\ sim \in [phase : {"created"}, vals : [Vars -> Values],
                experiment : {None}, times : {None}]
    /\ want = None
    /\ done = None
    /\ given = None
    /\ broken = FALSE

(* The values a list of references stands for. *)
Selected(vals, vr) == [n \in DOMAIN vr |-> vals[vr[n]]]

Assigned(vals, vr, values) ==
    [v \in Vars |-> IF \E n \in DOMAIN vr : vr[n] = v
                    THEN values[CHOOSE n \in DOMAIN vr : vr[n] = v]
                    ELSE vals[v]]

(* What a simulation can be after a request it has taken. Not every FMU has *)
(* an initialization mode to enter.                                         *)
Starting(s) == s.phase \in {"created", "initializing"}

After(s, r) ==
    CASE r.op = "setup" ->
            {IF Starting(s) THEN [s EXCEPT !.experiment = Experiment(r.start, r.stop)] ELSE s}
      [] r.op = "enter" ->
            {s} \cup IF Starting(s) THEN {[s EXCEPT !.phase = "initializing"]} ELSE {}
      [] r.op = "exit" /\ Starting(s) ->
            {[phase |-> "running", vals |-> s.vals, experiment |-> s.experiment, times |-> t] :
                t \in IF s.experiment = None THEN Experiments \cup {None}
                                             ELSE {s.experiment}}
      [] r.op = "step" /\ s.phase = "running" ->
            {[s EXCEPT !.vals = v] : v \in [Vars -> Values]}
      [] r.op = "terminate" /\ s.phase = "running" ->
            {[s EXCEPT !.phase = "ended"]}
      [] r.op = "set" ->
            {[s EXCEPT !.vals = Assigned(s.vals, r.vr, r.values)]}
      [] r.op = "get" -> {s}
      [] OTHER -> {}

Call(r) ==
    /\ want = None
    /\ want'  = r
    /\ given' = None
    /\ UNCHANGED <<sim, done, broken>>

(* A false answer leaves open whether the call has happened, and what a     *)
(* read of so many values has read.                                         *)
Answers(r, ok, lists) ==
    [kind : {"returned"}, ok : {ok}, values : IF r.op = "get" THEN lists ELSE {<<>>}]

Perform ==
    /\ want # None /\ done = None
    /\ ~broken
    /\ \/ /\ sim' \in After(sim, want)
          /\ done' \in Answers(want, TRUE, {Selected(sim.vals, want.vr)})
       \/ /\ sim' \in After(sim, want) \cup {sim}
          /\ done' \in Answers(want, FALSE, [DOMAIN want.vr -> Values])
       \/ /\ want.op = "state"
          /\ done' = [kind |-> "undeclared"]
          /\ UNCHANGED sim
    /\ UNCHANGED <<want, given, broken>>

Break ==
    /\ broken' = TRUE
    /\ UNCHANGED <<sim, want, done, given>>

Return ==
    /\ want # None
    /\ \/ done # None /\ given' = done
       \/ broken /\ given' = [kind |-> "broken"]
    /\ want' = None
    /\ done' = None
    /\ UNCHANGED <<sim, broken>>

Next ==
    \/ \E r \in Requests : Call(r)
    \/ Perform \/ Break \/ Return

Spec == Init /\ [][Next]_vars
=============================================================================
