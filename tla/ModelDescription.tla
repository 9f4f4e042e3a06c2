--------------------------- MODULE ModelDescription --------------------------
(***************************************************************************)
(* create_model_description and to_scalar_variable of fmi1_ and            *)
(* fmi2_model_description.cpp: the description of an FMU that a slave, a   *)
(* local FMU and a proxy_fmu hand to their callers, made from the parsed   *)
(* XML (external) one variable after the other.                            *)
(*                                                                         *)
(* A name stands for everything that is copied as it is: of the FMU its    *)
(* guid, author, names, description and tool, and of a variable its name,  *)
(* causality and variability; one time stands for start and stop time and  *)
(* tolerance of the default experiment. FMI 1.0 has no step size in it and *)
(* no capabilities for states, and the code leaves what it does not have   *)
(* uninitialized: whatever was there.                                      *)
(***************************************************************************)
EXTENDS Integers, Sequences

CONSTANTS
    Refs, Names, Values, Times,  \* of the FMU and its variables
    MaxVars,                     \* bound on the number of variables
    Versions,                    \* the FMI versions of the FMUs
    None

ASSUME ConstantsAssumption ==
    /\ MaxVars \in Nat
    /\ Versions \subseteq {1, 2}
    /\ None \notin Values

(* What the XML says. *)
Types == {"real", "int", "bool", "str", "enum"}

XmlVariables == [vr : Refs, name : Names, type : Types, start : Values \cup {None}]

Capabilities == {"canGetAndSetFMUstate", "canSerializeFMUstate"}

(* The alternatives of type_attribute, in the order of the variant. *)
Index(type) ==
    CASE type = "real" -> 0
      [] type = "int"  -> 1
      [] type = "str"  -> 2
      [] type = "bool" -> 3

ScalarVariables == [vr : Refs, name : Names,
                    typeAttribute : [index : 0 .. 3, start : Values \cup {None}]]

VARIABLES
    version,   \* of the FMU
    xml,       \* what handle_ gives: name, variables, experiment, capabilities
    md,        \* the model_description
    i,         \* the variables that have been looked at
    done

vars == <<version, xml, md, i, done>>

Xmls == [name : Names, variables : UNION {[1 .. n -> XmlVariables] : n \in 0 .. MaxVars},
         experiment : [time : Times, stepSize : Times],
         capabilities : SUBSET Capabilities]

Descriptions ==
    [name : Names \cup {None}, modelVariables : Seq(ScalarVariables),
     defaultExperiment : [time : Times, stepSize : Times],
     canGetAndSetFMUstate : BOOLEAN, canSerializeFMUstate : BOOLEAN]

Init ==
    /\ version \in Versions
    /\ xml \in Xmls
    /\ version = 1 => xml.capabilities = {}
    /\ md \in [name : {None}, modelVariables : {<<>>},
               defaultExperiment : [time : Times, stepSize : Times],
               canGetAndSetFMUstate : BOOLEAN, canSerializeFMUstate : BOOLEAN]
    /\ i = 0
    /\ done = FALSE

-----------------------------------------------------------------------------
DescribeFmi2 ==
    md' = [md EXCEPT
              !.name = xml.name,
              !.defaultExperiment = xml.experiment,
              !.canGetAndSetFMUstate = "canGetAndSetFMUstate" \in xml.capabilities,
              !.canSerializeFMUstate = "canSerializeFMUstate" \in xml.capabilities]

DescribeFmi1 ==
    md' = [md EXCEPT !.name = xml.name, !.defaultExperiment.time = xml.experiment.time]

(* What comes before the loop. *)
Describe ==
    /\ ~done /\ md.name = None
    /\ \/ version = 1 /\ DescribeFmi1
       \/ version = 2 /\ DescribeFmi2
    /\ UNCHANGED <<version, xml, i, done>>

(* An enumeration has no scalar variable, and a start value is one that is  *)
(* there. *)
HasScalar(v) == v.type # "enum"

ToScalarVariable(v) ==
    [vr |-> v.vr, name |-> v.name,
     typeAttribute |-> [index |-> Index(v.type), start |-> v.start]]

(* Mutant of AddVariable: an enumeration is where the list ends. *)
AddVariableOrStop ==
    /\ md.name # None
    /\ i < Len(xml.variables)
    /\ IF HasScalar(xml.variables[i + 1])
       THEN i' = i + 1 /\ md' = [md EXCEPT !.modelVariables =
                                    Append(@, ToScalarVariable(xml.variables[i + 1]))]
       ELSE i' = Len(xml.variables) /\ UNCHANGED md
    /\ UNCHANGED <<version, xml, done>>

(* One turn of the loop. *)
AddVariable ==
    /\ md.name # None
    /\ i < Len(xml.variables)
    /\ i' = i + 1
    /\ IF HasScalar(xml.variables[i + 1])
       THEN md' = [md EXCEPT !.modelVariables =
                      Append(@, ToScalarVariable(xml.variables[i + 1]))]
       ELSE UNCHANGED md
    /\ UNCHANGED <<version, xml, done>>

Return ==
    /\ md.name # None /\ ~done
    /\ i = Len(xml.variables)
    /\ done' = TRUE
    /\ UNCHANGED <<version, xml, md, i>>

Next == Describe \/ AddVariable \/ Return

Spec == Init /\ [][Next]_vars

-----------------------------------------------------------------------------
(* Properties *)

(* Every variable keeps its type. *)
TypeOK ==
    /\ version \in Versions
    /\ xml \in Xmls
    /\ md \in Descriptions
    /\ i \in 0 .. Len(xml.variables)
    /\ done \in BOOLEAN

(* What a caller can tell of a scalar variable: is_real, is_integer,        *)
(* is_string and is_boolean ask for an alternative of the variant.          *)
IsReal(s)    == s.typeAttribute.index = 0
IsInteger(s) == s.typeAttribute.index = 1
IsString(s)  == s.typeAttribute.index = 2
IsBoolean(s) == s.typeAttribute.index = 3

Describes(s, v) ==
    /\ s.vr = v.vr /\ s.name = v.name
    /\ s.typeAttribute.start = v.start
    /\ IsReal(s) <=> v.type = "real"
    /\ IsInteger(s) <=> v.type = "int"
    /\ IsString(s) <=> v.type = "str"
    /\ IsBoolean(s) <=> v.type = "bool"

(* The description lists the variables of the FMU that are no enumerations, *)
(* each once and in the FMU's order, with the reference, the type and the   *)
(* start value they have there: callers find the reference of a variable by *)
(* its name (test_mass-spring-damper.cpp:15-20), and read and write by it.  *)
(* `at` is where the k-th of them stands in the XML.                        *)
VariablesListed ==
    /\ \E at \in [1 .. Len(md.modelVariables) -> 1 .. i] :
          /\ \A j, k \in DOMAIN at : j < k => at[j] < at[k]
          /\ {at[k] : k \in DOMAIN at} = {n \in 1 .. i : HasScalar(xml.variables[n])}
          /\ \A k \in DOMAIN at : Describes(md.modelVariables[k], xml.variables[at[k]])
    /\ done => i = Len(xml.variables)
=============================================================================
