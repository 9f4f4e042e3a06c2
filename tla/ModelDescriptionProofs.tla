------------------------ MODULE ModelDescriptionProofs -----------------------
(***************************************************************************)
(* A description lists an FMU's variables completely and in order, for     *)
(* FMUs with any number of variables. VariablesListed needs little to be   *)
(* inductive: only that the index stays in the list.                       *)
(***************************************************************************)
EXTENDS ModelDescription, TLAPS

USE ConstantsAssumption

LEMMA IndexOf ==
    ASSUME NEW type \in Types \ {"enum"}
    PROVE  /\ Index(type) \in 0 .. 3
           /\ Index(type) = 0 <=> type = "real"
           /\ Index(type) = 1 <=> type = "int"
           /\ Index(type) = 2 <=> type = "str"
           /\ Index(type) = 3 <=> type = "bool"
  <1>1. CASE type = "real" BY <1>1 DEF Index
  <1>2. CASE type = "int" BY <1>2 DEF Index
  <1>3. CASE type = "str" BY <1>3 DEF Index
  <1>4. CASE type = "bool" BY <1>4 DEF Index
  <1> QED BY <1>1, <1>2, <1>3, <1>4 DEF Types

(* to_scalar_variable makes of a variable that has one what describes it. *)
LEMMA ScalarDescribes ==
    ASSUME NEW v \in XmlVariables, HasScalar(v)
    PROVE  /\ ToScalarVariable(v) \in ScalarVariables
           /\ Describes(ToScalarVariable(v), v)
  <1>1. v.type \in Types \ {"enum"} BY DEF XmlVariables, HasScalar
  <1>2. Index(v.type) \in 0 .. 3 BY <1>1, IndexOf
  <1>3. ToScalarVariable(v) \in ScalarVariables
    BY <1>2 DEF ToScalarVariable, ScalarVariables, XmlVariables
  <1>4. Describes(ToScalarVariable(v), v)
    BY <1>1, IndexOf DEF ToScalarVariable, Describes, IsReal, IsInteger, IsString, IsBoolean
  <1> QED BY <1>3, <1>4

(* The list of an FMU's variables is a sequence. *)
LEMMA VariablesAreASequence ==
    ASSUME TypeOK
    PROVE  /\ xml.variables \in Seq(XmlVariables)
           /\ Len(xml.variables) \in Nat
  <1>1. xml.variables \in UNION {[1 .. n -> XmlVariables] : n \in 0 .. MaxVars}
    BY DEF TypeOK, Xmls
  <1>2. PICK n \in 0 .. MaxVars : xml.variables \in [1 .. n -> XmlVariables]
    BY <1>1
  <1> QED BY <1>2

(* The types hold at the start, and after every step. *)
LEMMA InitType == Init => TypeOK
  <1> SUFFICES ASSUME Init PROVE TypeOK OBVIOUS
  <1>1. xml \in Xmls /\ version \in Versions BY DEF Init
  <1>2. 0 \in 0 .. Len(xml.variables)
    <2>1. PICK n \in 0 .. MaxVars : xml.variables \in [1 .. n -> XmlVariables]
      BY <1>1 DEF Xmls
    <2> QED BY <2>1
  <1>3. md \in Descriptions
    <2>1. <<>> \in Seq(ScalarVariables) OBVIOUS
    <2> QED BY <2>1 DEF Init, Descriptions
  <1> QED BY <1>1, <1>2, <1>3 DEF Init, TypeOK

LEMMA StepType == TypeOK /\ [Next]_vars => TypeOK'
  <1> SUFFICES ASSUME TypeOK, [Next]_vars PROVE TypeOK' OBVIOUS
  <1>1. CASE Describe
    <2>1. xml.name \in Names /\ xml.experiment \in [time : Times, stepSize : Times]
      BY DEF TypeOK, Xmls
    <2>2. CASE DescribeFmi1
      BY <1>1, <2>1, <2>2 DEF Describe, DescribeFmi1, TypeOK, Descriptions
    <2>3. CASE DescribeFmi2
      <3>1. md' = [md EXCEPT !.name = xml.name, !.defaultExperiment = xml.experiment,
                             !.canGetAndSetFMUstate = md'.canGetAndSetFMUstate,
                             !.canSerializeFMUstate = md'.canSerializeFMUstate]
        BY <2>3 DEF DescribeFmi2, TypeOK, Descriptions
      <3>2. /\ md'.canGetAndSetFMUstate \in BOOLEAN
            /\ md'.canSerializeFMUstate \in BOOLEAN
        BY <2>3 DEF DescribeFmi2, TypeOK, Descriptions
      <3>3. md' \in Descriptions BY <2>1, <3>1, <3>2 DEF TypeOK, Descriptions
      <3> QED BY <1>1, <3>3 DEF Describe, TypeOK
    <2> QED BY <1>1, <2>2, <2>3 DEF Describe
  <1>2. CASE AddVariable
    <2> DEFINE v == xml.variables[i + 1]
    <2>1. i \in Nat /\ i + 1 \in 1 .. Len(xml.variables) /\ v \in XmlVariables
      BY <1>2, VariablesAreASequence DEF AddVariable, TypeOK
    <2>2. md' \in Descriptions
      <3>1. CASE HasScalar(v)
        <4> HIDE DEF v
        <4>1. ToScalarVariable(v) \in ScalarVariables BY <2>1, <3>1, ScalarDescribes
        <4>2. md' = [md EXCEPT !.modelVariables = Append(@, ToScalarVariable(v))]
          BY <1>2, <3>1 DEF AddVariable, v
        <4>3. Append(md.modelVariables, ToScalarVariable(v)) \in Seq(ScalarVariables)
          BY <4>1 DEF TypeOK, Descriptions
        <4> QED BY <4>2, <4>3 DEF TypeOK, Descriptions
      <3>2. CASE ~HasScalar(v) BY <1>2, <3>2 DEF AddVariable, TypeOK
      <3> QED BY <3>1, <3>2
    <2> QED BY <1>2, <2>1, <2>2 DEF AddVariable, TypeOK
  <1>3. CASE Return BY <1>3 DEF Return, TypeOK
  <1>4. CASE UNCHANGED vars BY <1>4 DEF vars, TypeOK
  <1> QED BY <1>1, <1>2, <1>3, <1>4 DEF Next

(* The list holds at the start, and one turn of the loop extends it. *)
LEMMA InitListed == Init => VariablesListed
  <1> SUFFICES ASSUME Init PROVE VariablesListed OBVIOUS
  <1> DEFINE at == [k \in 1 .. 0 |-> 1]
  <1>1. md.modelVariables = <<>> /\ i = 0 /\ ~done BY DEF Init
  <1>2. at \in [1 .. Len(md.modelVariables) -> 1 .. i] BY <1>1
  <1>3. {at[k] : k \in DOMAIN at} = {n \in 1 .. i : HasScalar(xml.variables[n])} BY <1>1
  <1>4. DOMAIN at = {} OBVIOUS
  <1> HIDE DEF at
  <1> QED BY <1>1, <1>2, <1>3, <1>4 DEF VariablesListed

LEMMA StepListed == TypeOK /\ VariablesListed /\ [Next]_vars => VariablesListed'
  <1> SUFFICES ASSUME TypeOK, VariablesListed, [Next]_vars PROVE VariablesListed' OBVIOUS
  <1>0. PICK at \in [1 .. Len(md.modelVariables) -> 1 .. i] :
            /\ \A j, k \in DOMAIN at : j < k => at[j] < at[k]
            /\ {at[k] : k \in DOMAIN at} = {n \in 1 .. i : HasScalar(xml.variables[n])}
            /\ \A k \in DOMAIN at : Describes(md.modelVariables[k], xml.variables[at[k]])
    BY DEF VariablesListed
  <1>1. CASE Describe
    <2>1. md'.modelVariables = md.modelVariables
      BY <1>1 DEF Describe, DescribeFmi1, DescribeFmi2, TypeOK, Descriptions
    <2> QED BY <1>0, <1>1, <2>1 DEF Describe, VariablesListed
  <1>2. CASE AddVariable
    <2> DEFINE v == xml.variables[i + 1]
               list == md.modelVariables
               s == ToScalarVariable(v)
    <2>1. /\ i \in Nat /\ i < Len(xml.variables) /\ v \in XmlVariables
          /\ i' = i + 1 /\ xml' = xml /\ done' = done
          /\ list \in Seq(ScalarVariables)
      BY <1>2, VariablesAreASequence DEF AddVariable, TypeOK, Descriptions
    <2>2. ~done BY <2>1, VariablesAreASequence DEF VariablesListed
    <2>3. CASE HasScalar(v)
      <3> DEFINE n == Len(list) + 1
                 at2 == [k \in 1 .. n |-> IF k = n THEN i + 1 ELSE at[k]]
      <3>1. md'.modelVariables = Append(list, s)
        BY <1>2, <2>3 DEF AddVariable, TypeOK, Descriptions
      <3>2. Describes(s, v) /\ s \in ScalarVariables BY <2>1, <2>3, ScalarDescribes
      <3> HIDE DEF s, v, list
      <3>3. /\ Len(list) \in Nat /\ Len(Append(list, s)) = n
            /\ \A k \in 1 .. Len(list) : Append(list, s)[k] = list[k]
            /\ Append(list, s)[n] = s
        BY <2>1, <3>2
      <3>4. at \in [1 .. Len(list) -> 1 .. i] BY <1>0 DEF list
      <3>5. at2 \in [1 .. Len(md'.modelVariables) -> 1 .. i'] BY <2>1, <3>1, <3>3, <3>4
      <3>6. \A j, k \in DOMAIN at2 : j < k => at2[j] < at2[k]
        <4> SUFFICES ASSUME NEW j \in 1 .. n, NEW k \in 1 .. n, j < k
                     PROVE  at2[j] < at2[k]
          OBVIOUS
        <4>1. j \in 1 .. Len(list) /\ at2[j] = at[j] /\ at[j] \in 1 .. i
          BY <3>3, <3>4
        <4>2. CASE k = n BY <2>1, <4>1, <4>2
        <4>3. CASE k # n
          <5>1. k \in 1 .. Len(list) /\ at2[k] = at[k] BY <3>3, <4>3
          <5>2. DOMAIN at = 1 .. Len(list) BY <3>4
          <5> QED BY <1>0, <4>1, <5>1, <5>2
        <4> QED BY <4>2, <4>3
      <3>7. {at2[k] : k \in DOMAIN at2} = {m \in 1 .. i' : HasScalar(xml'.variables[m])}
        <4>1. {at2[k] : k \in DOMAIN at2} = {at[k] : k \in DOMAIN at} \cup {i + 1}
          BY <3>3, <3>4
        <4>2. {m \in 1 .. i' : HasScalar(xml'.variables[m])}
                = {m \in 1 .. i : HasScalar(xml.variables[m])} \cup {i + 1}
          BY <2>1, <2>3 DEF v
        <4> QED BY <1>0, <4>1, <4>2
      <3>8. \A k \in DOMAIN at2 :
                Describes(md'.modelVariables[k], xml'.variables[at2[k]])
        <4> SUFFICES ASSUME NEW k \in 1 .. n
                     PROVE  Describes(Append(list, s)[k], xml.variables[at2[k]])
          BY <2>1, <3>1
        <4>1. CASE k = n BY <3>2, <3>3, <4>1 DEF v
        <4>2. CASE k # n
          <5>1. k \in 1 .. Len(list) /\ at2[k] = at[k] BY <3>3, <4>2
          <5>2. Describes(list[k], xml.variables[at[k]]) BY <1>0, <3>4, <5>1 DEF list
          <5> QED BY <3>3, <5>1, <5>2
        <4> QED BY <4>1, <4>2
      <3> HIDE DEF at2
      <3> QED BY <2>1, <2>2, <3>5, <3>6, <3>7, <3>8 DEF VariablesListed
    <2>4. CASE ~HasScalar(v)
      <3>1. md' = md BY <1>2, <2>4 DEF AddVariable
      <3>2. at \in [1 .. Len(md'.modelVariables) -> 1 .. i'] BY <1>0, <2>1, <3>1
      <3>3. {n \in 1 .. i' : HasScalar(xml.variables[n])}
              = {n \in 1 .. i : HasScalar(xml.variables[n])}
        BY <2>1, <2>4
      <3> QED BY <1>0, <2>1, <2>2, <3>1, <3>2, <3>3 DEF VariablesListed
    <2> QED BY <2>3, <2>4
  <1>3. CASE Return BY <1>0, <1>3 DEF Return, VariablesListed
  <1>4. CASE UNCHANGED vars BY <1>0, <1>4 DEF vars, VariablesListed
  <1> QED BY <1>1, <1>2, <1>3, <1>4 DEF Next

(* Type correctness of create_model_description. *)
THEOREM TypeCorrect == Spec => []TypeOK
  <1> QED BY InitType, StepType, PTL DEF Spec

(* A description lists every variable that is no enumeration, once and in   *)
(* the FMU's order, with its reference, type and start value.               *)
THEOREM ListsAreComplete == Spec => []VariablesListed
  <1> QED BY InitType, StepType, InitListed, StepListed, PTL DEF Spec
=============================================================================
