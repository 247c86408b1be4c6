---------------------- MODULE RequestExecutionProofs ----------------------
(***************************************************************************)
(* Type correctness of RequestExecution, and what explains the references  *)
(* and dynamic tokens that the substitution leaves, for any number of      *)
(* variables, any texts and any calls of the scripts.                      *)
(***************************************************************************)
EXTENDS RequestExecution, DataLemmas

(* Where the variables come from at every step: what Precedence says of the end
   holds as soon as the sources are merged, and is kept by every set. *)
Gathered ==
    /\ pc \in {"globals", "environment", "overrides"} => written = NoVariables
    /\ pc = "globals" => globals = NoVariables /\ environment = NoVariables
    /\ pc = "environment" => variables = globals /\ environment = NoVariables
    /\ pc = "overrides" => variables = Merge(globals, environment)
    /\ pc \in {"before", "substitute", "transport", "after"} =>
          variables = [k \in Defined |-> Winner(k)]

(* The key of which nothing is to be replaced any more at position i. *)
Passed(i, j) == j < key \/ (j = key /\ i < pos)

InLaterValue(j) == \E m \in DOMAIN variables : m >= j /\ Holds(variables[m], Ref(j))

(* A reference that the substitution has left behind came with the value of the
   same key or of a later one: the values of earlier keys were there before. *)
PassedExplained ==
    pc \in {"substitute", "transport"} =>
        \A i \in 1..Len(text), j \in DOMAIN variables :
            text[i] = Ref(j) /\ Passed(i, j) => InLaterValue(j)

(* No dynamic token is in the text but those that came with a value. *)
DynamicFromValue ==
    pc \in {"substitute", "transport"} /\ Holds(text, Dynamic) =>
        \E m \in DOMAIN variables : Holds(variables[m], Dynamic)

KeysDone == pc = "transport" => key = NumKeys + 1

IInv == TypeOK /\ Gathered /\ PassedExplained /\ DynamicFromValue /\ KeysDone

-----------------------------------------------------------------------------
(* Texts: what replacing one piece of a sequence by a sequence leaves. *)

Splice(t, p, v) == SubSeq(t, 1, p - 1) \o v \o SubSeq(t, p + 1, Len(t))

LEMMA ConcatFacts ==
    ASSUME NEW S, NEW a \in Seq(S), NEW v \in Seq(S), NEW b \in Seq(S)
    PROVE  /\ a \o v \o b \in Seq(S)
           /\ Len(a \o v \o b) = Len(a) + Len(v) + Len(b)
           /\ \A i \in 1..Len(a) : (a \o v \o b)[i] = a[i]
           /\ \A i \in 1..Len(v) : (a \o v \o b)[Len(a) + i] = v[i]
           /\ \A i \in 1..Len(b) : (a \o v \o b)[Len(a) + Len(v) + i] = b[i]
  OBVIOUS

LEMMA SpliceFacts ==
    ASSUME NEW S, NEW t \in Seq(S), NEW v \in Seq(S), NEW p \in 1..Len(t)
    PROVE  /\ Splice(t, p, v) \in Seq(S)
           /\ Len(Splice(t, p, v)) = Len(t) - 1 + Len(v)
           /\ \A i \in 1..(p - 1) : Splice(t, p, v)[i] = t[i]
           /\ \A i \in p..(p - 1 + Len(v)) : Splice(t, p, v)[i] = v[i - p + 1]
           /\ \A i \in (p + Len(v))..(Len(t) - 1 + Len(v)) :
                 Splice(t, p, v)[i] = t[i - Len(v) + 1]
<1>1. p \in Nat \ {0} /\ Len(t) \in Nat /\ Len(v) \in Nat /\ p <= Len(t)
  OBVIOUS
<1>2. PICK a, b : a = SubSeq(t, 1, p - 1) /\ b = SubSeq(t, p + 1, Len(t))
  OBVIOUS
<1>3. a \in Seq(S) /\ b \in Seq(S)
  BY <1>2
<1>4. Len(a) = p - 1 /\ \A i \in 1..(p - 1) : a[i] = t[i]
  BY <1>2
<1>5. Len(b) = Len(t) - p /\ \A i \in 1..Len(b) : b[i] = t[i + p]
  BY <1>2
<1>6. Splice(t, p, v) = a \o v \o b
  BY <1>2 DEF Splice
<1>7. a \o v \o b \in Seq(S)
  BY <1>3, ConcatFacts
<1>8. Len(a \o v \o b) = Len(t) - 1 + Len(v)
  <2>1. Len(a \o v \o b) = Len(a) + Len(v) + Len(b)
    BY <1>3, ConcatFacts
  <2> QED  BY <1>1, <1>4, <1>5, <2>1
<1>9. \A i \in 1..(p - 1) : (a \o v \o b)[i] = t[i]
  <2>1. \A i \in 1..Len(a) : (a \o v \o b)[i] = a[i]
    BY <1>3, ConcatFacts
  <2> QED  BY <1>4, <2>1
<1>10. ASSUME NEW i \in p..(p - 1 + Len(v)) PROVE (a \o v \o b)[i] = v[i - p + 1]
  <2>1. i - p + 1 \in 1..Len(v) /\ i = Len(a) + (i - p + 1)
    BY <1>1, <1>4
  <2>2. \A k \in 1..Len(v) : (a \o v \o b)[Len(a) + k] = v[k]
    BY <1>3, ConcatFacts
  <2> QED  BY <2>1, <2>2
<1>11. ASSUME NEW i \in (p + Len(v))..(Len(t) - 1 + Len(v))
       PROVE  (a \o v \o b)[i] = t[i - Len(v) + 1]
  <2>1. PICK k : k = i - (p - 1) - Len(v)
    OBVIOUS
  <2>2. k \in 1..Len(b) /\ i = Len(a) + Len(v) + k /\ k + p = i - Len(v) + 1
    BY <1>1, <1>4, <1>5, <2>1
  <2>3. \A m \in 1..Len(b) : (a \o v \o b)[Len(a) + Len(v) + m] = b[m]
    BY <1>3, ConcatFacts
  <2>4. (a \o v \o b)[i] = b[k] /\ b[k] = t[k + p]
    BY <1>5, <2>2, <2>3
  <2> QED  BY <2>2, <2>4
<1> QED  BY <1>6, <1>7, <1>8, <1>9, <1>10, <1>11

LEMMA SpliceSame ==
    ASSUME NEW S, NEW t \in Seq(S), NEW p \in 1..Len(t)
    PROVE  Splice(t, p, <<t[p]>>) = t
<1>1. PICK v \in Seq(S) : v = <<t[p]>>
  <2>1. <<t[p]>> \in Seq(S)
    OBVIOUS
  <2>. QED  BY <2>1
<1>2. Len(v) = 1 /\ v[1] = t[p] /\ Len(t) \in Nat
  BY <1>1
<1>3. Splice(t, p, v) \in Seq(S)
  BY SpliceFacts
<1>4. Len(Splice(t, p, v)) = Len(t) - 1 + Len(v)
  BY SpliceFacts
<1>5. \A i \in 1..(p - 1) : Splice(t, p, v)[i] = t[i]
  BY SpliceFacts
<1>6. \A i \in p..(p - 1 + Len(v)) : Splice(t, p, v)[i] = v[i - p + 1]
  BY SpliceFacts
<1>7. \A i \in (p + Len(v))..(Len(t) - 1 + Len(v)) :
         Splice(t, p, v)[i] = t[i - Len(v) + 1]
  BY SpliceFacts
<1>8. Len(Splice(t, p, v)) = Len(t) /\ \A i \in 1..Len(t) : Splice(t, p, v)[i] = t[i]
  BY <1>2, <1>4, <1>5, <1>6, <1>7
<1>. QED  BY <1>1, <1>2, <1>3, <1>8

LEMMA ResolveFacts ==
    ASSUME NEW t \in Text
    PROVE  /\ Resolve(t) \in Text
           /\ ~Holds(Resolve(t), Dynamic)
<1>1. DOMAIN t = 1..Len(t) /\ Len(t) \in Nat
  BY DEF Text
<1>2. \A i \in 1..Len(t) : Resolve(t)[i] \in Piece
  BY <1>1 DEF Resolve, Text, Piece, Literal
<1>3. Resolve(t) \in Seq(Piece)
  BY <1>1, <1>2 DEF Resolve
<1>4. Literal # Dynamic
  BY DEF Literal, Dynamic
<1> QED  BY <1>3, <1>4 DEF Text, Holds, Resolve

-----------------------------------------------------------------------------
(* Type correctness. *)

IsVariables(v) == DOMAIN v \subseteq Keys /\ \A k \in DOMAIN v : v[k] \in Text

LEMMA MergeType ==
    ASSUME NEW v, NEW s, IsVariables(v), IsVariables(s)
    PROVE  IsVariables(Merge(v, s))
  BY DEF IsVariables, Merge

LEMMA ResolveAllType ==
    ASSUME NEW v, IsVariables(v)
    PROVE  IsVariables(ResolveAll(v))
  BY ResolveFacts DEF IsVariables, ResolveAll

LEMMA SourceType ==
    \A v \in Globals \cup Environments \cup OverrideSets \cup {NoVariables} : IsVariables(v)
  BY VariablesAssumption DEF IsVariables, NoVariables

(* Where the next hit is, and what replacing it makes of the text. *)
LEMMA ReplacedFacts ==
    ASSUME TypeOK, pc = "substitute", key \in DOMAIN variables, Hits # {}
    PROVE  /\ First \in pos..Len(text) /\ text[First] = Ref(key)
           /\ \A p \in Hits : First <= p
           /\ Replaced \in Text
           /\ Len(Replaced) = Len(text) - 1 + Len(variables[key])
           /\ \A i \in 1..(First - 1) : Replaced[i] = text[i]
           /\ \A i \in First..(First - 1 + Len(variables[key])) :
                 Replaced[i] = variables[key][i - First + 1]
           /\ \A i \in (First + Len(variables[key]))..Len(Replaced) :
                 Replaced[i] = text[i - Len(variables[key]) + 1]
<1>1. Hits \in SUBSET (1..Len(text)) /\ Len(text) \in Nat
  BY DEF Hits, TypeOK, Text
<1>2. \E p \in Hits : \A q \in Hits : p <= q
  <2>1. Hits \in SUBSET (0..Len(text))
    BY <1>1
  <2>. QED  BY <1>1, <2>1, LeastElement
<1>3. First \in Hits /\ \A q \in Hits : First <= q
  BY <1>2 DEF First
<1>4. /\ text \in Seq(Piece) /\ variables[key] \in Seq(Piece)
      /\ pos \in Nat \ {0} /\ Len(text) \in Nat
  BY DEF TypeOK, Text
<1>5. First \in pos..Len(text) /\ text[First] = Ref(key) /\ First \in 1..Len(text)
  BY <1>3, <1>4 DEF Hits
<1>6. PICK p \in 1..Len(text), v \in Seq(Piece) :
         p = First /\ v = variables[key] /\ Replaced = Splice(text, p, v)
  BY <1>4, <1>5 DEF Replaced, Splice
<1>7. text \in Seq(Piece)
  BY <1>4
<1>8. Splice(text, p, v) \in Seq(Piece)
  BY <1>7, SpliceFacts
<1>9. Len(Splice(text, p, v)) = Len(text) - 1 + Len(v)
  BY <1>7, SpliceFacts
<1>10. \A i \in 1..(p - 1) : Splice(text, p, v)[i] = text[i]
  BY <1>7, SpliceFacts
<1>11. \A i \in p..(p - 1 + Len(v)) : Splice(text, p, v)[i] = v[i - p + 1]
  BY <1>7, SpliceFacts
<1>12. \A i \in (p + Len(v))..(Len(text) - 1 + Len(v)) :
          Splice(text, p, v)[i] = text[i - Len(v) + 1]
  BY <1>7, SpliceFacts
<1> QED  BY <1>3, <1>5, <1>6, <1>8, <1>9, <1>10, <1>11, <1>12 DEF Text

LEMMA InitType == Init => TypeOK
<1> SUFFICES ASSUME Init PROVE TypeOK
  OBVIOUS
<1>1. IsVariables(overrides) /\ IsVariables(NoVariables)
  BY SourceType DEF Init
<1>2. input \in Text /\ text \in Text /\ Len(text) = 0
  BY TextsAssumption DEF Init, Text
<1> QED  BY <1>1, <1>2, KeysAssumption, BoundAssumption DEF Init, TypeOK, IsVariables, NoVariables

LEMMA NextType == TypeOK /\ Gathered /\ [Next]_vars => TypeOK'
<1> SUFFICES ASSUME TypeOK, Gathered, [Next]_vars PROVE TypeOK'
  OBVIOUS
<1> USE DEF sources, cursor
<1>0. /\ IsVariables(overrides) /\ IsVariables(globals)
      /\ IsVariables(environment) /\ IsVariables(variables) /\ IsVariables(written)
  BY DEF TypeOK, IsVariables
<1>1. CASE ResolveGlobals
  <2>1. IsVariables(globals') /\ IsVariables(variables')
    BY <1>1, SourceType DEF ResolveGlobals
  <2> QED  BY <1>1, <2>1 DEF ResolveGlobals, TypeOK, IsVariables
<1>2. CASE ResolveEnvironment
  <2>1. IsVariables(environment')
    BY <1>2, SourceType DEF ResolveEnvironment
  <2>2. IsVariables(variables')
    BY <1>0, <1>2, <2>1, MergeType DEF ResolveEnvironment
  <2> QED  BY <1>2, <2>1, <2>2 DEF ResolveEnvironment, TypeOK, IsVariables, Merge
<1>3. CASE ApplyOverrides
  <2>1. IsVariables(variables')
    BY <1>0, <1>3, MergeType, ResolveAllType DEF ApplyOverrides
  <2> QED  BY <1>3, <2>1 DEF ApplyOverrides, TypeOK, IsVariables, Merge
<1>4. ASSUME NEW k \in Keys, NEW t \in ScriptTexts, SetVariable(k, t) PROVE TypeOK'
  <2>1. IsVariables([j \in {k} |-> t])
    BY TextsAssumption DEF IsVariables
  <2>2. IsVariables(variables')
    BY <1>0, <1>4, <2>1, MergeType DEF SetVariable
  <2>3. IsVariables(written') /\ sets' \in 0..MaxSets
    BY <1>0, <1>4, TextsAssumption, BoundAssumption DEF SetVariable, Written, TypeOK, IsVariables
  <2> QED  BY <1>4, <2>2, <2>3 DEF SetVariable, TypeOK, IsVariables
<1>5. CASE Fail \/ Send \/ Finish \/ FinishSubstitution
  BY <1>5 DEF Fail, Send, Finish, FinishSubstitution, TypeOK
<1>6. CASE StartSubstitution
  <2>1. input' \in Text /\ text' \in Text /\ Len(text') \in Nat
    BY <1>6, ResolveFacts DEF StartSubstitution, TypeOK, Text
  <2> QED  BY <1>6, <2>1, KeysAssumption DEF StartSubstitution, TypeOK
<1>7. CASE Replace
  <2>1. text' \in Text /\ Len(text') = Len(text) - 1 + Len(variables[key])
    BY <1>7, ReplacedFacts DEF Replace
  <2>2. First \in pos..Len(text) /\ pos' = First + Len(variables[key])
    BY <1>7, ReplacedFacts DEF Replace
  <2>3. pos \in Nat \ {0} /\ Len(text) \in Nat /\ Len(variables[key]) \in Nat
    BY <1>7 DEF Replace, TypeOK, Text
  <2>4. pos' \in 1..(Len(text') + 1)
    BY <2>1, <2>2, <2>3
  <2> QED  BY <1>7, <2>1, <2>4 DEF Replace, TypeOK
<1>8. CASE NextKey
  <2>1. key' \in 1..(NumKeys + 1) /\ pos' \in 1..(Len(text') + 1)
    BY <1>8, KeysAssumption DEF NextKey, TypeOK, Keys, Text
  <2> QED  BY <1>8, <2>1 DEF NextKey, TypeOK
<1>9. CASE UNCHANGED vars
  BY <1>9 DEF vars, TypeOK
<1> QED  BY <1>1, <1>2, <1>3, <1>4, <1>5, <1>6, <1>7, <1>8, <1>9 DEF Next

-----------------------------------------------------------------------------
(* Where the values of the variables come from. *)

LEMMA NextGathered == TypeOK /\ Gathered /\ [Next]_vars => Gathered'
<1> SUFFICES ASSUME TypeOK, Gathered, [Next]_vars PROVE Gathered'
  OBVIOUS
<1> USE DEF sources, cursor
<1>1. CASE ResolveGlobals
  BY <1>1 DEF ResolveGlobals, Gathered
<1>2. CASE ResolveEnvironment
  BY <1>2 DEF ResolveEnvironment, Gathered
<1>3. CASE ApplyOverrides
  <2>1. /\ variables = Merge(globals, environment) /\ written' = NoVariables
        /\ variables' = Merge(variables, ResolveAll(overrides))
        /\ UNCHANGED <<overrides, globals, environment>>
    BY <1>3 DEF ApplyOverrides, Gathered
  <2>2. DOMAIN variables' = Defined'
    BY <2>1 DEF Merge, ResolveAll, Defined, NoVariables
  <2>3. \A k \in DOMAIN variables' : variables'[k] = Winner(k)'
    BY <2>1 DEF Merge, ResolveAll, Winner, NoVariables
  <2>4. variables' = [k \in Defined |-> Winner(k)]'
    BY <2>1, <2>2, <2>3 DEF Merge
  <2> QED  BY <1>3, <2>4 DEF ApplyOverrides, Gathered
<1>4. ASSUME NEW k \in Keys, NEW t \in ScriptTexts, SetVariable(k, t) PROVE Gathered'
  <2>1. variables = [m \in Defined |-> Winner(m)] /\ pc' = pc /\ pc \in {"before", "after"}
    BY <1>4 DEF SetVariable, Written, Gathered
  <2>2. /\ variables' = Merge(variables, [j \in {k} |-> t])
        /\ written' = [j \in DOMAIN written \cup {k} |-> IF j = k THEN t ELSE written[j]]
        /\ UNCHANGED <<overrides, globals, environment>>
    BY <1>4 DEF SetVariable, Written
  <2>3. DOMAIN variables' = Defined' /\ Defined' = Defined \cup {k}
    BY <2>1, <2>2 DEF Merge, Defined
  <2>4. \A m \in DOMAIN variables' : variables'[m] = Winner(m)'
    BY <2>1, <2>2, <2>3 DEF Merge, Winner
  <2>5. variables' = [m \in Defined |-> Winner(m)]'
    BY <2>2, <2>3, <2>4 DEF Merge
  <2> QED  BY <2>1, <2>5 DEF Gathered
<1>5. CASE Fail \/ Send \/ Finish \/ FinishSubstitution
  BY <1>5 DEF Fail, Send, Finish, FinishSubstitution, Gathered, Defined, Winner
<1>6. CASE StartSubstitution \/ Replace \/ NextKey
  BY <1>6 DEF StartSubstitution, Replace, NextKey, Gathered, Defined, Winner
<1>7. CASE UNCHANGED vars
  BY <1>7 DEF vars, Gathered, Defined, Winner
<1> QED  BY <1>1, <1>2, <1>3, <1>4, <1>5, <1>6, <1>7 DEF Next

-----------------------------------------------------------------------------
(* What the substitution leaves behind. *)

LEMMA ReplaceLeaves ==
    ASSUME IInv, Replace
    PROVE  PassedExplained' /\ DynamicFromValue'
<1> DEFINE v == variables[key]
<1>1. /\ pc = "substitute" /\ key \in DOMAIN variables /\ Hits # {}
      /\ text' = Replaced /\ pos' = First + Len(v)
      /\ UNCHANGED <<pc, variables, key>>
  BY DEF Replace
<1>2. /\ First \in pos..Len(text) /\ \A q \in Hits : First <= q
      /\ Len(text') = Len(text) - 1 + Len(v)
  BY <1>1, ReplacedFacts DEF IInv
<1>3. /\ pos \in Nat \ {0} /\ Len(text) \in Nat /\ Len(v) \in Nat /\ key \in Nat
      /\ v \in Text /\ text \in Text
  BY <1>1 DEF IInv, TypeOK, Text
<1>4. \A j \in DOMAIN variables : InLaterValue(j)' <=> InLaterValue(j)
  BY <1>1 DEF InLaterValue
<1>5. ASSUME NEW i \in 1..Len(text')
      PROVE  \/ i < First /\ i \in 1..Len(text) /\ text'[i] = text[i]
             \/ i \in First..(First - 1 + Len(v)) /\ text'[i] = v[i - First + 1]
             \/ /\ i >= First + Len(v)
                /\ i - Len(v) + 1 \in 1..Len(text) /\ text'[i] = text[i - Len(v) + 1]
  <2>1. First \in Nat \ {0} /\ First <= Len(text)
    BY <1>2, <1>3
  <2>2. CASE i < First
    <3>1. i \in 1..(First - 1) /\ i \in 1..Len(text)
      BY <2>1, <2>2
    <3> QED  BY <1>1, <2>2, <3>1, ReplacedFacts DEF IInv
  <2>3. CASE i \in First..(First - 1 + Len(v))
    BY <1>1, <2>3, ReplacedFacts DEF IInv
  <2>4. CASE i >= First + Len(v)
    <3>1. i \in (First + Len(v))..Len(text') /\ i - Len(v) + 1 \in 1..Len(text)
      BY <1>2, <1>3, <2>1, <2>4
    <3> QED  BY <1>1, <2>4, <3>1, ReplacedFacts DEF IInv
  <2>5. i < First \/ i \in First..(First - 1 + Len(v)) \/ i >= First + Len(v)
    <3>1. Len(text') \in Nat /\ i \in Nat
      BY <1>2, <1>3
    <3>. HIDE DEF v
    <3>. QED  BY <1>3, <2>1, <3>1
  <2> QED  BY <2>2, <2>3, <2>4, <2>5
<1>6. ASSUME NEW i \in First..(First - 1 + Len(v)) PROVE i - First + 1 \in DOMAIN v
  BY <1>2, <1>3 DEF Text
<1>7. ASSUME NEW i \in 1..Len(text'), NEW j \in DOMAIN variables,
             text'[i] = Ref(j), Passed(i, j)'
      PROVE  InLaterValue(j)
  <2>1. j \in Nat /\ j <= key
    BY <1>1, <1>3, <1>7 DEF Passed, IInv, TypeOK, Keys
  <2>2. CASE i < First /\ i \in 1..Len(text) /\ text'[i] = text[i]
    <3>1. j < key \/ (j = key /\ i < pos)
      <4> SUFFICES ASSUME j = key, i >= pos PROVE FALSE
        BY <1>3, <2>1
      <4>1. i \in Hits
        BY <1>3, <1>7, <2>2 DEF Hits
      <4> QED  BY <1>2, <1>3, <2>2, <4>1
    <3> QED  BY <1>1, <1>7, <2>2, <3>1 DEF IInv, PassedExplained, Passed
  <2>3. CASE i \in First..(First - 1 + Len(v)) /\ text'[i] = v[i - First + 1]
    BY <1>1, <1>6, <1>7, <2>1, <2>3 DEF InLaterValue, Holds
  <2>4. CASE /\ i >= First + Len(v)
             /\ i - Len(v) + 1 \in 1..Len(text) /\ text'[i] = text[i - Len(v) + 1]
    <3>1. j < key
      BY <1>1, <1>2, <1>3, <1>7, <2>4 DEF Passed
    <3> QED  BY <1>1, <1>7, <2>4, <3>1 DEF IInv, PassedExplained, Passed
  <2> QED  BY <1>5, <2>2, <2>3, <2>4
<1>8. PassedExplained'
  BY <1>1, <1>4, <1>7 DEF PassedExplained
<1>9. ASSUME NEW i \in 1..Len(text'), text'[i] = Dynamic
      PROVE  \E m \in DOMAIN variables : Holds(variables[m], Dynamic)
  <2>1. CASE i \in 1..Len(text) /\ text'[i] = text[i]
    BY <1>1, <1>3, <1>9, <2>1 DEF IInv, DynamicFromValue, Holds, Text
  <2>2. CASE i \in First..(First - 1 + Len(v)) /\ text'[i] = v[i - First + 1]
    BY <1>1, <1>6, <1>9, <2>2 DEF Holds
  <2>3. CASE i - Len(v) + 1 \in 1..Len(text) /\ text'[i] = text[i - Len(v) + 1]
    BY <1>1, <1>3, <1>9, <2>3 DEF IInv, DynamicFromValue, Holds, Text
  <2> QED  BY <1>5, <2>1, <2>2, <2>3
<1>10. DOMAIN (text') = 1..Len(text')
  BY <1>1, ReplacedFacts DEF IInv, Text
<1>11. DynamicFromValue'
  BY <1>1, <1>9, <1>10 DEF DynamicFromValue, Holds
<1> QED  BY <1>8, <1>11

LEMMA NextLeaves ==
    ASSUME IInv, [Next]_vars
    PROVE  PassedExplained' /\ DynamicFromValue' /\ KeysDone'
<1> USE DEF sources, cursor
<1>1. CASE StartSubstitution
  <2>1. /\ pc' = "substitute" /\ text' = Resolve(input) /\ key' = 1 /\ pos' = 1
        /\ variables' = variables /\ input \in Text
    BY <1>1 DEF StartSubstitution, IInv, TypeOK
  <2>2. ASSUME NEW i \in 1..Len(text'), NEW j \in DOMAIN variables PROVE ~Passed(i, j)'
    <3>1. j \in Nat \ {0} /\ text' \in Text /\ i \in Nat \ {0}
      BY <2>1, ResolveFacts DEF IInv, TypeOK, Keys, Text
    <3> QED  BY <2>1, <3>1 DEF Passed
  <2>3. ~Holds(text', Dynamic)
    BY <2>1, ResolveFacts
  <2> QED  BY <2>1, <2>2, <2>3 DEF PassedExplained, DynamicFromValue, KeysDone
<1>2. CASE Replace
  <2>1. KeysDone'
    BY <1>2 DEF Replace, KeysDone
  <2> QED  BY <1>2, <2>1, ReplaceLeaves
<1>3. CASE NextKey
  <2>1. /\ pc = "substitute" /\ key' = key + 1 /\ pos' = 1
        /\ key \in DOMAIN variables => Hits = {}
        /\ UNCHANGED <<pc, variables, text>> /\ key \in Nat /\ pos \in Nat
        /\ text \in Text
    BY <1>3 DEF NextKey, IInv, TypeOK
  <2>2. ASSUME NEW i \in 1..Len(text), NEW j \in DOMAIN variables,
               text[i] = Ref(j), Passed(i, j)'
        PROVE  Passed(i, j)
    <3>1. j \in Nat /\ i \in Nat \ {0} /\ Len(text) \in Nat
      BY <2>1 DEF IInv, TypeOK, Keys, Text
    <3>2. j <= key
      BY <2>1, <2>2, <3>1 DEF Passed
    <3>3. CASE j = key
      <4>1. i \notin Hits
        BY <2>1, <3>3
      <4> QED  BY <2>1, <2>2, <3>1, <3>3, <4>1 DEF Hits, Passed
    <3> QED  BY <2>1, <3>1, <3>2, <3>3 DEF Passed
  <2>3. PassedExplained'
    BY <2>1, <2>2 DEF IInv, PassedExplained, InLaterValue
  <2>4. DynamicFromValue' /\ KeysDone'
    BY <2>1 DEF IInv, DynamicFromValue, KeysDone
  <2> QED  BY <2>3, <2>4
<1>4. CASE FinishSubstitution
  <2>1. /\ pc = "substitute" /\ key' = NumKeys + 1
        /\ UNCHANGED <<variables, text, key, pos>>
    BY <1>4 DEF FinishSubstitution
  <2>2. PassedExplained'
    BY <2>1 DEF IInv, PassedExplained, InLaterValue, Passed
  <2>3. DynamicFromValue' /\ KeysDone'
    BY <2>1 DEF IInv, DynamicFromValue, KeysDone
  <2> QED  BY <2>2, <2>3
<1>5. CASE ResolveGlobals \/ ResolveEnvironment \/ ApplyOverrides
  BY <1>5 DEF ResolveGlobals, ResolveEnvironment, ApplyOverrides,
              PassedExplained, DynamicFromValue, KeysDone
<1>6. CASE Fail \/ Send \/ Finish
  BY <1>6 DEF Fail, Send, Finish, PassedExplained, DynamicFromValue, KeysDone
<1>7. ASSUME NEW k \in Keys, NEW t \in ScriptTexts, SetVariable(k, t)
      PROVE  PassedExplained' /\ DynamicFromValue' /\ KeysDone'
  BY <1>7 DEF SetVariable, Written, PassedExplained, DynamicFromValue, KeysDone
<1>8. CASE UNCHANGED vars
  BY <1>8 DEF vars, IInv, PassedExplained, DynamicFromValue, KeysDone, InLaterValue, Passed
<1> QED  BY <1>1, <1>2, <1>3, <1>4, <1>5, <1>6, <1>7, <1>8 DEF Next

-----------------------------------------------------------------------------
(* The invariant, and what follows from it. *)

LEMMA Invariance == Spec => []IInv
<1>1. Init => IInv
  BY InitType DEF Init, IInv, Gathered, PassedExplained, DynamicFromValue, KeysDone
<1>2. IInv /\ [Next]_vars => IInv'
  BY NextType, NextGathered, NextLeaves DEF IInv
<1> QED  BY <1>1, <1>2, PTL DEF Spec

(* Variables are texts, and the position of the substitution is within the text,
   or right behind it, after every replacement. *)
THEOREM TypeCorrect == Spec => []TypeOK
<1>1. IInv => TypeOK
  BY DEF IInv
<1> QED  BY <1>1, Invariance, PTL

(* However many variables there are and whatever they refer to: a reference to a
   variable that exists reaches the transport only if the value of that variable
   or of a later one holds it. *)
THEOREM LeftoverCorrect == Spec => []LeftoverExplained
<1>1. IInv => LeftoverExplained
  <2> SUFFICES ASSUME IInv, pc = "transport", NEW j \in DOMAIN variables,
                      NEW i \in DOMAIN text, text[i] = Ref(j)
               PROVE  InLaterValue(j)
    BY DEF LeftoverExplained, Resolved, Holds, InLaterValue
  <2>1. i \in 1..Len(text)
    BY DEF IInv, TypeOK, Text
  <2>2. j \in 1..NumKeys /\ key = NumKeys + 1
    BY DEF IInv, TypeOK, KeysDone, Keys
  <2>3. j < key
    BY <2>2, KeysAssumption
  <2> QED  BY <2>1, <2>3 DEF IInv, PassedExplained, Passed
<1> QED  BY <1>1, Invariance, PTL

(* A dynamic token that reaches the transport came with a variable's value, and
   not with the value of an override, which was resolved. *)
THEOREM DynamicCorrect == Spec => []DynamicExplained
<1>1. IInv => DynamicExplained
  <2> SUFFICES ASSUME IInv, pc = "transport", Holds(text, Dynamic)
               PROVE  \E m \in DOMAIN variables :
                         /\ Holds(variables[m], Dynamic)
                         /\ m \notin DOMAIN written => m \notin DOMAIN overrides
    BY DEF DynamicExplained, Resolved
  <2>1. PICK m \in DOMAIN variables : Holds(variables[m], Dynamic)
    BY DEF IInv, DynamicFromValue
  <2>2. ASSUME m \notin DOMAIN written, m \in DOMAIN overrides PROVE FALSE
    <3>1. variables[m] = Resolve(overrides[m]) /\ overrides[m] \in Text
      BY <2>1, <2>2 DEF IInv, Gathered, Winner, TypeOK
    <3> QED  BY <2>1, <3>1, ResolveFacts
  <2> QED  BY <2>1, <2>2
<1> QED  BY <1>1, Invariance, PTL

(* Every variable that anyone has defined is there, with the value that a script
   set last, else with that of the overrides, the environment and the project, in
   this order: for any sources, and any number of sets. *)
THEOREM PrecedenceCorrect == Spec => []Precedence
<1>1. IInv => Precedence
  BY DEF IInv, Gathered, Precedence, Resolved
<1> QED  BY <1>1, Invariance, PTL

-----------------------------------------------------------------------------
(* Replacing all references at once. *)

LEMMA RefInjective == \A j, k : Ref(j) = Ref(k) => j = k
  BY DEF Ref

LEMMA ImageFacts ==
    ASSUME IsVariables(variables)
    PROVE  /\ \A piece \in Piece : Image(piece) \in Text
           /\ \A k \in DOMAIN variables : Image(Ref(k)) = variables[k]
<1>1. ASSUME NEW k \in DOMAIN variables PROVE Image(Ref(k)) = variables[k]
  <2>1. (CHOOSE j \in DOMAIN variables : Ref(k) = Ref(j)) = k
    BY RefInjective
  <2>. QED  BY <2>1 DEF Image
<1>2. ASSUME NEW piece \in Piece PROVE Image(piece) \in Text
  <2>1. CASE \E k \in DOMAIN variables : piece = Ref(k)
    BY <1>1, <2>1 DEF IsVariables
  <2>2. CASE ~\E k \in DOMAIN variables : piece = Ref(k)
    BY <2>2 DEF Image, Text
  <2>. QED  BY <2>1, <2>2
<1>. QED  BY <1>1, <1>2

Images(t) == [i \in DOMAIN t |-> Image(t[i])]

LEMMA ImagesType ==
    ASSUME IsVariables(variables), NEW t \in Text
    PROVE  /\ Images(t) \in Texts(Piece) /\ Len(Images(t)) = Len(t)
           /\ \A i \in 1..Len(t) : Images(t)[i] = Image(t[i])
<1>1. Len(t) \in Nat /\ DOMAIN t = 1..Len(t) /\ \A i \in 1..Len(t) : t[i] \in Piece
  BY DEF Text
<1>2. Images(t) \in [1..Len(t) -> Text]
  BY <1>1, ImageFacts DEF Images
<1>. QED  BY <1>1, <1>2 DEF Images, Texts, Text

(* What stands for a text is put together of what stands for its parts. *)
LEMMA SimultaneousConcat ==
    ASSUME IsVariables(variables), NEW a \in Text, NEW b \in Text
    PROVE  /\ Simultaneous(a) \in Text
           /\ Simultaneous(a \o b) = Simultaneous(a) \o Simultaneous(b)
<1>1. Simultaneous(a) = FlattenSeq(Images(a)) /\ Simultaneous(b) = FlattenSeq(Images(b))
      /\ Simultaneous(a \o b) = FlattenSeq(Images(a \o b))
  BY DEF Simultaneous, Images
<1>2. Images(a \o b) = Images(a) \o Images(b)
  <2>1. /\ Len(a) \in Nat /\ Len(b) \in Nat /\ a \o b \in Text /\ Len(a \o b) = Len(a) + Len(b)
        /\ \A i \in 1..Len(a) : (a \o b)[i] = a[i]
        /\ \A i \in 1..Len(b) : (a \o b)[Len(a) + i] = b[i]
    BY DEF Text
  <2>. DEFINE x == Images(a)
              y == Images(b)
              z == Images(a \o b)
  <2>2. /\ x \in Seq(Text) /\ Len(x) = Len(a) /\ \A i \in 1..Len(a) : x[i] = Image(a[i])
        /\ y \in Seq(Text) /\ Len(y) = Len(b) /\ \A i \in 1..Len(b) : y[i] = Image(b[i])
    BY ImagesType DEF Texts, Text
  <2>3. /\ z \in Seq(Text) /\ Len(z) = Len(a) + Len(b)
        /\ \A i \in 1..(Len(a) + Len(b)) : z[i] = Image((a \o b)[i])
    BY <2>1, ImagesType DEF Texts, Text
  <2>. HIDE DEF x, y, z
  <2>4. /\ x \o y \in Seq(Text) /\ Len(x \o y) = Len(a) + Len(b)
        /\ \A i \in 1..Len(a) : (x \o y)[i] = x[i]
        /\ \A i \in 1..Len(b) : (x \o y)[Len(a) + i] = y[i]
    BY <2>2
  <2>5. ASSUME NEW i \in 1..(Len(a) + Len(b)) PROVE (x \o y)[i] = z[i]
    <3>1. CASE i \in 1..Len(a)
      BY <2>1, <2>2, <2>3, <2>4, <3>1
    <3>2. CASE i \notin 1..Len(a)
      <4>1. PICK k \in 1..Len(b) : i = Len(a) + k
        <5>1. i - Len(a) \in 1..Len(b) /\ i = Len(a) + (i - Len(a))
          BY <2>1, <3>2
        <5>. QED  BY <5>1
      <4>. QED  BY <2>1, <2>2, <2>3, <2>4, <4>1
    <3>. QED  BY <3>1, <3>2
  <2>6. x \o y = z
    BY <2>1, <2>3, <2>4, <2>5
  <2>. QED  BY <2>6 DEF x, y, z
<1>3. Images(a) \in Texts(Piece) /\ Images(b) \in Texts(Piece)
  BY ImagesType
<1>4. /\ FlattenSeq(Images(a)) \in Seq(Piece)
      /\ FlattenSeq(Images(a) \o Images(b)) = FlattenSeq(Images(a)) \o FlattenSeq(Images(b))
  BY <1>3, FlattenConcat
<1>. QED  BY <1>1, <1>2, <1>4 DEF Text

(* A text without references to variables stands for itself, a reference for the
   value of its variable. *)
LEMMA SimultaneousItself ==
    ASSUME NEW t \in Text, \A i \in DOMAIN t, k \in DOMAIN variables : t[i] # Ref(k)
    PROVE  Simultaneous(t) = t
<1>1. [i \in DOMAIN t |-> Image(t[i])] = [i \in DOMAIN t |-> <<t[i]>>]
  BY DEF Image
<1>2. t \in Seq(Piece)
  BY DEF Text
<1>. QED  BY <1>1, <1>2, FlattenUnits DEF Simultaneous

LEMMA SimultaneousRef ==
    ASSUME IsVariables(variables), NEW k \in DOMAIN variables
    PROVE  Simultaneous(<<Ref(k)>>) = variables[k]
<1>1. Simultaneous(<<Ref(k)>>) = FlattenSeq(<<Image(Ref(k))>>)
  <2>1. [i \in DOMAIN <<Ref(k)>> |-> Image(<<Ref(k)>>[i])] = <<Image(Ref(k))>>
    OBVIOUS
  <2>. QED  BY <2>1 DEF Simultaneous
<1>2. Image(Ref(k)) = variables[k] /\ variables[k] \in Seq(Piece)
  BY ImageFacts DEF IsVariables, Text
<1>. QED  BY <1>1, <1>2, FlattenOne

(* While the substitution goes on, what stands for the text is what stands for
   the input, as long as no value refers to a variable. *)
FlatInv ==
    pc \in {"substitute", "transport"} /\ RefFree(variables) =>
        Simultaneous(text) = Simultaneous(input)

LEMMA ReplaceFlat ==
    ASSUME TypeOK, Replace, RefFree(variables)
    PROVE  Simultaneous(text') = Simultaneous(text)
<1>. DEFINE a == SubSeq(text, 1, First - 1)
            r == <<Ref(key)>>
            v == variables[key]
            b == SubSeq(text, First + 1, Len(text))
<1>1. /\ key \in DOMAIN variables /\ IsVariables(variables)
      /\ First \in pos..Len(text) /\ text[First] = Ref(key)
      /\ text' = (a \o v) \o b
  BY ReplacedFacts DEF Replace, TypeOK, IsVariables, Replaced
<1>2. First \in 1..Len(text) /\ Len(text) \in Nat /\ text \in Seq(Piece)
  BY <1>1 DEF TypeOK, Text
<1>3. a \in Text /\ b \in Text /\ r \in Text /\ v \in Text
  BY <1>1, <1>2 DEF Text, TypeOK, Piece
<1>4. text = (a \o r) \o b
  BY <1>1, <1>2, SpliceSame DEF Splice
<1>5. Simultaneous(r) = v
  BY <1>1, SimultaneousRef
<1>6. Simultaneous(v) = v
  <2>1. \A i \in DOMAIN v, k \in DOMAIN variables : v[i] # Ref(k)
    BY <1>1 DEF RefFree, Holds, IsVariables
  <2>. QED  BY <1>3, <2>1, SimultaneousItself
<1>. HIDE DEF a, b, r, v
<1>7. \A t \in Text : Simultaneous((a \o t) \o b)
                        = (Simultaneous(a) \o Simultaneous(t)) \o Simultaneous(b)
  <2> SUFFICES ASSUME NEW t \in Text
               PROVE  Simultaneous((a \o t) \o b)
                        = (Simultaneous(a) \o Simultaneous(t)) \o Simultaneous(b)
    OBVIOUS
  <2>1. a \o t \in Text
    BY <1>3 DEF Text
  <2>2. Simultaneous((a \o t) \o b) = Simultaneous(a \o t) \o Simultaneous(b)
    BY <1>1, <1>3, <2>1, SimultaneousConcat
  <2>3. Simultaneous(a \o t) = Simultaneous(a) \o Simultaneous(t)
    BY <1>1, <1>3, SimultaneousConcat
  <2>. QED  BY <2>2, <2>3
<1>. QED  BY <1>1, <1>3, <1>4, <1>5, <1>6, <1>7

LEMMA NextFlat ==
    ASSUME IInv, FlatInv, [Next]_vars
    PROVE  FlatInv'
<1>. USE DEF sources, cursor
<1>1. CASE StartSubstitution
  BY <1>1 DEF StartSubstitution, FlatInv
<1>2. CASE Replace
  <2>1. UNCHANGED <<pc, variables, input>> /\ pc = "substitute"
    BY <1>2 DEF Replace
  <2>2. /\ Simultaneous(text)' = Simultaneous(text')
        /\ Simultaneous(input)' = Simultaneous(input)
    BY <2>1 DEF Simultaneous, Image
  <2>3. RefFree(variables)' = RefFree(variables)
    BY <2>1
  <2>. QED  BY <1>2, <2>1, <2>2, <2>3, ReplaceFlat DEF FlatInv, IInv
<1>3. CASE NextKey \/ FinishSubstitution
  <2>1. UNCHANGED <<variables, input, text>> /\ pc = "substitute"
    BY <1>3 DEF NextKey, FinishSubstitution
  <2>. QED  BY <2>1 DEF FlatInv, Simultaneous, Image, RefFree
<1>4. CASE \/ ResolveGlobals \/ ResolveEnvironment \/ ApplyOverrides
           \/ Fail \/ Send \/ Finish
  BY <1>4 DEF ResolveGlobals, ResolveEnvironment, ApplyOverrides, Fail, Send, Finish, FlatInv
<1>5. ASSUME NEW k \in Keys, NEW t \in ScriptTexts, SetVariable(k, t) PROVE FlatInv'
  BY <1>5 DEF SetVariable, Written, FlatInv
<1>6. CASE UNCHANGED vars
  BY <1>6 DEF vars, FlatInv, Simultaneous, Image, RefFree
<1>. QED  BY <1>1, <1>2, <1>3, <1>4, <1>5, <1>6 DEF Next

(* For any variables whose values refer to none, in whatever order they are gone
   through, the loops replace every reference of the input at once. *)
THEOREM FlatCorrect == Spec => []FlatIsSimultaneous
<1>1. Init => FlatInv
  BY DEF Init, FlatInv
<1>2. IInv /\ FlatInv /\ [Next]_vars => FlatInv'
  BY NextFlat
<1>3. IInv /\ FlatInv => FlatIsSimultaneous
  <2> SUFFICES ASSUME IInv, FlatInv, pc = "transport", RefFree(variables)
               PROVE  text = Simultaneous(input)
    BY DEF FlatIsSimultaneous, Resolved
  <2>1. ASSUME NEW i \in DOMAIN text, NEW j \in DOMAIN variables, text[i] = Ref(j)
        PROVE  FALSE
    <3>1. i \in 1..Len(text) /\ j \in Keys /\ key = NumKeys + 1
      BY DEF IInv, TypeOK, Text, KeysDone
    <3>2. Passed(i, j)
      BY <3>1, KeysAssumption DEF Passed, Keys
    <3>3. PICK m \in DOMAIN variables : Holds(variables[m], Ref(j))
      BY <2>1, <3>1, <3>2 DEF IInv, PassedExplained, InLaterValue
    <3>. QED  BY <3>1, <3>3 DEF RefFree
  <2>2. Simultaneous(text) = text
    BY <2>1, SimultaneousItself DEF IInv, TypeOK
  <2>. QED  BY <2>2 DEF FlatInv
<1>. QED  BY <1>1, <1>2, <1>3, Invariance, PTL DEF Spec

-----------------------------------------------------------------------------
(* What the substitution has still to do. *)

(* The pieces that the search for the present key has not passed. *)
Ahead == Len(text) + 1 - pos

(* A step goes on to the next key or leaves less of the text ahead, and that is
   never less than nothing. *)
Advance ==
    /\ Ahead \in Nat /\ Ahead' \in Nat
    /\ \/ key' = key /\ Ahead' < Ahead
       \/ key' = key + 1 /\ key' <= NumKeys + 1
       \/ key' = key /\ pc' = "transport"

(* Although a replacement may make the text longer, and its value refer to the
   key itself: the turns of the inner loop are bounded by the length the text had
   when its key began, and the turns of the outer one by the number of keys. *)
THEOREM SubstitutionAdvances == Spec => [][pc = "substitute" => Advance]_vars
<1>1. IInv /\ IInv' /\ Next /\ pc = "substitute" => Advance
  <2> SUFFICES ASSUME IInv, IInv', Next, pc = "substitute" PROVE Advance
    OBVIOUS
  <2>. USE DEF cursor, sources
  <2>1. /\ Len(text) \in Nat /\ pos \in 1..(Len(text) + 1) /\ key \in 1..(NumKeys + 1)
        /\ Len(text') \in Nat /\ pos' \in 1..(Len(text') + 1) /\ NumKeys \in Nat
    BY KeysAssumption DEF IInv, TypeOK, Text
  <2>2. Ahead \in Nat /\ Ahead' \in Nat
    BY <2>1 DEF Ahead
  <2>3. CASE Replace
    <3>1. /\ key \in DOMAIN variables /\ Hits # {} /\ key' = key
          /\ text' = Replaced /\ pos' = First + Len(variables[key])
      BY <2>3 DEF Replace
    <3>2. Len(variables[key]) \in Nat
      BY <3>1 DEF IInv, TypeOK, Text
    <3>3. First \in pos..Len(text) /\ Len(text') = Len(text) - 1 + Len(variables[key])
      BY <3>1, ReplacedFacts DEF IInv
    <3>4. Ahead' < Ahead
      BY <2>1, <3>1, <3>2, <3>3 DEF Ahead
    <3>. QED  BY <2>2, <3>1, <3>4 DEF Advance
  <2>4. CASE NextKey
    BY <2>1, <2>2, <2>4 DEF NextKey, Keys, Advance
  <2>5. CASE FinishSubstitution
    BY <2>2, <2>5 DEF FinishSubstitution, Advance
  <2>. QED  BY <2>3, <2>4, <2>5 DEF Next, ResolveGlobals, ResolveEnvironment, ApplyOverrides,
              SetVariable, Written, Fail, StartSubstitution, Send, Finish
<1>2. IInv /\ IInv' /\ [Next]_vars => [pc = "substitute" => Advance]_vars
  BY <1>1
<1>. QED  BY <1>2, Invariance, PTL DEF Spec
=============================================================================
