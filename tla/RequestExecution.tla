-------------------------- MODULE RequestExecution --------------------------
(***************************************************************************)
(* RequestExecutor::execute: the variables of a request are gathered, a    *)
(* script may change them, and every reference {{key}} in the endpoint's   *)
(* text is replaced, key after key and from left to right, before the      *)
(* request goes to the transport.                                          *)
(*                                                                         *)
(* A text is a sequence of pieces: references, dynamic tokens such as      *)
(* {{$guid}}, and literals.  Keys are numbered in the order in which       *)
(* nlohmann::json iterates over them.  The fields of an endpoint are       *)
(* substituted alike and apart from each other; one stands for all.        *)
(***************************************************************************)
EXTENDS Naturals, Sequences, SequencesExt

CONSTANTS
    NumKeys,
    EndpointTexts,   \* what the field may hold
    Globals,         \* what the global variables of a project may be
    Environments,    \* what the variables of an environment may be
    OverrideSets,    \* what the caller may override
    ScriptTexts,     \* what a script may set a variable to
    MaxSets          \* bound: calls of nt.environment.set by the two scripts

Keys == 1..NumKeys

Literal == <<"literal", 0>>
Dynamic == <<"dynamic", 0>>
Ref(k) == <<"ref", k>>
Piece == {Literal, Dynamic} \cup {Ref(k) : k \in Keys}
Text == Seq(Piece)
Variables == UNION {[K -> Text] : K \in SUBSET Keys}
NoVariables == [k \in {} |-> <<>>]

ASSUME KeysAssumption == NumKeys \in Nat
ASSUME TextsAssumption ==
    \A t \in EndpointTexts \cup ScriptTexts : t \in Text
ASSUME VariablesAssumption ==
    \A v \in Globals \cup Environments \cup OverrideSets :
        DOMAIN v \subseteq Keys /\ \A k \in DOMAIN v : v[k] \in Text
ASSUME BoundAssumption == MaxSets \in Nat

VARIABLES
    pc,
    overrides,    \* bundle.overrides
    globals,      \* what getGlobalVariables returned
    environment,  \* the variables of the environment, none if there is none
    variables,    \* resolvedVariables
    written,      \* history: what a script has set a variable to, the last time
    sets,         \* calls of nt.environment.set so far
    input,        \* the endpoint's field after its dynamic tokens
    text,         \* result in substituteString
    key, pos      \* iterator and position in substituteString

sources == <<overrides, globals, environment>>
cursor == <<text, key, pos>>
vars == <<pc, sources, variables, written, sets, input, cursor>>

TypeOK ==
    /\ pc \in {"globals", "environment", "overrides", "before", "substitute",
               "transport", "after", "done", "failed"}
    /\ \A v \in {overrides, globals, environment, variables, written} :
          DOMAIN v \subseteq Keys /\ \A k \in DOMAIN v : v[k] \in Text
    /\ sets \in 0..MaxSets
    /\ input \in Text /\ text \in Text
    /\ key \in 1..(NumKeys + 1)
    /\ pos \in 1..(Len(text) + 1)

Init ==
    /\ pc = "globals"
    /\ overrides \in OverrideSets
    /\ globals = NoVariables /\ environment = NoVariables
    /\ variables = NoVariables
    /\ written = NoVariables /\ sets = 0
    /\ input \in EndpointTexts /\ text = <<>>
    /\ key = 1 /\ pos = 1

-----------------------------------------------------------------------------
(* mergeObjectInto. *)
Merge(target, source) ==
    [k \in DOMAIN target \cup DOMAIN source |->
        IF k \in DOMAIN source THEN source[k] ELSE target[k]]

(* Mutant: the token itself is left in place. *)
ResolveNothing(t) == t

(* DynamicVariableEngine::resolve: a generated value holds no token. *)
Resolve(t) == [i \in DOMAIN t |-> IF t[i] = Dynamic THEN Literal ELSE t[i]]

(* DynamicVariableEngine::resolveJson, on an object of strings. *)
ResolveAll(v) == [k \in DOMAIN v |-> Resolve(v[k])]

(* resolveVariables: a query that fails reads as a project without globals. *)
ResolveGlobals ==
    /\ pc = "globals" /\ pc' = "environment"
    /\ globals' \in Globals \cup {NoVariables}
    /\ variables' = globals'
    /\ UNCHANGED <<overrides, environment, written, sets, input, cursor>>

(* resolveVariables: no environment asked for, none found, or its variables. *)
ResolveEnvironment ==
    /\ pc = "environment" /\ pc' = "overrides"
    /\ environment' \in Environments \cup {NoVariables}
    /\ variables' = Merge(variables, environment')
    /\ UNCHANGED <<overrides, globals, written, sets, input, cursor>>

ApplyOverrides ==
    /\ pc = "overrides" /\ pc' = "before"
    /\ variables' = Merge(variables, ResolveAll(overrides))
    /\ UNCHANGED <<sources, written, sets, input, cursor>>

-----------------------------------------------------------------------------
(* A script sets k to t: counted, and remembered. *)
Written(k, t) ==
    /\ pc \in {"before", "after"} /\ sets < MaxSets
    /\ sets' = sets + 1
    /\ written' = [j \in DOMAIN written \cup {k} |-> IF j = k THEN t ELSE written[j]]

(* Mutant: a variable that is there already keeps its value. *)
SetVariableUnder(k, t) ==
    /\ Written(k, t)
    /\ variables' = Merge([j \in {k} |-> t], variables)
    /\ UNCHANGED <<pc, sources, input, cursor>>

(* nt.environment.set, in the script before the request or the one after it. *)
SetVariable(k, t) ==
    /\ Written(k, t)
    /\ variables' = Merge(variables, [j \in {k} |-> t])
    /\ UNCHANGED <<pc, sources, input, cursor>>

(* No sandbox in the build, an exception in the script, or its time is over; of
   the transport, an exception of its own. *)
Fail ==
    /\ pc \in {"before", "transport", "after"} /\ pc' = "failed"
    /\ UNCHANGED <<sources, variables, written, sets, input, cursor>>

(* The script before the request ends, or there is none: substituteString
   resolves dynamic tokens before it looks at variables. *)
StartSubstitution ==
    /\ pc = "before" /\ pc' = "substitute"
    /\ input' = Resolve(input) /\ text' = Resolve(input)
    /\ key' = 1 /\ pos' = 1
    /\ UNCHANGED <<sources, variables, written, sets>>

Hits == {p \in pos..Len(text) : text[p] = Ref(key)}
First == CHOOSE p \in Hits : \A q \in Hits : p <= q
Replaced == SubSeq(text, 1, First - 1) \o variables[key]
                \o SubSeq(text, First + 1, Len(text))

(* Mutant: the replacement is searched again. *)
ReplaceAgain ==
    /\ pc = "substitute" /\ key \in DOMAIN variables /\ Hits # {}
    /\ text' = Replaced
    /\ pos' = First
    /\ UNCHANGED <<pc, sources, variables, written, sets, input, key>>

(* Mutant: the position advances by the length of the token. *)
ReplaceSkips ==
    /\ pc = "substitute" /\ key \in DOMAIN variables /\ Hits # {}
    /\ text' = Replaced
    /\ pos' = First + 1
    /\ UNCHANGED <<pc, sources, variables, written, sets, input, key>>

(* One turn of the inner loop of substituteString. *)
Replace ==
    /\ pc = "substitute" /\ key \in DOMAIN variables /\ Hits # {}
    /\ text' = Replaced
    /\ pos' = First + Len(variables[key])
    /\ UNCHANGED <<pc, sources, variables, written, sets, input, key>>

(* The outer loop goes on to the next key. *)
NextKey ==
    /\ pc = "substitute" /\ key \in Keys
    /\ key \in DOMAIN variables => Hits = {}
    /\ key' = key + 1 /\ pos' = 1
    /\ UNCHANGED <<pc, sources, variables, written, sets, input, text>>

(* Mutant: the last key is left out. *)
FinishEarly ==
    /\ pc = "substitute" /\ key = NumKeys /\ pc' = "transport"
    /\ UNCHANGED <<sources, variables, written, sets, input, cursor>>

FinishSubstitution ==
    /\ pc = "substitute" /\ key = NumKeys + 1 /\ pc' = "transport"
    /\ UNCHANGED <<sources, variables, written, sets, input, cursor>>

(* transport_->execute returns. *)
Send ==
    /\ pc = "transport" /\ pc' = "after"
    /\ UNCHANGED <<sources, variables, written, sets, input, cursor>>

(* The script after the request ends, or there is none. *)
Finish ==
    /\ pc = "after" /\ pc' = "done"
    /\ UNCHANGED <<sources, variables, written, sets, input, cursor>>

Next ==
    \/ ResolveGlobals \/ ResolveEnvironment \/ ApplyOverrides
    \/ \E k \in Keys, t \in ScriptTexts : SetVariable(k, t)
    \/ Fail
    \/ StartSubstitution \/ Replace \/ NextKey \/ FinishSubstitution
    \/ Send \/ Finish

(* The executor runs in one thread, which goes on; scripts are interrupted. *)
Spec == Init /\ [][Next]_vars /\ WF_vars(Next)

-----------------------------------------------------------------------------
(* What the transport is handed, in every run of execute. *)
Resolved == pc = "transport"
Holds(t, piece) == \E i \in DOMAIN t : t[i] = piece
RefFree(v) == \A k \in DOMAIN v, j \in Keys : ~Holds(v[k], Ref(j))

(* A reference to a variable that exists is left in the text only where the
   value of that variable, or of one that comes later in the order, put it. *)
LeftoverExplained ==
    Resolved => \A j \in DOMAIN variables :
        Holds(text, Ref(j)) =>
            \E m \in DOMAIN variables : m >= j /\ Holds(variables[m], Ref(j))

(* A dynamic token is left only where the value of a variable put it: those of
   the endpoint and of the overrides have been resolved. *)
DynamicExplained ==
    Resolved /\ Holds(text, Dynamic) =>
        \E m \in DOMAIN variables :
            /\ Holds(variables[m], Dynamic)
            /\ m \notin DOMAIN written => m \notin DOMAIN overrides

(* What is to stand for a piece, and for a text of which every piece is replaced
   at once. *)
Image(piece) ==
    IF \E k \in DOMAIN variables : piece = Ref(k)
    THEN variables[CHOOSE k \in DOMAIN variables : piece = Ref(k)]
    ELSE <<piece>>
Simultaneous(t) == FlattenSeq([i \in DOMAIN t |-> Image(t[i])])

(* As long as no value refers to a variable, the loops over keys and positions
   replace all references of the input at once, in whatever order. *)
FlatIsSimultaneous ==
    Resolved /\ RefFree(variables) => text = Simultaneous(input)

(* The variables that someone has defined, and the value that is to win. *)
Defined == DOMAIN globals \cup DOMAIN environment \cup DOMAIN overrides \cup DOMAIN written
Winner(k) ==
    IF k \in DOMAIN written THEN written[k]
    ELSE IF k \in DOMAIN overrides THEN Resolve(overrides[k])
    ELSE IF k \in DOMAIN environment THEN environment[k]
    ELSE globals[k]

(* The substitution works with every variable that someone has defined and no
   other.  Each has the value that a script set last, although the overrides were
   merged after everything else and the sets into their result; a variable that
   no script has set has the value of the overrides, else of the environment,
   else of the project. *)
Precedence == Resolved => variables = [k \in Defined |-> Winner(k)]

(* Whatever the values refer to, itself and each other included, the
   substitution ends, and with it the execution. *)
ExecutionEnds == <>(pc \in {"done", "failed"})
=============================================================================
