-------------------------- MODULE ScriptExecution --------------------------
(***************************************************************************)
(* An execution with its scripts, and the cache that resolves its          *)
(* environment, composed: while the scripts run, others read, write and    *)
(* invalidate environments.  Global variables and overrides, and the       *)
(* substitution, are in RequestExecution.                                  *)
(***************************************************************************)
EXTENDS EnvironmentCache

CONSTANTS
    Executor,       \* the reader that executes requests
    ScriptValues,   \* what a script may set the variable to
    Statuses, Timeout, MaxTests   \* as in ScriptSandbox

ASSUME ExecutorAssumption == Executor \in Readers
ASSUME StatusAssumption == Statuses \subseteq Nat \ {0}
ASSUME TimeoutAssumption == Timeout \in Nat

VARIABLES
    pc, stage, variable, response, context, arrays, global, closure, clock,
    asserted, reported, age, recorded,   \* as in ScriptSandbox
    past  \* history: what the row of each environment has ever held

Script == INSTANCE ScriptSandbox WITH Values <- ScriptValues

scripts == <<pc, stage, variable, response, context, arrays, global, closure, clock,
             asserted, reported, age, recorded>>
vars == <<cacheVars, scripts, past>>

Init == CacheInit /\ Script!ScriptInit /\ past = [e \in Envs |-> {row[e]}]

Remember == past' = [e \in Envs |-> past[e] \cup {row'[e]}]

-----------------------------------------------------------------------------
(* resolveVariables: without an environment the cache is not asked. *)
Resolve ==
    /\ pc = "idle"
    /\ \/ reading[Executor] = "idle" /\ Script!Begin(NoValue) /\ UNCHANGED cacheVars
       \/ Script!Begin(answer[Executor]) /\ Return(Executor)
    /\ UNCHANGED past

(* The executor asks for one environment at a time. *)
Ask(r, e) == (r = Executor => pc = "idle") /\ Get(r, e)

CacheStep ==
    /\ \/ \E r \in Readers : (\E e \in Envs : Ask(r, e)) \/ FindById(r) \/ Put(r)
       \/ \E r \in Readers \ {Executor} : Return(r)
       \/ \E e \in Envs :
            \/ \E v \in Values : Create(e, v) \/ Update(e, v)
            \/ RemoveRow(e) \/ Invalidate(e) \/ Expire(e)
       \/ Serve
    /\ Remember /\ UNCHANGED scripts

ScriptStep == Script!Step /\ UNCHANGED <<cacheVars, past>>

(* The execution goes with the engine. *)
Stop ==
    /\ Restart
    /\ pc' = "idle" /\ variable' = NoValue /\ Script!Clear
    /\ UNCHANGED past

Next == Resolve \/ CacheStep \/ ScriptStep \/ Stop

(* Threads go on, Redis serves, copies expire; time passes in scripts, and the
   interpreter asks the interrupt handler. *)
Fairness ==
    /\ \A r \in Readers : WF_vars((FindById(r) \/ Put(r)) /\ Remember /\ UNCHANGED scripts)
    /\ WF_vars(Serve /\ Remember /\ UNCHANGED scripts)
    /\ \A e \in Envs : WF_vars(Expire(e) /\ Remember /\ UNCHANGED scripts)
    /\ WF_vars(Script!Tick /\ UNCHANGED <<cacheVars, past>>)
    /\ WF_vars(Script!Interrupt /\ UNCHANGED <<cacheVars, past>>)

Spec == Init /\ [][Next]_vars /\ Fairness

-----------------------------------------------------------------------------
(* What scripts should be able to rely on: see ScriptSandbox. *)
ScriptSeesOwnResponse == Script!ScriptSeesOwnResponse
InterruptedOnlyLate == Script!InterruptedOnlyLate
ScriptEnds == Script!ScriptEnds
TestsReported == Script!TestsReported

(* What a script reads is what a script of the same execution has set, or what
   the environment the execution was asked for has held at some time: not what
   another environment holds, whoever reads and writes at the same time. *)
ScriptReadsItsEnvironment ==
    pc \notin {"idle"} => variable \in {NoValue} \cup ScriptValues \cup past[env[Executor]]
=============================================================================
