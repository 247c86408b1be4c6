--------------------------- MODULE ScriptSandbox ---------------------------
(***************************************************************************)
(* The scripts of one execution: RequestExecutor runs one before the       *)
(* request and one after it, each in a QuickJsSandbox of its own, in which *)
(* installNtApi puts the object nt.                                        *)
(*                                                                         *)
(* Of the variables one stands for all, of a response its status, which is *)
(* also what tests ask for.  Arrays of the interpreter are numbered in the *)
(* order of their creation: which of them a name or a closure refers to is *)
(* what matters here.                                                      *)
(***************************************************************************)
EXTENDS Naturals, Sequences

CONSTANTS
    Values,     \* what a script may set the variable to
    NoValue,    \* the variable does not exist
    Statuses,   \* status codes, of responses and in assertions
    Timeout,    \* execution_timeout_ms, in ticks of the clock
    MaxTests    \* bound: calls of nt.test in a script

NoStatus == 0   \* no response, no test
NoReport == <<>>  \* the script returned something else than an array

VARIABLES
    pc,         \* where the execution is
    stage,      \* which of its scripts it is at: "pre" or "post"
    variable,   \* the variable in resolvedVariables
    response,   \* the status of response
    context,    \* the status in globalThis.__nt_context.response
    arrays,     \* the arrays of test results that the interpreter has
    global,     \* the one that globalThis.__nt_tests refers to
    closure,    \* the one that testResults of the bindings refers to
    clock,      \* time since execution_started_at, as far as it matters
    asserted,   \* the status the running test asks for
    reported,   \* test_results of the execution
    age,        \* history: time since the script began
    recorded    \* history: the tests that ended in the script

interpreter == <<context, arrays, global, closure, clock, asserted>>
history == <<age, recorded>>
scriptVars == <<pc, stage, variable, response, interpreter, reported, history>>

Running == {"script", "test"}
Ended == {"done", "failed", "interrupted"}

Clear ==
    /\ stage' = "pre" /\ response' = NoStatus
    /\ context' = NoStatus /\ arrays' = <<>> /\ global' = 0 /\ closure' = 0
    /\ clock' = 0 /\ asserted' = NoStatus /\ reported' = NoReport
    /\ age' = 0 /\ recorded' = <<>>

ScriptInit ==
    /\ pc = "idle" /\ stage = "pre" /\ variable = NoValue /\ response = NoStatus
    /\ context = NoStatus /\ arrays = <<>> /\ global = 0 /\ closure = 0
    /\ clock = 0 /\ asserted = NoStatus /\ reported = NoReport
    /\ age = 0 /\ recorded = <<>>

-----------------------------------------------------------------------------
(* execute, with what resolveVariables answered; there may be no script before
   the request. *)
Begin(value) ==
    /\ pc = "idle"
    /\ pc' \in {"construct", "transport"}
    /\ variable' = value
    /\ UNCHANGED <<stage, response, interpreter, reported, history>>

(* The transport answers, and the script after the request follows, if there is
   one; or it throws. *)
Transport(status) ==
    /\ pc = "transport"
    /\ \/ /\ response' = status /\ stage' = "post"
          /\ pc' \in {"construct", "done"}
       \/ pc' = "failed" /\ UNCHANGED <<response, stage>>
    /\ UNCHANGED <<variable, interpreter, reported, history>>

(* execute returned or threw. *)
End ==
    /\ pc \in Ended
    /\ pc' = "idle" /\ variable' = NoValue
    /\ Clear

-----------------------------------------------------------------------------
Never == Timeout + 1

(* setGlobalJsonValue of "[]": a new array. *)
InjectTests(heap) == arrays' = Append(heap, <<>>) /\ global' = Len(heap) + 1

(* runScript asks for a sandbox, whose clock has not been set; installNtApi begins
   with injectVariable. *)
Construct ==
    /\ pc = "construct"
    /\ \/ /\ pc' = "install"
          /\ InjectTests(<<>>) /\ context' = NoStatus /\ clock' = Never
       \/ pc' = "failed" /\ UNCHANGED <<arrays, global, context, clock>>
    /\ UNCHANGED <<stage, variable, response, closure, asserted, reported, history>>

(* QuickJsSandbox::execute of the bindings: the variables are injected once more,
   and the closures keep the array of that moment. *)
Install ==
    /\ pc = "install" /\ pc' = "execute"
    /\ clock' = 0
    /\ InjectTests(arrays) /\ closure' = global'
    /\ UNCHANGED <<stage, variable, response, context, asserted, reported, history>>

(* Mutant: __nt_context is not set again, it is that of the bindings. *)
ExecuteInOldContext ==
    /\ pc = "execute" /\ pc' = "script"
    /\ clock' = 0 /\ age' = 0 /\ recorded' = <<>>
    /\ InjectTests(arrays)
    /\ UNCHANGED <<stage, variable, response, context, closure, asserted, reported>>

(* Mutant: the clock runs from the moment the bindings are installed. *)
ExecuteOnOldClock ==
    /\ pc = "execute" /\ pc' = "script"
    /\ age' = 0 /\ recorded' = <<>>
    /\ context' = IF stage = "post" THEN response ELSE NoStatus
    /\ InjectTests(arrays)
    /\ UNCHANGED <<stage, variable, response, clock, closure, asserted, reported>>

(* QuickJsSandbox::execute of the script: the clock is set, the context, and once
   more every injected variable. *)
Execute ==
    /\ pc = "execute" /\ pc' = "script"
    /\ clock' = 0 /\ age' = 0 /\ recorded' = <<>>
    /\ context' = IF stage = "post" THEN response ELSE NoStatus
    /\ InjectTests(arrays)
    /\ UNCHANGED <<stage, variable, response, closure, asserted, reported>>

-----------------------------------------------------------------------------
(* The interpreter's steps. *)

(* Mutant: a call of a native function sets the clock. *)
SetVariableAndClock(value) ==
    /\ pc \in Running
    /\ variable' = value
    /\ clock' = 0
    /\ UNCHANGED <<pc, stage, response, context, arrays, global, closure, asserted,
                   reported, history>>

(* nt.environment.set. *)
SetVariable(value) ==
    /\ pc \in Running
    /\ variable' = value
    /\ UNCHANGED <<pc, stage, response, interpreter, reported, history>>

(* nt.test calls the function it is given, which asks for a status. *)
BeginTest(status) ==
    /\ pc = "script" /\ Len(recorded) < MaxTests
    /\ pc' = "test"
    /\ asserted' = status
    /\ UNCHANGED <<stage, variable, response, context, arrays, global, closure, clock,
                   reported, history>>

(* The function returned, or it threw for the response has not the status asked
   for, and nt.test caught the error. *)
EndTest ==
    /\ pc = "test" /\ pc' = "script"
    /\ LET result == [status |-> asserted, passed |-> asserted = context] IN
       /\ arrays' = [arrays EXCEPT ![closure] = Append(@, result)]
       /\ recorded' = Append(recorded, result)
    /\ asserted' = NoStatus
    /\ UNCHANGED <<stage, variable, response, context, global, closure, clock, reported, age>>

(* An error that the script does not catch. *)
Throw ==
    /\ pc = "script" /\ pc' = "failed"
    /\ UNCHANGED <<stage, variable, response, interpreter, reported, history>>

(* The script comes to its end; the one after the request then returns
   globalThis.__nt_tests, unless a return of its own came before. *)
Return ==
    /\ pc = "script"
    /\ \/ stage = "pre" /\ pc' = "transport" /\ UNCHANGED reported
       \/ stage = "post" /\ pc' = "done" /\ reported' \in {<<arrays[global]>>, NoReport}
    /\ UNCHANGED <<stage, variable, response, interpreter, history>>

(* interruptHandler, which the interpreter asks again and again: no script can
   catch the error. *)
Interrupt ==
    /\ pc \in Running /\ clock > Timeout
    /\ pc' = "interrupted"
    /\ UNCHANGED <<stage, variable, response, interpreter, reported, history>>

Later(t) == IF t = Never THEN t ELSE t + 1

Tick ==
    /\ pc \in Running \cup {"install", "execute"}
    /\ clock' = Later(clock)
    /\ age' = IF pc \in Running THEN Later(age) ELSE age
    /\ UNCHANGED <<pc, stage, variable, response, context, arrays, global, closure, asserted,
                   reported, recorded>>

-----------------------------------------------------------------------------
Step ==
    \/ \E s \in Statuses : Transport(s)
    \/ Construct \/ Install \/ Execute
    \/ \E v \in Values : SetVariable(v)
    \/ \E s \in Statuses : BeginTest(s)
    \/ EndTest \/ Throw \/ Return \/ Interrupt \/ Tick
    \/ End

-----------------------------------------------------------------------------
(* What scripts should be able to rely on. *)

(* A test's verdict is about the response to its own request: a script before
   the request sees none, and no test sees that of another context. *)
ScriptSeesOwnResponse ==
    pc \in Running => \A i \in DOMAIN recorded :
        recorded[i].passed <=> stage = "post" /\ recorded[i].status = response

(* No script is interrupted before its own time is over: what was done before
   it began does not count. *)
InterruptedOnlyLate == pc = "interrupted" => age > Timeout

(* Whatever a script does, it ends: an endless loop is interrupted, even if all
   it does is to call nt. *)
ScriptEnds == pc \in Running ~> pc \notin Running

(* The tests of the script after the request are those that the execution
   reports. *)
TestsReported == pc = "done" /\ reported # NoReport => reported = <<recorded>>
=============================================================================
