------------------------------- MODULE Tracing -------------------------------
(***************************************************************************)
(* run_traced and setup_tracing: threads (or tasks) call operations that   *)
(* run_traced has decorated.  Tracing is optional: whatever the SDK does   *)
(* in any of its calls, the operation runs and its outcome is the call's.  *)
(*                                                                         *)
(* Each call of the SDK either answers, raises an Exception or SystemExit  *)
(* ("fails"), or is interrupted (KeyboardInterrupt).  An operation returns *)
(* a code, exits (SystemExit), raises, or returns no int (TypeError).      *)
(***************************************************************************)
EXTENDS Integers

CONSTANTS
    Threads,    \* the callers
    Commands,   \* the uses of run_traced, each with a _TracingState
    MaxCalls    \* bound: the calls of one thread

ASSUME CallsAssumption == MaxCalls \in Nat

VARIABLES
    on,        \* on[c]: _TracingState.on
    holder,    \* holder[c]: the thread that holds _TracingState._lock
    sdkHolder, \* the thread that holds _SDK_ENVIRONMENT_LOCK
    argv,      \* whose sys.argv and SDK variables the process has
    saved,     \* saved[t]: the ones setup_tracing will put back
    setup,     \* setup[t]: what setup_tracing came to
    pc,        \* pc[t]: the step of thread t
    command,   \* command[t]: the one that t is calling
    started,   \* started[t]: operation_started
    result,    \* result[t]: what the operation came to
    leaving,   \* leaving[t]: an interrupt is on its way up
    outcome,   \* outcome[t]: what the call came to
    calls,     \* calls[t]: how many calls t has made
    ran,       \* history: how often the operation ran in this call
    hit,       \* history: tracing was interrupted in this call
    dropped,   \* history: the span failed to close with an interrupt inside
    readied    \* history: readied[c]: the setups that made tracing ready

shared  == <<on, holder, sdkHolder, argv, saved, setup, readied>>
private == <<command, started, result, leaving, outcome, calls, ran, hit, dropped>>
vars    == <<shared, pc, private>>

Nobody  == "nobody"
ASSUME NobodyAssumption == Nobody \notin Threads

Results == {"code", "exit", "error", "not_int"}
Answers == {"ok", "fails", "interrupted"}

-----------------------------------------------------------------------------
Init ==
    /\ on = [c \in Commands |-> FALSE]
    /\ holder = [c \in Commands |-> Nobody] /\ sdkHolder = Nobody
    /\ argv = "operator" /\ saved = [t \in Threads |-> "operator"]
    /\ setup = [t \in Threads |-> "none"]
    /\ pc = [t \in Threads |-> "idle"] /\ command = [t \in Threads |-> Nobody]
    /\ started = [t \in Threads |-> FALSE] /\ leaving = [t \in Threads |-> FALSE]
    /\ result = [t \in Threads |-> "none"] /\ outcome = [t \in Threads |-> "none"]
    /\ calls = [t \in Threads |-> 0]
    /\ ran = [t \in Threads |-> 0]
    /\ hit = [t \in Threads |-> FALSE] /\ dropped = [t \in Threads |-> FALSE]
    /\ readied = [c \in Commands |-> 0]

Goto(t, step) == pc' = [pc EXCEPT ![t] = step]

Call(t) ==
    /\ pc[t] \in {"idle", "done"} /\ calls[t] < MaxCalls
    /\ \E c \in Commands : command' = [command EXCEPT ![t] = c]
    /\ Goto(t, "lock")
    /\ calls' = [calls EXCEPT ![t] = @ + 1]
    /\ started' = [started EXCEPT ![t] = FALSE]
    /\ result' = [result EXCEPT ![t] = "none"]
    /\ leaving' = [leaving EXCEPT ![t] = FALSE]
    /\ outcome' = [outcome EXCEPT ![t] = "none"]
    /\ ran' = [ran EXCEPT ![t] = 0]
    /\ hit' = [hit EXCEPT ![t] = FALSE]
    /\ dropped' = [dropped EXCEPT ![t] = FALSE]
    /\ UNCHANGED shared

-----------------------------------------------------------------------------
(* is_available_best_effort and setup_tracing                              *)
MutantLockFree(c) == TRUE
LockFree(c) == holder[c] = Nobody

AlreadyOn(t) ==
    /\ pc[t] = "lock" /\ LockFree(command[t]) /\ on[command[t]]
    /\ Goto(t, "load")
    /\ UNCHANGED <<shared, private>>

StartSetup(t) ==
    /\ pc[t] = "lock" /\ LockFree(command[t]) /\ ~on[command[t]]
    /\ holder' = [holder EXCEPT ![command[t]] = t]
    /\ Goto(t, "sanitize")
    /\ UNCHANGED <<on, sdkHolder, argv, saved, setup, readied, private>>

MutantEnvironmentFree == TRUE
EnvironmentFree == sdkHolder = Nobody

Sanitize(t) ==
    /\ pc[t] = "sanitize" /\ EnvironmentFree
    /\ sdkHolder' = t
    /\ saved' = [saved EXCEPT ![t] = argv]
    /\ argv' = "toolbench"
    /\ Goto(t, "setup")
    /\ UNCHANGED <<on, holder, setup, readied, private>>

\* No key, no SDK, a rejected key and an exception all leave tracing off.
SetUp(t) ==
    /\ pc[t] = "setup"
    /\ \E a \in Answers :
          /\ setup' = [setup EXCEPT ![t] = a]
          /\ hit' = [hit EXCEPT ![t] = @ \/ a = "interrupted"]
          /\ readied' = IF a = "ok" THEN [readied EXCEPT ![command[t]] = @ + 1]
                        ELSE readied
    /\ Goto(t, "restore")
    /\ UNCHANGED <<on, holder, sdkHolder, argv, saved,
                   command, started, result, leaving, outcome, calls, ran, dropped>>

\* Both locks are left by `with`, an interrupt included.
MutantReleased(t) == IF setup[t] = "interrupted" THEN t ELSE Nobody
Released(t) == Nobody

Restore(t) ==
    /\ pc[t] = "restore"
    /\ argv' = saved[t]
    /\ sdkHolder' = Nobody
    /\ on' = [on EXCEPT ![command[t]] = setup[t] = "ok"]
    /\ holder' = [holder EXCEPT ![command[t]] = Released(t)]
    /\ Goto(t, CASE setup[t] = "ok" -> "load" [] setup[t] = "fails" -> "plain"
                 [] setup[t] = "interrupted" -> "done")
    /\ outcome' = IF setup[t] = "interrupted"
                  THEN [outcome EXCEPT ![t] = "interrupted"] ELSE outcome
    /\ UNCHANGED <<saved, setup, readied, command, started, result, leaving, calls, ran, hit, dropped>>

-----------------------------------------------------------------------------
(* _run_sync and _run_async                                                *)
LoadSdk(t) ==
    /\ pc[t] = "load"
    /\ \E a \in Answers :
          /\ Goto(t, CASE a = "ok" -> "enter" [] a = "fails" -> "plain"
                       [] a = "interrupted" -> "done")
          /\ hit' = [hit EXCEPT ![t] = @ \/ a = "interrupted"]
          /\ outcome' = IF a = "interrupted"
                        THEN [outcome EXCEPT ![t] = "interrupted"] ELSE outcome
    /\ UNCHANGED <<shared, command, started, result, leaving, calls, ran, dropped>>

\* _invoke_sync, _invoke_async, and the calls that bypass them.
Runs(t, r) ==
    /\ ran' = [ran EXCEPT ![t] = @ + 1]
    /\ result' = [result EXCEPT ![t] = r]

RunUntraced(t) ==
    /\ pc[t] = "plain"
    /\ \E r \in Results :
          Runs(t, r) /\ outcome' = [outcome EXCEPT ![t] = r]
    /\ Goto(t, "done")
    /\ UNCHANGED <<shared, command, started, leaving, calls, hit, dropped>>

\* except (Exception, SystemExit): the operation is not run a second time.
MutantAfterFailure(t) == "fallback"
AfterFailure(t) == IF started[t] THEN "flush" ELSE "fallback"

EnterSpan(t) ==
    /\ pc[t] = "enter"
    /\ \E a \in Answers :
          /\ Goto(t, CASE a = "ok" -> "metadata" [] a = "fails" -> AfterFailure(t)
                       [] a = "interrupted" -> "flush")
          /\ started' = [started EXCEPT ![t] = a = "ok"]
          /\ leaving' = [leaving EXCEPT ![t] = a = "interrupted"]
          /\ hit' = [hit EXCEPT ![t] = @ \/ a = "interrupted"]
    /\ UNCHANGED <<shared, command, result, outcome, calls, ran, dropped>>

RunInHandler(t) ==
    /\ pc[t] = "fallback"
    /\ \E r \in Results : Runs(t, r)
    /\ Goto(t, "flush")
    /\ UNCHANGED <<shared, command, started, leaving, outcome, calls, hit, dropped>>

\* except (Exception, SystemExit): a KeyboardInterrupt is neither.
MutantEscapes(a) == FALSE
Escapes(a) == a = "interrupted"

SafeReport(t, at, next) ==
    /\ pc[t] = at
    /\ \E a \in Answers :
          /\ Goto(t, IF Escapes(a) THEN "close" ELSE next)
          /\ leaving' = [leaving EXCEPT ![t] = Escapes(a)]
          /\ hit' = [hit EXCEPT ![t] = @ \/ a = "interrupted"]
    /\ UNCHANGED <<shared, command, started, result, outcome, calls, ran, dropped>>

ReportMetadata(t) == SafeReport(t, "metadata", "run")

RunTraced(t) ==
    /\ pc[t] = "run"
    /\ \E r \in Results :
          /\ Runs(t, r)
          /\ Goto(t, IF r \in {"code", "exit"} THEN "report" ELSE "close")
    /\ UNCHANGED <<shared, command, started, leaving, outcome, calls, hit, dropped>>

ReportOutput(t) == SafeReport(t, "report", "close")

\* The span's __exit__; a failure there replaces what was on its way up.
CloseSpan(t) ==
    /\ pc[t] = "close"
    /\ \E a \in Answers :
          /\ Goto(t, IF a = "fails" THEN AfterFailure(t) ELSE "flush")
          /\ leaving' = [leaving EXCEPT ![t] =
                            CASE a = "ok" -> @ [] a = "fails" -> FALSE
                              [] a = "interrupted" -> TRUE]
          /\ hit' = [hit EXCEPT ![t] = @ \/ a = "interrupted"]
          /\ dropped' = [dropped EXCEPT ![t] = a = "fails" /\ leaving[t]]
    /\ UNCHANGED <<shared, command, started, result, outcome, calls, ran>>

MutantReturned(t) == IF result[t] = "error" THEN "code" ELSE result[t]
Returned(t) == IF result[t] = "none" THEN "assertion" ELSE result[t]

\* _safe_flush, in `finally`; then the error is raised, or the code returned.
Flush(t) ==
    /\ pc[t] = "flush"
    /\ \E a \in Answers :
          /\ outcome' = [outcome EXCEPT ![t] =
                            IF Escapes(a) \/ leaving[t] THEN "interrupted" ELSE Returned(t)]
          /\ hit' = [hit EXCEPT ![t] = @ \/ a = "interrupted"]
    /\ Goto(t, "done")
    /\ UNCHANGED <<shared, command, started, result, leaving, calls, ran, dropped>>

-----------------------------------------------------------------------------
\* A step of a call in progress.
Step(t) ==
    \/ AlreadyOn(t) \/ StartSetup(t) \/ Sanitize(t) \/ SetUp(t) \/ Restore(t)
    \/ LoadSdk(t) \/ RunUntraced(t) \/ EnterSpan(t) \/ RunInHandler(t)
    \/ ReportMetadata(t) \/ RunTraced(t) \/ ReportOutput(t)
    \/ CloseSpan(t) \/ Flush(t)

Next == \E t \in Threads : Call(t) \/ Step(t)

\* Every call of the SDK and of the operation returns.
Spec == Init /\ [][Next]_vars /\ \A t \in Threads : WF_vars(Step(t))

-----------------------------------------------------------------------------
Steps == {"idle", "lock", "sanitize", "setup", "restore", "load", "plain", "enter",
          "fallback", "metadata", "run", "report", "close", "flush", "done"}

(* Every variable stays in its domain, and a call that has ended came to   *)
(* something: an outcome of its operation, an interrupt, or the assertion  *)
(* of _run_sync, but never to None.                                        *)
TypeOK ==
    /\ on \in [Commands -> BOOLEAN]
    /\ holder \in [Commands -> Threads \cup {Nobody}]
    /\ sdkHolder \in Threads \cup {Nobody}
    /\ argv \in {"operator", "toolbench"}
    /\ saved \in [Threads -> {"operator", "toolbench"}]
    /\ setup \in [Threads -> Answers \cup {"none"}]
    /\ pc \in [Threads -> Steps] /\ command \in [Threads -> Commands \cup {Nobody}]
    /\ started \in [Threads -> BOOLEAN] /\ leaving \in [Threads -> BOOLEAN]
    /\ result \in [Threads -> Results \cup {"none"}]
    /\ outcome \in [Threads -> Results \cup {"none", "interrupted", "assertion"}]
    /\ \A t \in Threads : pc[t] = "done" => outcome[t] # "none"
    /\ calls \in [Threads -> 0 .. MaxCalls]
    /\ ran \in [Threads -> Nat] /\ hit \in [Threads -> BOOLEAN]
    /\ dropped \in [Threads -> BOOLEAN]
    /\ readied \in [Commands -> Nat]

(* Tracing decides nothing: unless somebody interrupts it, the operation   *)
(* of a call runs exactly once, and the call returns its code or raises    *)
(* its own exception, whichever calls of the SDK fail (run_traced).        *)
OutcomeIsTheOperations ==
    \A t \in Threads : pc[t] = "done" /\ ~hit[t] =>
        ran[t] = 1 /\ outcome[t] = result[t]

(* The operation never runs twice in a call, interrupts or not: a command  *)
(* that has begun is not begun again because its span failed to close.     *)
RunsAtMostOnce == \A t \in Threads : ran[t] \in {0, 1}

(* However many threads call at once, one setup makes tracing ready        *)
(* (_TracingState).                                                        *)
SetupIsReadyOnce == \A c \in Commands : readied[c] \in {0, 1}

(* sys.argv and the SDK's variables are the operator's own whenever no     *)
(* thread is inside setup_tracing, though several commands may set up      *)
(* tracing at a time (_sanitized_sdk_environment).                         *)
EnvironmentIsRestored ==
    (\A t \in Threads : pc[t] \notin {"setup", "restore"}) => argv = "operator"

(* No call waits for a lock for ever: an interrupted setup releases both.  *)
EveryCallEnds == \A t \in Threads : pc[t] = "lock" ~> pc[t] = "done"

(* An interrupt of tracing ends the call ("keyboard interrupts from        *)
(* tracing are not swallowed": the test of that name), with one exception: *)
(* a span that fails to close on the way up replaces it (_run_sync).       *)
InterruptsAreKept ==
    \A t \in Threads : pc[t] = "done" /\ hit[t] =>
        outcome[t] = "interrupted" \/ dropped[t]
=============================================================================
