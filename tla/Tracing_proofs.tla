---------------------------- MODULE Tracing_proofs ----------------------------
(***************************************************************************)
(* Proofs about Tracing for any threads, commands and number of calls:     *)
(* type correctness, that tracing decides neither how often an operation   *)
(* runs nor what its call comes to, that an interrupt of tracing is kept,  *)
(* and that one setup makes it ready.                                      *)
(***************************************************************************)
EXTENDS Tracing, TLAPS

-----------------------------------------------------------------------------
\* A thread that is past "idle" calls a command, and a setup that is about to
\* restore the environment has come to something.
TypeInv ==
    /\ TypeOK
    /\ \A t \in Threads : pc[t] # "idle" => command[t] \in Commands
    /\ \A t \in Threads : pc[t] = "restore" => setup[t] # "none"

LEMMA TypeInvariant == Spec => []TypeInv
<1> USE CallsAssumption DEF TypeInv, TypeOK, Steps, Results, Answers
<1>1. Init => TypeInv
  BY DEF Init
<1>2. TypeInv /\ [Next]_vars => TypeInv'
  <2> SUFFICES ASSUME TypeInv, [Next]_vars PROVE TypeInv'
    OBVIOUS
  <2> USE DEF shared, private, Goto
  <2>1. ASSUME NEW t \in Threads, Call(t) PROVE TypeInv'
    BY <2>1 DEF Call
  <2>2. ASSUME NEW t \in Threads, AlreadyOn(t) \/ StartSetup(t) \/ Sanitize(t)
        PROVE TypeInv'
    BY <2>2 DEF AlreadyOn, StartSetup, Sanitize
  <2>3. ASSUME NEW t \in Threads, SetUp(t) PROVE TypeInv'
    <3>1. command[t] \in Commands
      BY <2>3 DEF SetUp
    <3>2. hit' \in [Threads -> BOOLEAN] /\ setup'[t] \in Answers
      BY <2>3 DEF SetUp
    <3>3. readied' \in [Commands -> Nat]
      BY <2>3, <3>1 DEF SetUp
    <3> QED
      BY <2>3, <3>2, <3>3 DEF SetUp
  <2>4. ASSUME NEW t \in Threads, Restore(t) PROVE TypeInv'
    BY <2>4 DEF Restore, Released
  <2>5. ASSUME NEW t \in Threads, LoadSdk(t) PROVE TypeInv'
    BY <2>5 DEF LoadSdk
  <2>6. ASSUME NEW t \in Threads, RunUntraced(t) \/ RunInHandler(t) \/ RunTraced(t)
        PROVE TypeInv'
    <3>1. ASSUME RunUntraced(t) PROVE TypeInv'
      BY <3>1 DEF RunUntraced, Runs
    <3>2. ASSUME RunInHandler(t) PROVE TypeInv'
      BY <3>2 DEF RunInHandler, Runs
    <3>3. ASSUME RunTraced(t) PROVE TypeInv'
      BY <3>3 DEF RunTraced, Runs
    <3> QED
      BY <2>6, <3>1, <3>2, <3>3
  <2>7. ASSUME NEW t \in Threads, EnterSpan(t) PROVE TypeInv'
    BY <2>7 DEF EnterSpan, AfterFailure
  <2>8. ASSUME NEW t \in Threads, NEW at, NEW next \in {"run", "close"},
               SafeReport(t, at, next), at # "idle"
        PROVE  TypeInv'
    <3>1. pc' \in [Threads -> Steps] /\ pc'[t] \in {"run", "close"}
      BY <2>8 DEF SafeReport, Escapes
    <3>2. hit' \in [Threads -> BOOLEAN] /\ leaving' \in [Threads -> BOOLEAN]
      BY <2>8 DEF SafeReport, Escapes
    <3>3. \A s \in Threads : s # t => pc'[s] = pc[s]
      BY <2>8 DEF SafeReport
    <3> QED
      BY <2>8, <3>1, <3>2, <3>3 DEF SafeReport
  <2>9. ASSUME NEW t \in Threads, CloseSpan(t) PROVE TypeInv'
    <3>1. pc' \in [Threads -> Steps] /\ pc'[t] \in {"flush", "fallback"}
      BY <2>9 DEF CloseSpan, AfterFailure
    <3>2. \A s \in Threads : s # t => pc'[s] = pc[s]
      BY <2>9 DEF CloseSpan
    <3>3. hit' \in [Threads -> BOOLEAN] /\ dropped' \in [Threads -> BOOLEAN]
      BY <2>9 DEF CloseSpan
    <3>4. \E b \in BOOLEAN : leaving' = [leaving EXCEPT ![t] = b]
      BY <2>9 DEF CloseSpan
    <3>5. leaving' \in [Threads -> BOOLEAN]
      BY <3>4
    <3> QED
      BY <2>9, <3>1, <3>2, <3>3, <3>5 DEF CloseSpan
  <2>10. ASSUME NEW t \in Threads, Flush(t) PROVE TypeInv'
    BY <2>10 DEF Flush, Returned, Escapes
  <2>11. CASE UNCHANGED vars
    BY <2>11 DEF vars
  <2> QED
    BY <2>1, <2>2, <2>3, <2>4, <2>5, <2>6, <2>7, <2>8, <2>9, <2>10, <2>11
       DEF Next, Step, ReportMetadata, ReportOutput
<1> QED
  BY <1>1, <1>2, PTL DEF Spec

\* Every step of every call keeps every variable in its domain, and no call
\* ends with nothing.
THEOREM TypeCorrect == Spec => []TypeOK
<1>1. TypeInv => TypeOK
  BY DEF TypeInv
<1> QED
  BY <1>1, TypeInvariant, PTL

-----------------------------------------------------------------------------
\* A step of one thread leaves the call of every other one alone.
LEMMA OtherThreads ==
  ASSUME TypeInv, NEW t \in Threads, Call(t) \/ Step(t), NEW s \in Threads, s # t
  PROVE  UNCHANGED <<pc[s], setup[s], started[s], result[s], leaving[s],
                     outcome[s], ran[s], hit[s], dropped[s]>>
<1> USE DEF TypeInv, TypeOK, shared, private, Goto
<1>1. CASE Call(t)
  BY <1>1 DEF Call
<1>2. CASE AlreadyOn(t) \/ StartSetup(t) \/ Sanitize(t) \/ SetUp(t) \/ Restore(t)
  BY <1>2 DEF AlreadyOn, StartSetup, Sanitize, SetUp, Restore
<1>3. CASE LoadSdk(t) \/ EnterSpan(t) \/ ReportMetadata(t) \/ ReportOutput(t)
  BY <1>3 DEF LoadSdk, EnterSpan, ReportMetadata, ReportOutput, SafeReport
<1>4. CASE RunUntraced(t)
  BY <1>4 DEF RunUntraced, Runs
<1>5. CASE RunInHandler(t)
  BY <1>5 DEF RunInHandler, Runs
<1>6. CASE RunTraced(t)
  BY <1>6 DEF RunTraced, Runs
<1>7. CASE CloseSpan(t)
  BY <1>7 DEF CloseSpan
<1>8. CASE Flush(t)
  BY <1>8 DEF Flush
<1> QED
  BY <1>1, <1>2, <1>3, <1>4, <1>5, <1>6, <1>7, <1>8 DEF Step

BeforeTheRun == {"lock", "sanitize", "setup", "restore", "load", "plain", "enter",
                 "fallback", "metadata", "run"}
InsideSpan   == {"metadata", "run", "report", "close"}
AfterTheRun  == {"report", "close", "flush"}

\* What the steps of one call rely on: nothing ran before the step that runs
\* the operation, operation_started holds inside the span, and whatever keeps
\* an operation from its result is an interrupt on record.
CallOk(t) ==
    /\ pc[t] \in BeforeTheRun => ran[t] = 0
    /\ ran[t] \in {0, 1}
    /\ pc[t] \in BeforeTheRun \ InsideSpan => ~started[t]
    /\ pc[t] \in InsideSpan => started[t]
    /\ leaving[t] => hit[t]
    /\ pc[t] = "restore" /\ setup[t] = "interrupted" => hit[t]
    /\ pc[t] \in AfterTheRun /\ ~hit[t] => ran[t] = 1 /\ result[t] \in Results
    /\ pc[t] = "done" /\ ~hit[t] => ran[t] = 1 /\ outcome[t] = result[t]

CallInv == \A t \in Threads : CallOk(t)

LEMMA CallInvariant == Spec => []CallInv
<1> USE DEF BeforeTheRun, InsideSpan, AfterTheRun
<1>1. Init => CallInv
  BY DEF Init, CallInv, CallOk
<1>2. TypeInv /\ CallInv /\ [Next]_vars => CallInv'
  <2> SUFFICES ASSUME TypeInv, CallInv, NEW t \in Threads, Call(t) \/ Step(t)
               PROVE  CallInv'
    BY DEF Next, vars, shared, private, CallInv, CallOk
  <2> USE DEF TypeInv, TypeOK, Results, Answers, shared, private, Goto
  <2>2. \A s \in Threads \ {t} : CallOk(s)'
    BY OtherThreads DEF CallInv, CallOk
  <2>3. CallOk(t)'
    <3> USE DEF CallOk
    <3>0. CallOk(t)
      BY DEF CallInv
    <3>1. CASE Call(t)
      BY <3>1 DEF Call
    <3>2. CASE AlreadyOn(t) \/ StartSetup(t) \/ Sanitize(t)
      BY <3>0, <3>2 DEF AlreadyOn, StartSetup, Sanitize
    <3>3. CASE SetUp(t)
      BY <3>0, <3>3 DEF SetUp
    <3>4. CASE Restore(t)
      BY <3>0, <3>4 DEF Restore
    <3>5. CASE LoadSdk(t)
      <4>1. hit'[t] \/ pc'[t] \in {"enter", "plain"}
        BY <3>5 DEF LoadSdk
      <4>2. hit'[t] \/ ~leaving'[t]
        BY <3>0, <3>5 DEF LoadSdk
      <4>3. pc'[t] \in {"enter", "plain", "done"} /\ ran'[t] = 0 /\ ~started'[t]
        BY <3>0, <3>5 DEF LoadSdk
      <4> QED
        BY <4>1, <4>2, <4>3
    <3>6. CASE RunUntraced(t) \/ RunInHandler(t) \/ RunTraced(t)
      BY <3>0, <3>6 DEF RunUntraced, RunInHandler, RunTraced, Runs
    <3>7. CASE EnterSpan(t)
      <4>1. ~started[t] /\ ran'[t] = 0
        BY <3>0, <3>7 DEF EnterSpan
      <4>2. PICK a \in Answers :
               /\ pc' = [pc EXCEPT ![t] = CASE a = "ok" -> "metadata"
                            [] a = "fails" -> AfterFailure(t) [] a = "interrupted" -> "flush"]
               /\ started' = [started EXCEPT ![t] = a = "ok"]
               /\ leaving' = [leaving EXCEPT ![t] = a = "interrupted"]
               /\ hit' = [hit EXCEPT ![t] = @ \/ a = "interrupted"]
        BY <3>7 DEF EnterSpan
      <4>3. pc'[t] = CASE a = "ok" -> "metadata" [] a = "fails" -> "fallback"
                       [] a = "interrupted" -> "flush"
        BY <4>1, <4>2 DEF AfterFailure
      <4>4. /\ started'[t] <=> a = "ok"
            /\ leaving'[t] => hit'[t]
            /\ a = "interrupted" => hit'[t]
        BY <4>2
      <4> QED
        BY <4>1, <4>3, <4>4
    <3>8. CASE ReportMetadata(t)
      BY <3>0, <3>8 DEF ReportMetadata, SafeReport, Escapes
    <3>9. CASE ReportOutput(t)
      <4>1. pc[t] = "report" /\ pc'[t] = "close"
        BY <3>9 DEF ReportOutput, SafeReport, Escapes
      <4>2. (leaving'[t] => hit'[t]) /\ (hit[t] => hit'[t])
        BY <3>9 DEF ReportOutput, SafeReport, Escapes
      <4>3. UNCHANGED <<ran, started, result>>
        BY <3>9 DEF ReportOutput, SafeReport
      <4> QED
        BY <3>0, <4>1, <4>2, <4>3
    <3>10. CASE CloseSpan(t)
      BY <3>0, <3>10 DEF CloseSpan, AfterFailure
    <3>11. CASE Flush(t)
      BY <3>0, <3>11 DEF Flush, Returned, Escapes
    <3> QED
      BY <3>1, <3>2, <3>3, <3>4, <3>5, <3>6, <3>7, <3>8, <3>9, <3>10, <3>11 DEF Step
  <2> QED
    BY <2>2, <2>3 DEF CallInv
<1> QED
  BY <1>1, <1>2, TypeInvariant, PTL DEF Spec

\* The operation of a call never runs twice, whatever the SDK does.
THEOREM NeverRunTwice == Spec => []RunsAtMostOnce
<1>1. CallInv => RunsAtMostOnce
  BY DEF CallInv, CallOk, RunsAtMostOnce
<1> QED
  BY <1>1, CallInvariant, PTL

\* A call that nobody interrupted ran its operation once and comes to what
\* the operation came to.
THEOREM TracingDecidesNothing == Spec => []OutcomeIsTheOperations
<1>1. CallInv => OutcomeIsTheOperations
  BY DEF CallInv, CallOk, OutcomeIsTheOperations
<1> QED
  BY <1>1, CallInvariant, PTL

-----------------------------------------------------------------------------
BeforeTheSpan == {"lock", "sanitize", "setup", "load", "plain", "enter"}

\* Where an interrupt of the call is, once there is one: in the setup that is
\* about to raise it, on its way up through the span and the flush, in the
\* outcome, or dropped by the span that failed to close.
InterruptOk(t) ==
    /\ pc[t] \in BeforeTheSpan \cup {"metadata", "run", "report"} => ~hit[t]
    /\ pc[t] = "restore" /\ hit[t] => setup[t] = "interrupted"
    /\ pc[t] = "close" /\ hit[t] => leaving[t]
    /\ pc[t] = "flush" /\ hit[t] => leaving[t] \/ dropped[t]
    /\ pc[t] = "fallback" /\ hit[t] => dropped[t]
    /\ pc[t] = "done" /\ hit[t] => outcome[t] = "interrupted" \/ dropped[t]

InterruptInv == \A t \in Threads : InterruptOk(t)

LEMMA InterruptInvariant == Spec => []InterruptInv
<1> USE DEF BeforeTheSpan
<1>1. Init => InterruptInv
  BY DEF Init, InterruptInv, InterruptOk
<1>2. TypeInv /\ InterruptInv /\ [Next]_vars => InterruptInv'
  <2> SUFFICES ASSUME TypeInv, InterruptInv, NEW t \in Threads, Call(t) \/ Step(t)
               PROVE  InterruptInv'
    BY DEF Next, vars, shared, private, InterruptInv, InterruptOk
  <2>1. \A s \in Threads \ {t} : InterruptOk(s)'
    BY OtherThreads DEF InterruptInv, InterruptOk
  <2>2. InterruptOk(t)'
    <3> USE DEF InterruptOk, TypeInv, TypeOK, Results, Answers, shared, private, Goto
    <3>0. InterruptOk(t)
      BY DEF InterruptInv
    <3>1. CASE Call(t)
      BY <3>1 DEF Call
    <3>2. CASE AlreadyOn(t) \/ StartSetup(t) \/ Sanitize(t)
      BY <3>0, <3>2 DEF AlreadyOn, StartSetup, Sanitize
    <3>3. CASE SetUp(t)
      BY <3>0, <3>3 DEF SetUp
    <3>4. CASE Restore(t)
      BY <3>0, <3>4 DEF Restore
    <3>5. CASE LoadSdk(t)
      <4> PICK a \in Answers :
             /\ pc' = [pc EXCEPT ![t] = CASE a = "ok" -> "enter" [] a = "fails" -> "plain"
                                         [] a = "interrupted" -> "done"]
             /\ hit' = [hit EXCEPT ![t] = @ \/ a = "interrupted"]
             /\ outcome' = IF a = "interrupted"
                           THEN [outcome EXCEPT ![t] = "interrupted"] ELSE outcome
        BY <3>5 DEF LoadSdk
      <4>1. pc[t] = "load" /\ ~hit[t]
        BY <3>0, <3>5 DEF LoadSdk
      <4>2. hit'[t] <=> a = "interrupted"
        BY <4>1
      <4> QED
        BY <4>2
    <3>6. CASE RunUntraced(t) \/ RunInHandler(t) \/ RunTraced(t)
      BY <3>0, <3>6 DEF RunUntraced, RunInHandler, RunTraced, Runs
    <3>7. CASE EnterSpan(t)
      <4> PICK a \in Answers :
             /\ pc' = [pc EXCEPT ![t] = CASE a = "ok" -> "metadata"
                          [] a = "fails" -> AfterFailure(t) [] a = "interrupted" -> "flush"]
             /\ leaving' = [leaving EXCEPT ![t] = a = "interrupted"]
             /\ hit' = [hit EXCEPT ![t] = @ \/ a = "interrupted"]
        BY <3>7 DEF EnterSpan
      <4>1. pc[t] = "enter" /\ ~hit[t]
        BY <3>0, <3>7 DEF EnterSpan
      <4>2. (hit'[t] <=> a = "interrupted") /\ (leaving'[t] <=> a = "interrupted")
        BY <4>1
      <4>3. pc'[t] \in {"metadata", "fallback", "flush"}
             /\ (a = "interrupted" => pc'[t] = "flush")
        BY DEF AfterFailure
      <4> QED
        BY <4>2, <4>3
    <3>8. ASSUME NEW at, NEW next \in {"run", "close"},
                 at \in {"metadata", "report"}, SafeReport(t, at, next)
          PROVE  InterruptOk(t)'
      <4> PICK a \in Answers :
             /\ pc' = [pc EXCEPT ![t] = IF a = "interrupted" THEN "close" ELSE next]
             /\ leaving' = [leaving EXCEPT ![t] = a = "interrupted"]
             /\ hit' = [hit EXCEPT ![t] = @ \/ a = "interrupted"]
        BY <3>8 DEF SafeReport, Escapes
      <4>1. ~hit[t]
        BY <3>0, <3>8 DEF SafeReport
      <4>2. (hit'[t] <=> a = "interrupted") /\ (leaving'[t] <=> a = "interrupted")
        BY <4>1
      <4>3. pc'[t] \in {"run", "close"} /\ (a = "interrupted" => pc'[t] = "close")
        OBVIOUS
      <4> QED
        BY <4>2, <4>3
    <3>9. CASE CloseSpan(t)
      <4> PICK a \in Answers :
             /\ pc' = [pc EXCEPT ![t] = IF a = "fails" THEN AfterFailure(t) ELSE "flush"]
             /\ leaving' = [leaving EXCEPT ![t] =
                               CASE a = "ok" -> @ [] a = "fails" -> FALSE
                                 [] a = "interrupted" -> TRUE]
             /\ hit' = [hit EXCEPT ![t] = @ \/ a = "interrupted"]
             /\ dropped' = [dropped EXCEPT ![t] = a = "fails" /\ leaving[t]]
        BY <3>9 DEF CloseSpan
      <4>1. hit[t] => leaving[t]
        BY <3>0, <3>9 DEF CloseSpan
      <4>2. CASE a = "ok"
        BY <4>1, <4>2
      <4>3. CASE a = "interrupted"
        BY <4>3
      <4>4. CASE a = "fails"
        <5>1. (hit'[t] <=> hit[t]) /\ (dropped'[t] <=> leaving[t])
          BY <4>4
        <5>2. pc'[t] \in {"flush", "fallback"}
          BY <4>4 DEF AfterFailure
        <5> QED
          BY <4>1, <5>1, <5>2
      <4> QED
        BY <4>2, <4>3, <4>4
    <3>10. CASE Flush(t)
      BY <3>0, <3>10 DEF Flush, Returned, Escapes
    <3> QED
      BY <3>1, <3>2, <3>3, <3>4, <3>5, <3>6, <3>7, <3>8, <3>9, <3>10
         DEF Step, ReportMetadata, ReportOutput
  <2> QED
    BY <2>1, <2>2 DEF InterruptInv
<1> QED
  BY <1>1, <1>2, TypeInvariant, PTL DEF Spec

\* An interrupt that strikes tracing anywhere in a call ends that call, unless
\* the span it passes through fails to close.
THEOREM InterruptsEndTheCall == Spec => []InterruptsAreKept
<1>1. InterruptInv => InterruptsAreKept
  BY DEF InterruptInv, InterruptOk, InterruptsAreKept
<1> QED
  BY <1>1, InterruptInvariant, PTL

-----------------------------------------------------------------------------
InSetup == {"sanitize", "setup", "restore"}

\* What makes the setup exclusive: a thread inside it holds the lock of its
\* command, and a setup that was ready is either on record in `on`, or is that
\* of the thread that holds the lock and is about to put it there.
SetupInv ==
    /\ \A t \in Threads : pc[t] \in InSetup => holder[command[t]] = t
    /\ \A t \in Threads : pc[t] \in {"sanitize", "setup"} => readied[command[t]] = 0
    /\ \A t \in Threads : pc[t] = "restore" =>
          readied[command[t]] = IF setup[t] = "ok" THEN 1 ELSE 0
    /\ \A c \in Commands : holder[c] = Nobody =>
          readied[c] = IF on[c] THEN 1 ELSE 0
    /\ \A c \in Commands : holder[c] # Nobody =>
          pc[holder[c]] \in InSetup /\ command[holder[c]] = c
    /\ \A c \in Commands : readied[c] \in {0, 1}

LEMMA SetupInvariant == Spec => []SetupInv
<1> USE NobodyAssumption DEF SetupInv, InSetup
<1>1. Init => SetupInv
  BY DEF Init
<1>2. TypeInv /\ SetupInv /\ [Next]_vars => SetupInv'
  <2> SUFFICES ASSUME TypeInv, SetupInv, [Next]_vars PROVE SetupInv'
    OBVIOUS
  <2> USE DEF TypeInv, TypeOK, Answers, shared, private, Goto
  <2>1. ASSUME NEW t \in Threads, Call(t) PROVE SetupInv'
    BY <2>1 DEF Call
  <2>2. ASSUME NEW t \in Threads, AlreadyOn(t) PROVE SetupInv'
    BY <2>2 DEF AlreadyOn
  <2>3. ASSUME NEW t \in Threads, StartSetup(t) PROVE SetupInv'
    BY <2>3 DEF StartSetup, LockFree
  <2>4. ASSUME NEW t \in Threads, Sanitize(t) PROVE SetupInv'
    BY <2>4 DEF Sanitize
  <2>5. ASSUME NEW t \in Threads, SetUp(t) PROVE SetupInv'
    BY <2>5 DEF SetUp
  <2>6. ASSUME NEW t \in Threads, Restore(t) PROVE SetupInv'
    <3>1. /\ pc[t] = "restore" /\ pc'[t] \notin InSetup
          /\ \A s \in Threads : s # t => pc'[s] = pc[s]
      BY <2>6 DEF Restore
    <3>2. /\ command[t] \in Commands /\ holder[command[t]] = t
          /\ readied[command[t]] = IF setup[t] = "ok" THEN 1 ELSE 0
      BY <3>1
    <3>3. /\ holder'[command[t]] = Nobody
          /\ \A c \in Commands : c # command[t] => holder'[c] = holder[c]
      BY <2>6, <3>2 DEF Restore, Released
    <3>4. on' = [on EXCEPT ![command[t]] = setup[t] = "ok"]
      BY <2>6 DEF Restore
    <3>5. on'[command[t]] = (setup[t] = "ok")
      BY <3>2, <3>4
    <3>6. readied[command[t]] = IF on'[command[t]] THEN 1 ELSE 0
      BY <3>2, <3>5, Zenon
    <3>7. \A c \in Commands : c # command[t] => on'[c] = on[c]
      BY <3>4
    <3>8. UNCHANGED <<readied, command, setup>>
      BY <2>6 DEF Restore
    <3>9. \A s \in Threads : pc'[s] \in InSetup =>
             s # t /\ command[s] # command[t] /\ holder'[command[s]] = s
      BY <3>1, <3>2, <3>3
    <3>10. \A c \in Commands : holder'[c] = Nobody =>
             readied[c] = IF on'[c] THEN 1 ELSE 0
      BY <3>2, <3>3, <3>6, <3>7
    <3>11. \A c \in Commands : holder'[c] # Nobody =>
             pc'[holder'[c]] \in InSetup /\ command[holder'[c]] = c
      BY <3>1, <3>2, <3>3
    <3> QED
      BY <3>1, <3>8, <3>9, <3>10, <3>11
  <2>7. ASSUME NEW t \in Threads, LoadSdk(t) \/ RunUntraced(t) \/ RunInHandler(t) \/ RunTraced(t)
        PROVE SetupInv'
    BY <2>7 DEF LoadSdk, RunUntraced, RunInHandler, RunTraced, Runs
  <2>8. ASSUME NEW t \in Threads, EnterSpan(t) \/ CloseSpan(t) PROVE SetupInv'
    BY <2>8 DEF EnterSpan, CloseSpan, AfterFailure
  <2>9. ASSUME NEW t \in Threads, ReportMetadata(t) \/ ReportOutput(t) \/ Flush(t)
        PROVE SetupInv'
    BY <2>9 DEF ReportMetadata, ReportOutput, SafeReport, Flush, Escapes
  <2>10. CASE UNCHANGED vars
    BY <2>10 DEF vars
  <2> QED
    BY <2>1, <2>2, <2>3, <2>4, <2>5, <2>6, <2>7, <2>8, <2>9, <2>10 DEF Next, Step
<1> QED
  BY <1>1, <1>2, TypeInvariant, PTL DEF Spec

\* However many threads make the first call of a command at once, one setup
\* makes tracing ready.
THEOREM ReadyOnce == Spec => []SetupIsReadyOnce
<1>1. SetupInv => SetupIsReadyOnce
  BY DEF SetupInv, SetupIsReadyOnce
<1> QED
  BY <1>1, SetupInvariant, PTL

-----------------------------------------------------------------------------
\* The thread between sanitize and restore holds the lock on the environment
\* and keeps the operator's values; nobody else has changed them.
EnvInv ==
    /\ \A t \in Threads : pc[t] \in {"setup", "restore"} =>
          sdkHolder = t /\ saved[t] = "operator"
    /\ sdkHolder # Nobody => pc[sdkHolder] \in {"setup", "restore"}
    /\ sdkHolder = Nobody => argv = "operator"

LEMMA EnvInvariant == Spec => []EnvInv
<1> USE NobodyAssumption DEF EnvInv
<1>1. Init => EnvInv
  BY DEF Init
<1>2. TypeInv /\ EnvInv /\ [Next]_vars => EnvInv'
  <2> SUFFICES ASSUME TypeInv, EnvInv, [Next]_vars PROVE EnvInv'
    OBVIOUS
  <2> USE DEF TypeInv, TypeOK, Answers, shared, private, Goto
  <2>1. ASSUME NEW t \in Threads, Call(t) PROVE EnvInv'
    BY <2>1 DEF Call
  <2>2. ASSUME NEW t \in Threads, AlreadyOn(t) \/ StartSetup(t) PROVE EnvInv'
    BY <2>2 DEF AlreadyOn, StartSetup
  <2>3. ASSUME NEW t \in Threads, Sanitize(t) PROVE EnvInv'
    BY <2>3 DEF Sanitize, EnvironmentFree
  <2>4. ASSUME NEW t \in Threads, SetUp(t) PROVE EnvInv'
    BY <2>4 DEF SetUp
  <2>5. ASSUME NEW t \in Threads, Restore(t) PROVE EnvInv'
    BY <2>5 DEF Restore
  <2>6. ASSUME NEW t \in Threads, LoadSdk(t) \/ RunUntraced(t) \/ RunInHandler(t) \/ RunTraced(t)
        PROVE EnvInv'
    BY <2>6 DEF LoadSdk, RunUntraced, RunInHandler, RunTraced, Runs
  <2>7. ASSUME NEW t \in Threads, EnterSpan(t) \/ CloseSpan(t) PROVE EnvInv'
    BY <2>7 DEF EnterSpan, CloseSpan, AfterFailure
  <2>8. ASSUME NEW t \in Threads, ReportMetadata(t) \/ ReportOutput(t) \/ Flush(t)
        PROVE EnvInv'
    BY <2>8 DEF ReportMetadata, ReportOutput, SafeReport, Flush, Escapes
  <2>9. CASE UNCHANGED vars
    BY <2>9 DEF vars
  <2> QED
    BY <2>1, <2>2, <2>3, <2>4, <2>5, <2>6, <2>7, <2>8, <2>9 DEF Next, Step
<1> QED
  BY <1>1, <1>2, TypeInvariant, PTL DEF Spec

\* Whichever commands set up tracing at the same time, the operator's argv and
\* variables are in place whenever nobody is inside.
THEOREM EnvironmentComesBack == Spec => []EnvironmentIsRestored
<1>1. TypeInv /\ EnvInv => EnvironmentIsRestored
  BY DEF TypeInv, TypeOK, EnvInv, EnvironmentIsRestored
<1> QED
  BY <1>1, TypeInvariant, EnvInvariant, PTL
=============================================================================
