---------------------------- MODULE Monitor_proofs ----------------------------
(***************************************************************************)
(* Proofs about Monitor for any tools, contracts, clients, imported traces *)
(* and number of checks, with the verifier reset between any two steps of  *)
(* a check: type correctness, that what the verifier keeps is a prefix of  *)
(* the trace, that every call counts once, and that no call at which a     *)
(* rule is broken is let through by a check that was not reset under way.  *)
(***************************************************************************)
EXTENDS Monitor, SequenceTheorems, FiniteSetTheorems, TLAPS

-----------------------------------------------------------------------------
Pcs == {Idle, "checking", "running", "written", "tagging", "undo"}
Purposes == {"call", "tag", "before", "filter"}

LEMMA BecomeKeepsTypes ==
    ASSUME TypeOK, NEW c \in Clients, NEW s \in Pcs, NEW n \in Names \cup {NoTool}, Become(c, s, n)
    PROVE  pc' \in [Clients -> Pcs] /\ using' \in [Clients -> Names \cup {NoTool}]
BY DEF Become, TypeOK, Pcs

\* A client that has a call or a check under way calls a tool.
UsesATool ==
    \A c \in Clients : pc[c] \in {"checking", "running", "written", "tagging"} => using[c] \in Names

\* What every step that begins a check does.
Begins(c, e, p) ==
    /\ BeginCheck(c, e, p) /\ e.call = Len(outcome) + 1 /\ e.tool \in Names
    /\ e.kind = IF p = "tag" THEN "data_write" ELSE "tool_call"
    /\ p = "call" => user = "proxy" /\ pc[c] = Idle
    /\ p = "tag" => pc[c] = "tagging"
    /\ p \in {"before", "filter"} => user = "guard" /\ pc[c] = Idle
    /\ spoiled' = IF p \in {"call", "tag"} THEN spoiled ELSE spoiled \/ Undoing # {}

LEMMA Beginning ==
    ASSUME TypeOK, UsesATool, NEW c \in Clients,
           \/ \E n \in Names : CallTool(c, n) \/ GuardBefore(c, n) \/ FilterTools(c, n)
           \/ TagOutput(c)
    PROVE  \E e \in Events, p \in Purposes : Begins(c, e, p)
<1>1. Len(outcome) + 1 \in Nat /\ <<>> \in Seq(Clients)
  BY DEF TypeOK
<1>2. ASSUME NEW n \in Names
      PROVE  Event("tool_call", n, {}) \in Events /\ Written(n) \in Events
  <2>1. {n} \cup (IF TagPii /\ ToolNamed(n).pii THEN {"pii"} ELSE {}) \in SUBSET (Names \cup {"pii"})
    OBVIOUS
  <2> QED
    BY <1>1, <2>1 DEF Event, Written, Events
<1>3. ASSUME NEW n \in Names
      PROVE  LET e == Event("tool_call", n, {}) IN
             e.call = Len(outcome) + 1 /\ e.tool = n /\ e.kind = "tool_call"
  BY DEF Event
<1>4. CASE \E n \in Names : CallTool(c, n)
  <2>1. PICK n \in Names : CallTool(c, n)
    BY <1>4
  <2> DEFINE e == Event("tool_call", n, {})
  <2>2. e \in Events /\ e.call = Len(outcome) + 1 /\ e.tool = n /\ e.kind = "tool_call"
    BY <1>2, <1>3
  <2>3. Begins(c, e, "call")
    BY <2>1, <2>2 DEF CallTool, Begins
  <2> QED
    BY <2>2, <2>3 DEF Purposes
<1>5. CASE \E n \in Names : GuardBefore(c, n) \/ FilterTools(c, n)
  <2>1. PICK n \in Names : GuardBefore(c, n) \/ FilterTools(c, n)
    BY <1>5
  <2> DEFINE e == Event("tool_call", n, {})
  <2>2. e \in Events /\ e.call = Len(outcome) + 1 /\ e.tool = n /\ e.kind = "tool_call"
    BY <1>2, <1>3
  <2>3. Begins(c, e, "before") \/ Begins(c, e, "filter")
    BY <2>1, <2>2 DEF GuardBefore, FilterTools, Begins
  <2> QED
    BY <2>2, <2>3 DEF Purposes
<1>6. CASE TagOutput(c)
  <2> DEFINE e == Written(using[c])
  <2>1. pc[c] = "tagging" /\ using[c] \in Names
    BY <1>6 DEF TagOutput, UsesATool
  <2>2. e \in Events /\ e.call = Len(outcome) + 1 /\ e.tool \in Names /\ e.kind = "data_write"
    BY <1>2, <2>1 DEF Written, Event
  <2>3. Begins(c, e, "tag")
    BY <1>6, <2>2 DEF TagOutput, Begins
  <2> QED
    BY <2>2, <2>3 DEF Purposes
<1> QED
  BY <1>4, <1>5, <1>6

\* A check of a client's ends: judged, or by an exception.
Ends(c) == CallChecked(c) \/ GuardChecked(c) \/ ToolFiltered(c) \/ OutputTagged(c) \/ CheckRaises(c)

EndsAs(c, s, n) ==
    /\ Become(c, s, n)
    /\ s = "running" => n \in Names /\ check.purpose = "call"
    /\ s = "undo" => check.purpose \in {"before", "filter"}
    /\ check.purpose = "filter" => s = "undo"
    /\ counted' = IF s = "undo" \/ check.purpose = "tag" THEN counted ELSE counted \cup {Len(outcome)}

LEMMA Ending ==
    ASSUME TypeOK, UsesATool, NEW c \in Clients, Ends(c)
    PROVE  /\ Judging /\ check' = NoCheck /\ UNCHANGED <<user, mode, trace, grounded, shifted, spoiled>>
           /\ pc[c] = "checking"
           /\ \E s \in {Idle, "running", "undo"}, n \in Names \cup {NoTool} : EndsAs(c, s, n)
           /\ \/ outcome' = outcome
              \/ /\ outcome' = [outcome EXCEPT ![Len(outcome)] = Settled]
                 /\ check.left = {} /\ check.purpose \in {"call", "before"}
<1>1. Judging /\ check' = NoCheck /\ UNCHANGED <<user, mode, trace, grounded, shifted, spoiled>>
      /\ pc[c] = "checking"
  BY DEF Ends, CallChecked, GuardChecked, ToolFiltered, OutputTagged, CheckRaises, Checked
<1>2. using[c] \in Names
  BY <1>1 DEF UsesATool
<1>3. CASE CallChecked(c)
  <2>1. EndsAs(c, Idle, NoTool) \/ EndsAs(c, "running", using[c])
    BY <1>2, <1>3 DEF CallChecked, Checked, EndsAs, Idle
  <2> QED
    BY <1>1, <1>2, <1>3, <2>1 DEF CallChecked, Checked
<1>4. CASE GuardChecked(c)
  <2>1. EndsAs(c, Idle, NoTool) \/ EndsAs(c, "undo", using[c])
    BY <1>4 DEF GuardChecked, Checked, EndsAs, Idle
  <2> QED
    BY <1>1, <1>2, <1>4, <2>1 DEF GuardChecked, Checked
<1>5. CASE ToolFiltered(c)
  <2>1. EndsAs(c, "undo", using[c])
    BY <1>5 DEF ToolFiltered, Checked, EndsAs
  <2> QED
    BY <1>1, <1>2, <1>5, <2>1 DEF ToolFiltered
<1>6. CASE OutputTagged(c)
  <2>1. EndsAs(c, Idle, NoTool)
    BY <1>6 DEF OutputTagged, Checked, EndsAs, Idle
  <2> QED
    BY <1>1, <1>6, <2>1 DEF OutputTagged
<1>7. CASE CheckRaises(c)
  <2>1. EndsAs(c, Idle, NoTool)
    BY <1>7 DEF CheckRaises, EndsAs, Idle
  <2> QED
    BY <1>1, <1>7, <2>1 DEF CheckRaises
<1> QED
  BY <1>3, <1>4, <1>5, <1>6, <1>7 DEF Ends

\* The steps, by what they do.
LEMMA Steps ==
    ASSUME Next
    PROVE  \/ \E c \in Clients : \/ \E n \in Names : CallTool(c, n) \/ GuardBefore(c, n) \/ FilterTools(c, n)
                                \/ TagOutput(c)
           \/ \E c \in Clients : Ends(c)
           \/ GroundNext \/ Judge
           \/ \E c \in Clients : ClientFails(c) \/ AttachOutput(c) \/ Reground(c) \/ Rollback(c)
           \/ Reset \/ \E t \in Imports : ImportTrace(t)
BY DEF Next, Ends

\* The events without the last one.
LEMMA FrontOfEvents ==
    ASSUME NEW s \in Seq(Events), s # <<>>
    PROVE  /\ Front(s) \in Seq(Events)
           /\ Len(Front(s)) = Len(s) - 1 /\ DOMAIN Front(s) = 1 .. Len(s) - 1
           /\ DOMAIN s = 1 .. Len(s) /\ Len(s) \in Nat \ {0}
           /\ \A i \in DOMAIN Front(s) : Front(s)[i] = s[i]
<1> DEFINE n == Len(s)
<1>1. s \in [1 .. n -> Events] /\ n \in Nat /\ n - 1 \in 0 .. n /\ n # 0
  OBVIOUS
<1>2. Front(s) = [i \in 1 .. n - 1 |-> s[i]]
  <2>1. Front(s) = SubSeq(s, 1, n - 1)
    BY DEF Front
  <2> QED
    BY <1>1, <2>1
<1>3. Front(s) \in [1 .. n - 1 -> Events]
  BY <1>1, <1>2
<1> HIDE DEF n
<1>4. Front(s) \in Seq(Events) /\ Len(Front(s)) = n - 1
  BY <1>1, <1>3
<1> QED
  BY <1>1, <1>2, <1>4 DEF n


\* An output that is attached changes no event but by its content.
Alike(e, f) == e.kind = f.kind /\ e.tool = f.tool /\ e.contains = f.contains

LEMMA Attaching ==
    ASSUME TypeOK, NEW c \in Clients, AttachOutput(c)
    PROVE  /\ trace' \in Seq(Events) /\ DOMAIN trace' = DOMAIN trace /\ Len(trace') = Len(trace)
           /\ \A i \in DOMAIN trace : Alike(trace'[i], trace[i]) /\ trace'[i].call = trace[i].call
           /\ UNCHANGED <<user, mode, grounded, shifted, check, outcome, counted, spoiled>>
           /\ pc[c] = "running"
           /\ \/ Become(c, "written", using[c])
              \/ Become(c, "tagging", using[c]) /\ UNCHANGED trace
<1> DEFINE k == Latest(using[c])
           F(e) == [e EXCEPT !.content = Append(@, c)]
<1>0. /\ UNCHANGED <<user, mode, grounded, shifted, check, outcome, counted, spoiled>>
      /\ pc[c] = "running"
      /\ \/ Become(c, "written", using[c])
         \/ Become(c, "tagging", using[c]) /\ UNCHANGED trace
  BY DEF AttachOutput
<1>1. UNCHANGED trace \/ trace' = [trace EXCEPT ![k] = F(trace[k])]
  BY DEF AttachOutput
<1>2. trace \in [1 .. Len(trace) -> Events] /\ Len(trace) \in Nat /\ DOMAIN trace = 1 .. Len(trace)
  BY DEF TypeOK
<1>3. ASSUME NEW e \in Events PROVE F(e) \in Events /\ Alike(F(e), e) /\ F(e).call = e.call
  <2>1. e.content \in Seq(Clients)
    BY DEF Events
  <2>2. Append(e.content, c) \in Seq(Clients)
    BY <2>1
  <2> QED
    BY <2>2 DEF Events, Alike
<1> HIDE DEF k, F
<1>4. trace' \in [1 .. Len(trace) -> Events]
  BY <1>1, <1>2, <1>3
<1>5. \A i \in DOMAIN trace : trace'[i] = trace[i] \/ trace'[i] = F(trace[i])
  BY <1>1, <1>2
<1>6. \A i \in DOMAIN trace : Alike(trace'[i], trace[i]) /\ trace'[i].call = trace[i].call
  BY <1>2, <1>3, <1>5 DEF Alike
<1> QED
  BY <1>0, <1>2, <1>4, <1>6

\* What the verifier judges by, and how it is emptied.
LEMMA Restarting ==
    ASSUME TypeOK,
           \/ \E c \in Clients : Rollback(c) /\ trace # <<>>
           \/ Reset \/ \E t \in Imports : ImportTrace(t)
    PROVE  /\ LockFree /\ grounded' = <<>> /\ shifted' = FALSE
           /\ UNCHANGED <<user, mode, check>> /\ trace' \in Seq(Events)
<1>1. CASE \E c \in Clients : Rollback(c) /\ trace # <<>>
  BY <1>1, FrontOfEvents DEF Rollback, Forgotten, TypeOK
<1>2. CASE Reset
  BY <1>2 DEF Reset
<1>3. CASE \E t \in Imports : ImportTrace(t)
  BY <1>3, ImportsAssumption DEF ImportTrace, Forgotten
<1> QED
  BY <1>1, <1>2, <1>3

LEMMA UsesAToolStep ==
    ASSUME TypeOK, UsesATool, [Next]_vars
    PROVE  UsesATool'
<1>1. ASSUME NEW c \in Clients, NEW s \in Pcs, NEW n, Become(c, s, n),
             s \in {Idle, "undo"} \/ n \in Names
      PROVE  UsesATool'
  BY <1>1 DEF Become, UsesATool, TypeOK, Idle
<1>2. ASSUME UNCHANGED <<pc, using>> PROVE UsesATool'
  BY <1>2 DEF UsesATool
<1>3. ASSUME NEW c \in Clients,
             \/ \E n \in Names : CallTool(c, n) \/ GuardBefore(c, n) \/ FilterTools(c, n)
             \/ TagOutput(c)
      PROVE  UsesATool'
  <2>1. PICK e \in Events, p \in Purposes : Begins(c, e, p)
    BY <1>3, Beginning
  <2> QED
    BY <1>1, <2>1 DEF Begins, BeginCheck, Pcs
<1>4. ASSUME NEW c \in Clients, Ends(c) PROVE UsesATool'
  <2>1. PICK s \in {Idle, "running", "undo"}, n \in Names \cup {NoTool} : EndsAs(c, s, n)
    BY <1>4, Ending
  <2> QED
    BY <1>1, <2>1 DEF EndsAs, Pcs
<1>5. ASSUME NEW c \in Clients, AttachOutput(c) \/ Reground(c) PROVE UsesATool'
  <2>1. using[c] \in Names
    BY <1>5 DEF AttachOutput, Reground, UsesATool
  <2>2. Become(c, "tagging", using[c]) \/ Become(c, "written", using[c])
    BY <1>5 DEF AttachOutput, Reground
  <2> QED
    BY <2>1, <2>2, <1>1 DEF Pcs
<1>6. ASSUME NEW c \in Clients, ClientFails(c) \/ Rollback(c) PROVE UsesATool'
  BY <1>1, <1>6 DEF ClientFails, Rollback, Pcs
<1>7. CASE GroundNext \/ Judge \/ Reset \/ (\E t \in Imports : ImportTrace(t)) \/ UNCHANGED vars
  BY <1>7, <1>2 DEF GroundNext, Judge, Reset, ImportTrace, vars
<1> QED
  BY <1>3, <1>4, <1>5, <1>6, <1>7, Steps

LEMMA TypeInvariant == Spec => [](TypeOK /\ UsesATool)
<1>1. Init => TypeOK /\ UsesATool
  <2> SUFFICES ASSUME Init PROVE TypeOK /\ UsesATool
    OBVIOUS
  <2>1. check = [purpose |-> "none", next |-> 1, left |-> {}, results |-> {}, torn |-> FALSE]
    BY DEF Init, NoCheck
  <2>2. /\ trace = <<>> /\ grounded = <<>> /\ outcome = <<>> /\ counted = {}
        /\ shifted = FALSE /\ spoiled = FALSE
        /\ pc = [c \in Clients |-> Idle] /\ using = [c \in Clients |-> NoTool]
        /\ user \in {"proxy", "guard"} /\ mode \in {"enforce", "observe"}
    BY DEF Init
  <2>3. UsesATool
    BY <2>2 DEF UsesATool, Idle
  <2>4. check \in [purpose : {"none", "call", "tag", "before", "filter"}, next : Nat \ {0},
                   left : SUBSET Contracts, torn : BOOLEAN,
                   results : SUBSET ({"escalated"} \cup {k.strategy : k \in Contracts})]
    BY <2>1
  <2>5. /\ trace \in Seq(Events) /\ grounded \in Seq(Events)
        /\ outcome \in Seq({"open", "refused", "slipped", "passed"})
    BY <2>2
  <2>6. /\ pc \in [Clients -> {Idle, "checking", "running", "written", "tagging", "undo"}]
        /\ using \in [Clients -> Names \cup {NoTool}]
    BY <2>2
  <2>7. counted \subseteq Nat /\ shifted \in BOOLEAN /\ spoiled \in BOOLEAN
    BY <2>2
  <2> QED
    BY <2>2, <2>3, <2>4, <2>5, <2>6, <2>7 DEF TypeOK
<1>2. TypeOK /\ UsesATool /\ [Next]_vars => TypeOK'
  <2> SUFFICES ASSUME TypeOK, UsesATool, [Next]_vars PROVE TypeOK'
    OBVIOUS
  <2> DEFINE Found == SUBSET ({"escalated"} \cup {k.strategy : k \in Contracts})
             Check == [purpose : {"none"} \cup Purposes, next : Nat \ {0},
                       left : SUBSET Contracts, torn : BOOLEAN, results : Found]
  <2>0. check \in Check /\ (check' \in Check => TypeOK' \/ ~(
           /\ user' \in {"proxy", "guard"} /\ mode' \in {"enforce", "observe"}
           /\ trace' \in Seq(Events) /\ grounded' \in Seq(Events) /\ shifted' \in BOOLEAN
           /\ pc' \in [Clients -> Pcs] /\ using' \in [Clients -> Names \cup {NoTool}]
           /\ outcome' \in Seq({"open", "refused", "slipped", "passed"})
           /\ counted' \subseteq Nat /\ spoiled' \in BOOLEAN))
    BY DEF TypeOK, Purposes, Pcs
  <2>n. NoCheck \in Check
    BY DEF NoCheck
  <2>1. ASSUME NEW c \in Clients,
               \/ \E n \in Names : CallTool(c, n) \/ GuardBefore(c, n) \/ FilterTools(c, n)
               \/ TagOutput(c)
        PROVE  TypeOK'
    <3>1. PICK e \in Events, p \in Purposes : Begins(c, e, p)
      BY <2>1, Beginning
    <3>2. pc' \in [Clients -> Pcs] /\ using' \in [Clients -> Names \cup {NoTool}]
      BY <3>1, BecomeKeepsTypes DEF Begins, BeginCheck, Pcs
    <3>3. Len(grounded) + 1 \in Nat \ {0}
      BY DEF TypeOK
    <3>4. check' \in Check
      BY <2>n, <3>1, <3>3 DEF Begins, BeginCheck
    <3>5. trace' \in Seq(Events) /\ outcome' \in Seq({"open", "refused", "slipped", "passed"})
      BY <3>1 DEF Begins, BeginCheck, TypeOK
    <3> QED
      BY <2>0, <3>1, <3>2, <3>4, <3>5 DEF Begins, BeginCheck, TypeOK
  <2>2. ASSUME NEW c \in Clients, Ends(c) PROVE TypeOK'
    <3>1. check' = NoCheck /\ UNCHANGED <<user, mode, trace, grounded, shifted, spoiled>>
      BY <2>2, Ending
    <3>2. PICK s \in {Idle, "running", "undo"}, n \in Names \cup {NoTool} : EndsAs(c, s, n)
      BY <2>2, Ending
    <3>3. pc' \in [Clients -> Pcs] /\ using' \in [Clients -> Names \cup {NoTool}]
      BY <3>2, BecomeKeepsTypes DEF EndsAs, Pcs
    <3>4. counted' \subseteq Nat
      <4>1. Len(outcome) \in Nat /\ counted \subseteq Nat
        BY DEF TypeOK
      <4>2. counted' = counted \/ counted' = counted \cup {Len(outcome)}
        BY <3>2 DEF EndsAs
      <4> QED
        BY <4>1, <4>2
    <3>5. outcome' = outcome \/ outcome' = [outcome EXCEPT ![Len(outcome)] = Settled]
      BY <2>2, Ending
    <3>6. Settled \in {"open", "refused", "slipped", "passed"}
      BY DEF Settled
    <3>7. outcome' \in Seq({"open", "refused", "slipped", "passed"})
      BY <3>5, <3>6 DEF TypeOK
    <3> QED
      BY <2>0, <2>n, <3>1, <3>3, <3>4, <3>7 DEF TypeOK
  <2>3. CASE GroundNext
    <3>1. check.next \in Nat \ {0} /\ check.next <= Len(trace) /\ Len(trace) \in Nat
      BY <2>3 DEF GroundNext, Grounding, TypeOK
    <3>2. trace[check.next] \in Events
      BY <3>1 DEF TypeOK
    <3>3. grounded' \in Seq(Events)
      BY <2>3, <3>2 DEF GroundNext, TypeOK
    <3>4. check' \in Check
      <4>1. check' = [check EXCEPT !.next = check.next + 1]
        BY <2>3 DEF GroundNext
      <4>2. check \in Check /\ check.next + 1 \in Nat \ {0}
        BY <2>0, <3>1
      <4> HIDE DEF Found
      <4> QED
        BY ONLY <4>1, <4>2
    <3> QED
      BY <2>0, <2>3, <3>3, <3>4 DEF GroundNext, TypeOK, Pcs
  <2>4. CASE Judge
    <3> DEFINE k == CHOOSE k \in check.left : TRUE
    <3>1. k \in Contracts
      BY <2>0, <2>4 DEF Judge
    <3>2. check' = [check EXCEPT !.left = @ \ {k}, !.results = @ \cup Verdict(k, grounded)]
      BY <2>4 DEF Judge
    <3>3. Verdict(k, grounded) \in Found
      BY <3>1 DEF Verdict
    <3> HIDE DEF k
    <3>4. check' \in Check
      BY <2>0, <3>2, <3>3
    <3> QED
      BY <2>0, <2>4, <3>4 DEF Judge, TypeOK, Pcs
  <2>5. ASSUME NEW c \in Clients, ClientFails(c) PROVE TypeOK'
    <3>1. pc' \in [Clients -> Pcs] /\ using' \in [Clients -> Names \cup {NoTool}]
      BY <2>5, BecomeKeepsTypes DEF ClientFails, Pcs
    <3> QED
      BY <2>0, <2>5, <3>1 DEF ClientFails, TypeOK
  <2>6. ASSUME NEW c \in Clients, AttachOutput(c) PROVE TypeOK'
    <3>1. using[c] \in Names \cup {NoTool}
      BY DEF TypeOK
    <3>2. pc' \in [Clients -> Pcs] /\ using' \in [Clients -> Names \cup {NoTool}]
      BY <2>6, <3>1, Attaching, BecomeKeepsTypes DEF Pcs
    <3>3. /\ trace' \in Seq(Events)
          /\ UNCHANGED <<user, mode, grounded, shifted, check, outcome, counted, spoiled>>
      BY <2>6, Attaching
    <3> QED
      BY <2>0, <3>2, <3>3 DEF TypeOK
  <2>7. ASSUME NEW c \in Clients, Reground(c) PROVE TypeOK'
    <3>1. using[c] \in Names \cup {NoTool}
      BY DEF TypeOK
    <3>2. pc' \in [Clients -> Pcs] /\ using' \in [Clients -> Names \cup {NoTool}]
      BY <2>7, <3>1, BecomeKeepsTypes DEF Reground, Pcs
    <3>3. PICK next \in IF Grounding THEN {1, check.next} ELSE {check.next} :
             /\ check' = [check EXCEPT !.next = next, !.torn = @ \/ Judging]
             /\ shifted' = (Grounding /\ next > 1)
      BY <2>7 DEF Reground
    <3>4. next \in Nat \ {0}
      BY <2>0, <3>3
    <3>5. check' \in Check
      BY <2>0, <3>3, <3>4
    <3> QED
      BY <2>0, <2>7, <3>2, <3>3, <3>5 DEF Reground, TypeOK
  <2>8. ASSUME NEW c \in Clients, Rollback(c) PROVE TypeOK'
    <3>1. pc' \in [Clients -> Pcs] /\ using' \in [Clients -> Names \cup {NoTool}]
      BY <2>8, BecomeKeepsTypes DEF Rollback, Pcs
    <3>2. trace' \in Seq(Events) /\ grounded' \in Seq(Events) /\ shifted' \in BOOLEAN
      <4>1. CASE trace = <<>>
        BY <2>8, <4>1 DEF Rollback, TypeOK
      <4>2. CASE trace # <<>>
        <5>1. grounded' = <<>> /\ trace' = Front(trace) /\ shifted' = FALSE
          BY <2>8, <4>2 DEF Rollback, Forgotten
        <5>2. trace \in Seq(Events)
          BY DEF TypeOK
        <5>3. Front(trace) \in Seq(Events)
          BY <4>2, <5>2, FrontOfEvents
        <5>4. <<>> \in Seq(Events)
          OBVIOUS
        <5> QED
          BY <5>1, <5>3, <5>4
      <4> QED
        BY <4>1, <4>2
    <3> QED
      BY <2>0, <2>8, <3>1, <3>2 DEF Rollback, TypeOK
  <2>9. CASE Reset \/ \E t \in Imports : ImportTrace(t)
    <3>1. /\ UNCHANGED <<user, mode, check, pc, using>>
          /\ outcome' = <<>> /\ counted' = {} /\ spoiled' = (Undoing # {})
          /\ grounded' = <<>> /\ shifted' = FALSE
      BY <2>9 DEF Reset, ImportTrace, Forgotten
    <3>2. trace' \in Seq(Events)
      BY <2>9, Restarting
    <3>3. <<>> \in Seq(Events) /\ <<>> \in Seq({"open", "refused", "slipped", "passed"})
      OBVIOUS
    <3>4. (Undoing # {}) \in BOOLEAN
      OBVIOUS
    <3> QED
      BY <2>0, <3>1, <3>2, <3>3, <3>4 DEF TypeOK, Pcs
  <2>11. CASE UNCHANGED vars
    BY <2>11 DEF vars, TypeOK
  <2> QED
    BY <2>1, <2>2, <2>3, <2>4, <2>5, <2>6, <2>7, <2>8, <2>9, <2>11, Steps
<1> QED
  BY <1>1, <1>2, UsesAToolStep, PTL DEF Spec

-----------------------------------------------------------------------------
\* Every variable of the monitor and of its clients stays in its domain,
\* whatever is imported, rolled back, attached or reset meanwhile.
THEOREM TypeCorrect == Spec => []TypeOK
BY TypeInvariant, PTL

-----------------------------------------------------------------------------
(* Where a check stands: the verifier has grounded no more than the trace, *)
(* and a sync loop continues where it left off, unless it was reset under  *)
(* the judgement or the loop.                                              *)
CursorInv ==
    /\ ~shifted => Len(grounded) <= Len(trace)
    /\ check.torn => Judging
    /\ ~LockFree /\ ~shifted /\ ~check.torn => check.next = Len(grounded) + 1

LEMMA CursorStep ==
    ASSUME TypeOK, UsesATool, CursorInv, [Next]_vars
    PROVE  CursorInv'
<1>0. /\ Len(trace) \in Nat /\ Len(grounded) \in Nat /\ check.next \in Nat \ {0}
      /\ shifted \in BOOLEAN /\ check.torn \in BOOLEAN
  BY DEF TypeOK
<1>1. ASSUME UNCHANGED <<grounded, shifted, check>>, Len(trace') = Len(trace) PROVE CursorInv'
  BY <1>1 DEF CursorInv, Judging, LockFree
<1>2. ASSUME NEW c \in Clients,
             \/ \E n \in Names : CallTool(c, n) \/ GuardBefore(c, n) \/ FilterTools(c, n)
             \/ TagOutput(c)
      PROVE  CursorInv'
  <2>1. PICK e \in Events, p \in Purposes : Begins(c, e, p)
    BY <1>2, Beginning
  <2>2. Len(trace') = Len(trace) + 1 /\ UNCHANGED <<grounded, shifted>>
    BY <2>1 DEF Begins, BeginCheck, TypeOK
  <2>3. check'.next = Len(grounded) + 1 /\ check'.torn = FALSE
    BY <2>1 DEF Begins, BeginCheck, NoCheck
  <2> QED
    BY <1>0, <2>2, <2>3 DEF CursorInv
<1>3. ASSUME NEW c \in Clients, Ends(c) PROVE CursorInv'
  <2>1. check' = NoCheck /\ UNCHANGED <<trace, grounded, shifted>>
    BY <1>3, Ending
  <2> QED
    BY <2>1 DEF CursorInv, NoCheck, LockFree
<1>4. CASE GroundNext
  <2>1. /\ Grounding /\ UNCHANGED <<trace, shifted>> /\ Len(grounded') = Len(grounded) + 1
        /\ check'.next = check.next + 1 /\ check'.torn = check.torn
    BY <1>4 DEF GroundNext, TypeOK
  <2>2. ~check.torn /\ check.next <= Len(trace) /\ ~LockFree
    BY <1>0, <2>1 DEF CursorInv, Grounding, Judging
  <2> QED
    BY <1>0, <2>1, <2>2 DEF CursorInv
<1>5. CASE Judge
  <2>1. /\ UNCHANGED <<trace, grounded, shifted>> /\ check'.next = check.next
        /\ check'.torn = check.torn /\ check'.purpose = check.purpose
    BY <1>5 DEF Judge, TypeOK
  <2> QED
    BY <2>1 DEF CursorInv, Judging, LockFree
<1>6. ASSUME NEW c \in Clients, AttachOutput(c) PROVE CursorInv'
  BY <1>1, <1>6, Attaching
<1>7. ASSUME NEW c \in Clients, Reground(c) PROVE CursorInv'
  <2>1. PICK next \in IF Grounding THEN {1, check.next} ELSE {check.next} :
           /\ check' = [check EXCEPT !.next = next, !.torn = @ \/ Judging]
           /\ shifted' = (Grounding /\ next > 1)
    BY <1>7 DEF Reground
  <2>2. grounded' = <<>> /\ trace' = trace
    BY <1>7 DEF Reground
  <2>3. /\ check'.next = next /\ check'.purpose = check.purpose
        /\ Judging => check'.torn
        /\ check'.torn => check.torn \/ Judging
    BY <2>1 DEF TypeOK
  <2>4. CASE Grounding
    <3>0. ~Judging
      BY <1>0, <2>4 DEF Grounding, Judging
    <3>1. ~check.torn /\ ~check'.torn
      BY <2>3, <3>0 DEF CursorInv
    <3>2. ~shifted' => next = 1
      <4>1. next \in {1, check.next} /\ next \in Nat \ {0}
        BY <1>0, <2>4
      <4>2. next > 1 => shifted'
        BY <2>1, <2>4
      <4> QED
        BY <4>1, <4>2
    <3> QED
      BY <1>0, <2>2, <2>3, <3>1, <3>2 DEF CursorInv
  <2>5. CASE Judging
    <3>0. ~Grounding
      BY <1>0, <2>5 DEF Grounding, Judging
    <3>1. next = check.next /\ check'.torn
      <4>1. check'.torn
        BY <2>3, <2>5
      <4> QED
        BY <2>1, <3>0, <4>1
    <3> QED
      BY <1>0, <2>2, <2>3, <2>5, <3>1 DEF CursorInv, Judging, LockFree
  <2>6. CASE ~Grounding /\ ~Judging
    <3>1. LockFree /\ ~check'.torn
      BY <1>0, <2>3, <2>6 DEF CursorInv, Grounding, Judging
    <3> QED
      BY <1>0, <2>2, <2>3, <3>1 DEF CursorInv, LockFree
  <2> QED
    BY <2>4, <2>5, <2>6
<1>8. ASSUME NEW c \in Clients, ClientFails(c) \/ (Rollback(c) /\ trace = <<>>) PROVE CursorInv'
  BY <1>1, <1>8 DEF ClientFails, Rollback
<1>9. ASSUME \/ \E c \in Clients : Rollback(c) /\ trace # <<>>
             \/ Reset \/ \E t \in Imports : ImportTrace(t)
      PROVE  CursorInv'
  <2>1. LockFree /\ grounded' = <<>> /\ check' = check /\ trace' \in Seq(Events)
    BY <1>9, Restarting
  <2>2. ~check.torn
    BY <2>1 DEF CursorInv, Judging
  <2> QED
    BY <2>1, <2>2 DEF CursorInv, LockFree
<1>10. CASE UNCHANGED vars
  BY <1>1, <1>10 DEF vars
<1> QED
  BY <1>2, <1>3, <1>4, <1>5, <1>6, <1>7, <1>8, <1>9, <1>10, Steps

LEMMA CursorInvariant == Spec => [](TypeOK /\ UsesATool /\ CursorInv)
<1>1. Init => CursorInv
  BY DEF Init, CursorInv, NoCheck, LockFree
<1>2. TypeOK /\ UsesATool /\ CursorInv /\ [Next]_vars => CursorInv'
  BY CursorStep
<1> QED
  BY <1>1, <1>2, TypeInvariant, PTL DEF Spec

\* What is grounded is what the trace has at the same place.
IsPrefixNow == \A i \in 1 .. Len(grounded) : grounded[i] = trace[i]

(* However clients interleave their checks, their outputs, their rollbacks *)
(* and imports, and wherever a reset of the verifier falls, the verifier   *)
(* keeps a prefix of the trace as it is, unless a client stands between    *)
(* attaching an output and resetting the verifier, or a sync loop has gone *)
(* on past such a reset.                                                   *)
THEOREM GroundedStaysCurrent == Spec => []GroundedIsCurrent
<1>1. Init => GroundedIsCurrent
  BY DEF Init, GroundedIsCurrent
<1>2. TypeOK /\ UsesATool /\ CursorInv /\ CursorInv' /\ GroundedIsCurrent /\ [Next]_vars
      => GroundedIsCurrent'
  <2> SUFFICES ASSUME TypeOK, UsesATool, CursorInv, CursorInv', GroundedIsCurrent, [Next]_vars,
                      \A c \in Clients : pc'[c] # "written", ~shifted'
               PROVE  IsPrefixNow'
    BY DEF GroundedIsCurrent, IsPrefixNow, CursorInv
  <2>0. /\ Len(trace) \in Nat /\ Len(grounded) \in Nat /\ check.next \in Nat \ {0}
        /\ trace \in Seq(Events) /\ grounded \in Seq(Events)
    BY DEF TypeOK
  <2>1. ASSUME UNCHANGED <<grounded, shifted>>, \A i \in DOMAIN trace : trace'[i] = trace[i],
               NEW c \in Clients, NEW s, NEW n, Become(c, s, n), pc[c] # "written"
        PROVE  IsPrefixNow'
    <3>1. \A d \in Clients : pc[d] # "written"
      BY <2>1 DEF Become, TypeOK
    <3>2. IsPrefixNow /\ Len(grounded) <= Len(trace)
      BY <2>1, <3>1 DEF GroundedIsCurrent, IsPrefixNow
    <3>3. \A i \in 1 .. Len(grounded) : i \in DOMAIN trace
      BY <2>0, <3>2
    <3> QED
      BY <2>1, <3>2, <3>3 DEF IsPrefixNow
  <2>2. ASSUME NEW c \in Clients,
               \/ \E n \in Names : CallTool(c, n) \/ GuardBefore(c, n) \/ FilterTools(c, n)
               \/ TagOutput(c)
        PROVE  IsPrefixNow'
    <3>1. PICK e \in Events, p \in Purposes : Begins(c, e, p)
      BY <2>2, Beginning
    <3>2. /\ UNCHANGED <<grounded, shifted>> /\ trace' = Append(trace, e)
          /\ Become(c, "checking", e.tool)
      BY <3>1 DEF Begins, BeginCheck
    <3>3. pc[c] # "written"
      BY <3>1 DEF Begins, Purposes, Idle
    <3>4. \A i \in DOMAIN trace : trace'[i] = trace[i]
      BY <2>0, <3>2
    <3> QED
      BY <2>1, <3>2, <3>3, <3>4
  <2>3. ASSUME NEW c \in Clients, Ends(c) PROVE IsPrefixNow'
    <3>1. UNCHANGED <<trace, grounded, shifted>> /\ pc[c] = "checking"
      BY <2>3, Ending
    <3>2. PICK s, n : Become(c, s, n)
      BY <2>3, Ending DEF EndsAs
    <3> QED
      BY <2>1, <3>1, <3>2
  <2>4. CASE GroundNext
    <3>1. /\ Grounding /\ UNCHANGED <<trace, shifted, pc>>
          /\ grounded' = Append(grounded, trace[check.next])
      BY <2>4 DEF GroundNext
    <3>2. ~check.torn /\ ~LockFree /\ check.next <= Len(trace)
      BY <2>0, <3>1 DEF CursorInv, Grounding, Judging
    <3>3. check.next = Len(grounded) + 1
      BY <3>1, <3>2 DEF CursorInv
    <3>4. IsPrefixNow
      BY <3>1 DEF GroundedIsCurrent, IsPrefixNow
    <3>5. trace[check.next] \in Events
      BY <2>0, <3>2
    <3>6. /\ Len(grounded') = Len(grounded) + 1 /\ grounded'[Len(grounded) + 1] = trace[check.next]
          /\ \A i \in 1 .. Len(grounded) : grounded'[i] = grounded[i]
      BY <2>0, <3>1, <3>5
    <3> QED
      BY <2>0, <3>1, <3>3, <3>4, <3>6 DEF IsPrefixNow
  <2>5. CASE Judge \/ UNCHANGED vars
    <3>1. UNCHANGED <<trace, grounded, shifted, pc>>
      BY <2>5 DEF Judge, vars
    <3> QED
      BY <3>1 DEF GroundedIsCurrent, IsPrefixNow
  <2>6. ASSUME NEW c \in Clients, AttachOutput(c) PROVE IsPrefixNow'
    <3>1. /\ UNCHANGED <<grounded, shifted>> /\ pc[c] = "running"
          /\ \/ Become(c, "written", using[c])
             \/ Become(c, "tagging", using[c]) /\ UNCHANGED trace
      BY <2>6, Attaching
    <3>2. ~Become(c, "written", using[c])
      BY DEF Become, TypeOK
    <3> QED
      BY <2>1, <3>1, <3>2
  <2>7. ASSUME NEW c \in Clients, Reground(c) PROVE IsPrefixNow'
    <3>1. grounded' = <<>>
      BY <2>7 DEF Reground
    <3> QED
      BY <3>1 DEF IsPrefixNow
  <2>8. ASSUME NEW c \in Clients, ClientFails(c) \/ (Rollback(c) /\ trace = <<>>) PROVE IsPrefixNow'
    <3>1. /\ UNCHANGED <<trace, grounded, shifted>> /\ pc[c] \in {"running", "undo"}
          /\ Become(c, Idle, NoTool)
      BY <2>8 DEF ClientFails, Rollback
    <3> QED
      BY <2>1, <3>1
  <2>9. ASSUME \/ \E c \in Clients : Rollback(c) /\ trace # <<>>
               \/ Reset \/ \E t \in Imports : ImportTrace(t)
        PROVE  IsPrefixNow'
    <3>1. grounded' = <<>>
      BY <2>9, Restarting
    <3> QED
      BY <3>1 DEF IsPrefixNow
  <2> QED
    BY <2>2, <2>3, <2>4, <2>5, <2>6, <2>7, <2>8, <2>9, Steps
<1>3. TypeOK /\ UsesATool /\ CursorInv /\ [Next]_vars => CursorInv'
  BY CursorStep
<1> QED
  BY <1>1, <1>2, <1>3, CursorInvariant, PTL DEF Spec

-----------------------------------------------------------------------------
(* The calls                                                               *)

\* A proxy's clients have nothing to take back, a guard's no call to wait for.
OneKindOfUser ==
    /\ \A c \in Clients : /\ pc[c] = "undo" => user = "guard"
                          /\ pc[c] \in {"running", "written", "tagging"} => user = "proxy"
    /\ check.purpose \in {"call", "tag"} => user = "proxy"
    /\ check.purpose \in {"before", "filter"} => user = "guard"

LEMMA OneKindStep ==
    ASSUME TypeOK, UsesATool, OneKindOfUser, [Next]_vars
    PROVE  OneKindOfUser'
<1>1. ASSUME UNCHANGED user, check'.purpose \in {check.purpose, "none"},
             NEW c \in Clients, NEW s, NEW n, Become(c, s, n),
             s = "undo" => user = "guard", s \in {"running", "written", "tagging"} => user = "proxy"
      PROVE  OneKindOfUser'
  BY <1>1 DEF Become, OneKindOfUser, TypeOK
<1>2. ASSUME UNCHANGED <<user, pc>>, check'.purpose = check.purpose PROVE OneKindOfUser'
  BY <1>2 DEF OneKindOfUser
<1>3. ASSUME NEW c \in Clients,
             \/ \E n \in Names : CallTool(c, n) \/ GuardBefore(c, n) \/ FilterTools(c, n)
             \/ TagOutput(c)
      PROVE  OneKindOfUser'
  <2>1. PICK e \in Events, p \in Purposes : Begins(c, e, p)
    BY <1>3, Beginning
  <2>2. UNCHANGED user /\ check'.purpose = p /\ Become(c, "checking", e.tool)
    BY <2>1 DEF Begins, BeginCheck, NoCheck
  <2>3. p \in {"call", "tag"} => user = "proxy"
    BY <2>1 DEF Begins, OneKindOfUser
  <2>4. p \in {"before", "filter"} => user = "guard"
    BY <2>1 DEF Begins
  <2> QED
    BY <2>2, <2>3, <2>4 DEF OneKindOfUser, Become, TypeOK
<1>4. ASSUME NEW c \in Clients, Ends(c) PROVE OneKindOfUser'
  <2>1. UNCHANGED user /\ check'.purpose = "none"
    BY <1>4, Ending DEF NoCheck
  <2>2. PICK s \in {Idle, "running", "undo"}, n \in Names \cup {NoTool} : EndsAs(c, s, n)
    BY <1>4, Ending
  <2>3. /\ Become(c, s, n)
        /\ s = "undo" => user = "guard"
        /\ s \in {"running", "written", "tagging"} => user = "proxy"
    BY <2>2 DEF EndsAs, OneKindOfUser, Idle
  <2> QED
    BY <1>1, <2>1, <2>3
<1>5. CASE GroundNext \/ Judge \/ UNCHANGED vars
  <2>1. UNCHANGED <<user, pc>> /\ check'.purpose = check.purpose
    BY <1>5 DEF GroundNext, Judge, vars, TypeOK
  <2> QED
    BY <1>2, <2>1
<1>6. ASSUME NEW c \in Clients,
             ClientFails(c) \/ AttachOutput(c) \/ Reground(c) \/ Rollback(c)
      PROVE  OneKindOfUser'
  <2>1. UNCHANGED user /\ check'.purpose = check.purpose
    BY <1>6 DEF ClientFails, AttachOutput, Reground, Rollback, TypeOK
  <2>2. PICK s, n : /\ Become(c, s, n) /\ s \in {Idle, "written", "tagging"}
                    /\ s # Idle => pc[c] \in {"running", "written"}
    BY <1>6 DEF ClientFails, AttachOutput, Reground, Rollback
  <2>3. s # Idle => user = "proxy"
    BY <2>2 DEF OneKindOfUser
  <2> QED
    BY <1>1, <2>1, <2>2, <2>3 DEF Idle
<1>7. CASE Reset \/ \E t \in Imports : ImportTrace(t)
  BY <1>2, <1>7 DEF Reset, ImportTrace
<1> QED
  BY <1>3, <1>4, <1>5, <1>6, <1>7, Steps

\* The checks of a session are numbered as they come, and the event of the one
\* under way is the last of the trace.
NumberInv ==
    /\ \A i \in DOMAIN trace : trace[i].call <= Len(outcome)
    /\ \A k \in counted : k <= Len(outcome)
    /\ ~LockFree => /\ trace # <<>> /\ outcome # <<>>
                    /\ trace[Len(trace)].call = Len(outcome)
                    /\ \A i \in 1 .. Len(trace) - 1 : trace[i].call < Len(outcome)

LEMMA NumberStep ==
    ASSUME TypeOK, UsesATool, NumberInv, [Next]_vars
    PROVE  NumberInv'
<1>0. /\ trace \in Seq(Events) /\ Len(trace) \in Nat /\ DOMAIN trace = 1 .. Len(trace)
      /\ Len(outcome) \in Nat /\ \A i \in DOMAIN trace : trace[i].call \in Nat
  <2>1. /\ trace \in Seq(Events) /\ Len(trace) \in Nat /\ DOMAIN trace = 1 .. Len(trace)
        /\ Len(outcome) \in Nat
    BY DEF TypeOK
  <2>2. \A e \in Events : e.call \in Nat
    BY DEF Events
  <2>3. \A i \in DOMAIN trace : trace[i] \in Events
    BY <2>1
  <2> QED
    BY <2>1, <2>2, <2>3
<1>1. ASSUME Len(outcome') = Len(outcome), check'.purpose \in {check.purpose, "none"},
             counted' \in {counted, counted \cup {Len(outcome)}},
             DOMAIN trace' = DOMAIN trace, Len(trace') = Len(trace),
             \A i \in DOMAIN trace : trace'[i].call = trace[i].call,
             outcome = <<>> => outcome' = <<>>, outcome' = <<>> => outcome = <<>>,
             trace' = <<>> => trace = <<>>
      PROVE  NumberInv'
  <2>1. \A i \in DOMAIN trace' : trace'[i].call <= Len(outcome')
    BY <1>1 DEF NumberInv
  <2>2. \A k \in counted' : k <= Len(outcome')
    BY <1>0, <1>1 DEF NumberInv
  <2>3. ASSUME ~LockFree'
        PROVE  /\ trace' # <<>> /\ outcome' # <<>>
               /\ trace'[Len(trace')].call = Len(outcome')
               /\ \A i \in 1 .. Len(trace') - 1 : trace'[i].call < Len(outcome')
    <3>1. ~LockFree
      BY <1>1, <2>3 DEF LockFree
    <3>2. /\ trace # <<>> /\ outcome # <<>> /\ trace[Len(trace)].call = Len(outcome)
          /\ \A i \in 1 .. Len(trace) - 1 : trace[i].call < Len(outcome)
      BY <3>1 DEF NumberInv
    <3>3. Len(trace) \in DOMAIN trace /\ \A i \in 1 .. Len(trace) - 1 : i \in DOMAIN trace
      BY <1>0, <3>2
    <3> QED
      BY <1>1, <3>2, <3>3
  <2> QED
    BY <2>1, <2>2, <2>3 DEF NumberInv
<1>2. ASSUME NEW c \in Clients,
             \/ \E n \in Names : CallTool(c, n) \/ GuardBefore(c, n) \/ FilterTools(c, n)
             \/ TagOutput(c)
      PROVE  NumberInv'
  <2>1. PICK e \in Events, p \in Purposes : Begins(c, e, p)
    BY <1>2, Beginning
  <2>2. /\ trace' = Append(trace, e) /\ outcome' = Append(outcome, "open") /\ counted' = counted
        /\ e.call = Len(outcome) + 1
    BY <2>1 DEF Begins, BeginCheck
  <2>3. /\ Len(trace') = Len(trace) + 1 /\ DOMAIN trace' = 1 .. Len(trace) + 1
        /\ trace'[Len(trace) + 1] = e /\ \A i \in DOMAIN trace : trace'[i] = trace[i]
        /\ trace' # <<>>
    BY <1>0, <2>2
  <2>4. Len(outcome') = Len(outcome) + 1 /\ outcome' # <<>>
    BY <2>2 DEF TypeOK
  <2>5. \A i \in 1 .. Len(trace) : trace'[i].call <= Len(outcome) /\ trace'[i].call \in Nat
    BY <1>0, <2>3 DEF NumberInv
  <2>6. \A k \in counted' : k \in Nat /\ k <= Len(outcome)
    BY <2>2 DEF NumberInv, TypeOK
  <2> QED
    BY <1>0, <2>2, <2>3, <2>4, <2>5, <2>6 DEF NumberInv
<1>3. ASSUME NEW c \in Clients, Ends(c) PROVE NumberInv'
  <2>1. UNCHANGED trace /\ check'.purpose = "none"
    BY <1>3, Ending DEF NoCheck
  <2>2. outcome' = outcome \/ outcome' = [outcome EXCEPT ![Len(outcome)] = Settled]
    BY <1>3, Ending
  <2>3. outcome \in Seq({"open", "refused", "slipped", "passed"})
    BY DEF TypeOK
  <2>4. Len(outcome') = Len(outcome) /\ (outcome' = <<>> <=> outcome = <<>>)
    <3> HIDE DEF Settled
    <3>1. Settled \in {"open", "refused", "slipped", "passed"}
      BY DEF Settled
    <3>2. DOMAIN outcome' = DOMAIN outcome /\ outcome' \in Seq({"open", "refused", "slipped", "passed"})
      BY <2>2, <2>3, <3>1
    <3> QED
      BY <2>3, <3>2
  <2>5. counted' \in {counted, counted \cup {Len(outcome)}}
    BY <1>3, Ending DEF EndsAs
  <2> QED
    BY <1>1, <2>1, <2>4, <2>5
<1>4. CASE GroundNext \/ Judge \/ (\E c \in Clients : ClientFails(c) \/ Reground(c)) \/ UNCHANGED vars
  <2>1. UNCHANGED <<trace, outcome, counted>> /\ check'.purpose = check.purpose
    BY <1>4 DEF GroundNext, Judge, ClientFails, Reground, vars, TypeOK
  <2> QED
    BY <1>1, <2>1
<1>5. ASSUME NEW c \in Clients, AttachOutput(c) PROVE NumberInv'
  <2>1. /\ trace' \in Seq(Events) /\ DOMAIN trace' = DOMAIN trace /\ Len(trace') = Len(trace)
        /\ \A i \in DOMAIN trace : trace'[i].call = trace[i].call
        /\ UNCHANGED <<check, outcome, counted>>
    BY <1>5, Attaching
  <2>2. trace' = <<>> => trace = <<>>
    BY <1>0, <2>1
  <2> QED
    BY <1>1, <2>1, <2>2
<1>6. ASSUME NEW c \in Clients, Rollback(c) PROVE NumberInv'
  <2>1. LockFree /\ UNCHANGED <<check, outcome, counted>>
    BY <1>6 DEF Rollback
  <2>2. CASE trace = <<>>
    BY <1>1, <1>6, <2>1, <2>2 DEF Rollback
  <2>3. CASE trace # <<>>
    <3>1. trace' = Front(trace)
      BY <1>6, <2>3 DEF Rollback
    <3>2. \A i \in DOMAIN trace' : i \in DOMAIN trace /\ trace'[i] = trace[i]
      BY <1>0, <2>3, <3>1, FrontOfEvents
    <3> QED
      BY <2>1, <3>2 DEF NumberInv, LockFree
  <2> QED
    BY <2>2, <2>3
<1>7. CASE Reset \/ \E t \in Imports : ImportTrace(t)
  <2>1. LockFree /\ UNCHANGED check /\ outcome' = <<>> /\ counted' = {}
    BY <1>7 DEF Reset, ImportTrace
  <2>2. \A i \in DOMAIN trace' : trace'[i].call = 0
    BY <1>7, ImportsAssumption DEF Reset, ImportTrace
  <2> QED
    BY <2>1, <2>2 DEF NumberInv, LockFree
<1> QED
  BY <1>2, <1>3, <1>4, <1>5, <1>6, <1>7, Steps

\* Why each call is counted once: unless another step came between a check and
\* its rollback, at most one call is being checked or to be taken back, its
\* event is the last one of the trace and is not counted, and every other call
\* of the trace is.
CountInv ==
    ~spoiled =>
        /\ \A i \in Calls : trace[i].call \in counted \/ (Awaiting /\ i = Len(trace))
        /\ \A k \in counted : \E i \in Calls : trace[i].call = k
        /\ \A i, j \in Calls : trace[i].call = trace[j].call => i = j
        /\ Awaiting => Len(trace) \in Calls /\ trace[Len(trace)].call \notin counted
        /\ \A c, d \in Undoing : c = d
        /\ Undoing # {} => LockFree

LEMMA CountInvCounts == ASSUME TypeOK, CountInv PROVE EveryCallIsCountedOnce
<1> SUFFICES ASSUME ~spoiled
             PROVE  {trace[i].call : i \in Calls} = counted \cup Awaited
  BY DEF EveryCallIsCountedOnce, CountInv
<1>1. ASSUME NEW i \in Calls PROVE trace[i].call \in counted \cup Awaited
  BY <1>1 DEF CountInv, Calls, Awaited
<1>2. ASSUME NEW k \in counted PROVE \E i \in Calls : trace[i].call = k
  BY <1>2 DEF CountInv
<1>3. ASSUME NEW k \in Awaited PROVE \E i \in Calls : trace[i].call = k
  BY <1>3 DEF CountInv, Awaited
<1> QED
  BY <1>1, <1>2, <1>3

LEMMA CountStep ==
    ASSUME TypeOK, UsesATool, OneKindOfUser, NumberInv, CountInv, [Next]_vars
    PROVE  CountInv'
<1>0. /\ trace \in Seq(Events) /\ Len(trace) \in Nat /\ DOMAIN trace = 1 .. Len(trace)
      /\ Len(outcome) \in Nat /\ spoiled \in BOOLEAN
  BY DEF TypeOK
\* A step that leaves the calls of the trace and what is to be undone alone.
<1>1. ASSUME Calls' = Calls, Undoing' = Undoing, Len(trace') = Len(trace),
             \A i \in DOMAIN trace : trace'[i].call = trace[i].call,
             check'.purpose = check.purpose, UNCHANGED <<counted, spoiled>>
      PROVE  CountInv'
  <2>1. \A i \in Calls : trace'[i].call = trace[i].call
    BY <1>1 DEF Calls
  <2>2. Awaiting' = Awaiting /\ LockFree' = LockFree
    BY <1>1 DEF Awaiting, LockFree
  <2> QED
    BY <1>1, <2>1, <2>2 DEF CountInv
<1>2. ASSUME NEW c \in Clients,
             \/ \E n \in Names : CallTool(c, n) \/ GuardBefore(c, n) \/ FilterTools(c, n)
             \/ TagOutput(c)
      PROVE  CountInv'
  <2>1. PICK e \in Events, p \in Purposes : Begins(c, e, p)
    BY <1>2, Beginning
  <2>2. /\ LockFree /\ trace' = Append(trace, e) /\ counted' = counted /\ check'.purpose = p
        /\ Become(c, "checking", e.tool) /\ e.call = Len(outcome) + 1
        /\ e.kind = IF p = "tag" THEN "data_write" ELSE "tool_call"
    BY <2>1 DEF Begins, BeginCheck, NoCheck
  <2>3. Undoing' = Undoing
    <3>1. pc[c] # "undo"
      BY <2>1 DEF Begins, Purposes, Idle
    <3> QED
      BY <2>2, <3>1 DEF Become, Undoing, TypeOK
  <2>4. SUFFICES ASSUME ~spoiled' PROVE CountInv'
    BY DEF CountInv
  <2>5. ~spoiled /\ Undoing = {}
    <3>1. CASE p \in {"call", "tag"}
      <4>1. user = "proxy"
        BY <2>1, <3>1 DEF Begins, OneKindOfUser
      <4> QED
        BY <2>1, <2>4, <3>1, <4>1 DEF Begins, Undoing, OneKindOfUser
    <3>2. CASE p \in {"before", "filter"}
      <4>1. ~(spoiled \/ Undoing # {})
        BY <2>1, <2>4, <3>2 DEF Begins
      <4> QED
        BY <4>1
    <3> QED
      BY <3>1, <3>2 DEF Purposes
  <2>6. ~Awaiting
    BY <2>2, <2>5 DEF Awaiting, LockFree
  <2>7. /\ \A i \in Calls : trace[i].call \in counted
        /\ \A k \in counted : \E i \in Calls : trace[i].call = k
        /\ \A i, j \in Calls : trace[i].call = trace[j].call => i = j
    BY <2>5, <2>6 DEF CountInv
  <2>8. /\ Len(trace') = Len(trace) + 1 /\ trace'[Len(trace) + 1] = e
        /\ DOMAIN trace' = 1 .. Len(trace) + 1
        /\ \A i \in DOMAIN trace : trace'[i] = trace[i]
    BY <1>0, <2>2
  <2>9. \A i \in Calls : i \in DOMAIN trace /\ trace'[i] = trace[i]
    BY <2>8 DEF Calls
  <2>10. Len(outcome) + 1 \notin counted
    BY <1>0 DEF NumberInv, TypeOK
  <2>11. CASE p = "tag"
    <3>1. Calls' = Calls
      BY <1>0, <2>2, <2>8, <2>11 DEF Calls
    <3>2. ~Awaiting'
      BY <2>2, <2>3, <2>5, <2>11 DEF Awaiting
    <3> QED
      BY <2>2, <2>3, <2>5, <2>7, <2>9, <3>1, <3>2 DEF CountInv
  <2>12. CASE p # "tag"
    <3>1. Calls' = Calls \cup {Len(trace) + 1}
      BY <1>0, <2>2, <2>8, <2>12 DEF Calls
    <3>2. \A i \in Calls : trace'[i].call # Len(outcome) + 1
      BY <2>7, <2>9, <2>10
    <3>3. Awaiting'
      BY <2>2, <2>12 DEF Awaiting, Purposes
    <3> QED
      BY <2>2, <2>3, <2>5, <2>7, <2>8, <2>9, <2>10, <3>1, <3>2, <3>3 DEF CountInv
  <2> QED
    BY <2>11, <2>12
<1>3. ASSUME NEW c \in Clients, Ends(c) PROVE CountInv'
  <2>1. /\ UNCHANGED <<trace, spoiled>> /\ check'.purpose = "none" /\ pc[c] = "checking" /\ ~LockFree
    BY <1>3, Ending DEF NoCheck, Judging
  <2>2. PICK s \in {Idle, "running", "undo"}, n \in Names \cup {NoTool} : EndsAs(c, s, n)
    BY <1>3, Ending
  <2>3. SUFFICES ASSUME ~spoiled PROVE CountInv'
    BY <2>1 DEF CountInv
  <2>4. Undoing = {}
    BY <2>1, <2>3 DEF CountInv
  <2>5. Calls' = Calls /\ LockFree'
    BY <2>1 DEF Calls, LockFree
  <2>6. CASE s = "undo"
    <3>1. /\ counted' = counted /\ Awaiting /\ Become(c, s, n)
      BY <2>2, <2>6 DEF EndsAs, Awaiting
    <3>2. Undoing' = {c}
      BY <2>4, <2>6, <3>1 DEF Become, Undoing, TypeOK
    <3>3. Awaiting'
      BY <3>2 DEF Awaiting
    <3> QED
      BY <2>1, <2>3, <2>5, <3>1, <3>2, <3>3 DEF CountInv
  <2>7. CASE s # "undo"
    <3>1. Undoing' = {}
      BY <2>2, <2>4, <2>7 DEF EndsAs, Become, Undoing, TypeOK
    <3>2. ~Awaiting'
      BY <2>1, <3>1 DEF Awaiting
    <3>3. CASE check.purpose = "tag"
      <4>1. counted' = counted /\ ~Awaiting
        BY <2>2, <2>4, <3>3 DEF EndsAs, Awaiting
      <4> QED
        BY <2>1, <2>3, <2>5, <3>1, <3>2, <4>1 DEF CountInv
    <3>4. CASE check.purpose # "tag"
      <4>1. counted' = counted \cup {trace[Len(trace)].call}
        BY <2>1, <2>2, <2>7, <3>4 DEF EndsAs, NumberInv
      <4>2. Awaiting
        BY <2>1, <3>4 DEF Awaiting, LockFree, TypeOK
      <4>3. /\ \A i \in Calls : trace[i].call \in counted'
            /\ \A k \in counted' : \E i \in Calls : trace[i].call = k
            /\ \A i, j \in Calls : trace[i].call = trace[j].call => i = j
        BY <2>3, <4>1, <4>2 DEF CountInv
      <4> QED
        BY <2>1, <2>5, <3>1, <3>2, <4>3 DEF CountInv
    <3> QED
      BY <3>3, <3>4
  <2> QED
    BY <2>6, <2>7
<1>4. CASE GroundNext \/ Judge \/ UNCHANGED vars
  <2>1. UNCHANGED <<trace, pc, counted, spoiled>> /\ check'.purpose = check.purpose
    BY <1>4 DEF GroundNext, Judge, vars, TypeOK
  <2> QED
    BY <1>1, <2>1 DEF Calls, Undoing
<1>5. ASSUME NEW c \in Clients, ClientFails(c) \/ Reground(c) PROVE CountInv'
  <2>1. UNCHANGED <<trace, counted, spoiled>> /\ check'.purpose = check.purpose
    BY <1>5 DEF ClientFails, Reground, TypeOK
  <2>2. Undoing' = Undoing
    BY <1>5 DEF ClientFails, Reground, Become, Undoing, Idle, TypeOK
  <2> QED
    BY <1>1, <2>1, <2>2 DEF Calls
<1>6. ASSUME NEW c \in Clients, AttachOutput(c) PROVE CountInv'
  <2>1. /\ DOMAIN trace' = DOMAIN trace /\ Len(trace') = Len(trace)
        /\ \A i \in DOMAIN trace : trace'[i].kind = trace[i].kind /\ trace'[i].call = trace[i].call
        /\ UNCHANGED <<check, counted, spoiled>>
    BY <1>6, Attaching DEF Alike
  <2>2. Undoing' = Undoing
    <3>1. pc[c] = "running" /\ \E s \in {"written", "tagging"} : Become(c, s, using[c])
      BY <1>6, Attaching
    <3> QED
      BY <3>1 DEF Become, Undoing, TypeOK
  <2>3. Calls' = Calls
    BY <2>1 DEF Calls
  <2> QED
    BY <1>1, <2>1, <2>2, <2>3
<1>7. ASSUME NEW c \in Clients, Rollback(c) PROVE CountInv'
  <2>1. c \in Undoing /\ Undoing' = Undoing \ {c} /\ LockFree
    BY <1>7 DEF Rollback, Become, Undoing, Idle, TypeOK
  <2>2. counted' = counted /\ check' = check /\ (spoiled \/ Undoing # {c} => spoiled')
    BY <1>7 DEF Rollback
  <2>3. SUFFICES ASSUME ~spoiled' PROVE CountInv'
    BY DEF CountInv
  <2>4. ~spoiled /\ Undoing = {c} /\ Undoing' = {} /\ LockFree'
    BY <2>1, <2>2, <2>3 DEF LockFree
  <2>5. /\ Awaiting /\ ~Awaiting'
    BY <2>1, <2>2, <2>4 DEF Awaiting, LockFree
  <2>6. Len(trace) \in Calls /\ trace[Len(trace)].call \notin counted
    BY <2>4, <2>5 DEF CountInv
  <2>7. trace # <<>>
    BY <1>0, <2>6 DEF Calls
  <2>8. /\ DOMAIN trace' = 1 .. Len(trace) - 1
        /\ \A i \in DOMAIN trace' : trace'[i] = trace[i]
    BY <1>0, <1>7, <2>7, FrontOfEvents DEF Rollback
  <2>9. Calls' = Calls \ {Len(trace)}
    BY <1>0, <2>8 DEF Calls
  <2>10. \A i \in Calls' : i \in Calls /\ i # Len(trace) /\ trace'[i] = trace[i]
    BY <2>8, <2>9 DEF Calls
  <2>11. \A i \in Calls' : trace'[i].call \in counted
    BY <2>4, <2>10 DEF CountInv
  <2>12. ASSUME NEW k \in counted PROVE \E i \in Calls' : trace'[i].call = k
    <3>1. PICK i \in Calls : trace[i].call = k
      BY <2>4 DEF CountInv
    <3>2. i \in Calls'
      BY <2>6, <2>9, <3>1
    <3> QED
      BY <2>10, <3>1, <3>2
  <2>13. \A i, j \in Calls' : trace'[i].call = trace'[j].call => i = j
    BY <2>4, <2>10 DEF CountInv
  <2> QED
    BY <2>2, <2>4, <2>5, <2>11, <2>12, <2>13 DEF CountInv
<1>8. CASE Reset \/ \E t \in Imports : ImportTrace(t)
  <2>1. /\ LockFree /\ check' = check /\ counted' = {} /\ Undoing' = Undoing
        /\ spoiled' = (Undoing # {})
    BY <1>8 DEF Reset, ImportTrace, Undoing
  <2>2. \A i \in DOMAIN trace' : trace'[i].call = 0
    BY <1>8, ImportsAssumption DEF Reset, ImportTrace
  <2>3. Calls' = {}
    BY <2>2 DEF Calls
  <2>4. Undoing' # {} => spoiled'
    BY <2>1
  <2>5. Undoing' = {} => ~Awaiting'
    BY <2>1 DEF Awaiting, LockFree
  <2> QED
    BY <2>1, <2>3, <2>4, <2>5 DEF CountInv
<1> QED
  BY <1>2, <1>3, <1>4, <1>5, <1>6, <1>7, <1>8, Steps

LEMMA CountInvariant == Spec => [](TypeOK /\ UsesATool /\ OneKindOfUser /\ NumberInv /\ CountInv)
<1>1. Init => OneKindOfUser /\ NumberInv /\ CountInv
  <2> SUFFICES ASSUME Init PROVE OneKindOfUser /\ NumberInv /\ CountInv
    OBVIOUS
  <2>1. /\ check.purpose = "none" /\ trace = <<>> /\ counted = {} /\ outcome = <<>>
        /\ \A c \in Clients : pc[c] = Idle
    BY DEF Init, NoCheck
  <2>2. Undoing = {} /\ LockFree /\ Calls = {} /\ ~Awaiting
    BY <2>1 DEF Undoing, Idle, LockFree, Calls, Awaiting
  <2> QED
    BY <2>1, <2>2 DEF OneKindOfUser, NumberInv, CountInv, Idle
<1>2. TypeOK /\ UsesATool /\ OneKindOfUser /\ [Next]_vars => OneKindOfUser'
  BY OneKindStep
<1>3. TypeOK /\ UsesATool /\ NumberInv /\ [Next]_vars => NumberInv'
  BY NumberStep
<1>4. TypeOK /\ UsesATool /\ OneKindOfUser /\ NumberInv /\ CountInv /\ [Next]_vars => CountInv'
  BY CountStep
<1> QED
  BY <1>1, <1>2, <1>3, <1>4, TypeInvariant, PTL DEF Spec

(* Rate limits count what was called: whatever the clients interleave,     *)
(* every check of a call is one event of the trace, attaching an output    *)
(* adds none, and a blocked call of a guard and a dry run leave none,      *)
(* unless another step came between a check and its rollback.              *)
THEOREM CallsAreCountedOnce == Spec => []EveryCallIsCountedOnce
<1>1. TypeOK /\ CountInv => EveryCallIsCountedOnce
  BY CountInvCounts
<1> QED
  BY <1>1, CountInvariant, PTL

-----------------------------------------------------------------------------
(* The rules                                                               *)

\* A pattern reads of an event what an output leaves alone.
LEMMA HoldsOfAlike ==
    ASSUME NEW p, IsPattern(p), NEW s \in Seq(Events), NEW t \in Seq(Events), Holds(p, s),
           DOMAIN t = DOMAIN s, \A i \in DOMAIN s : Alike(s[i], t[i])
    PROVE  Holds(p, t)
<1>1. DOMAIN s = 1 .. Len(s) /\ DOMAIN t = 1 .. Len(t) /\ Len(s) \in Nat /\ Len(t) \in Nat
  OBVIOUS
<1>2. ASSUME NEW i \in DOMAIN t, NEW n, IsCall(t[i], n)
      PROVE  i \in DOMAIN s /\ IsCall(s[i], n)
  BY <1>2 DEF IsCall, Alike
<1>3. ASSUME NEW i \in DOMAIN t, i \in DOMAIN s, NEW j \in 1 .. i - 1
      PROVE  j \in DOMAIN s /\ j \in DOMAIN t /\ Alike(t[j], s[j])
  <2>1. j \in DOMAIN s /\ j \in DOMAIN t
    BY <1>1, <1>3
  <2> QED
    BY <2>1 DEF Alike
<1>4. CASE p.pattern = "must_precede"
  <2>1. ASSUME NEW i \in DOMAIN t, IsCall(t[i], p.tool)
        PROVE  \E j \in 1 .. i - 1 : IsCall(t[j], p.first)
    <3>1. i \in DOMAIN s /\ IsCall(s[i], p.tool)
      BY <1>2, <2>1
    <3>2. PICK j \in 1 .. i - 1 : IsCall(s[j], p.first)
      BY <1>4, <3>1 DEF Holds
    <3> QED
      BY <1>3, <3>1, <3>2 DEF IsCall, Alike
  <2> QED
    BY <1>4, <2>1 DEF Holds
<1>5. CASE p.pattern = "no_data_leak"
  <2>1. ASSUME NEW i \in DOMAIN t, IsCall(t[i], p.tool), NEW j \in 1 .. i - 1
        PROVE  "pii" \notin t[j].contains
    <3>1. i \in DOMAIN s /\ IsCall(s[i], p.tool)
      BY <1>2, <2>1
    <3>2. "pii" \notin s[j].contains
      BY <1>5, <3>1 DEF Holds
    <3> QED
      BY <1>3, <3>1, <3>2 DEF Alike
  <2> QED
    BY <1>5, <2>1 DEF Holds
<1>6. CASE p.pattern = "no_reversal"
  <2>1. ASSUME NEW i \in DOMAIN t, IsCall(t[i], p.tool), NEW j \in 1 .. i - 1
        PROVE  ~IsCall(t[j], p.first)
    <3>1. i \in DOMAIN s /\ IsCall(s[i], p.tool)
      BY <1>2, <2>1
    <3>2. ~IsCall(s[j], p.first)
      BY <1>6, <3>1 DEF Holds
    <3> QED
      BY <1>3, <3>1, <3>2 DEF IsCall, Alike
  <2> QED
    BY <1>6, <2>1 DEF Holds
<1>7. CASE p.pattern = "rate_limit"
  <2> DEFINE S == {i \in DOMAIN s : IsCall(s[i], p.tool)}
             T == {i \in DOMAIN t : IsCall(t[i], p.tool)}
  <2>1. T \subseteq S
    BY <1>2
  <2>2. IsFiniteSet(DOMAIN s)
    BY <1>1, FS_Interval
  <2>3. IsFiniteSet(S)
    BY <2>2, FS_Subset
  <2>4. Cardinality(T) <= Cardinality(S) /\ Cardinality(T) \in Nat /\ Cardinality(S) \in Nat
    BY <2>1, <2>3, FS_Subset, FS_CardinalityType
  <2>5. Cardinality(S) <= p.max /\ p.max \in Nat
    BY <1>7 DEF Holds, IsPattern
  <2>6. Cardinality(T) <= p.max
    BY <2>4, <2>5
  <2> QED
    BY <1>7, <2>6 DEF Holds
<1> QED
  BY <1>4, <1>5, <1>6, <1>7 DEF IsPattern

\* Every guarantee of a contract is one of the patterns.
LEMMA RulesArePatterns ==
    ASSUME NEW c \in Contracts, NEW i \in DOMAIN c.guarantees
    PROVE  IsPattern(c.guarantees[i])
<1>1. CASE c \in ToSet(Authored)
  BY <1>1, MonitorAssumption DEF ToSet
<1>2. CASE c \notin ToSet(Authored)
  <2>1. PICK g \in Inferred : c = Contract(g)
    BY <1>2 DEF Contracts
  <2>2. c.guarantees[i] = g
    BY <2>1 DEF Contract
  <2>3. IsPattern(g)
    BY <2>1, MonitorAssumption
    DEF Inferred, IsPattern, MustPrecede, RateLimit, NoDataLeak, NoReversal
  <2> QED
    BY <2>2, <2>3
<1> QED
  BY <1>1, <1>2

\* The same events up to one of them.
LEMMA UpToAlike ==
    ASSUME NEW p, IsPattern(p), NEW s \in Seq(Events), NEW t \in Seq(Events), NEW i \in Nat,
           i <= Len(s), i <= Len(t), \A j \in 1 .. i : Alike(s[j], t[j]),
           Holds(p, SubSeq(s, 1, i))
    PROVE  Holds(p, SubSeq(t, 1, i))
<1>1. /\ SubSeq(s, 1, i) \in Seq(Events) /\ DOMAIN SubSeq(s, 1, i) = 1 .. i
      /\ \A j \in 1 .. i : SubSeq(s, 1, i)[j] = s[j]
  OBVIOUS
<1>2. /\ SubSeq(t, 1, i) \in Seq(Events) /\ DOMAIN SubSeq(t, 1, i) = 1 .. i
      /\ \A j \in 1 .. i : SubSeq(t, 1, i)[j] = t[j]
  OBVIOUS
<1>3. \A j \in 1 .. i : Alike(SubSeq(s, 1, i)[j], SubSeq(t, 1, i)[j])
  BY <1>1, <1>2
<1> QED
  BY <1>1, <1>2, <1>3, HoldsOfAlike

LEMMA FreshOfAlike ==
    ASSUME NEW p, IsPattern(p), NEW s \in Seq(Events), NEW t \in Seq(Events), s # <<>>,
           Len(t) = Len(s), \A i \in DOMAIN s : Alike(s[i], t[i]), IsFresh(p, s)
    PROVE  IsFresh(p, t)
<1>1. DOMAIN s = 1 .. Len(s) /\ DOMAIN t = 1 .. Len(s) /\ Len(s) \in Nat \ {0} /\ t # <<>>
  OBVIOUS
<1>2. \A i \in DOMAIN t : Alike(t[i], s[i])
  BY <1>1 DEF Alike
<1>3. ~Holds(p, t)
  BY <1>1, <1>2, HoldsOfAlike DEF IsFresh
<1>4. /\ Front(s) \in Seq(Events) /\ DOMAIN Front(s) = 1 .. Len(s) - 1
      /\ \A i \in DOMAIN Front(s) : Front(s)[i] = s[i]
  BY FrontOfEvents
<1>5. /\ Front(t) \in Seq(Events) /\ DOMAIN Front(t) = 1 .. Len(s) - 1
      /\ \A i \in DOMAIN Front(t) : Front(t)[i] = t[i]
  BY <1>1, FrontOfEvents
<1>6. \A i \in DOMAIN Front(s) : Alike(Front(s)[i], Front(t)[i])
  BY <1>1, <1>4, <1>5
<1>7. Holds(p, Front(t))
  BY <1>4, <1>5, <1>6, HoldsOfAlike DEF IsFresh
<1> QED
  BY <1>3, <1>7 DEF IsFresh

\* The verifier's events are those of the trace, outputs aside, whatever step
\* a client stands at.
GroundedAgrees == ~shifted => \A i \in 1 .. Len(grounded) : Alike(grounded[i], trace[i])

LEMMA GroundedStep ==
    ASSUME TypeOK, UsesATool, CursorInv, GroundedAgrees, [Next]_vars
    PROVE  GroundedAgrees'
<1>0. /\ trace \in Seq(Events) /\ Len(trace) \in Nat /\ DOMAIN trace = 1 .. Len(trace)
      /\ grounded \in Seq(Events) /\ Len(grounded) \in Nat /\ check.next \in Nat \ {0}
  BY DEF TypeOK
<1>1. ASSUME UNCHANGED <<grounded, shifted>>, \A i \in DOMAIN trace : Alike(trace'[i], trace[i])
      PROVE  GroundedAgrees'
  <2>1. SUFFICES ASSUME ~shifted, NEW i \in 1 .. Len(grounded) PROVE Alike(grounded[i], trace'[i])
    BY <1>1 DEF GroundedAgrees
  <2>2. i \in DOMAIN trace
    BY <1>0, <2>1 DEF CursorInv
  <2> QED
    BY <1>1, <2>1, <2>2 DEF GroundedAgrees, Alike
<1>2. ASSUME NEW c \in Clients,
             \/ \E n \in Names : CallTool(c, n) \/ GuardBefore(c, n) \/ FilterTools(c, n)
             \/ TagOutput(c)
      PROVE  GroundedAgrees'
  <2>1. PICK e \in Events, p \in Purposes : Begins(c, e, p)
    BY <1>2, Beginning
  <2>2. UNCHANGED <<grounded, shifted>> /\ trace' = Append(trace, e)
    BY <2>1 DEF Begins, BeginCheck
  <2>3. \A i \in DOMAIN trace : trace'[i] = trace[i]
    BY <1>0, <2>2
  <2> QED
    BY <1>1, <2>2, <2>3 DEF Alike
<1>3. CASE GroundNext
  <2>1. /\ Grounding /\ UNCHANGED <<trace, shifted>>
        /\ grounded' = Append(grounded, trace[check.next])
    BY <1>3 DEF GroundNext
  <2>2. ~check.torn /\ ~LockFree /\ check.next <= Len(trace)
    BY <1>0, <2>1 DEF CursorInv, Grounding, Judging
  <2>3. trace[check.next] \in Events
    BY <1>0, <2>2
  <2>4. /\ Len(grounded') = Len(grounded) + 1 /\ grounded'[Len(grounded) + 1] = trace[check.next]
        /\ \A i \in 1 .. Len(grounded) : grounded'[i] = grounded[i]
    BY <1>0, <2>1, <2>3
  <2>5. SUFFICES ASSUME ~shifted, NEW i \in 1 .. Len(grounded) + 1 PROVE Alike(grounded'[i], trace[i])
    BY <2>1, <2>4 DEF GroundedAgrees
  <2>6. check.next = Len(grounded) + 1
    BY <2>2, <2>5 DEF CursorInv
  <2>7. CASE i = Len(grounded) + 1
    BY <2>4, <2>6, <2>7 DEF Alike
  <2>8. CASE i # Len(grounded) + 1
    BY <1>0, <2>4, <2>5, <2>8 DEF GroundedAgrees
  <2> QED
    BY <2>7, <2>8
<1>4. ASSUME NEW c \in Clients, AttachOutput(c) PROVE GroundedAgrees'
  BY <1>1, <1>4, Attaching
<1>5. ASSUME grounded' = <<>> PROVE GroundedAgrees'
  BY <1>5 DEF GroundedAgrees
<1>6. ASSUME \/ \E c \in Clients : Rollback(c) /\ trace # <<>>
             \/ Reset \/ \E t \in Imports : ImportTrace(t)
      PROVE  GroundedAgrees'
  BY <1>5, <1>6, Restarting
<1>7. ASSUME NEW c \in Clients, Reground(c) PROVE GroundedAgrees'
  BY <1>5, <1>7 DEF Reground
<1>8. ASSUME UNCHANGED <<trace, grounded, shifted>> PROVE GroundedAgrees'
  BY <1>8 DEF GroundedAgrees
<1>9. CASE Judge \/ (\E c \in Clients : Ends(c) \/ ClientFails(c) \/ (Rollback(c) /\ trace = <<>>))
           \/ UNCHANGED vars
  <2>1. ASSUME NEW c \in Clients, Ends(c) PROVE UNCHANGED <<trace, grounded, shifted>>
    BY <2>1, Ending
  <2> QED
    BY <1>8, <1>9, <2>1 DEF Judge, ClientFails, Rollback, vars
<1> QED
  BY <1>2, <1>3, <1>4, <1>6, <1>7, <1>9, Steps

\* What a check that was not reset under way has found: every rule that the
\* last event is the first to break has stopped it, if it has been judged.
JudgedInv ==
    check.purpose \in {"call", "before"} =>
        /\ Grounding => check.left = Contracts
        /\ ~shifted /\ ~check.torn =>
              \A k \in Rules \ check.left : \A g \in DOMAIN k.guarantees :
                  IsFresh(k.guarantees[g], trace) => k.strategy \in check.results

LEMMA JudgedStep ==
    ASSUME TypeOK, UsesATool, CursorInv, NumberInv, GroundedAgrees, JudgedInv, [Next]_vars
    PROVE  JudgedInv'
<1>0. /\ trace \in Seq(Events) /\ Len(trace) \in Nat /\ DOMAIN trace = 1 .. Len(trace)
      /\ grounded \in Seq(Events) /\ Len(grounded) \in Nat /\ check.next \in Nat \ {0}
  BY DEF TypeOK
<1>0a. Rules \subseteq Contracts
  BY DEF Rules
<1>1. ASSUME check'.purpose \notin {"call", "before"} PROVE JudgedInv'
  BY <1>1 DEF JudgedInv
\* Before it has judged anything a check has found nothing.
<1>2. ASSUME check'.left = Contracts PROVE JudgedInv'
  BY <1>0a, <1>2 DEF JudgedInv
<1>3. ASSUME UNCHANGED <<trace, shifted, check>> PROVE JudgedInv'
  BY <1>3 DEF JudgedInv, Grounding, LockFree
<1>4. ASSUME NEW c \in Clients,
             \/ \E n \in Names : CallTool(c, n) \/ GuardBefore(c, n) \/ FilterTools(c, n)
             \/ TagOutput(c)
      PROVE  JudgedInv'
  <2>1. PICK e \in Events, p \in Purposes : Begins(c, e, p)
    BY <1>4, Beginning
  <2>2. check'.purpose = p /\ (p \in {"call", "before"} => check'.left = Contracts)
    BY <2>1 DEF Begins, BeginCheck, NoCheck
  <2> QED
    BY <1>1, <1>2, <2>2
<1>5. ASSUME NEW c \in Clients, Ends(c) PROVE JudgedInv'
  BY <1>1, <1>5, Ending DEF NoCheck
<1>6. CASE GroundNext
  <2>1. Grounding /\ check'.left = check.left /\ check'.purpose = check.purpose
    BY <1>6 DEF GroundNext, TypeOK
  <2> QED
    BY <1>1, <1>2, <2>1 DEF JudgedInv
<1>7. CASE Judge
  <2> DEFINE k == CHOOSE k \in check.left : TRUE
  <2>1. /\ Judging /\ UNCHANGED <<trace, grounded, shifted>>
        /\ k \in check.left
        /\ check' = [check EXCEPT !.left = @ \ {k}, !.results = @ \cup Verdict(k, grounded)]
    BY <1>7 DEF Judge
  <2>2. k \in Contracts
    BY <2>1 DEF TypeOK
  <2> HIDE DEF k
  <2>3. /\ check'.left = check.left \ {k} /\ check'.results = check.results \cup Verdict(k, grounded)
        /\ check'.purpose = check.purpose /\ check'.next = check.next /\ check'.torn = check.torn
    BY <2>1 DEF TypeOK
  <2>4. ~Grounding'
    BY <1>0, <2>1, <2>3 DEF Grounding, Judging
  <2>5. SUFFICES ASSUME check.purpose \in {"call", "before"}, ~shifted, ~check.torn,
                        NEW r \in Rules, r \notin check'.left, NEW g \in DOMAIN r.guarantees,
                        IsFresh(r.guarantees[g], trace)
                 PROVE  r.strategy \in check'.results
    BY <2>1, <2>3, <2>4 DEF JudgedInv
  <2>6. CASE r # k
    <3>1. r \in Rules \ check.left
      BY <2>3, <2>5, <2>6
    <3>2. r.strategy \in check.results
      BY <2>5, <3>1 DEF JudgedInv
    <3> QED
      BY <2>3, <3>2
  <2>7. CASE r = k
    <3>1. Len(grounded) = Len(trace) /\ trace # <<>>
      BY <1>0, <2>1, <2>5 DEF CursorInv, Judging, NumberInv
    <3>2. \A i \in DOMAIN trace : Alike(trace[i], grounded[i])
      BY <1>0, <2>5, <3>1 DEF GroundedAgrees, Alike
    <3>3. IsPattern(r.guarantees[g])
      BY <1>0a, RulesArePatterns
    <3>4. IsFresh(r.guarantees[g], grounded)
      BY <1>0, <2>5, <3>1, <3>2, <3>3, FreshOfAlike
    <3>5. ~Unmet(r, grounded)
      BY DEF Rules, Unmet
    <3>6. Broken(r, grounded)
      BY <3>4, <3>5 DEF Broken
    <3>7. r.strategy \in Verdict(r, grounded)
      BY <3>6 DEF Verdict
    <3> QED
      BY <2>3, <2>7, <3>7
  <2> QED
    BY <2>6, <2>7
<1>8. ASSUME NEW c \in Clients, AttachOutput(c) PROVE JudgedInv'
  <2>1. /\ trace' \in Seq(Events) /\ DOMAIN trace' = DOMAIN trace /\ Len(trace') = Len(trace)
        /\ \A i \in DOMAIN trace : Alike(trace'[i], trace[i])
        /\ UNCHANGED <<shifted, check>>
    BY <1>8, Attaching
  <2>2. Grounding' = Grounding
    BY <2>1 DEF Grounding, LockFree
  <2>3. SUFFICES ASSUME check.purpose \in {"call", "before"}, ~shifted, ~check.torn,
                        NEW r \in Rules \ check.left, NEW g \in DOMAIN r.guarantees,
                        IsFresh(r.guarantees[g], trace')
                 PROVE  r.strategy \in check.results
    BY <2>1, <2>2 DEF JudgedInv
  <2>4. trace' # <<>>
    BY <1>0, <2>1, <2>3 DEF NumberInv, LockFree
  <2>5. IsPattern(r.guarantees[g])
    BY <1>0a, RulesArePatterns
  <2>6. IsFresh(r.guarantees[g], trace)
    BY <1>0, <2>1, <2>3, <2>4, <2>5, FreshOfAlike
  <2> QED
    BY <2>3, <2>6 DEF JudgedInv
<1>9. ASSUME NEW c \in Clients, Reground(c) PROVE JudgedInv'
  <2>1. PICK next \in IF Grounding THEN {1, check.next} ELSE {check.next} :
           check' = [check EXCEPT !.next = next, !.torn = @ \/ Judging]
    BY <1>9 DEF Reground
  <2>2. /\ check'.next = next /\ check'.purpose = check.purpose /\ check'.left = check.left
        /\ Judging => check'.torn
        /\ trace' = trace
    BY <1>9, <2>1 DEF Reground, TypeOK
  <2>3. CASE LockFree
    BY <1>1, <2>2, <2>3 DEF LockFree
  <2>4. CASE Grounding
    BY <1>1, <1>2, <2>2, <2>4 DEF JudgedInv
  <2>5. CASE Judging
    <3>1. ~Grounding
      BY <1>0, <2>5 DEF Grounding, Judging
    <3>2. ~Grounding' /\ check'.torn
      BY <1>0, <2>1, <2>2, <2>5, <3>1 DEF Grounding, Judging
    <3> QED
      BY <3>2 DEF JudgedInv
  <2> QED
    BY <1>0, <2>3, <2>4, <2>5 DEF Grounding, Judging
<1>10. CASE (\E c \in Clients : ClientFails(c)) \/ UNCHANGED vars
  BY <1>3, <1>10 DEF ClientFails, vars
<1>11. CASE (\E c \in Clients : Rollback(c)) \/ Reset \/ \E t \in Imports : ImportTrace(t)
  BY <1>1, <1>11 DEF Rollback, Reset, ImportTrace, LockFree
<1> QED
  BY <1>4, <1>5, <1>6, <1>7, <1>8, <1>9, <1>10, <1>11, Steps

\* A passed call stays one that broke no rule, while the trace is the same up
\* to it.
LEMMA PassedStay ==
    ASSUME TypeOK, TypeOK', AdmittedCallsKeepTheRules, UNCHANGED mode,
           \A i \in Passed' : i \in Passed /\ \A j \in 1 .. i : Alike(trace'[j], trace[j])
    PROVE  AdmittedCallsKeepTheRules'
<1> SUFFICES ASSUME mode = "enforce", NEW i \in Passed', NEW k \in Rules, NEW g \in DOMAIN k.guarantees,
                    Holds(k.guarantees[g], SubSeq(trace', 1, i - 1))
             PROVE  Holds(k.guarantees[g], SubSeq(trace', 1, i))
  BY DEF AdmittedCallsKeepTheRules, UpTo
<1>1. /\ trace \in Seq(Events) /\ trace' \in Seq(Events)
      /\ i \in Nat /\ i - 1 \in Nat /\ i <= Len(trace) /\ i <= Len(trace')
  BY DEF Passed, TypeOK
<1>2. IsPattern(k.guarantees[g])
  BY RulesArePatterns DEF Rules
<1>3. \A j \in 1 .. i : Alike(trace'[j], trace[j]) /\ Alike(trace[j], trace'[j])
  BY DEF Alike
<1>4. Holds(k.guarantees[g], SubSeq(trace, 1, i - 1))
  <2>1. \A j \in 1 .. i - 1 : j \in 1 .. i
    BY <1>1
  <2>2. i - 1 <= Len(trace) /\ i - 1 <= Len(trace')
    BY <1>1
  <2> QED
    BY <1>1, <1>2, <1>3, <2>1, <2>2, UpToAlike
<1>5. Holds(k.guarantees[g], SubSeq(trace, 1, i))
  BY <1>4 DEF AdmittedCallsKeepTheRules, UpTo
<1> QED
  BY <1>1, <1>2, <1>3, <1>5, UpToAlike

LEMMA RulesStep ==
    ASSUME TypeOK, TypeOK', UsesATool, CursorInv, NumberInv, JudgedInv,
           AdmittedCallsKeepTheRules, [Next]_vars
    PROVE  AdmittedCallsKeepTheRules'
<1>0. /\ trace \in Seq(Events) /\ Len(trace) \in Nat /\ DOMAIN trace = 1 .. Len(trace)
      /\ outcome \in Seq({"open", "refused", "slipped", "passed"}) /\ Len(outcome) \in Nat
      /\ DOMAIN outcome = 1 .. Len(outcome)
  BY DEF TypeOK
<1>1. \A i \in DOMAIN trace : trace[i].call \in Nat
  <2>1. \A e \in Events : e.call \in Nat
    BY DEF Events
  <2> QED
    BY <1>0, <2>1
<1>2. \A e : Alike(e, e)
  BY DEF Alike
<1>3. ASSUME UNCHANGED <<mode, trace, outcome>> PROVE AdmittedCallsKeepTheRules'
  BY <1>3 DEF AdmittedCallsKeepTheRules, Passed, UpTo
<1>4. ASSUME NEW c \in Clients,
             \/ \E n \in Names : CallTool(c, n) \/ GuardBefore(c, n) \/ FilterTools(c, n)
             \/ TagOutput(c)
      PROVE  AdmittedCallsKeepTheRules'
  <2>1. PICK e \in Events, p \in Purposes : Begins(c, e, p)
    BY <1>4, Beginning
  <2>2. /\ UNCHANGED mode /\ trace' = Append(trace, e) /\ outcome' = Append(outcome, "open")
        /\ e.call = Len(outcome) + 1
    BY <2>1 DEF Begins, BeginCheck
  <2>3. /\ DOMAIN trace' = 1 .. Len(trace) + 1 /\ trace'[Len(trace) + 1] = e
        /\ \A i \in DOMAIN trace : trace'[i] = trace[i]
    BY <1>0, <2>2
  <2>4. /\ outcome'[Len(outcome) + 1] = "open"
        /\ \A k \in DOMAIN outcome : outcome'[k] = outcome[k]
    BY <1>0, <2>2
  <2>5. ASSUME NEW i \in Passed' PROVE i \in Passed /\ \A j \in 1 .. i : Alike(trace'[j], trace[j])
    <3>1. i \in 1 .. Len(trace) + 1 /\ trace'[i].call # 0 /\ outcome'[trace'[i].call] = "passed"
      BY <2>3 DEF Passed
    <3>2. i # Len(trace) + 1
      BY <2>2, <2>3, <2>4, <3>1
    <3>3. i \in DOMAIN trace /\ trace'[i] = trace[i]
      BY <1>0, <2>3, <3>1, <3>2
    <3>4. trace[i].call \in DOMAIN outcome
      BY <1>0, <1>1, <3>1, <3>3 DEF NumberInv
    <3>5. i \in Passed
      BY <2>4, <3>1, <3>3, <3>4 DEF Passed
    <3>6. \A j \in 1 .. i : j \in DOMAIN trace
      BY <1>0, <3>3
    <3> QED
      BY <1>2, <2>3, <3>5, <3>6
  <2> QED
    BY <2>2, <2>5, PassedStay
<1>5. ASSUME NEW c \in Clients, Ends(c), outcome' = [outcome EXCEPT ![Len(outcome)] = Settled],
             check.left = {}, check.purpose \in {"call", "before"}
      PROVE  AdmittedCallsKeepTheRules'
  <2>1. UNCHANGED <<mode, trace>> /\ Judging /\ ~LockFree
    BY <1>5, Ending DEF Judging
  <2>2. /\ trace # <<>> /\ Len(outcome) \in DOMAIN outcome /\ trace[Len(trace)].call = Len(outcome)
        /\ \A i \in 1 .. Len(trace) - 1 : trace[i].call < Len(outcome)
    BY <1>0, <2>1 DEF NumberInv
  <2> SUFFICES ASSUME mode = "enforce", NEW i \in Passed', NEW k \in Rules, NEW g \in DOMAIN k.guarantees,
                      Holds(k.guarantees[g], SubSeq(trace, 1, i - 1))
               PROVE  Holds(k.guarantees[g], SubSeq(trace, 1, i))
    BY <2>1 DEF AdmittedCallsKeepTheRules, UpTo
  <2>3. i \in DOMAIN trace /\ trace[i].call # 0 /\ outcome'[trace[i].call] = "passed"
    BY <2>1 DEF Passed
  <2>4. CASE i # Len(trace)
    <3>1. trace[i].call \in DOMAIN outcome /\ trace[i].call # Len(outcome)
      BY <1>0, <1>1, <2>2, <2>3, <2>4
    <3>2. outcome[trace[i].call] = "passed"
      BY <1>0, <1>5, <2>3, <3>1
    <3>3. i \in Passed
      BY <2>3, <3>2 DEF Passed
    <3> QED
      BY <3>3 DEF AdmittedCallsKeepTheRules, UpTo
  <2>5. CASE i = Len(trace)
    <3>1. Settled = "passed"
      <4> HIDE DEF Settled
      <4> QED
        BY <1>0, <1>5, <2>2, <2>3, <2>5
    <3>2. ~Stopped /\ ~check.torn /\ ~shifted
      BY <3>1 DEF Settled
    <3>3. k.strategy \notin check.results
      BY <3>2 DEF Stopped, Stops, Seen, Rules
    <3>4. ~IsFresh(k.guarantees[g], trace)
      BY <1>5, <3>2, <3>3 DEF JudgedInv
    <3>5. SubSeq(trace, 1, i) = trace
      BY <1>0, <2>5
    <3>6. SubSeq(trace, 1, i - 1) = Front(trace)
      BY <2>5 DEF Front
    <3> QED
      BY <3>4, <3>5, <3>6 DEF IsFresh
  <2> QED
    BY <2>4, <2>5
<1>6. ASSUME NEW c \in Clients, Ends(c) PROVE AdmittedCallsKeepTheRules'
  <2>1. UNCHANGED <<mode, trace>>
    BY <1>6, Ending
  <2>2. \/ outcome' = outcome
        \/ /\ outcome' = [outcome EXCEPT ![Len(outcome)] = Settled]
           /\ check.left = {} /\ check.purpose \in {"call", "before"}
    BY <1>6, Ending
  <2> QED
    BY <1>3, <1>5, <1>6, <2>1, <2>2
<1>7. CASE GroundNext \/ Judge \/ (\E c \in Clients : ClientFails(c) \/ Reground(c)) \/ UNCHANGED vars
  BY <1>3, <1>7 DEF GroundNext, Judge, ClientFails, Reground, vars
<1>8. ASSUME NEW c \in Clients, AttachOutput(c) PROVE AdmittedCallsKeepTheRules'
  <2>1. /\ UNCHANGED <<mode, outcome>> /\ DOMAIN trace' = DOMAIN trace
        /\ \A i \in DOMAIN trace : Alike(trace'[i], trace[i]) /\ trace'[i].call = trace[i].call
    BY <1>8, Attaching
  <2>2. ASSUME NEW i \in Passed' PROVE i \in Passed /\ \A j \in 1 .. i : Alike(trace'[j], trace[j])
    <3>1. i \in DOMAIN trace /\ i \in Passed
      BY <2>1 DEF Passed
    <3>2. \A j \in 1 .. i : j \in DOMAIN trace
      BY <1>0, <3>1
    <3> QED
      BY <2>1, <3>1, <3>2
  <2> QED
    BY <2>1, <2>2, PassedStay
<1>9. ASSUME NEW c \in Clients, Rollback(c) PROVE AdmittedCallsKeepTheRules'
  <2>1. UNCHANGED <<mode, outcome>>
    BY <1>9 DEF Rollback
  <2>2. CASE trace = <<>>
    BY <1>3, <1>9, <2>1, <2>2 DEF Rollback
  <2>3. CASE trace # <<>>
    <3>1. /\ DOMAIN trace' = 1 .. Len(trace) - 1
          /\ \A i \in DOMAIN trace' : i \in DOMAIN trace /\ trace'[i] = trace[i]
      BY <1>0, <1>9, <2>3, FrontOfEvents DEF Rollback
    <3>2. ASSUME NEW i \in Passed' PROVE i \in Passed /\ \A j \in 1 .. i : Alike(trace'[j], trace[j])
      <4>1. i \in DOMAIN trace' /\ i \in Passed
        BY <2>1, <3>1 DEF Passed
      <4>2. \A j \in 1 .. i : j \in DOMAIN trace'
        BY <1>0, <3>1, <4>1
      <4> QED
        BY <1>2, <3>1, <4>1, <4>2
    <3> QED
      BY <2>1, <3>2, PassedStay
  <2> QED
    BY <2>2, <2>3
<1>10. CASE Reset \/ \E t \in Imports : ImportTrace(t)
  <2>1. \A i \in DOMAIN trace' : trace'[i].call = 0
    BY <1>10, ImportsAssumption DEF Reset, ImportTrace
  <2>2. Passed' = {}
    BY <2>1 DEF Passed
  <2> QED
    BY <2>2 DEF AdmittedCallsKeepTheRules
<1> QED
  BY <1>4, <1>6, <1>7, <1>8, <1>9, <1>10, Steps

(* Whatever clients call, retry, undo, raise, import or attach, and        *)
(* wherever a reset of the verifier falls, a call that a check let through *)
(* without being reset under way is not the one at which a rule came to be *)
(* broken, though the verifier may judge by events whose outputs are not   *)
(* yet its own.                                                            *)
THEOREM RulesAreKept == Spec => []AdmittedCallsKeepTheRules
<1>1. Init => GroundedAgrees /\ JudgedInv /\ AdmittedCallsKeepTheRules
  <2> SUFFICES ASSUME Init PROVE GroundedAgrees /\ JudgedInv /\ AdmittedCallsKeepTheRules
    OBVIOUS
  <2>1. trace = <<>> /\ grounded = <<>> /\ check.purpose = "none"
    BY DEF Init, NoCheck
  <2>2. Passed = {}
    BY <2>1 DEF Passed
  <2> QED
    BY <2>1, <2>2 DEF GroundedAgrees, JudgedInv, AdmittedCallsKeepTheRules
<1>2. TypeOK /\ UsesATool /\ CursorInv /\ GroundedAgrees /\ [Next]_vars => GroundedAgrees'
  BY GroundedStep
<1>3. /\ TypeOK /\ UsesATool /\ CursorInv /\ NumberInv /\ GroundedAgrees /\ JudgedInv /\ [Next]_vars
      => JudgedInv'
  BY JudgedStep
<1>4. /\ TypeOK /\ TypeOK' /\ UsesATool /\ CursorInv /\ NumberInv /\ JudgedInv
      /\ AdmittedCallsKeepTheRules /\ [Next]_vars
      => AdmittedCallsKeepTheRules'
  BY RulesStep
<1> QED
  BY <1>1, <1>2, <1>3, <1>4, CursorInvariant, CountInvariant, PTL DEF Spec
=============================================================================
