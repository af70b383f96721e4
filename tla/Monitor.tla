------------------------------- MODULE Monitor -------------------------------
(***************************************************************************)
(* The contract monitor of src/tools: RuntimeMonitor keeps a trace of      *)
(* calls and a verifier that has grounded a prefix of it, and judges each  *)
(* new event by the contracts; MCPContractProxy checks a tool call, runs   *)
(* it, attaches its output to the trace and records what the tool wrote;   *)
(* scan_mcp_tools infers the contracts from the tools.                     *)
(*                                                                         *)
(* One monitor has one kind of user, a proxy shared by clients or a guard  *)
(* on several threads.  A check holds the monitor's lock and takes several *)
(* steps: it appends its event, grounds what is new one event at a time,   *)
(* and judges the contracts one by one.  The proxy attaches a tool's       *)
(* output and resets the verifier without the lock, so either may come     *)
(* between any two of those.  Every other hold of the lock is one step.    *)
(* A tool is its name and what its keywords say: its `effects`, and the    *)
(* `prefix` and `base` of its name; `pii` is whether its output holds any. *)
(* The log and the spans, which nothing reads back, are left out.          *)
(***************************************************************************)
EXTENDS Integers, Sequences, FiniteSets, SequencesExt

CONSTANTS
    Tools,      \* the MCP server's tools
    Authored,   \* contracts written by hand, as a sequence
    MaxCount,   \* the max_count of an inferred rate limit
    TagPii,     \* tag_pii
    Clients,    \* concurrent users
    Imports,    \* the traces import_trace may be given
    MaxChecks   \* bound: the calls of check_action in a session

IsPattern(p) ==
    \/ p.pattern \in {"must_precede", "no_data_leak", "no_reversal"}
    \/ p.pattern = "rate_limit" /\ p.max \in Nat

ASSUME MonitorAssumption ==
    /\ MaxCount \in Nat /\ MaxChecks \in Nat /\ TagPii \in BOOLEAN
    /\ \A i \in DOMAIN Authored : \A k \in DOMAIN Authored[i].guarantees :
           IsPattern(Authored[i].guarantees[k])

VARIABLES
    user,      \* "proxy" or "guard"
    mode,      \* "enforce" or "observe"
    trace,     \* _trace.events
    grounded,  \* the events as the verifier last grounded them
    shifted,   \* they start at a later event than the trace's first
    check,     \* the check that holds the lock, or NoCheck
    pc,        \* what each client is doing
    using,     \* the tool each client is calling
    outcome,   \* history: what came of each call of check_action in the session
    counted,   \* history: the calls of the session that were neither a dry run nor undone
    spoiled    \* history: another step came between a check and its undo

vars == <<user, mode, trace, grounded, shifted, check, pc, using, outcome, counted, spoiled>>

Names == {t.name : t \in Tools}
ToolNamed(n) == CHOOSE t \in Tools : t.name = n

-----------------------------------------------------------------------------
(* scan_mcp_tools                                                          *)

MustPrecede(a, b) == [pattern |-> "must_precede", first |-> a, tool |-> b]
RateLimit(t, n)   == [pattern |-> "rate_limit", tool |-> t, max |-> n]
NoDataLeak(t)     == [pattern |-> "no_data_leak", tool |-> t]
NoReversal(a, b)  == [pattern |-> "no_reversal", first |-> a, tool |-> b]

Confirms(c, t) == c.prefix = "confirm" /\ c.base = t.name

Inferred ==
    {MustPrecede(p[1].name, p[2].name) :
        p \in {p \in Tools \X Tools : /\ "destructive" \in p[2].effects
                                      /\ Confirms(p[1], p[2])}}
    \cup {RateLimit(t.name, MaxCount) : t \in {t \in Tools : "financial" \in t.effects}}
    \cup {NoDataLeak(t.name) : t \in {t \in Tools : "external" \in t.effects}}
    \cup {NoReversal(p[1].name, p[2].name) :
        p \in {p \in Tools \X Tools : /\ p[1].prefix \in {"approve", "accept", "confirm"}
                                      /\ p[2].prefix \in {"reject", "deny", "cancel"}
                                      /\ p[1].base = p[2].base}}

\* An inferred contract assumes nothing and blocks (DetBlock).
Contract(g) == [assumes |-> <<>>, guarantees |-> <<g>>, strategy |-> "blocked"]
Contracts == {Contract(g) : g \in Inferred} \cup ToSet(Authored)

-----------------------------------------------------------------------------
(* The patterns and the verifier, as the monitor uses them.                *)

IsCall(e, n) == e.kind = "tool_call" /\ e.tool = n

Holds(p, events) ==
    CASE p.pattern = "must_precede" ->
            \A i \in DOMAIN events : IsCall(events[i], p.tool) =>
                \E j \in 1 .. i - 1 : IsCall(events[j], p.first)
      [] p.pattern = "rate_limit" ->
            Cardinality({i \in DOMAIN events : IsCall(events[i], p.tool)}) <= p.max
      [] p.pattern = "no_data_leak" ->
            \A i \in DOMAIN events : IsCall(events[i], p.tool) =>
                \A j \in 1 .. i - 1 : "pii" \notin events[j].contains
      [] p.pattern = "no_reversal" ->
            \A i \in DOMAIN events : IsCall(events[i], p.tool) =>
                \A j \in 1 .. i - 1 : ~IsCall(events[j], p.first)

\* False now, and not already false before the last event.
IsFresh(p, events) == ~Holds(p, events) /\ Holds(p, Front(events))

-----------------------------------------------------------------------------
(* _check_det: what a contract says of the last event.                     *)

\* An assumption that fails escalates and ends the contract's check.
Unmet(k, events) == \E i \in DOMAIN k.assumes : ~Holds(k.assumes[i], events)

Broken(k, events) ==
    ~Unmet(k, events) /\ \E i \in DOMAIN k.guarantees : IsFresh(k.guarantees[i], events)

Verdict(k, events) ==
    (IF Unmet(k, events) THEN {"escalated"} ELSE {})
    \cup (IF Broken(k, events) THEN {k.strategy} ELSE {})

\* _maybe_downgrade
Seen(results) == IF mode = "observe" THEN {"observed" : r \in results} ELSE results

\* A redirection refuses the call too: the proxy cannot substitute another.
MutantStops(results) == "blocked" \in results
Stops(results) == results \cap {"blocked", "redirected"} # {}

-----------------------------------------------------------------------------
(* check_action, under the lock.                                           *)

NoCheck == [purpose |-> "none", next |-> 1, left |-> {}, results |-> {}, torn |-> FALSE]
LockFree == check.purpose = "none"

Event(kind, tool, contains) ==
    [kind |-> kind, tool |-> tool, contains |-> contains, content |-> <<>>,
     call |-> Len(outcome) + 1]

Become(c, state, t) == pc' = [pc EXCEPT ![c] = state] /\ using' = [using EXCEPT ![c] = t]

\* The event is appended, and the verifier is to ground from where it left
\* off.  What a dry run or a tagging finds goes into no state of the monitor.
BeginCheck(c, e, purpose) ==
    /\ LockFree /\ Len(outcome) < MaxChecks
    /\ trace' = Append(trace, e)
    /\ outcome' = Append(outcome, "open")
    /\ check' = [NoCheck EXCEPT !.purpose = purpose, !.next = Len(grounded) + 1,
                                !.left = IF purpose \in {"call", "before"} THEN Contracts ELSE {}]
    /\ Become(c, "checking", e.tool)
    /\ UNCHANGED <<user, mode, grounded, shifted, counted>>

Grounding == ~LockFree /\ check.next <= Len(trace)
Judging   == ~LockFree /\ check.next > Len(trace)

\* One turn of the loop of TraceVerifier.sync.
GroundNext ==
    /\ Grounding
    /\ grounded' = Append(grounded, trace[check.next])
    /\ check' = [check EXCEPT !.next = @ + 1]
    /\ UNCHANGED <<user, mode, trace, shifted, pc, using, outcome, counted, spoiled>>

\* The contracts are taken in one order, whichever it is.  check_contract
\* reads what the verifier has grounded by now.
Judge ==
    /\ Judging /\ check.left # {}
    /\ LET k == CHOOSE k \in check.left : TRUE
       IN check' = [check EXCEPT !.left = @ \ {k}, !.results = @ \cup Verdict(k, grounded)]
    /\ UNCHANGED <<user, mode, trace, grounded, shifted, pc, using, outcome, counted, spoiled>>

\* The check of the client's own purpose has judged every contract.
Checked(c, purpose) ==
    /\ pc[c] = "checking" /\ check.purpose = purpose
    /\ Judging /\ check.left = {}
    /\ check' = NoCheck
    /\ UNCHANGED <<user, mode, trace, grounded, shifted>>

Stopped == Stops(Seen(check.results))

\* History: the verifier was reset under the judgement, or grounds askew.
Settled == IF Stopped THEN "refused" ELSE IF check.torn \/ shifted THEN "slipped" ELSE "passed"

\* A client has checked an event that it has still to take back.
Undoing == {c \in Clients : pc[c] = "undo"}

-----------------------------------------------------------------------------
Idle == "idle"
NoTool == "none"

Init ==
    /\ \/ user = "proxy" /\ mode = "enforce"
       \/ user = "guard" /\ mode \in {"enforce", "observe"}
    /\ trace = <<>> /\ grounded = <<>> /\ shifted = FALSE /\ check = NoCheck
    /\ pc = [c \in Clients |-> Idle] /\ using = [c \in Clients |-> NoTool]
    /\ outcome = <<>> /\ counted = {} /\ spoiled = FALSE

(* MCPContractProxy.call_tool                                              *)

CallTool(c, n) ==
    /\ user = "proxy" /\ pc[c] = Idle
    /\ BeginCheck(c, Event("tool_call", n, {}), "call")
    /\ UNCHANGED spoiled

\* A call that is stopped stays in the trace.
CallChecked(c) ==
    /\ Checked(c, "call")
    /\ IF Stopped THEN Become(c, Idle, NoTool) ELSE Become(c, "running", using[c])
    /\ outcome' = [outcome EXCEPT ![Len(outcome)] = Settled]
    /\ counted' = counted \cup {Len(outcome)}
    /\ UNCHANGED spoiled

\* A registered callback raises out of judging a contract, and so out of the
\* proxy's or the guard's call, whose event stays.
CheckRaises(c) ==
    /\ pc[c] = "checking" /\ check.purpose \in {"call", "before"}
    /\ Judging /\ check.left # {}
    /\ check' = NoCheck
    /\ Become(c, Idle, NoTool)
    /\ counted' = counted \cup {Len(outcome)}
    /\ UNCHANGED <<user, mode, trace, grounded, shifted, outcome, spoiled>>

\* The awaited client raises through call_tool.
ClientFails(c) ==
    /\ pc[c] = "running"
    /\ Become(c, Idle, NoTool)
    /\ UNCHANGED <<user, mode, trace, grounded, shifted, check, outcome, counted, spoiled>>

\* The latest call of the same tool, whoever made it.
Matching(n) == {i \in DOMAIN trace : IsCall(trace[i], n)}
Latest(n) == CHOOSE i \in Matching(n) : \A j \in Matching(n) : j <= i

\* The client answers: the output joins the trace, without the lock.
AttachOutput(c) ==
    /\ pc[c] = "running"
    /\ IF Matching(using[c]) = {}
       THEN Become(c, "tagging", using[c]) /\ UNCHANGED trace
       ELSE /\ Become(c, "written", using[c])
            /\ trace' = [trace EXCEPT ![Latest(using[c])].content = Append(@, c)]
    /\ UNCHANGED <<user, mode, grounded, shifted, check, outcome, counted, spoiled>>

\* verifier.reset()
MutantForgotten(g) == g
Forgotten(g) == <<>>

\* The reset takes no lock.  A sync loop it comes into starts again, or goes
\* on from its own cursor over a verifier that lacks the first events; a
\* judgement it comes into reads an empty verifier from here on.
Reground(c) ==
    /\ pc[c] = "written"
    /\ grounded' = <<>>
    /\ \E next \in IF Grounding THEN {1, check.next} ELSE {check.next} :
          /\ check' = [check EXCEPT !.next = next, !.torn = @ \/ Judging]
          /\ shifted' = (Grounding /\ next > 1)
    /\ Become(c, "tagging", using[c])
    /\ UNCHANGED <<user, mode, trace, outcome, counted, spoiled>>

MutantWritten(n) == Event("tool_call", n, {n})
Written(n) ==
    Event("data_write", n, {n} \cup (IF TagPii /\ ToolNamed(n).pii THEN {"pii"} ELSE {}))

\* The check after the call: verdicts and exceptions are dropped.
TagOutput(c) ==
    /\ pc[c] = "tagging"
    /\ BeginCheck(c, Written(using[c]), "tag")
    /\ UNCHANGED spoiled

OutputTagged(c) ==
    /\ Checked(c, "tag")
    /\ Become(c, Idle, NoTool)
    /\ UNCHANGED <<outcome, counted, spoiled>>

-----------------------------------------------------------------------------
(* A guard: it takes back a call that was blocked, and every dry run.      *)

GuardBefore(c, n) ==
    /\ user = "guard" /\ pc[c] = Idle
    /\ BeginCheck(c, Event("tool_call", n, {}), "before")
    /\ spoiled' = (spoiled \/ Undoing # {})

GuardChecked(c) ==
    /\ Checked(c, "before")
    /\ IF Stopped
       THEN Become(c, "undo", using[c]) /\ UNCHANGED counted
       ELSE Become(c, Idle, NoTool) /\ counted' = counted \cup {Len(outcome)}
    /\ outcome' = [outcome EXCEPT ![Len(outcome)] = Settled]
    /\ UNCHANGED spoiled

FilterTools(c, n) ==
    /\ user = "guard" /\ pc[c] = Idle
    /\ BeginCheck(c, Event("tool_call", n, {}), "filter")
    /\ spoiled' = (spoiled \/ Undoing # {})

ToolFiltered(c) ==
    /\ Checked(c, "filter")
    /\ Become(c, "undo", using[c])
    /\ UNCHANGED <<outcome, counted, spoiled>>

\* rollback_last_event pops whatever event is last.
Rollback(c) ==
    /\ pc[c] = "undo" /\ LockFree
    /\ IF trace = <<>> THEN UNCHANGED <<trace, grounded, shifted>>
       ELSE trace' = Front(trace) /\ grounded' = Forgotten(grounded) /\ shifted' = FALSE
    /\ Become(c, Idle, NoTool)
    /\ spoiled' = (spoiled \/ Undoing # {c})
    /\ UNCHANGED <<user, mode, check, outcome, counted>>

-----------------------------------------------------------------------------
\* reset and rotate_session, which reports the counts it clears.
Reset ==
    /\ LockFree
    /\ trace' = <<>> /\ grounded' = <<>> /\ shifted' = FALSE
    /\ outcome' = <<>> /\ counted' = {}
    /\ spoiled' = (Undoing # {})
    /\ UNCHANGED <<user, mode, check, pc, using>>

ImportTrace(t) ==
    /\ LockFree
    /\ trace' = t /\ grounded' = Forgotten(grounded) /\ shifted' = FALSE
    /\ outcome' = <<>> /\ counted' = {}
    /\ spoiled' = (Undoing # {})
    /\ UNCHANGED <<user, mode, check, pc, using>>

Next ==
    \/ GroundNext
    \/ Judge
    \/ \E c \in Clients :
          \/ \E n \in Names : CallTool(c, n) \/ GuardBefore(c, n) \/ FilterTools(c, n)
          \/ CallChecked(c) \/ GuardChecked(c) \/ ToolFiltered(c) \/ CheckRaises(c)
          \/ ClientFails(c) \/ AttachOutput(c) \/ Reground(c)
          \/ TagOutput(c) \/ OutputTagged(c) \/ Rollback(c)
    \/ Reset
    \/ \E t \in Imports : ImportTrace(t)

Spec == Init /\ [][Next]_vars

-----------------------------------------------------------------------------
Events ==
    [kind : {"tool_call", "data_write"}, tool : Names, contains : SUBSET (Names \cup {"pii"}),
     content : Seq(Clients), call : Nat]

\* The events of an imported trace were never checked here.
ASSUME ImportsAssumption ==
    /\ Imports \subseteq Seq(Events)
    /\ \A t \in Imports : \A i \in DOMAIN t : t[i].call = 0

(* Every variable stays in its domain.                                     *)
TypeOK ==
    /\ user \in {"proxy", "guard"} /\ mode \in {"enforce", "observe"}
    /\ trace \in Seq(Events) /\ grounded \in Seq(Events) /\ shifted \in BOOLEAN
    /\ check \in [purpose : {"none", "call", "tag", "before", "filter"}, next : Nat \ {0},
                  left : SUBSET Contracts, torn : BOOLEAN,
                  results : SUBSET ({"escalated"} \cup {k.strategy : k \in Contracts})]
    /\ pc \in [Clients -> {Idle, "checking", "running", "written", "tagging", "undo"}]
    /\ using \in [Clients -> Names \cup {NoTool}]
    /\ outcome \in Seq({"open", "refused", "slipped", "passed"})
    /\ counted \subseteq Nat /\ spoiled \in BOOLEAN

(* The verifier never keeps events that are not in the trace: what it has  *)
(* grounded is a prefix of the trace as it is, outputs included, whenever  *)
(* no client stands between attaching an output and resetting the          *)
(* verifier, and no sync loop has gone on past such a reset since the      *)
(* verifier was last reset (import_trace and rollback_last_event's         *)
(* docstrings).  It may hold fewer events than a check under way takes it  *)
(* to hold: a reset falls into checks, though the comment on the lock says *)
(* that at most one thread runs a check or a reset at a time.              *)
GroundedIsCurrent ==
    (\A c \in Clients : pc[c] # "written") /\ ~shifted =>
        /\ Len(grounded) <= Len(trace)
        /\ \A i \in 1 .. Len(grounded) : grounded[i] = trace[i]

Calls == {i \in DOMAIN trace : trace[i].kind = "tool_call" /\ trace[i].call # 0}

\* The last event is a call that is being checked, or is to be taken back.
Awaiting == Undoing # {} \/ check.purpose \in {"call", "before", "filter"}
Awaited == {trace[i].call : i \in {i \in DOMAIN trace : Awaiting /\ i = Len(trace)}}

(* Rate limits and the like count what was called: every check of a call   *)
(* in the session is one event of the trace, attaching the output adds     *)
(* none, and a blocked call of a guard and a dry run leave none, unless    *)
(* another step came between the check and its rollback (the comment on    *)
(* double counting in call_tool, rollback_last_event's docstring).         *)
EveryCallIsCountedOnce ==
    ~spoiled =>
        /\ {trace[i].call : i \in Calls} = counted \cup Awaited
        /\ \A i, j \in Calls : trace[i].call = trace[j].call => i = j

Rules == {k \in Contracts : k.assumes = <<>> /\ k.strategy \in {"blocked", "redirected"}}

Passed == {i \in DOMAIN trace : trace[i].call # 0 /\ outcome[trace[i].call] = "passed"}

UpTo(i) == SubSeq(trace, 1, i)

(* No call that was let through is the one at which a rule came to be      *)
(* broken, whatever clients call, retry, undo, raise or import in between  *)
(* and wherever outputs are attached: a rule that held of the calls before *)
(* it holds of it too.  Two kinds of call do slip through, and are left    *)
(* out here by name: one during whose check another client reset the       *)
(* verifier ("slipped"), and one made when the rule was already broken, by *)
(* a call that was refused or slipped: a refused call of a proxy stays in  *)
(* the trace, so that the same call is let through when it is tried again. *)
AdmittedCallsKeepTheRules ==
    mode = "enforce" =>
        \A i \in Passed : \A k \in Rules : \A g \in DOMAIN k.guarantees :
            Holds(k.guarantees[g], UpTo(i - 1)) => Holds(k.guarantees[g], UpTo(i))
=============================================================================
