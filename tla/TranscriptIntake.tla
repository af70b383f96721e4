-------------------------- MODULE TranscriptIntake --------------------------
(***************************************************************************)
(* A transcript on its way through detection and parsing, for the two      *)
(* programs that read one: the passive scan (ComposedAdapter.parse), which *)
(* runs the parser that claimed the stream, and the probe (_scan_tool_use_ *)
(* blocks and main), which refuses a hermes trace, runs the claude parser  *)
(* on anything else with turns tracked, and scores the calls it gets.      *)
(*                                                                         *)
(* One step that gives a line is one turn of the parser's loop, and the    *)
(* end of the stream is the end of the parser's.  A stream that raises     *)
(* takes the parser's result with it.  A line holds what the claude family *)
(* reads of it (`entry`) and what the codex parser reads (`record`).       *)
(***************************************************************************)
EXTENDS DetectParser, Probe

CONSTANT Streams  \* bound: the lines a file is made of, and who reads it
ASSUME StreamsAssumption ==
    Streams \subseteq [lines : SUBSET Lines, probed : BOOLEAN]

VARIABLES
    source,      \* the lines that this file is made of, and who reads it
    trackTurns,  \* a probe reads the file
    parsing,     \* "reading", "parsed", "failed" (TurnKeyError)
    pending, calls, unjoinable, sessionId, model, turns,
    charged, total, byBranch, byCwd,
    report       \* the probe's report: "none", "refused", or "written"

codexVars  == <<unjoinable, sessionId, model>>
claudeVars == <<turns, charged, total, byBranch, byCwd>>
parserVars == <<parsing, pending, calls, codexVars, claudeVars>>
intakeVars == <<vars, source, trackTurns, parserVars, report>>

EntriesOf(lines) == [i \in DOMAIN lines |-> lines[i].entry]
RecordsOf(lines) == [i \in DOMAIN lines |-> lines[i].record]

Claude == INSTANCE ClaudeParse
    WITH Entries <- {l.entry : l \in Lines}, read <- EntriesOf(given)

Codex == INSTANCE CodexParse
    WITH Records <- {l.record : l \in Lines}, read <- RecordsOf(given)

ASSUME LinesAssumption == IsFiniteSet(Lines) /\ \A l \in Lines : Claude!IsWellFormed(l.entry)

-----------------------------------------------------------------------------
IntakeInit ==
    /\ Init /\ Claude!Init /\ Codex!Init
    /\ source \in Streams /\ trackTurns = source.probed
    /\ report = "none"

\* HermesTraceParser inherits the claude parser's loop.
RunsClaude == trackTurns \/ parser \in {"claude", "hermes-trace"}

Reads(l) ==
    IF RunsClaude THEN Claude!Consume(l.entry) /\ UNCHANGED codexVars
    ELSE Codex!Consume(l.record) /\ UNCHANGED <<trackTurns, claudeVars>>

\* NonIsolableTurns, before anything is parsed (S30).
RefusesTrace == trackTurns /\ parser = "hermes-trace"

Stopped == parsing # "reading" \/ RefusesTrace

SniffLine ==
    /\ \/ NothingClaimed
       \/ \E l \in source.lines : SniffBlank(l) \/ GiveUp(l) \/ SniffOther(l) \/ SniffClaimed(l)
    /\ UNCHANGED <<source, trackTurns, parserVars, report>>

ReplayLine ==
    /\ ~Stopped
    /\ ParseReplayed /\ Reads(Head(buffered))
    /\ UNCHANGED <<source, report>>

ReadLine(l) ==
    /\ ~Stopped
    /\ ParseNext(l) /\ Reads(l)
    /\ UNCHANGED <<source, report>>

StreamEnds ==
    /\ ~Stopped
    /\ EndOfStream
    /\ IF RunsClaude THEN Claude!EndOfFile /\ UNCHANGED codexVars
       ELSE Codex!EndOfFile /\ UNCHANGED <<trackTurns, claudeVars>>
    /\ UNCHANGED <<source, report>>

LoaderRaises ==
    /\ ~Stopped
    /\ StreamFails
    /\ UNCHANGED <<source, trackTurns, parserVars, report>>

Scores == Table(Hits(calls, Claude!None), turns)

\* probe.main: the table is rendered before the file is touched.
ScoreProbe ==
    /\ trackTurns /\ parsing = "parsed" /\ report = "none"
    /\ \E allowSeeded \in BOOLEAN :
          report' = IF Refuses(Scores, allowSeeded) THEN "refused" ELSE "written"
    /\ UNCHANGED <<vars, source, trackTurns, parserVars>>

IntakeNext ==
    \/ SniffLine \/ ReplayLine \/ StreamEnds \/ LoaderRaises \/ ScoreProbe
    \/ \E l \in source.lines : ReadLine(l)

IntakeSpec == IntakeInit /\ [][IntakeNext]_intakeVars

-----------------------------------------------------------------------------
\* What a reader who holds the whole stream, sniffed head included, expects
\* of the two parsers.
ClaudeStream == INSTANCE ClaudeParse
    WITH Entries <- {l.entry : l \in Lines}, read <- EntriesOf(pulled)

CodexStream == INSTANCE CodexParse
    WITH Records <- {l.record : l \in Lines}, read <- RecordsOf(pulled)

IsRollout == parser = "codex" /\ ~trackTurns
IsParsed  == parsing = "parsed"

(* Every real tool call of a rollout's stream, those in the lines that the *)
(* sniff consumed included, is accounted for at its end: joined, kept      *)
(* without a result, or counted as unjoinable (S6, S38), and answered if   *)
(* and only if an output with its call_id follows it.  A call whose id is  *)
(* used again before its output is lost silently, and is the exception.    *)
EveryCallIsAccountedFor == IsRollout => CodexStream!EveryCallIsAccountedFor

(* A call carries the model of the last turn_context before it in the      *)
(* stream, whatever the sniff consumed and however the model changes       *)
(* before its output arrives.                                              *)
ModelIsOfItsTurn == IsRollout => CodexStream!ModelIsOfItsTurn

(* All calls after the first session_meta of the stream carry the identity *)
(* it gave: the second one, of a compaction, never splits a rollout, and a *)
(* subagent with an id of its own is never counted as its parent.          *)
OneIdentity == IsRollout => CodexStream!OneIdentity

(* Each response of the stream is charged once and every one is charged,   *)
(* whatever the sniff consumed (S43), and at any moment the buckets of the *)
(* session split what was charged exactly (S40).                           *)
ChargedOnce ==
    RunsClaude => /\ IsParsed => ClaudeStream!ChargedOnce
                  /\ Claude!BucketsPartition

(* No call of the stream is lost or doubled, those in the lines that the   *)
(* sniff consumed included (S6).                                           *)
EveryUseIsOneCall == RunsClaude => ClaudeStream!EveryUseIsOneCall

TurnAt(at) == pulled[at[1]].entry.request

\* Everything the API response of the call at `at` emitted.
EmittedWith(at) ==
    {i \in DOMAIN pulled : LET e == pulled[i].entry
                           IN  /\ Claude!IsEntry(e) /\ e.assistant
                               /\ e.request = TurnAt(at)
                               /\ e.uses # <<>> \/ e.spoken}

(* A probe bills a response's output tokens to an arm only when the        *)
(* response, over all the records it was written as, emitted that one call *)
(* and no prose (S26, find_probe_calls' docstring).                        *)
PricedArmIsAlone ==
    report = "written" => \A p \in Probes : \A arm \in Arms :
        LET cell == Scores[p][arm]
        IN  cell.priced =>
               /\ EmittedWith(cell.at) = {cell.at[1]}
               /\ Len(pulled[cell.at[1]].entry.uses) = 1
               /\ ~pulled[cell.at[1]].entry.spoken

(* `*` marks only an absent arm (S18): an arm is seeded if and only if no  *)
(* call of the session that survived to the end of the file is that arm, a *)
(* bash command with its sentinel alone, or a call of its tool that names  *)
(* its target and no other probe's sentinel, and neither names the probe's *)
(* own machinery.                                                          *)
SeededMeansAbsent ==
    report = "written" => \A p \in Probes :
        LET uses  == {pulled[u[1]].entry.uses[u[2]] : u \in ClaudeStream!Kept}
            plain == {u \in uses : u.says \cap Markers = {}}
        IN  /\ Scores[p]["bash"].seeded <=>
                   ~\E u \in plain : u.name = Bash /\ u.says \cap Sentinels = {p.bashSentinel}
            /\ Scores[p]["tool"].seeded <=>
                   ~\E u \in plain : /\ u.name \in p.tools /\ p.target \in u.says
                                      /\ u.says \cap Sentinels \in {{}, {p.toolSentinel}}
=============================================================================
