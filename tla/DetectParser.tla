---------------------------- MODULE DetectParser ----------------------------
(***************************************************************************)
(* ComposedAdapter.parse: detect_parser sniffs the head of a stream of     *)
(* lines for the one parser that claims a line, and hands that parser the  *)
(* sniffed lines followed by the rest.  The stream comes from a file or a  *)
(* daemon's export; it may end or raise after any line.                    *)
(*                                                                         *)
(* A line has a `claim`: blank, garbage (undecodable, or not an object),   *)
(* plain (an object no parser claims), or the schema that claims it.  What *)
(* else it holds is for the parser that reads it.                          *)
(***************************************************************************)
EXTENDS Integers, Sequences, FiniteSets, SequencesExt

CONSTANTS
    Lines,    \* the lines that may follow one another
    Window,   \* DETECT_WINDOW
    MaxLines  \* bound: the lines of one stream

ASSUME WindowAssumption == Window \in Nat \ {0} /\ MaxLines \in Nat

Schemas == {"claude", "hermes-trace", "codex"}
Nobody  == "nobody"

VARIABLES
    pulled,     \* history: the lines taken from the stream so far
    phase,      \* "sniff", "parse", "parsed", "unknown", "failed"
    seen,       \* non-blank lines sniffed
    parser,     \* the parser that claimed a line
    buffered,   \* sniffed lines the parser has not been given yet
    given,      \* history: the lines the parser was given
    malformed   \* ParseResult.malformed

vars == <<pulled, phase, seen, parser, buffered, given, malformed>>

-----------------------------------------------------------------------------
Init ==
    /\ pulled = <<>> /\ phase = "sniff" /\ seen = 0 /\ parser = Nobody
    /\ buffered = <<>> /\ given = <<>> /\ malformed = 0

Pull(l) == Len(pulled) < MaxLines /\ pulled' = Append(pulled, l)

SniffBlank(l) ==
    /\ phase = "sniff" /\ l.claim = "blank" /\ Pull(l)
    /\ buffered' = Append(buffered, l)
    /\ UNCHANGED <<phase, seen, parser, given, malformed>>

\* The line past the window has been pulled when the sniff gives up on it.
WindowClosed == seen >= Window

GiveUp(l) ==
    /\ phase = "sniff" /\ l.claim # "blank" /\ WindowClosed /\ Pull(l)
    /\ phase' = "unknown"
    /\ buffered' = Append(buffered, l)
    /\ UNCHANGED <<seen, parser, given, malformed>>

MutantReplayed(l) == buffered
Replayed(l) == Append(buffered, l)

\* Undecodable lines advance the window, and are not counted here.
SniffOther(l) ==
    /\ phase = "sniff" /\ l.claim \in {"garbage", "plain"} /\ ~WindowClosed /\ Pull(l)
    /\ seen' = seen + 1
    /\ buffered' = Append(buffered, l)
    /\ UNCHANGED <<phase, parser, given, malformed>>

SniffClaimed(l) ==
    /\ phase = "sniff" /\ l.claim \in Schemas /\ ~WindowClosed /\ Pull(l)
    /\ seen' = seen + 1
    /\ parser' = l.claim
    /\ phase' = "parse"
    /\ buffered' = Replayed(l)
    /\ UNCHANGED <<given, malformed>>

NothingClaimed ==
    /\ phase = "sniff"
    /\ phase' = "unknown"
    /\ UNCHANGED <<pulled, seen, parser, buffered, given, malformed>>

Give(l) ==
    /\ given' = Append(given, l)
    /\ malformed' = IF l.claim = "garbage" THEN malformed + 1 ELSE malformed

\* chain(buffered, lines)
ParseReplayed ==
    /\ phase = "parse" /\ buffered # <<>>
    /\ Give(Head(buffered))
    /\ buffered' = Tail(buffered)
    /\ UNCHANGED <<pulled, phase, seen, parser>>

ParseNext(l) ==
    /\ phase = "parse" /\ buffered = <<>> /\ Pull(l)
    /\ Give(l)
    /\ UNCHANGED <<phase, seen, parser, buffered>>

EndOfStream ==
    /\ phase = "parse" /\ buffered = <<>>
    /\ phase' = "parsed"
    /\ UNCHANGED <<pulled, seen, parser, buffered, given, malformed>>

\* The loader raises when the next line is pulled.
StreamFails ==
    /\ phase = "sniff" \/ (phase = "parse" /\ buffered = <<>>)
    /\ phase' = "failed"
    /\ UNCHANGED <<pulled, seen, parser, buffered, given, malformed>>

\* Reading the head of the stream, before or without a parser.
Sniff ==
    \/ NothingClaimed
    \/ \E l \in Lines : SniffBlank(l) \/ GiveUp(l) \/ SniffOther(l) \/ SniffClaimed(l)

Next ==
    \/ Sniff \/ ParseReplayed \/ EndOfStream \/ StreamFails
    \/ \E l \in Lines : ParseNext(l)

Spec == Init /\ [][Next]_vars

-----------------------------------------------------------------------------
Garbage(s) == {i \in DOMAIN s : s[i].claim = "garbage"}

(* Phases and counters stay in their domains.                              *)
TypeOK ==
    /\ pulled \in Seq(Lines) /\ given \in Seq(Lines) /\ buffered \in Seq(Lines)
    /\ phase \in {"sniff", "parse", "parsed", "unknown", "failed"}
    /\ parser \in Schemas \cup {Nobody}
    /\ seen \in 0 .. Window /\ malformed \in Nat

(* The parser reads every line of the stream once, in order, the sniffed   *)
(* ones included, and a malformed line is charged once, by the parser      *)
(* (S5, detect_parser's docstring).                                        *)
EveryLineIsParsedOnce ==
    /\ phase = "parse" => given \o buffered = pulled
    /\ phase = "parsed" => /\ given = pulled
                           /\ malformed = Cardinality(Garbage(pulled))
=============================================================================
