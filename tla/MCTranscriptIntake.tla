------------------------- MODULE MCTranscriptIntake -------------------------
(***************************************************************************)
(* A small instance of TranscriptIntake, with a window of two lines.       *)
(*                                                                         *)
(* Claude: two responses, each written as several entries; one detached    *)
(* checkout with two directories; parallel calls, an id used twice,        *)
(* answers in either order, one with an error, one for a call nobody made. *)
(* The calls are the two arms of a probe, a search for its sentinels, and  *)
(* a command that reads the probe's own source.  What only the scan bills  *)
(* or only the probe counts is in the stream of that program alone.        *)
(*                                                                         *)
(* Codex: a subagent's session_meta, an old one without a session_id, two  *)
(* models, two calls and outputs, and a line the claude parser claims.     *)
(***************************************************************************)
EXTENDS TranscriptIntake, TLC

Entry(uses, results, assistant, spoken, request, message, usage, branch, cwd) ==
    [uses |-> uses, results |-> results, assistant |-> assistant,
     spoken |-> spoken, request |-> request, message |-> message,
     usage |-> usage, branch |-> branch, cwd |-> cwd]

Use(id, name, says) == [id |-> id, name |-> name, says |-> says, valid |-> TRUE]
Result(id) == [id |-> id, bad |-> FALSE]
Error(id)  == [id |-> id, bad |-> TRUE]
Usage(c, i) == [cache |-> c, io |-> i]

Assistant(uses, spoken, request, usage, branch, cwd) ==
    Entry(uses, <<>>, TRUE, spoken, request, IF request = "r1" THEN "m1" ELSE "m2", usage, branch, cwd)
User(results) ==
    Entry(<<>>, results, FALSE, FALSE, "none", "none", [cache |-> -1, io |-> -1], "tb-1", "")

Foreign == User(<<>>)

Prose   == Assistant(<<>>, TRUE, "r1", [cache |-> -1, io |-> -1], "main", "")
Keyless == Entry(<<>>, <<>>, FALSE, FALSE, "none", "none", Usage(0, 1), "", "")

MCEntries ==
    {Assistant(<<Use("a", "find_file", {"regex_check.py"})>>, FALSE, "r1", Usage(5, 1), "tb-1", "/wt/a"),
     Assistant(<<Use("b", "Bash", {"BASH_01"})>>, FALSE, "r1", Usage(5, 1), "HEAD", "/wt/a"),
     Assistant(<<Use("a", "Bash", {"BASH_01", "probe.py"}), Use("c", "Bash", {"BASH_01", "TOOL_01"})>>,
               FALSE, "r2", Usage(0, 3), "HEAD", "/wt/b"),
     Assistant(<<[id |-> "d", name |-> "Bash", says |-> {}, valid |-> FALSE]>>,
               TRUE, "r1", [cache |-> -1, io |-> -1], "main", ""),
     \* No requestId: the message id keys the charge.
     Entry(<<Use("d", "Bash", {})>>, <<>>, TRUE, FALSE, "none", "m3", Usage(2, 0), "HEAD", ""),
     User(<<Error("c"), Result("b")>>),
     User(<<Result("a"), Result("z")>>)}

MCRecords ==
    {[kind |-> "web_search_call"],
     [kind |-> "session_meta", own |-> "child", parent |-> "thread"],
     [kind |-> "session_meta", own |-> "", parent |-> "thread"],
     [kind |-> "turn_context", model |-> "m1"],
     [kind |-> "turn_context", model |-> "m2"],
     [kind |-> "turn_context", model |-> ""],
     [kind |-> "call", id |-> "a"], [kind |-> "call", id |-> "b"],
     [kind |-> "output", id |-> "a"]}

Other == [kind |-> "other"]
Line(claim, entry, record) == [claim |-> claim, entry |-> entry, record |-> record]

BlankLine == Line("blank", Foreign, Other)
GarbageLine == Line("garbage", [malformed |-> TRUE], [kind |-> "malformed"])
PlainLine == Line("plain", Foreign, Other)
ClaimedLine == Line("claude", Foreign, Other)

Native  == {Line("claude", e, Other) : e \in MCEntries} \cup {BlankLine, GarbageLine}
Scanned == Native \cup {Line("claude", Keyless, Other)}
Scored  == Native \cup {Line("claude", Prose, Other)}
Rollout == {Line("codex", Foreign, r) : r \in MCRecords} \cup {GarbageLine, ClaimedLine}
Trace   == {Line("hermes-trace", Foreign, Other), PlainLine, GarbageLine}
Short   == {Line("codex", Foreign, Other), BlankLine}

MCStreams == [lines : {Trace}, probed : BOOLEAN]
             \cup [lines : {Scanned, Rollout}, probed : {FALSE}]
             \cup [lines : {Scored, Short}, probed : {TRUE}]
MCLines   == Scanned \cup Scored \cup Rollout \cup Trace \cup Short

MCProbes == {[tools |-> {"find_file", "serena_find_file"}, target |-> "regex_check.py",
              toolSentinel |-> "TOOL_01", bashSentinel |-> "BASH_01"]}
=============================================================================
