-------------------------------- MODULE Probe --------------------------------
(***************************************************************************)
(* probe.py after the transcript is parsed: which call of the session is   *)
(* which arm of a probe, whether its API response can be billed to it, and *)
(* the comparison table with seeded numbers for the arms that are absent.  *)
(*                                                                         *)
(* The raw input of a call is the set of the markers, targets and          *)
(* sentinels that it names (`says`).                                       *)
(***************************************************************************)
EXTENDS Integers, Sequences, FiniteSets, SequencesExt

CONSTANTS
    Probes,   \* PROBE_SPECS: [tools, target, toolSentinel, bashSentinel]
    Markers   \* MENTION_MARKERS

\* A bash arm carries a sentinel that no tool arm may carry.
ASSUME ProbesAssumption ==
    IsFiniteSet(Probes) /\ \A p \in Probes : p.bashSentinel # p.toolSentinel

Arms == {"tool", "bash"}
Bash == "Bash"
NoCall == [at |-> <<0, 0>>, measured |-> FALSE]
Absent == [call |-> NoCall, isolable |-> FALSE]

\* _scan_tool_use_blocks drops the calls that no turn was counted for; the
\* others are hits, each under its place in the sequence.
Hits(calls, none) == Restrict(calls, {i \in DOMAIN calls : calls[i].turn # none})

\* Two sentinels, or a marker: the call discusses probes.
Sentinels == UNION {{p.toolSentinel, p.bashSentinel} : p \in Probes}
IsDiscussion(c) == \/ c.says \cap Markers # {}
                   \/ Cardinality(c.says \cap Sentinels) > 1

\* A tool arm cannot carry a sentinel, and may not carry another probe's.
IsToolArm(p, c) ==
    /\ c.name \in p.tools /\ p.target \in c.says
    /\ c.says \cap Sentinels \subseteq {p.toolSentinel}

IsBashArm(p, c) ==
    /\ ~IsToolArm(p, c)
    /\ c.name = Bash /\ p.bashSentinel \in c.says

MutantIsolable(t) == t.uses = 1
Isolable(t) == t.uses = 1 /\ ~t.spoken

IsArm(p, arm, c) ==
    /\ ~IsDiscussion(c)
    /\ IF arm = "tool" THEN IsToolArm(p, c) ELSE IsBashArm(p, c)

\* The hits that are an arm: of several the one joined last counts.
ArmCalls(p, arm, hits) == {i \in DOMAIN hits : IsArm(p, arm, hits[i])}

\* find_probe_calls
Match(p, arm, hits, turns) ==
    LET own == ArmCalls(p, arm, hits)
        c   == hits[Max(own)]
    IN  IF own = {} THEN Absent
        ELSE [call |-> c, isolable |-> Isolable(turns[c.turn])]

\* One cell pair of build_comparison_table.  `priced` is _usage_output_tokens.
MutantCell(m) == [seeded |-> ~m.isolable, priced |-> m.isolable /\ m.call.measured, at |-> m.call.at]
Cell(m) == [seeded |-> m = Absent, priced |-> m.isolable /\ m.call.measured, at |-> m.call.at]

Table(hits, turns) ==
    [p \in Probes |-> [arm \in Arms |-> Cell(Match(p, arm, hits, turns))]]

IsFullySeeded(table) == \A p \in Probes : \A arm \in Arms : table[p][arm].seeded

\* render_report refuses before main touches the file.
Refuses(table, allowSeeded) == IsFullySeeded(table) /\ ~allowSeeded
=============================================================================
