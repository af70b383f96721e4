-------------------------------- MODULE Report --------------------------------
(***************************************************************************)
(* What `python -m toolbench.passive` tells its reader: the sessions that  *)
(* Discovery resolved are scanned, each one reaching the table or lost for *)
(* a typed reason, and report.py explains the numbers from four signals    *)
(* that were observed at different times: the census, the sample, the      *)
(* limit probe and the skip records.                                       *)
(*                                                                         *)
(* The report is a function of the state, so its parts are operators: the  *)
(* rows, the notes beside the table, the lines of the Summary.  Their      *)
(* wording is left out; which claim is made about which agent is kept.     *)
(***************************************************************************)
EXTENDS Discovery

CONSTANTS
    Outcomes,         \* what the scan may make of a ref of each source
    SpreadThreshold,  \* report.SPREAD_THRESHOLD (4 in the code)
    Unknown           \* the denominator a cell does not have

ASSUME OutcomesAssumption ==
    /\ Outcomes.agentsview \subseteq {"parsed", "callless", "missing_source",
           "unknown_schema", "non_transcript", "decode_error", "export_failed",
           "export_timeout"}
    /\ Outcomes.raw \subseteq {"parsed", "callless", "missing_source",
           "unknown_schema", "non_transcript", "export_failed"}
ASSUME SpreadAssumption == SpreadThreshold \in Nat \ {0, 1}
ASSUME UnknownAssumption == Unknown \notin Nat

VARIABLES
    stage,    \* "discovering", "scanned", "checking", "reported" or "crashed"
    reached,  \* AgentStats.sessions, by agent
    lost,     \* the skip records of discovery and scan, as the report tallies them
    callless, \* history: the sampled refs that parsed to zero calls
    notice,   \* what the empty report says of the `--agent` name
    position, \* of the agent lookup: rank its next page must stay below
    seenAgents,    \* of the agent lookup: the agents its pages have named
    held,     \* history: the sessions the archive has held since the lookup began
    met       \* history: those it held at some moment since then

scan       == <<reached, lost, callless>>
lookup     == <<position, seenAgents, held, met>>
reportVars == <<vars, stage, scan, notice, lookup>>

-----------------------------------------------------------------------------
(* passive.main: the scan of the sample                                    *)

\* The i-th record of its origin.
Record(origin, i, a, why) == [of |-> origin, at |-> i, agent |-> a, reason |-> why]

\* A record that discovery left has no session, and the agent it was asked for.
DiscoveryRecords == {Record("discovery", i, args.agent, skips[i]) : i \in DOMAIN skips}

RefAgents == Agents \cup {RawAgent}

\* Each sampled ref is absorbed by the reducer, whatever calls it holds or none,
\* or recorded with its reason.
Absorbed(outcome) == {i \in DOMAIN outcome : outcome[i] \in {"parsed", "callless"}}
Lost(outcome)     == DOMAIN outcome \ Absorbed(outcome)

MutantSessionRecords(outcome) == {}
SessionRecords(outcome) ==
    {Record("session", i, refs[i].agent, outcome[i]) : i \in Lost(outcome)}

Scan(outcome) ==
    /\ stage = "discovering" /\ Resolved
    /\ stage' = "scanned"
    /\ reached' = [a \in RefAgents |->
           Cardinality({i \in Absorbed(outcome) : refs[i].agent = a})]
    /\ lost' = DiscoveryRecords \cup SessionRecords(outcome)
    /\ callless' = {i \in Sampled : outcome[i] = "callless"}
    /\ UNCHANGED <<vars, notice, lookup>>

Scans == \E outcome \in [Sampled -> Outcomes.agentsview \cup Outcomes.raw] :
             /\ \A i \in Sampled : outcome[i] \in Outcomes[refs[i].src]
             /\ Scan(outcome)

-----------------------------------------------------------------------------
(* The two ways to end: the report, and the empty selection                *)

SessionsScanned == SumFunction(reached)
HasCensus == census.why = "counted"

RendersReport ==
    /\ stage = "scanned" /\ SessionsScanned > 0
    /\ stage' = "reported"
    /\ UNCHANGED <<vars, scan, notice, lookup>>

\* Only a live agentsview listing honours `--agent`, and a census that counted
\* something has shown that the name is real.
NameIsInDoubt ==
    /\ args.agent # AllAgents /\ args.source # "raw" /\ fallback = "none"
    /\ ~(HasCensus /\ census.total > 0)

EmptyWithoutCheck ==
    /\ stage = "scanned" /\ SessionsScanned = 0 /\ ~NameIsInDoubt
    /\ stage' = "reported"
    /\ UNCHANGED <<vars, scan, notice, lookup>>

\* agentsview_agent_universe drains the listing of the whole archive, without a
\* filter and children included, in pages of its own size.
BeginCheck ==
    /\ stage = "scanned" /\ SessionsScanned = 0 /\ NameIsInDoubt
    /\ stage' = "checking"
    /\ position' = Top
    /\ held' = archive /\ met' = archive
    /\ UNCHANGED <<vars, scan, notice, seenAgents>>

MutantUnread == {s \in archive \ Children : s < position}
Unread == {s \in archive : s < position}
LookupPage == {s \in Unread : Cardinality({t \in Unread : t > s}) < DefaultPage}
LastPage   == Cardinality(Unread) <= DefaultPage

\* One page; after the last one the name is looked for among the agents seen.
CheckPage ==
    /\ stage = "checking"
    /\ seenAgents' = seenAgents \cup {AgentOf[s] : s \in LookupPage}
    /\ IF LastPage
       THEN /\ stage' = "reported"
            /\ notice' = IF args.agent \in seenAgents' THEN "none" ELSE "unknownAgent"
            /\ UNCHANGED position
       ELSE /\ position' = Min(LookupPage)
            /\ UNCHANGED <<stage, notice>>
    /\ UNCHANGED <<vars, scan, held, met>>

\* A daemon that breaks at any page is disclosed; one that is gone raises
\* FileNotFoundError, which is neither of the errors the lookup catches, and
\* ends the run.
CheckFails(reply) ==
    /\ stage = "checking" /\ reply # "ok"
    /\ IF reply \in Broken
       THEN notice' = "checkUnavailable" /\ stage' = "reported"
       ELSE stage' = "crashed" /\ UNCHANGED notice
    /\ UNCHANGED <<vars, scan, lookup>>

-----------------------------------------------------------------------------
(* The Agent Breakdown and the notes beside it                             *)

Known == DOMAIN census.totals
Total(a) == census.totals[a]
Rows == Known \cup {a \in RefAgents : reached[a] > 0}

\* The numerator and the denominator of the `sampled` cell.
SampledCell(a) ==
    [scanned |-> reached[a],
     of |-> IF HasCensus /\ a \in Known THEN Total(a) ELSE Unknown]

\* sampled_by_agent: the refs this run pulled, after the subagent filter.
SampledBy(a) == Cardinality({i \in Sampled : refs[i].agent = a})
LostBy(a)    == Cardinality({r \in lost : r.agent = a})

\* The archive's sessions no enumerated agent owns (AgentCensus.residual).
Residual == census.total - SumFunction(census.totals)

\* A zero row was never looked at, or it lost every session that was opened.
ZeroRows    == {a \in Known : Total(a) > 0 /\ reached[a] = 0}
NeverLooked == {a \in ZeroRows : LostBy(a) = 0}
AllSkipped  == ZeroRows \ NeverLooked

\* Two agents whose sampled fractions differ by the threshold or more.
Fractions == {a \in Known : Total(a) > 0 /\ reached[a] > 0}
Uneven ==
    \E a, b \in Fractions :
        reached[a] * Total(b) >= SpreadThreshold * reached[b] * Total(a)

\* The causes the note names, each on its own signal; none means the window.
MutantSpreadCauses == IF lost # {} THEN {"attrition"} ELSE {"limit"}
SpreadCauses ==
    (CASE truncated = "yes"     -> {"limit"}
       [] truncated = "unknown" -> {"limitUnobserved"}
       [] truncated = "no"      -> {})
        \cup (IF lost # {} THEN {"attrition"} ELSE {})

\* What becomes of the sessions of an agent that the sample does not hold.
MutantGap(a) == Total(a) - reached[a]
Gap(a) == Total(a) - SampledBy(a)
GapCause(a) ==
    CASE Gap(a) < 0 -> "excess"
      [] Gap(a) = 0 -> "none"
      [] Gap(a) > 0 -> CASE truncated = "unknown" -> "unattributed"
                         [] truncated = "yes"     -> "truncation"
                         [] truncated = "no"      -> "drift"

\* The Summary's recap of an agent.
MutantSummaryTail(a) == IF reached[a] > 0 THEN "scanned" ELSE "notReached"
SummaryTail(a) ==
    IF reached[a] > 0 THEN "scanned"
    ELSE IF LostBy(a) > 0 THEN "allSkipped" ELSE "notReached"

\* The line on the AgentsView ceiling, withheld when agentsview was not asked.
TimeoutIsNamed ==
    /\ args.source # "raw"
    /\ \E r \in lost : r.reason = "export_timeout"

-----------------------------------------------------------------------------
ReportInit ==
    /\ Init
    /\ stage = "discovering"
    /\ reached = [a \in RefAgents |-> 0]
    /\ lost = {} /\ callless = {}
    /\ notice = "none"
    /\ position = Top
    /\ seenAgents = {} /\ held = {} /\ met = {}

\* What changes once the refs are resolved is read again by the lookup alone.
Discovering ==
    /\ stage = "discovering"
    /\ RunStep \/ (Running /\ EnvStep)
    /\ UNCHANGED <<stage, scan, notice, lookup>>

\* The archive moves between two pages of the lookup.
ArchiveMoves ==
    /\ stage = "checking"
    /\ \E s \in Sessions : SessionAppears(s) \/ SessionPruned(s)
    /\ held' = held \cap archive' /\ met' = met \cup archive'
    /\ UNCHANGED <<stage, scan, notice, position, seenAgents>>

\* The run has ended, with a report or without.
Ended ==
    /\ stage \in {"reported", "crashed"} \/ pc = "fatal"
    /\ UNCHANGED reportVars

ReportNext ==
    \/ Discovering
    \/ Scans
    \/ RendersReport \/ EmptyWithoutCheck
    \/ BeginCheck \/ CheckPage \/ ArchiveMoves
    \/ \E reply \in Replies : CheckFails(reply)
    \/ Ended

ReportSpec == ReportInit /\ [][ReportNext]_reportVars

-----------------------------------------------------------------------------
ReportTypeOK ==
    /\ TypeOK
    /\ stage \in {"discovering", "scanned", "checking", "reported", "crashed"}
    /\ reached \in [RefAgents -> Nat]
    /\ \A r \in lost : r.agent \in RefAgents \cup {AllAgents}
    /\ callless \subseteq Sampled
    /\ notice \in {"none", "unknownAgent", "checkUnavailable"}
    /\ position \in 1..Top /\ seenAgents \subseteq Agents
    /\ held \subseteq archive /\ met \subseteq Sessions

Reported == stage = "reported"

\* The notes are printed only over a census, and the divided ones hold only
\* while nothing moved between the calls behind them.
StillCensus == Reported /\ HasCensus /\ churn = 0

\* A record that discovery left carries the agent the run was asked for, and
\* the report counts it with that agent's sessions.
SkipsAreSessions == skips = <<>>

\* The counted sessions of agent a that exist and are not in the sample.
LeftOut(a) ==
    LET population == IF attempt = "raw"
                      THEN {f \in files : ~args.exclude \/ f \notin Children}
                      ELSE Population
        agent(s) == IF attempt = "raw" THEN RawAgent ELSE AgentOf[s]
    IN  {s \in population : agent(s) = a} \ {refs[i].id : i \in Sampled}

\* A gap is never blamed on the wrong cause: while the archive holds still no
\* agent's gap is called drift or an excess, what is called truncation is
\* exactly the sessions that were left out, and the limit is said to have cut
\* the listing short only if it did (TB-35, roborev #98, #101, #103, #106).
GapsAreTruncation ==
    StillCensus =>
        /\ \A a \in Known :
               /\ GapCause(a) \notin {"drift", "excess"}
               /\ Gap(a) = Cardinality(LeftOut(a))
        /\ truncated = "yes" => \E a \in RefAgents : LeftOut(a) # {}
        /\ truncated = "no"  => \A a \in RefAgents : LeftOut(a) = {}

\* An uneven table is explained by everything that made it uneven: while the
\* archive holds still the note never falls back on the window, it names the
\* limit only when some session, of whichever agent, was left out and then always,
\* if only as unobserved, and attrition exactly when a session was lost (TB-33 finding 4,
\* roborev #98, #101, #103).
SpreadIsExplained ==
    (StillCensus /\ Uneven) =>
        /\ SpreadCauses # {}
        /\ "limit" \in SpreadCauses => \E a \in RefAgents : LeftOut(a) # {}
        /\ (\E a \in RefAgents : LeftOut(a) # {}) =>
               SpreadCauses \cap {"limit", "limitUnobserved"} # {}
        /\ "attrition" \in SpreadCauses <=> SessionsScanned < Cardinality(Sampled)

\* The note beside the table and the line of the Summary tell one story of a
\* zero row, and it is the true one: "not reached" exactly when none of the
\* agent's sessions was opened (TB-33 finding 2, roborev #98).
ZeroRowsTellOneStory ==
    (Reported /\ HasCensus /\ SkipsAreSessions) =>
        \A a \in ZeroRows :
            /\ a \in NeverLooked <=> SampledBy(a) = 0
            /\ a \in NeverLooked <=> SummaryTail(a) = "notReached"

\* Every session of the sample is in the report once: it reached its agent's
\* row or it is one of its agent's skip records, a row without a denominator is
\* accounted for by the reconciliation line, and a session that the agentsview
\* ceiling cost is never left unexplained (TB-21, TB-33, TB-39).  A session that
\* parses to zero calls is in its agent's row like any other, though a docstring
\* (report.py:97) says that it is neither in the reducer nor a skip record.
EverySessionIsReported ==
    Reported =>
        /\ SkipsAreSessions =>
               \A a \in RefAgents : SampledBy(a) = reached[a] + LostBy(a)
        /\ \A a \in RefAgents :
               Cardinality({i \in callless : refs[i].agent = a}) <= reached[a]
        /\ (\E r \in lost : r.reason = "export_timeout") => TimeoutIsNamed
        /\ StillCensus =>
               SumFunction([a \in {b \in Rows : SampledCell(b).of = Unknown} |-> reached[a]])
                   <= Residual

\* What is printed of an agent's sessions that were not reached, of those no
\* enumerated agent owns, and of a census that failed.
CensusNotes == ~HasCensus \/ NeverLooked # {} \/ Residual > 0

\* A report of no session says why: while the archive holds still, the sample
\* is empty because there is nothing to count, or else the headline tallies
\* skips or a census note names what was not reached; a sample that the limit
\* and `--exclude-subagents` emptied together is told by the notes alone.
EmptySampleIsExplained ==
    (Reported /\ SessionsScanned = 0 /\ churn = 0) =>
        \/ lost # {} \/ CensusNotes
        \/ \A a \in RefAgents : LeftOut(a) = {}

\* What the empty report says of the `--agent` name is true although the lookup
\* drains several pages of an archive that moves: a name called unknown is that
\* of no session the archive held all the while, children and what the run's
\* filters exclude counted, and a name in doubt that is passed over without a
\* word was that of a session it held (TB-34).
EmptyReportIsTruthful ==
    /\ EmptySampleIsExplained
    /\ notice = "unknownAgent" => \A s \in held : AgentOf[s] # args.agent
    /\ (Reported /\ SessionsScanned = 0 /\ NameIsInDoubt /\ notice = "none") =>
           \E s \in met : AgentOf[s] = args.agent

\* The check of an empty selection's agent name can fail, and never ends the run.
EmptyReportSurvives == stage # "crashed"

===============================================================================
