------------------------------ MODULE Discovery ------------------------------
(***************************************************************************)
(* One discovery of `python -m toolbench.passive`: passive._discover_refs  *)
(* driving sources.iter_sessions against an agentsview daemon that can     *)
(* fail at any call, an archive that changes between two calls, and a raw  *)
(* transcript root that can lose files or be missing altogether.           *)
(*                                                                         *)
(* One step is one call that leaves the process (a daemon call, a walk of  *)
(* the raw root, a stat) or one ref taken from the listing; the handlers   *)
(* that run between two such calls belong to the step that triggers them.  *)
(*                                                                         *)
(* A session is its recency rank: a larger number is a newer session, and  *)
(* a listing is served newest first.  Project and date filters act exactly *)
(* like the agent filter on both sides, so only the agent filter is kept.  *)
(***************************************************************************)
EXTENDS Integers, FiniteSets, FiniteSetsExt, Sequences

CONSTANTS
    Sessions,      \* recency ranks of the sessions that may exist
    Agents,        \* agent names agentsview knows
    AgentOf,       \* the agent column of a session's listing row
    Children,      \* the sessions agentsview itself calls children
    RawAgent,      \* sources.RAW_AGENT, the only agent of a raw ref
    AllAgents,     \* the `--agent all` sentinel
    NoLimit,       \* `--limit` not given
    DefaultPage,   \* the page size used without `--limit` (500 in the code)
    CommandLines,  \* the flag combinations considered
    InitArchives,  \* the archives a run may start from
    InitRoots,     \* the transcript sets a run may start from
    MaxChurn       \* bound on archive and root changes during the run

ASSUME SessionsAssumption ==
    /\ Sessions \subseteq Nat \ {0}
    /\ Sessions # {}
    /\ IsFiniteSet(Sessions)
    /\ Children \subseteq Sessions
    /\ IsFiniteSet(Agents)
    /\ AgentOf \in [Sessions -> Agents]
ASSUME SentinelAssumption == AllAgents \notin Agents /\ NoLimit \notin Nat
ASSUME BoundAssumption == DefaultPage \in Nat \ {0} /\ MaxChurn \in Nat
ASSUME EnvironmentAssumption ==
    InitArchives \subseteq SUBSET Sessions /\ InitRoots \subseteq SUBSET Sessions
ASSUME CommandLineAssumption ==
    CommandLines \subseteq [source : {"raw", "agentsview", "auto"},
                            agent : Agents \cup {AllAgents},
                            limit : (Nat \ {0}) \cup {NoLimit},
                            exclude : BOOLEAN, since : BOOLEAN]

VARIABLES
    args,       \* CliArgs: the flags of this run
    archive,    \* environment: the sessions agentsview holds now
    files,      \* environment: the transcripts under the raw root now
    rootUp,     \* environment: the raw root is a directory
    churn,      \* environment: changes made so far
    pc,         \* the call the run makes next
    attempt,    \* the source whose listing is being drained
    fellBack,   \* inside the mid-listing handler of _discover_refs
    parents,    \* parent_ids of the child-excluded pass
    uncounted,  \* agents_seen of that pass, less those already counted
    cursor,     \* rank the next page must stay below; 0 = listing exhausted
    buf,        \* rows served and not yet taken
    refs,       \* refs collected so far
    census,     \* the AgentCensus
    skips,      \* the typed reasons of the SkipRecords
    fallback,   \* fallback_reason
    truncated,  \* limit_truncated: "no", "yes" or "unknown"
    walked      \* history: a raw listing or census really read the root

env  == <<archive, files, rootUp, churn>>
run  == <<pc, attempt, fellBack, parents, uncounted, cursor, buf, refs, census,
          skips, fallback, truncated, walked>>
vars == <<args, env, run>>

-----------------------------------------------------------------------------
(***************************************************************************)
(* The daemon's answers.  A call returns rows ("ok") or makes the runner   *)
(* raise: "gone" is FileNotFoundError, the rest are the RuntimeError and   *)
(* ValueError family.                                                      *)
(***************************************************************************)
Broken  == {"nonzero", "timeout", "malformed"}
Replies == Broken \cup {"gone", "ok"}

InScope(s) == args.agent = AllAgents \/ AgentOf[s] = args.agent

Listing(withChildren) ==
    {s \in archive : InScope(s) /\ (withChildren \/ s \notin Children)}

PageLimit == IF args.limit = NoLimit THEN DefaultPage ELSE args.limit

\* Above every rank: the cursor of a listing not yet started.
Top == Max(Sessions) + 1

\* The rows of S past the cursor, and the page they start with, newest first:
\* the order of rows is that of their ranks.
Rest(S) == {s \in S : s < cursor}
Page(S) == {s \in Rest(S) : Cardinality({t \in Rest(S) : t > s}) < PageLimit}
NextCursor(S) == IF Cardinality(Rest(S)) > PageLimit THEN Min(Page(S)) ELSE 0

-----------------------------------------------------------------------------
(* What the run keeps                                                      *)

Unavailable(reason) == [totals |-> <<>>, total |-> 0, why |-> reason]

SkipReason(reply) == IF reply = "timeout" THEN "export_timeout" ELSE "export_failed"

MutantRef(s) == [id |-> s, src |-> attempt,
                 agent |-> IF attempt = "raw" THEN RawAgent ELSE AgentOf[s],
                 sub |-> attempt # "raw" /\ s \notin parents]
Ref(s) == [id |-> s, src |-> attempt,
           agent |-> IF attempt = "raw" THEN RawAgent ELSE AgentOf[s],
           sub |-> IF attempt = "raw" THEN s \in Children ELSE s \notin parents]

\* filter_subagents, the population rule of the report and of the probe alike.
Counts(r) == ~(args.exclude /\ r.sub)

LimitReached(n) == args.limit # NoLimit /\ n >= args.limit

\* _collect_refs never returns when its iterator raises: its local list is lost.
MutantSurvivingRefs == refs
SurvivingRefs == <<>>

DegradedReason == "midListing"

-----------------------------------------------------------------------------
(* The two failure handlers of _discover_refs                              *)

VanishedSkips == Append(skips, "missing_source")

\* FileNotFoundError: a MISSING_SOURCE skip under `auto`, else it propagates.
SourceVanished ==
    /\ IF args.source = "auto" /\ ~fellBack
       THEN /\ pc' = "resolved"
            /\ skips' = VanishedSkips
            /\ census' = Unavailable("vanished")
       ELSE /\ pc' = "fatal"
            /\ UNCHANGED <<skips, census>>
    /\ refs' = SurvivingRefs
    /\ buf' = {}
    /\ UNCHANGED <<attempt, fellBack, parents, uncounted, cursor, fallback,
                   truncated>>

\* RuntimeError or ValueError: `auto` drops the partial listing and rescans
\* from raw, a strict source propagates it.
DaemonBroke(reply) ==
    /\ IF args.source = "auto"
       THEN /\ pc' = "rawCensus"
            /\ attempt' = "raw"
            /\ fellBack' = TRUE
            /\ skips' = Append(skips, SkipReason(reply))
            /\ fallback' = DegradedReason
            /\ cursor' = Top
            /\ parents' = {}
            /\ uncounted' = {}
       ELSE /\ pc' = "fatal"
            /\ UNCHANGED <<attempt, fellBack, skips, fallback, cursor, parents,
                           uncounted>>
    /\ refs' = SurvivingRefs
    /\ buf' = {}
    /\ UNCHANGED <<census, truncated, walked>>

-----------------------------------------------------------------------------
(* iter_sessions: the availability probe of `auto`                         *)

HealthProbe(reply) ==
    /\ pc = "health"
    /\ IF reply = "ok"
       THEN pc' = "probe" /\ UNCHANGED <<attempt, fallback>>
       ELSE pc' = "rawCensus" /\ attempt' = "raw" /\ fallback' = "probeFailed"
    /\ UNCHANGED <<args, env, fellBack, parents, uncounted, cursor, buf, refs,
                   census, skips, truncated, walked>>

-----------------------------------------------------------------------------
(* discover_agentsview: the eager parent probe and census                  *)

\* One page of the child-excluded listing.
ParentPage(reply) ==
    /\ pc = "probe"
    /\ IF reply = "ok"
       THEN LET page == Page(Listing(FALSE))
                next == NextCursor(Listing(FALSE))
            IN  /\ parents' = parents \cup page
                /\ uncounted' = uncounted \cup {AgentOf[s] : s \in page}
                /\ pc' = IF next = 0 THEN "census" ELSE "probe"
                /\ cursor' = IF next = 0 THEN Top ELSE next
                /\ UNCHANGED <<attempt, fellBack, buf, refs, census, skips,
                               fallback, truncated>>
       ELSE IF reply = "gone" THEN SourceVanished ELSE DaemonBroke(reply)
    /\ UNCHANGED <<args, env, walked>>

\* What `total` counts for one scoped listing, for agent a or for them all.
MutantPopulation == Listing(TRUE)
Population == Listing(~args.exclude)
TotalOf(a) == Cardinality({s \in Population : AgentOf[s] = a})
Tallied(totals, a) ==
    [b \in DOMAIN totals \cup {a} |-> IF b = a THEN TotalOf(a) ELSE totals[b]]

\* One `--limit 1` call per enumerated agent, then one for the whole scope.
Census(reply) ==
    /\ pc = "census"
    /\ IF reply = "ok"
       THEN /\ IF uncounted # {}
               THEN LET a == CHOOSE a \in uncounted : TRUE
                    IN  /\ census' = [census EXCEPT !.totals = Tallied(@, a)]
                        /\ uncounted' = uncounted \ {a}
                        /\ UNCHANGED pc
               ELSE /\ census' = [census EXCEPT !.total = Cardinality(Population),
                                               !.why = "counted"]
                    /\ pc' = "list"
                    /\ UNCHANGED uncounted
            /\ UNCHANGED <<attempt, fellBack, parents, cursor, buf, refs, skips,
                           fallback, truncated>>
       ELSE IF reply = "gone"
       THEN SourceVanished
       ELSE /\ census' = Unavailable(reply)
            /\ uncounted' = {}
            /\ pc' = "list"
            /\ UNCHANGED <<attempt, fellBack, parents, cursor, buf, refs, skips,
                           fallback, truncated>>
    /\ UNCHANGED <<args, env, walked>>

-----------------------------------------------------------------------------
(* The raw census: one walk of the root, done eagerly                      *)

RawCensus ==
    /\ pc = "rawCensus"
    /\ pc' = "list"
    /\ IF rootUp
       THEN LET n == Cardinality({f \in files : ~args.exclude \/ f \notin Children})
            IN  census' = [totals |-> [a \in {RawAgent} |-> n], total |-> n, why |-> "counted"]
       ELSE census' = Unavailable("missingRoot")
    /\ walked' = (walked \/ rootUp)
    /\ UNCHANGED <<args, env, attempt, fellBack, parents, uncounted, cursor, buf,
                   refs, skips, fallback, truncated>>

\* Under `--since` the walk stats each file: one deleted under it is a
\* FileNotFoundError, which the census reports as unavailable.
RawCensusRaced(f) ==
    /\ pc = "rawCensus"
    /\ rootUp /\ args.since
    /\ f \in files /\ churn < MaxChurn
    /\ files' = files \ {f}
    /\ churn' = churn + 1
    /\ pc' = "list"
    /\ census' = Unavailable("missingRoot")
    /\ walked' = TRUE
    /\ UNCHANGED <<args, archive, rootUp, attempt, fellBack, parents, uncounted,
                   cursor, buf, refs, skips, fallback, truncated>>

-----------------------------------------------------------------------------
(* _collect_refs and _probe_truncation: draining the lazy listing          *)

Draining == pc \in {"list", "peek"}

\* The truncation probe answers, or fails to, and the run keeps what it has.
PeekEnds(answer) ==
    /\ truncated' = answer
    /\ pc' = "resolved"
    /\ buf' = {}
    /\ UNCHANGED <<attempt, fellBack, parents, uncounted, cursor, refs, census,
                   skips, fallback>>

\* Inside _probe_truncation every discovery error is caught.
Diagnostic == pc = "peek"

FetchPage(reply) ==
    /\ Draining /\ attempt = "agentsview"
    /\ buf = {} /\ cursor # 0
    /\ IF reply = "ok"
       THEN /\ buf' = Page(Listing(TRUE))
            /\ cursor' = NextCursor(Listing(TRUE))
            /\ UNCHANGED <<pc, attempt, fellBack, parents, uncounted, refs, census,
                           skips, fallback, truncated>>
       ELSE IF Diagnostic
       THEN PeekEnds("unknown")
       ELSE IF reply = "gone" THEN SourceVanished ELSE DaemonBroke(reply)
    /\ UNCHANGED <<args, env, walked>>

\* The first ref asked of the raw listing walks the whole root, sorted by path.
WalkRoot ==
    /\ pc = "list" /\ attempt = "raw"
    /\ buf = {} /\ cursor # 0
    /\ IF rootUp
       THEN /\ buf' = files
            /\ cursor' = 0
            /\ walked' = TRUE
            /\ UNCHANGED <<pc, attempt, fellBack, parents, uncounted, refs, census,
                           skips, fallback, truncated>>
       ELSE SourceVanished /\ UNCHANGED walked
    /\ UNCHANGED <<args, env>>

\* The order of the listing: newest first, or that of the paths.
NextRow == IF attempt = "raw" THEN Min(buf) ELSE Max(buf)

\* The stat of a `--since` filter on a file deleted since the walk.
StatFails == attempt = "raw" /\ args.since /\ NextRow \notin files

TakeRef ==
    /\ pc = "list" /\ buf # {}
    /\ IF StatFails
       THEN SourceVanished
       ELSE /\ refs' = Append(refs, Ref(NextRow))
            /\ buf' = buf \ {NextRow}
            /\ pc' = IF LimitReached(Len(refs) + 1) THEN "peek" ELSE "list"
            /\ UNCHANGED <<attempt, fellBack, parents, uncounted, cursor, census,
                           skips, fallback, truncated>>
    /\ UNCHANGED <<args, env, walked>>

PeekRef ==
    /\ pc = "peek" /\ buf # {}
    /\ IF StatFails
       THEN PeekEnds("unknown")
       ELSE IF Counts(Ref(NextRow))
       THEN PeekEnds("yes")
       ELSE /\ buf' = buf \ {NextRow}
            /\ UNCHANGED <<pc, attempt, fellBack, parents, uncounted, cursor, refs,
                           census, skips, fallback, truncated>>
    /\ UNCHANGED <<args, env, walked>>

Exhausted ==
    /\ Draining /\ buf = {} /\ cursor = 0
    /\ pc' = "resolved"
    /\ UNCHANGED <<args, env, attempt, fellBack, parents, uncounted, cursor, buf,
                   refs, census, skips, fallback, truncated, walked>>

-----------------------------------------------------------------------------
(* The environment, which does not wait for the run                        *)

Churning ==
    /\ churn < MaxChurn
    /\ churn' = churn + 1
    /\ UNCHANGED <<args, run>>

\* agentsview indexes a session newer than all it holds.
SessionAppears(s) ==
    /\ \A t \in archive : t < s
    /\ archive' = archive \cup {s}
    /\ UNCHANGED <<files, rootUp>>
    /\ Churning

\* A session ages out of the retention window.
SessionPruned(s) ==
    /\ s \in archive
    /\ archive' = archive \ {s}
    /\ UNCHANGED <<files, rootUp>>
    /\ Churning

TranscriptDeleted(f) ==
    /\ f \in files
    /\ files' = files \ {f}
    /\ UNCHANGED <<archive, rootUp>>
    /\ Churning

TranscriptAppears(f) ==
    /\ rootUp /\ f \notin files
    /\ files' = files \cup {f}
    /\ UNCHANGED <<archive, rootUp>>
    /\ Churning

RootRemoved ==
    /\ rootUp
    /\ rootUp' = FALSE
    /\ files' = {}
    /\ UNCHANGED archive
    /\ Churning

-----------------------------------------------------------------------------
Running == pc \notin {"resolved", "fatal"}

FirstCall(source) ==
    CASE source = "auto" -> "health"
      [] source = "agentsview" -> "probe"
      [] source = "raw" -> "rawCensus"

Init ==
    /\ args \in CommandLines
    /\ archive \in InitArchives
    /\ rootUp \in BOOLEAN
    /\ files \in IF rootUp THEN InitRoots ELSE {{}}
    /\ churn = 0
    /\ pc = FirstCall(args.source)
    /\ attempt = IF args.source = "raw" THEN "raw" ELSE "agentsview"
    /\ fellBack = FALSE
    /\ parents = {} /\ uncounted = {}
    /\ cursor = Top
    /\ buf = {} /\ refs = <<>>
    /\ census = Unavailable("notTaken")
    /\ skips = <<>>
    /\ fallback = "none"
    /\ truncated = "no"
    /\ walked = FALSE

DaemonStep ==
    \E reply \in Replies :
        HealthProbe(reply) \/ ParentPage(reply) \/ Census(reply) \/ FetchPage(reply)

RunStep == DaemonStep \/ RawCensus \/ WalkRoot \/ TakeRef \/ PeekRef \/ Exhausted

EnvStep ==
    \/ \E s \in Sessions : \/ SessionAppears(s) \/ SessionPruned(s)
                          \/ TranscriptDeleted(s) \/ TranscriptAppears(s)
                          \/ RawCensusRaced(s)
    \/ RootRemoved

\* A resolved or fatal discovery has returned.
Returned == ~Running /\ UNCHANGED vars

Next == RunStep \/ EnvStep \/ Returned

Spec == Init /\ [][Next]_vars

-----------------------------------------------------------------------------
RefRecord == [id : Sessions, src : {"raw", "agentsview"},
              agent : Agents \cup {RawAgent}, sub : BOOLEAN]

\* Every variable stays in its domain; a skip always carries a SkipReason.
TypeOK ==
    /\ args \in CommandLines
    /\ archive \subseteq Sessions /\ files \subseteq Sessions
    /\ rootUp \in BOOLEAN /\ fellBack \in BOOLEAN /\ walked \in BOOLEAN
    /\ churn \in 0..MaxChurn
    /\ pc \in {"health", "probe", "census", "rawCensus", "list", "peek",
              "resolved", "fatal"}
    /\ attempt \in {"raw", "agentsview"}
    /\ parents \subseteq Sessions
    /\ uncounted \subseteq Agents
    /\ cursor \in 0..Top
    /\ buf \subseteq Sessions
    /\ refs \in Seq(RefRecord)
    /\ census.total \in Nat
    /\ \A a \in DOMAIN census.totals : census.totals[a] \in Nat
    /\ skips \in Seq({"missing_source", "export_failed", "export_timeout"})
    /\ fallback \in {"none", "probeFailed", "midListing"}
    /\ truncated \in {"no", "yes", "unknown"}

Resolved == pc = "resolved"
Ids      == {refs[i].id : i \in DOMAIN refs}
Sampled  == {i \in DOMAIN refs : Counts(refs[i])}

\* _raw_root_scanned: the report names the root on this and nothing else.
RawRootScanned == args.source = "raw" \/ fallback # "none"

\* A listing is never spliced from two sources, a strict `--index-source` is
\* never answered by the other source, refs that came from a fallback are never
\* reported without its reason, and a root that was read is always named
\* (TB-22, TB-38, S10, S34).
OneNamedSource ==
    /\ \A i \in DOMAIN refs :
           /\ refs[i].src = attempt
           /\ args.source # "auto" => refs[i].src = args.source
           /\ args.source = "auto" => (refs[i].src = "raw" <=> fallback # "none")
    /\ walked => RawRootScanned

\* The census denominator and the sample describe one population: while the
\* archive holds still, every agent's unlimited sample is exactly its census
\* total, a limited one never exceeds it, and the residual is exactly the
\* sampled sessions of agents the probe could not enumerate (TB-33).
CensusMatchesSample ==
    (Resolved /\ churn = 0 /\ census.why = "counted") =>
        LET of(a) == Cardinality({i \in Sampled : refs[i].agent = a})
            known == DOMAIN census.totals
            strangers == {i \in Sampled : refs[i].agent \notin known}
            residual == census.total - SumFunction(census.totals)
        IN  /\ \A a \in known : of(a) <= census.totals[a]
            /\ Cardinality(strangers) <= residual
            /\ args.limit = NoLimit =>
                   /\ \A a \in known : of(a) = census.totals[a]
                   /\ Cardinality(strangers) = residual

\* While the archive holds still, a ref is stamped is_subagent exactly when
\* agentsview (or the path layout) says so, no session is listed twice, and a
\* limited agentsview sample is the newest part of the listing (TB-31, TB-33).
SampleIsTheNewest ==
    churn = 0 =>
        /\ \A i \in DOMAIN refs : refs[i].sub = (refs[i].id \in Children)
        /\ Cardinality(Ids) = Len(refs)
        /\ attempt = "agentsview" =>
               \A s \in Ids : \A t \in Listing(TRUE) : t > s => t \in Ids

=============================================================================
