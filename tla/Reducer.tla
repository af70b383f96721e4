------------------------------- MODULE Reducer -------------------------------
(***************************************************************************)
(* _scan_refs and Reducer: the transcripts of a corpus are parsed one by   *)
(* one (module ClaudeParse, with track_turns off) and each result is       *)
(* folded into the corpus totals and into those of one orchestration run,  *)
(* the run that --run-manifest names.  A transcript that cannot be loaded, *)
(* even half-way, is skipped and contributes nothing.                      *)
(*                                                                         *)
(* read and creation are one count, `cache`; input and output another,     *)
(* `io`.  unattributed_* exists for the first only.                        *)
(***************************************************************************)
EXTENDS ClaudeParse

CONSTANTS
    MaxSessions,  \* bound: the refs of the corpus
    MaxRecords,   \* bound: the records of a transcript
    Agents,       \* the agents a ref may name
    RunBranches,  \* RunManifest.branches
    RunTrees,     \* RunManifest.worktrees, as sequences of path components
    PathOf,       \* PathOf[c]: the components of a cwd
    InWindow      \* the calls that --date-from and --date-to admit, by id

\* What read_run_manifest refuses: a manifest without branches and a worktree
\* "/".  HEAD it lets pass as a branch.
IsManifest == RunBranches # {} /\ <<"/">> \notin RunTrees

ASSUME ManifestAssumption == IsManifest

VARIABLES
    absorbed,      \* history: the sessions folded so far
    skips,         \* the sessions that could not be loaded
    agents,        \* Reducer.agents
    tools,         \* Reducer.tools
    churn,         \* InefficiencyCounters.churn_by_tool
    run,           \* RunStats
    branchesSeen,  \* RunStats.branches_seen
    treesSeen      \* RunStats.worktrees_seen

session == <<trackTurns, read, parsing, pending, calls, turns, malformed, tally>>
corpus  == <<absorbed, skips, agents, tools, churn, run, branchesSeen, treesSeen>>
allVars == <<session, corpus>>

-----------------------------------------------------------------------------
(* worktree_for: by components, and the deepest one of those that nest.    *)
TreesOf(c) == {w \in RunTrees : c # Unstated /\ IsPrefix(w, PathOf[c])}

TreeFor(c) == CHOOSE w \in TreesOf(c) : \A v \in TreesOf(c) : Len(v) <= Len(w)

-----------------------------------------------------------------------------
(* _absorb_run                                                             *)
Minus(b, c) == [cache |-> b.cache - c.cache, io |-> b.io - c.io,
                messages |-> b.messages - c.messages]

SpentAnything(b) == b.cache > 0 \/ b.io > 0

ClaimedCwds == {c \in Cwds : byCwd[c].messages > 0 /\ TreesOf(c) # {}}
Claimed     == Sum(byCwd, ClaimedCwds)

Unclaimed == Minus(byBranch[Detached], Claimed)

RunBranchesHere == {b \in Branches \cap RunBranches : byBranch[b].messages > 0}

Candidate == RunBranchesHere # {} \/ Claimed.messages > 0

MutantBooked == IF Candidate /\ SpentAnything(Unclaimed) THEN Unclaimed ELSE Empty
Booked == IF SpentAnything(Unclaimed) THEN Unclaimed ELSE Empty

Attributed ==
    IF Candidate THEN Plus(Sum(byBranch, Branches \cap RunBranches), Claimed)
    ELSE Empty

Spillover ==
    IF Candidate THEN Sum(byBranch, Branches \ (RunBranches \cup {Detached})).cache
    ELSE 0

NoRun == [mine |-> Empty, unattributed |-> 0, detached |-> Empty,
          viaTree |-> Empty, candidates |-> 0]

AbsorbRun ==
    /\ run' = [mine |-> Plus(run.mine, Attributed),
               unattributed |-> run.unattributed + Spillover,
               detached |-> Plus(run.detached, Booked),
               viaTree |-> Plus(run.viaTree, Claimed),
               candidates |-> run.candidates + IF Candidate THEN 1 ELSE 0]
    /\ branchesSeen' = branchesSeen \cup RunBranchesHere
    /\ treesSeen' = treesSeen \cup {TreeFor(c) : c \in ClaimedCwds}

-----------------------------------------------------------------------------
(* _absorb_calls, over the calls that _apply_date_range leaves.            *)
Names == UNION {{u.name : u \in ToSet(r.uses)} : r \in AllEntries}

Admitted == {i \in DOMAIN calls : calls[i].id \in InWindow}

Of(n)  == {i \in Admitted : calls[i].name = n}
Failed == {i \in Admitted : calls[i].outcome = "error"}
Silent == {i \in Admitted : calls[i].outcome = "no_result"}

CallStats == [calls : Nat, errors : Nat, noResult : Nat]
NoCalls == [calls |-> 0, errors |-> 0, noResult |-> 0]

Added(stats, some) ==
    [calls |-> stats.calls + Cardinality(some),
     errors |-> stats.errors + Cardinality(some \cap Failed),
     noResult |-> stats.noResult + Cardinality(some \cap Silent)]

\* A bad call right after a bad call of the same tool, in one session; the
\* window closes up the calls that it admits.
Bad(n) == Of(n) \cap (Failed \cup Silent)
MutantRetries(n) == Cardinality(Bad(n))
RightBefore(j, i) == j < i /\ ~\E m \in Admitted : j < m /\ m < i
Retries(n) == Cardinality({i \in Bad(n) : \E j \in Bad(n) : RightBefore(j, i)})

ToolStats(a, n) == Added(tools[<<a, n>>], Of(n))

AbsorbCalls(a) ==
    /\ agents' = [agents EXCEPT ![a] =
                     [of |-> Added(@.of, Admitted),
                      sessions |-> @.sessions + 1,
                      measured |-> @.measured + IF total.messages > 0 THEN 1 ELSE 0,
                      cache |-> @.cache + total.cache]]
    /\ tools' = [k \in DOMAIN tools |->
                    IF k[1] = a THEN ToolStats(a, k[2]) ELSE tools[k]]
    /\ churn' = [n \in Names |-> churn[n] + Retries(n)]

-----------------------------------------------------------------------------
Fresh ==
    /\ UNCHANGED trackTurns
    /\ read' = <<>> /\ parsing' = "reading"
    /\ pending' = <<>> /\ calls' = <<>> /\ malformed' = 0
    /\ turns' = [k \in Keys |-> [uses |-> 0, spoken |-> FALSE]]
    /\ charged' = {} /\ total' = Empty
    /\ byBranch' = [b \in Branches |-> Empty]
    /\ byCwd' = [c \in Cwds |-> Empty]

MoreRefs == Len(absorbed) + skips < MaxSessions

Absorb(a) ==
    /\ parsing = "parsed"
    /\ absorbed' = Append(absorbed, [read |-> read, calls |-> calls])
    /\ AbsorbRun
    /\ AbsorbCalls(a)
    /\ Fresh
    /\ UNCHANGED skips

\* The loader raises while its lines are being parsed; nothing was folded.
SkipSession ==
    /\ MoreRefs /\ parsing = "reading"
    /\ skips' = skips + 1
    /\ Fresh
    /\ UNCHANGED <<absorbed, agents, tools, churn, run, branchesSeen, treesSeen>>

ParseStep == MoreRefs /\ Next /\ Len(read') <= MaxRecords /\ UNCHANGED corpus

CorpusInit ==
    /\ Init /\ ~trackTurns
    /\ absorbed = <<>> /\ skips = 0
    /\ agents = [a \in Agents |-> [of |-> NoCalls, sessions |-> 0,
                                   measured |-> 0, cache |-> 0]]
    /\ tools = [k \in Agents \X Names |-> NoCalls]
    /\ churn = [n \in Names |-> 0]
    /\ run = NoRun /\ branchesSeen = {} /\ treesSeen = {}

CorpusNext == ParseStep \/ (\E a \in Agents : Absorb(a)) \/ SkipSession

CorpusSpec == CorpusInit /\ [][CorpusNext]_allVars

-----------------------------------------------------------------------------
(* Every total keeps its domain; an unclaimed remainder is never negative. *)
CorpusTypeOK ==
    /\ skips + Len(absorbed) <= MaxSessions
    /\ agents \in [Agents -> [of : CallStats, sessions : Nat,
                              measured : Nat, cache : Nat]]
    /\ tools \in [Agents \X Names -> CallStats]
    /\ churn \in [Names -> Nat]
    /\ run \in [mine : Bucket, unattributed : Nat, detached : Bucket,
                viaTree : Bucket, candidates : Nat]
    /\ branchesSeen \subseteq RunBranches /\ treesSeen \subseteq RunTrees

\* Where the tokens of one charged record of a session belong.
OnRunBranch(r) == r.branch \in RunBranches
InRunTree(r)   == r.branch = Detached /\ TreesOf(r.cwd) # {}
OnRun(r)       == OnRunBranch(r) \/ InRunTree(r)
Loose(r)       == r.branch = Detached /\ TreesOf(r.cwd) = {}
Beside(r, s)   == /\ r.branch # Detached /\ ~OnRunBranch(r)
                  /\ \E i \in FirstCopies(s) : OnRun(s[i])

Spending(Test(_, _)) ==
    LET here(s) == {i \in FirstCopies(s) : Test(s[i], s)}
        at == UNION {{k} \X here(absorbed[k].read) : k \in DOMAIN absorbed}
    IN  Sum([p \in at |-> Spent(absorbed[p[1]].read[p[2]])], at)

(* Every token the corpus was billed is where the run report says it is:   *)
(* the run's, once for a run branch and once for a run worktree that a     *)
(* detached checkout is inside of; the detached line's, of any other       *)
(* detached checkout, candidate session or not (TB-28); unattributed, on   *)
(* another branch of a candidate session; else none (_absorb_run).  Only a *)
(* manifest that lists HEAD gives a token two homes: it is then on a run   *)
(* branch and in a run worktree, or on the detached line, all the same,    *)
(* though transcript.py says that no manifest can list it, and TB-28 that  *)
(* detached work is never folded into the run.                             *)
EveryTokenHasItsHome ==
    /\ run.mine = Plus(Spending(LAMBDA r, s : OnRunBranch(r)),
                       Spending(LAMBDA r, s : InRunTree(r)))
    /\ Detached \notin RunBranches => run.mine = Spending(LAMBDA r, s : OnRun(r))
    /\ run.detached.cache = Spending(LAMBDA r, s : Loose(r)).cache
    /\ run.detached.io = Spending(LAMBDA r, s : Loose(r)).io
    /\ run.unattributed = Spending(LAMBDA r, s : Beside(r, s)).cache

(* The agent table and the tool table tell the same story of each agent    *)
(* after any mix of sessions, skipped loads and a date window.             *)
TablesAgree ==
    \A a \in Agents :
        LET total_(f) == MapThenSumSet(LAMBDA n : tools[<<a, n>>][f], Names)
        IN  \A f \in DOMAIN NoCalls : agents[a].of[f] = total_(f)

(* Whatever was skipped, split or filtered, no call is booked twice, or    *)
(* nowhere, and no token either unless the manifest lists HEAD.            *)
BooksBalance == EveryTokenHasItsHome /\ TablesAgree

(* A retry needs a bad call before it in its own session: churn is never   *)
(* carried over a session boundary, so it stays below the bad calls by at  *)
(* least one for every session that had any (_absorb_calls).               *)
ChurnStaysInItsSession ==
    LET bad(k) == {c \in ToSet(absorbed[k].calls) :
                     c.id \in InWindow /\ c.outcome \in {"error", "no_result"}}
        spoiled == {k \in DOMAIN absorbed : bad(k) # {}}
    IN  MapThenSumSet(LAMBDA n : churn[n], Names) + Cardinality(spoiled)
            <= MapThenSumSet(LAMBDA k : Cardinality(bad(k)), spoiled)
=============================================================================
