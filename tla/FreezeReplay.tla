----------------------------- MODULE FreezeReplay -----------------------------
(***************************************************************************)
(* Runs of `passive --freeze P` that share one manifest file: the run that *)
(* finds no manifest discovers and writes it, every other one replays it   *)
(* (_plan_freeze, _resolve_corpus, freeze.py, replay.py and the filter in  *)
(* main).  A run may stop between any two steps, and the live archive      *)
(* prunes old sessions and gains new ones throughout.                      *)
(*                                                                         *)
(* A session is its recency rank, as in module Discovery.  Discovery asks  *)
(* agentsview three things in turn, the parents, the census and the pages  *)
(* of the listing, and the archive changes between the answers; or it      *)
(* scans the raw root.  Refs are a set of ids and the subset stamped       *)
(* is_subagent; a census is the set of the sessions it counted, {} when    *)
(* there is none and {S} when it counted S (its archive total, one call).  *)
(***************************************************************************)
EXTENDS Integers

CONSTANTS
    Sessions,       \* recency ranks of the sessions that may exist
    Children,       \* the sessions agentsview calls children
    Runs,           \* the runs that name this manifest
    Scopes,         \* the parts of the archive a run's filters may admit
    Serial,         \* a run starts only when no other is active
    InitLive,       \* the archives the history may start from
    InitManifests   \* the manifests an operator may already have

ASSUME SessionsAssumption ==
    /\ Sessions \subseteq Nat
    /\ Children \subseteq Sessions
    /\ InitLive \subseteq SUBSET Sessions /\ Scopes \subseteq SUBSET Sessions
ASSUME SerialAssumption == Serial \in BOOLEAN

VARIABLES
    live,      \* environment: the sessions agentsview holds now
    seen,      \* environment: every session it has ever held
    late,      \* history: those that arrived in the middle of a discovery
    manifest,  \* the file at P
    pc,        \* pc[r]: the step run r takes next
    replaying, \* replaying[r]: the _FreezePlan of r
    exclude,   \* exclude[r]: --exclude-subagents
    scope,     \* scope[r]: the sessions r's --agent, --project, --since admit
    ids,       \* ids[r]: the refs r works on
    subs,      \* subs[r]: those of them stamped is_subagent
    source,    \* source[r]: the index source of r's refs
    parents,   \* parents[r]: parent ids of r's last probe
    kept,      \* kept[r]: refs whose frozen flag could not be refreshed
    census,    \* census[r]: the denominator r reports
    pinned     \* history, pinned[r]: the refs r pinned or found pinned

archive == <<live, seen, late>>
plan    == <<replaying, exclude, scope>>
run     == <<pc, plan, ids, subs, source, parents, kept, census, pinned>>
vars    == <<archive, manifest, run>>

-----------------------------------------------------------------------------
(* The manifest: absent, torn by a write that stopped half-way, or whole.  *)
(* `population` is what its census counted; "unrecorded" stands for every  *)
(* manifest without a usable census.                                       *)
Populations == {"everything", "parents", "unrecorded"}
Sources     == {"raw", "agentsview"}

Manifest(i, s, src, pop, c) ==
    [state |-> "whole", ids |-> i, subs |-> s, src |-> src,
     population |-> pop, census |-> c]
Unwritten(state) == [Manifest({}, {}, "raw", "unrecorded", {}) EXCEPT !.state = state]

\* What an operator may already have: any pin from before a census said what it
\* counted, with any stamps.
ASSUME ManifestsAssumption ==
    \A m \in InitManifests :
        \/ m = Unwritten("absent")
        \/ \E i \in SUBSET Sessions : \E s \in SUBSET i, src \in Sources :
               m = Manifest(i, s, src, "unrecorded", {})

PopulationOf(r) == IF exclude[r] THEN "parents" ELSE "everything"

\* filter_subagents over stamped refs.
Effective(r, i, s) == IF exclude[r] THEN i \ s ELSE i

\* _is_subagent_from_manifest: a raw ref's path overrules a stale flag.
MutantHealed(m) == m.subs
Healed(m) == m.subs \cup IF m.src = "raw" THEN m.ids \cap Children ELSE {}

\* _replay_census: only a census of the population this replay scans is used.
MutantReplayCensus(r, m) == m.census
ReplayCensus(r, m) == IF m.population = PopulationOf(r) THEN m.census ELSE {}

Active(r) == pc[r] \notin {"idle", "exit0", "exit1"}

-----------------------------------------------------------------------------
(* main, up to the scan                                                    *)

\* _plan_freeze: a file that exists, whatever it holds, is replayed.
MutantReplaying == FALSE
Replaying == manifest.state # "absent"

Plan(r) ==
    /\ pc[r] = "idle"
    /\ Serial => \A q \in Runs : ~Active(q)
    /\ \E x \in BOOLEAN, a \in Scopes :
           exclude' = [exclude EXCEPT ![r] = x] /\ scope' = [scope EXCEPT ![r] = a]
    /\ replaying' = [replaying EXCEPT ![r] = Replaying]
    /\ pc' = [pc EXCEPT ![r] = IF Replaying THEN "read" ELSE "discover"]
    /\ UNCHANGED <<archive, manifest, ids, subs, source, parents, kept, census, pinned>>

\* The parents are asked for first (_probe_pass), then the census, of the
\* population this run will scan; a census that fails is no census.
ProbePass(r) ==
    /\ pc[r] = "discover"
    /\ parents' = [parents EXCEPT ![r] = (live \cap scope[r]) \ Children]
    /\ source' = [source EXCEPT ![r] = "agentsview"]
    /\ pc' = [pc EXCEPT ![r] = "census"]
    /\ UNCHANGED <<archive, manifest, plan, ids, subs, kept, census, pinned>>

TakeCensus(r) ==
    /\ pc[r] = "census"
    /\ census' \in {census, [census EXCEPT ![r] =
                                 {Effective(r, live \cap scope[r], Children)}]}
    /\ pc' = [pc EXCEPT ![r] = "list"]
    /\ UNCHANGED <<archive, manifest, plan, ids, subs, source, parents, kept, pinned>>

\* One page of the listing: any part of what is live by then.
ListPage(r, page) ==
    /\ pc[r] = "list"
    /\ page \subseteq live \cap scope[r]
    /\ ids' = [ids EXCEPT ![r] = @ \cup page]
    /\ ids' # ids
    /\ UNCHANGED <<archive, manifest, pc, plan, subs, source, parents, kept, census, pinned>>

\* _yield_refs: what the probe did not show is a child.
MutantStamped(r) == {}
Stamped(r) == ids[r] \ parents[r]

\* What _resolve_corpus refuses to pin: a selection the scan would see as empty.
MutantNothingToPin(r, i, s) == i = {}
NothingToPin(r, i, s) == Effective(r, i, s) = {}

EndListing(r) ==
    /\ pc[r] = "list"
    /\ subs' = [subs EXCEPT ![r] = Stamped(r)]
    /\ pc' = [pc EXCEPT ![r] = IF NothingToPin(r, ids[r], Stamped(r)) THEN "exit1"
                               ELSE "open"]
    /\ UNCHANGED <<archive, manifest, plan, ids, source, parents, kept, census, pinned>>

\* A raw discovery, or the rescan once the daemon broke at any of its calls: the
\* paths tell the children, and there is no census.
ScanRaw(r, found) ==
    /\ pc[r] \in {"discover", "census", "list"}
    /\ found \subseteq live \cap scope[r]
    /\ ids' = [ids EXCEPT ![r] = found]
    /\ subs' = [subs EXCEPT ![r] = found \cap Children]
    /\ source' = [source EXCEPT ![r] = "raw"]
    /\ census' = [census EXCEPT ![r] = {}]
    /\ pc' = [pc EXCEPT ![r] = IF NothingToPin(r, found, found \cap Children) THEN "exit1"
                               ELSE "open"]
    /\ UNCHANGED <<archive, manifest, plan, parents, kept, pinned>>

\* write_manifest: write_text truncates the file before it fills it.
OpenManifest(r) ==
    /\ pc[r] = "open"
    /\ manifest' = Unwritten("torn")
    /\ pc' = [pc EXCEPT ![r] = "write"]
    /\ UNCHANGED <<archive, plan, ids, subs, source, parents, kept, census, pinned>>

WriteManifest(r) ==
    /\ pc[r] = "write"
    /\ manifest' = Manifest(ids[r], subs[r], source[r],
                            IF census[r] = {} THEN "unrecorded" ELSE PopulationOf(r),
                            census[r])
    /\ pinned' = [pinned EXCEPT ![r] = ids[r]]
    /\ pc' = [pc EXCEPT ![r] = "filter"]
    /\ UNCHANGED <<archive, plan, ids, subs, source, parents, kept, census>>

\* read_manifest and the empty-pin guard.
Unreplayable == manifest.state # "whole" \/ manifest.ids = {}

ReadManifest(r) ==
    /\ pc[r] = "read"
    /\ IF Unreplayable
       THEN /\ pc' = [pc EXCEPT ![r] = "exit1"]
            /\ UNCHANGED <<ids, subs, source, census, pinned>>
       ELSE /\ ids' = [ids EXCEPT ![r] = manifest.ids]
            /\ subs' = [subs EXCEPT ![r] = Healed(manifest)]
            /\ source' = [source EXCEPT ![r] = manifest.src]
            /\ census' = [census EXCEPT ![r] = ReplayCensus(r, manifest)]
            /\ pinned' = [pinned EXCEPT ![r] = manifest.ids]
            /\ pc' = [pc EXCEPT ![r] = IF exclude[r] /\ manifest.src = "agentsview"
                                       THEN "probe" ELSE "filter"]
    /\ UNCHANGED <<archive, manifest, plan, parents, kept>>

\* agentsview_classify_subagents asks for the parents, then for everything.
ProbeParents(r) ==
    /\ pc[r] = "probe"
    /\ parents' = [parents EXCEPT ![r] = (live \cap scope[r]) \ Children]
    /\ pc' = [pc EXCEPT ![r] = "restamp"]
    /\ UNCHANGED <<archive, manifest, plan, ids, subs, source, kept, census, pinned>>

\* Only a ref the two listings classify is restamped; the others are counted.
MutantRestamped(r, children) == ids[r] \ parents[r]
Restamped(r, children) == (subs[r] \cup (ids[r] \cap children)) \ parents[r]

Restamp(r) ==
    /\ pc[r] = "restamp"
    /\ LET children == (live \cap scope[r]) \ parents[r]
       IN  /\ subs' = [subs EXCEPT ![r] = Restamped(r, children)]
           /\ kept' = [kept EXCEPT ![r] = ids[r] \ (children \cup parents[r])]
    /\ pc' = [pc EXCEPT ![r] = "filter"]
    /\ UNCHANGED <<archive, manifest, plan, ids, source, parents, census, pinned>>

\* The filter in main, its replay guard, and the report.
Filter(r) ==
    /\ pc[r] = "filter"
    /\ ids' = [ids EXCEPT ![r] = Effective(r, ids[r], subs[r])]
    /\ pc' = [pc EXCEPT ![r] =
           IF replaying[r] /\ Effective(r, ids[r], subs[r]) = {}
           THEN "exit1" ELSE "exit0"]
    /\ UNCHANGED <<archive, manifest, plan, subs, source, parents, kept, census, pinned>>

\* A source, write or run-manifest error ends the run, or it is killed.
Stop(r) ==
    /\ Active(r)
    /\ pc' = [pc EXCEPT ![r] = "exit1"]
    /\ UNCHANGED <<archive, manifest, plan, ids, subs, source, parents, kept, census, pinned>>

-----------------------------------------------------------------------------
(* The live archive                                                        *)

SessionAppears(s) ==
    /\ \A t \in seen : t < s
    /\ live' = live \cup {s} /\ seen' = seen \cup {s}
    /\ late' = IF \E r \in Runs : pc[r] \in {"census", "list"} THEN late \cup {s} ELSE late
    /\ UNCHANGED <<manifest, run>>

SessionPruned(s) ==
    /\ s \in live
    /\ live' = live \ {s}
    /\ UNCHANGED <<seen, late, manifest, run>>

-----------------------------------------------------------------------------
Init ==
    /\ live \in InitLive /\ manifest \in InitManifests
    /\ seen = live \cup manifest.ids
    /\ late = manifest.subs \ Children
    /\ pc = [r \in Runs |-> "idle"]
    /\ replaying = [r \in Runs |-> FALSE]
    /\ exclude = [r \in Runs |-> FALSE]
    /\ scope   = [r \in Runs |-> {}]
    /\ ids     = [r \in Runs |-> {}]
    /\ subs    = [r \in Runs |-> {}]
    /\ source  = [r \in Runs |-> "agentsview"]
    /\ parents = [r \in Runs |-> {}]
    /\ kept    = [r \in Runs |-> {}]
    /\ census  = [r \in Runs |-> {}]
    /\ pinned  = [r \in Runs |-> {}]

RunStep(r) ==
    \/ Plan(r) \/ ProbePass(r) \/ TakeCensus(r) \/ EndListing(r)
    \/ OpenManifest(r) \/ WriteManifest(r) \/ ReadManifest(r)
    \/ ProbeParents(r) \/ Restamp(r) \/ Filter(r) \/ Stop(r)
    \/ \E part \in SUBSET Sessions : ListPage(r, part) \/ ScanRaw(r, part)

Next ==
    \/ \E r \in Runs : RunStep(r)
    \/ \E s \in Sessions : SessionAppears(s) \/ SessionPruned(s)

Spec == Init /\ [][Next]_vars

-----------------------------------------------------------------------------
Pcs == {"idle", "read", "discover", "census", "list", "open", "write", "probe", "restamp", "filter",
        "exit0", "exit1"}

\* Every variable stays in its domain; stamps are stamps of refs the run holds.
TypeOK ==
    /\ live \subseteq seen /\ seen \subseteq Sessions /\ late \subseteq seen
    /\ manifest.state \in {"absent", "torn", "whole"}
    /\ manifest.population \in Populations /\ manifest.src \in Sources
    /\ manifest.subs \subseteq manifest.ids /\ manifest.ids \subseteq Sessions
    /\ manifest.census \subseteq SUBSET Sessions
    /\ pc \in [Runs -> Pcs]
    /\ replaying \in [Runs -> BOOLEAN] /\ exclude \in [Runs -> BOOLEAN]
    /\ scope \in [Runs -> SUBSET Sessions] /\ ids \in [Runs -> SUBSET Sessions]
    /\ subs \in [Runs -> SUBSET Sessions] /\ parents \in [Runs -> SUBSET Sessions]
    /\ kept \in [Runs -> SUBSET Sessions] /\ pinned \in [Runs -> SUBSET Sessions]
    /\ census \in [Runs -> SUBSET (SUBSET Sessions)] /\ source \in [Runs -> Sources]
    /\ \A r \in Runs : pc[r] \in {"open", "write"} => subs[r] \subseteq ids[r]

Succeeded == {r \in Runs : pc[r] = "exit0"}

\* One corpus: every run that succeeds under one manifest answered from the
\* same pinned refs, whatever the archive did meanwhile (TB-22, S37).
OneCorpus == \A q, r \in Succeeded : pinned[q] = pinned[r]

\* A freeze run that exits 0 selected at least one session: none of the three
\* doors to a silent empty answer is open.
NoSilentEmpty == \A r \in Succeeded : ids[r] # {}

\* A subagent that `--exclude-subagents` lets through, because a manifest from
\* before children were recognised stamps it wrongly, is always among the refs
\* the report discloses as not refreshed (TB-29, TB-31).
WrongStampIsDisclosed ==
    \A r \in Succeeded : exclude[r] =>
        \A s \in ids[r] : s \in Children => s \in kept[r]

\* The reverse: a parent is never dropped as a subagent because the live
\* listing of a replay no longer shows it (replay.py:61).  One that arrived
\* between the parent probe and the listing of the discovery that pinned it may
\* be: it was in the one and not in the other, and was pinned as a child.
ParentsSurvive ==
    \A r \in Succeeded : pinned[r] \ (Children \cup late) \subseteq ids[r]

\* The sample and its denominator, live or historical, are of one population:
\* a report divides by a census that counted every session of its sample, but
\* those that arrived once the discovery had begun (report.py:56 prints "5 of
\* 2" then), and no subagent when it excludes them.
SampleFitsCensus ==
    \A r \in Succeeded : \A counted \in census[r] :
        /\ ids[r] \subseteq counted \cup late
        /\ exclude[r] => counted \cap Children = {}

\* What a report of frozen refs says of itself is true: its stamps, or a warning
\* about them, and its denominator, whatever the filters of the run that pinned
\* the refs and of the run that replays them.
ReplayIsHonest == WrongStampIsDisclosed /\ SampleFitsCensus

\* A manifest, once whole, is never written again.
WriteOnce == [][manifest.state = "whole" => UNCHANGED manifest]_vars

\* Why serial runs share one corpus (inductive, FreezeReplay_proofs): only the
\* active run can have the manifest torn, and whoever is past its read or its
\* write holds what the whole manifest pins.
OnePinner ==
    /\ \A q, r \in Runs : Active(q) /\ Active(r) => q = r
    /\ \A r \in Runs :
           /\ pc[r] \in {"discover", "census", "list", "open"} => manifest.state = "absent"
           /\ pc[r] = "write" => manifest.state = "torn"
           /\ pc[r] \in {"probe", "restamp", "filter", "exit0"} =>
                  manifest.state = "whole" /\ pinned[r] = manifest.ids

\* Why no run answers from nothing, serial or not: a run that is not replaying
\* has passed the write-side guard, with the stamps its scan will filter by.
GuardPassed ==
    \A r \in Runs :
        /\ pc[r] \in {"read", "probe", "restamp"} => replaying[r]
        /\ (pc[r] \in {"open", "write"} \/ (pc[r] = "filter" /\ ~replaying[r])) =>
               Effective(r, ids[r], subs[r]) # {}

-----------------------------------------------------------------------------
(* The promise, as an abstract specification.                              *)
Promise == INSTANCE PinnedCorpus WITH
    corpus <- IF manifest.state = "whole" THEN {manifest.ids} ELSE {},
    answer <- [r \in Runs |-> IF pc[r] = "exit0" THEN {pinned[r]} ELSE {}]

\* Serial runs of `--freeze P` implement the promise: the corpus is pinned
\* once, and each run that exits 0 answers from it (freeze.py:5).
PromiseKept == Promise!Spec
=============================================================================
