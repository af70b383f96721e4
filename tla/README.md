# toolbench in TLA+

`toolbench` (src/src/toolbench, about 9,000 lines of Python) reads the transcripts
that coding agents leave behind and reports what their tools cost, runs benchmark
trials in git worktrees, and inventories those worktrees. Beside it, src/tools holds a
monitor of tool contracts with an MCP proxy (and three analysers). Nothing of toolbench is a server:
each command is one process. What makes it hard is what happens around the process:

- a daemon (`agentsview`) that fails at any call, and an archive that gains and loses
  sessions between two calls;
- transcripts that a live agent still appends to, that repeat, reorder and cut off
  records;
- files on disk (a frozen manifest, a dependency cache and its stamp, a trial tree) that
  outlive a run that was stopped half-way;
- another process that writes the SQLite archive, or works in the clone, meanwhile;
- a tracing SDK that must never decide what a command does;
- a report whose every sentence rests on signals observed at different times;
- clients that share one contract monitor and interleave between its locks.

Paths below are relative to src/src/toolbench unless they begin with src/.

## Inventory

| Component (code) | State it keeps | Operations | Meets | Hard because | What must hold |
|---|---|---|---|---|---|
| Discovery and census (sources.py, passive.py `_discover_refs`, `_collect_refs`) | the cursor, the refs taken, the skips, the parents of the probe, the census | health probe, parent probe, totals, full listing by pages, raw walk, limit probe, final diagnostics | agentsview; the raw root; the scan | every call can fail; the archive moves; the source may change half-way | one named source; census and sample of one population; an empty sample explained; a truthful truncation flag |
| Corpus freeze and replay (freeze.py, replay.py, passive.py `_plan_freeze`) | the manifest on disk | choose, discover, write once, replay, re-stamp subagents, filter | discovery; the file system | torn writes, stale stamps, a pruned archive | one corpus for all runs; never an answer from nothing; no parent dropped |
| Dependency cache and trials (complex_runner.py `ensure_deps`, `provision_worktree`, `run_trial`) | cached dep trees, the stamp, the trial tree and its links | compare, wipe, build, stamp, warm up, export, patch, link, commit, launch | npm/pip; git; the packaged manifest; the agent | a crash between any two steps; a manifest that moves; a retry over what a failure left | a stamp vouches for whole trees of its pin; a trial runs on the deps of its pin in a hermetic tree |
| Complex scoring and shell safety (complex.py `score_trial`, shell_safety.py) | one trial's transcript and verdict | grant, audit the calls, find the claim, split the cost, void | the trial | the only evidence is the transcript | `fixed` is the agent's work; the halves make up the whole; a trial that counts kept to its arm |
| Transcript parsers (parsers.py, transcript.py) | pending calls, charged responses, buckets, turns | one record at a time, end of file | adapters; the reducer; probe | repeated, keyless and reordered records | every call once; usage once, and split exactly |
| Schema detection (adapters.py, registry.py) | the sniffed lines | sniff, decide, replay | the loaders, the parsers | a stream that ends or raises anywhere | bounded sniff; every line parsed once |
| Reducer and run attribution (reducer.py, run_manifest.py) | corpus tables, run books | absorb one parse result, skip a session | the parsers; the report | subtraction of buckets; nested worktrees; loads that fail half-way | every token has one home; the tables agree |
| Worktree inventory (worktrees.py) | the stanzas, verdicts and ages of one run | list, status, contains, owner, age, report, hook | git; whoever works in the clone | a verdict is put together from four calls | SAFE was true; only measured trees are named |
| Tracing (tracing.py, observability/setup_tracing.py) | the cached readiness, two locks, argv and SDK variables | setup, span, two reports, close, flush | every command | threads; failures and interrupts at each SDK call | the operation runs once and decides the outcome |
| Hermes archive (hermes.py) | one connection | look the session up, open, three SELECTs, join | hermes, which owns the database | WAL frames, builds of SQLite, locks | committed calls are reported and joined; one archive never aborts the scan |
| Report (report.py, passive.py `main`) | none of its own | scan, tally, notes, Summary, the lookup of an empty answer | discovery, reducer, agentsview | census, sample, limit probe and skips come from different calls | each gap, spread, zero row and empty answer is blamed on its cause |
| Probe (probe.py) | none that outlives a call | refuse a trace, choose each arm's call, price it, seed what is absent | the claude parser | billing is per response, a response is several entries | only a call alone in its response is priced; only an absent arm is seeded |
| Contract monitor and MCP proxy (src/tools/monitor.py, mcp.py) | the trace, the verifier's grounded events | check, attach an output, tag, undo, reset, import | clients on several threads or tasks | the proxy attaches and resets without the lock, in the middle of others' checks; a check and its rollback are two holds; a refused call is tried again | the verifier judges by the trace as it is; every call counts once; no call slips past a contract |
| Complexity gate, CLI dispatch, analysers (src/tools/code_analysis.py, llm_extraction.py, regex_check.py) | none | pure functions; argument dispatch | - | - | not modelled |

The flow of a report is Discovery -> (Freeze/Replay) -> for each ref the adapter
(Detect -> Claude/Codex parser, or Hermes) -> Reducer -> Report. Four modules compose
others, so that what a part is fed is what another part really produces:

- `Report` extends `Discovery`: every sentence of the report is checked over the census,
  sample, truncation flag and skips that a discovery can leave, and no others;
- `TranscriptIntake` extends `DetectParser` and `Probe` and instantiates `ClaudeParse`
  and `CodexParse` over the lines that the sniff replays: the parsers' properties are
  stated of the stream, not of what the parser happened to see;
- `Trial` extends `DepsCache`: the trial tree, the agent, the oracle and the score over
  the cache as it is when each of them looks;
- `Reducer` extends `ClaudeParse` and feeds it whole transcripts, so its buckets are the
  parser's own.

`PendingCalls` is shared by the parsers as the code shares the pending dict.

## Modules

| Module | Models | State and actions |
|---|---|---|
| Discovery | `_discover_refs` driving `iter_sessions` | one action per call that leaves the process (health probe, parent page, totals, page, raw walk, stat), with the handlers it triggers; `EnvStep` is the archive and the raw root changing between calls |
| Report | `passive.main` after discovery, report.py | `Scans` gives each sampled ref an outcome (a ref without calls is one); `RendersReport` and `EmptyWithoutCheck` end the run; an empty answer for a named agent begins a lookup (`BeginCheck`) that reads page after page (`CheckPage`), may fail at each (`CheckFails`), and finds the archive moved in between (`ArchiveMoves`); cells, notes and Summary lines are operators over the state they leave |
| PinnedCorpus | what `--freeze` promises (abstract) | a corpus that is pinned at most once, and answers from it |
| FreezeReplay | `passive --freeze P`, several runs on one file | `Plan`; a discovery in its order, `ProbePass` (the parents), `TakeCensus`, `ListPage` for each page, `EndListing`, or `ScanRaw` from any of them; `OpenManifest` (the file is created or truncated), `WriteManifest`, `ReadManifest`, `ProbeParents`, `Restamp`, `Filter`, `Stop` at any step |
| DepsCache | `ensure_deps`, then the links of `provision_worktree` | wipe, build and stamp are each a start and an end, so a stop may fall between them; `Repin` moves the packaged manifest |
| Trial | `provision_worktree`, `run_trial`, `score_trial`, `arm_violations`, `read_escapes` | `ProvisionStarts` (refuses a tree that holds files), `ExportTree`, `ApplyFixture`, `LinkDep`, `CommitTree`, `Launch`, then the agent (`CallsTool`, `Claims`, `Repairs`) and `ScoreTrial`; `Stops` anywhere, `FreshDest` is the caller removing a tree |
| PendingCalls | the dict of calls that await a result | `Put`, `Join`, `Drained` |
| ClaudeParse | `ClaudeParser.parse` | one action per record, `EndOfFile`; `trackTurns` is the `track_turns` argument |
| CodexParse | `CodexParser.parse` | one action per kind of record |
| DetectParser | `detect_parser` and `ComposedAdapter.parse` | the sniff and the replay, line by line |
| Probe | `find_probe_calls`, `build_comparison_table` | operators: arms, isolable turns, cells |
| TranscriptIntake | a file on its way through detection, parsing and (if a probe reads it) scoring | `SniffLine`, `ReplayLine`, `ReadLine`, the end or the failure of the stream, the probe's report or refusal; a line that is given is one turn of the chosen parser's loop |
| Reducer | `_scan_refs`, `Reducer.absorb` | `ParseStep` (a step of ClaudeParse), `Absorb`, `SkipSession` |
| Worktrees | `inventory`, `_hook` | one action per git call and per tree; `CloneChanges` is the clone moving on: commits, edits, locks, merges, pushes with and without `-u`, an unset upstream, fetches and prunes of the tree's own remote ref or of any other that holds its head |
| Tracing | `run_traced`, `setup_tracing` | one action per SDK call, lock and run of the operation, per thread |
| Hermes | `HermesAdapter` over the profile databases | one action per SQLite call; hermes starts, commits, checkpoints, stops and is killed |
| Monitor | `RuntimeMonitor`, `MCPContractProxy`, `scan_mcp_tools` | a check holds the lock over several steps: its event is appended (`CallTool`, `TagOutput`, `GuardBefore`, `FilterTools`), the sync loop grounds one event a turn (`GroundNext`), the contracts are judged one by one (`Judge`), and it ends (`CallChecked`, `OutputTagged`, `GuardChecked`, `ToolFiltered`, `CheckRaises`); the other holds are one step (`Rollback`, `Reset`, `ImportTrace`); the proxy's write and reset, which take no lock, are two (`AttachOutput`, `Reground`) and may fall between any two of these |
| Report_proofs (of Discovery and Report), Trial_proofs (of DepsCache and Trial), FreezeReplay_proofs, TranscriptIntake_proofs (of DetectParser, the parsers, the intake and Reducer), Worktrees_proofs, Hermes_proofs, Tracing_proofs, Monitor_proofs | - | the theorems |
| MC... | - | the small instances |

PROJECT.json maps every definition to its lines. A constant or variable that bounds
the model is commented `bound`, one that only records the past `history`; no guard
of the program reads a history variable.

What is abstracted: a session is its recency rank, a record carries the fields the
parser reads, an id or a path is an atom (worktree paths are sequences of components
where nesting matters), four token counts are two, and the wording of reports and
diagnostics is left out. A tool call of a trial is the tool, what its command is to the
arm's gate and where its path leads; a tool of the monitor is its name and what its
keywords say. Python asserts and uncaught exceptions are outcomes of their
own ("assertion", "exit1", `Fatal`), never disabled steps.

## Runs

| Run | Question | Instance and why it is enough |
|---|---|---|
| discovery (MCReport) | whatever fails and whatever changes, does a report answer from one source, describe what it answered, and blame what is missing on its cause? | four sessions of three agents, two of them children, one agent with nothing but a child (invisible to the parent probe); page size 2, limits 1, 2, 3 and none, so a page boundary, a limit at and inside a page and a third page all occur, in the listing and in the lookup of an agent's name; every session parsed, without calls, or lost to the export ceiling or to an unknown schema; a spread threshold of 2, which four sessions reach as an archive reaches 4; one change of the archive or root between any two calls, the pages of the lookup included |
| discovery_gone | can the lookup that annotates an empty report end the run? | violation, see Findings |
| deps_forward (MCTrial) | can a crash, a failed subprocess or a retry make the stamp lie, an agent run in another tree than its pin's, or a score count what the agent did not do? | four pins over two paths: both deps, one, both again, none; every kind of call the two audits tell apart (granted, banned, gated, chained, inside, outside, hidden, unreadable), two calls a trial: a property of the score is about one call and the claim beside it |
| deps_rollback | the same if the manifest may move back | violation, see Findings |
| freeze_serial | do runs that follow one another keep the promise of PinnedCorpus? | two runs (a writer and a reader, or two readers), three sessions with one child, one of them arriving at any moment and any of them pruned, so also between the parent probe, the census and each page; empty, child-only and older manifests with false stamps. A manifest with a census is written by the first run, so it holds what a discovery really takes |
| transcript_intake | does each line reach one parser once, each call and each token count once, and does the probe bill and seed truly? | a window of two over all streams of up to five lines, ending or failing anywhere: longer, equal and shorter than the window. Native lines: two responses written as several entries, keyless ones, a detached checkout with two directories, answers in either order, errors, ids used twice, before their answer and after, both arms of a probe and two calls that only talk about it; a keyless charge in the streams of the scan and a response's prose on a line of its own in those of the probe, each where it decides something. Rollout lines: two identities, three models, two calls. A property is about at most two records and an answer; the rest is what stands between |
| reduce_corpus | has every token one home and every call one row? | two sessions of up to three records over run branches, other branches, nested run worktrees, a directory that shares only a string prefix, failed loads and a date window |
| worktrees | is a verdict ever a mixture of two instants? | one tree in every state beside one that a call or a change turns into another verdict, every failing call, two changes of thirteen kinds anywhere between the calls. Modes `hook` and `hook-compact`: the table makes the same calls as the hook and differs in what it prints |
| tracing | does tracing ever decide anything? | two threads, two commands (so both the per-command lock and the shared SDK lock are contended), two calls each (the cached setup is reused) |
| hermes_live | is what was committed before the parse always reported? | two calls, two databases, the session in either or in none, three events of hermes: start, commit and checkpoint or kill. Two builds of SQLite |
| monitor | whatever two clients interleave, is the verifier current, every call counted once and every rule kept? | a destructive tool with its confirmation and cancellation, a financial one that sends, a lookup whose output holds personal data, so each of the four inferred patterns; by hand one contract with an assumption that fails and one that redirects; two clients (each hazard is about a step of another between two of one's own), three checks in a session (a call, another client's check that its reset falls into, and one that follows), any number of sessions |
| hermes_abort | does a locked archive abort the scan? | violation, see Findings |

`CHECK_DEADLOCK FALSE` stands where the program ends (a run exits, a transcript ends);
the other runs check for deadlock. Symmetry is used for runs and for agents, whose
names no definition looks at, and for no run with a liveness property.

Each property of a run has a mutant: a changed definition (`MutantX` before `X`) of the kind a
plausible bug would be, under which TLC finds the property violated in the same run.

Every module has a type invariant. Those of Discovery, Report, DepsCache, Trial, FreezeReplay,
Tracing, DetectParser, Worktrees, Hermes and Monitor are proved (`TypeCorrect`,
`ReportTypeCorrect`, `TrialTypeCorrect`). The runs spend their properties on
behaviour; the other `TypeOK`s document the domains and are what proofs would start from.
A few properties have named parts that are not listed alone: `EmptyReportIsTruthful`
(`EmptySampleIsExplained`), `ReplayIsHonest` (`WrongStampIsDisclosed`, `SampleFitsCensus`),
`BooksBalance` (`EveryTokenHasItsHome`, `TablesAgree`), `ChargedOnce` of the intake
(`BucketsPartition`).

### Fairness

Only Tracing states any: weak fairness of each thread's next step, that is, every SDK
call and every operation returns and a thread that can take a free lock takes it. The
code holds each lock by `with` around calls of that kind only. `EveryCallEnds` needs
nothing stronger: a thread waits for a lock at most as long as the finite setups of the
others, whose number `MaxCalls` bounds. No liveness is stated of the other modules: their commands wait for
subprocesses that have a timeout or for nothing, or (agentsview pagination) have no
bound in the code at all, which is listed as a hazard.

## Findings

1. **deps_rollback** (complex_runner.py:395). The wipe removes the dep trees first and
   the stamp last. With pin A stamped, a call for pin B that stops in its wipe leaves
   A's stamp over what it has not removed yet; when the manifest is back at A, the stamp
   matches, and a partial tree, since it exists, is taken for built. (A stop in the build does no harm: the stamp is
   unlinked before it, complex_runner.py:405.)
2. **hermes_abort** (passive.py:815). `sqlite3.OperationalError` is none of the
   exceptions that the scan treats as a failure of one session, so a locked database
   ends the scan with a traceback, while test_hermes.py:418 says that an unreadable
   hermes archive never aborts the run.

3. **discovery_gone** (passive.py:899). The lookup of an empty selection's agent name
   catches RuntimeError and ValueError; an agentsview that is not there raises
   FileNotFoundError. An agentsview that answers the health probe and is gone
   at the parent probe is a `missing_source` skip to the discovery, which then makes no listing; the
   lookup asks the same missing agentsview, and the empty report is a traceback, while the docstring
   (passive.py:885) says that a failed lookup never takes the report down.

### Also seen, and kept out of the properties

These were met while modelling. The model contains the behaviour, and the properties
are stated so that they name it as an exception or do not speak of it.

- passive.py:481: a daemon that breaks in the middle of a listing, and a missing raw
  root, end a run under `auto` fatally; the rescan is inside the handler.
- sources.py:592 and :644: the parents are asked for first, the census next and the pages of
  the listing last. A parent that arrives in between is stamped `is_subagent`, pinned so, and dropped by a
  replay that excludes subagents, and a session that arrives after the census is sampled and not counted
  ("5 of 2", which report.py:56 and :140 expect). FreezeReplay collects these sessions in `late`, which
  `ParentsSurvive` and `SampleFitsCensus` except.
- parsers.py:630: a call_id that is used again before its output came replaces the waiting
  call, which is neither kept nor counted, while the docstring of `parse` speaks of calls kept
  rather than dropped; the exception `Superseded` of `EveryCallIsAccountedFor`. (The claude
  parser does the same at :423; `EveryUseIsOneCall` says which use is lost.)
- passive.py:977: under `auto`, a failed probe and a missing raw root print a root
  nobody walked.
- complex_runner.py:612: a pin bump between `ensure_deps` and `provision_worktree`
  archives the new pin over the old trees. (`TrialDepsSound` and the first part of `ScoreIsEarned` are about trials archived
  at the ensured pin.)
- freeze.py:153: two concurrent runs that both find no manifest both write one.
  (`Serial = TRUE` in the run and in the theorems that need it.)
- reducer.py:269: transcript.py:140 says that no manifest can list HEAD, and EVALUATION.md:104 that
  detached usage is never folded into the run total (TB-28). read_run_manifest lets HEAD pass as a branch
  (run_manifest.py:109); a detached record outside every run worktree is then in the run total and
  on the detached line, and one inside a run worktree twice in the run total. `EveryTokenHasItsHome` says so, and gives every
  token one home for a manifest without HEAD.
- report.py:97: the docstring says that a ref which parses to zero calls produces neither a
  reducer session nor a skip record; `Reducer.absorb` counts every result it is given (reducer.py:160, 168).
  `EverySessionIsReported` says that such a ref is in its agent's row. The formula which
  the docstring argues for, total minus sampled, is right all the same.
- worktrees.py:310 and :412: a `rev-parse` that fails reads as an upstream that is gone
  (`misread` of `SafeWasTrueOnce`), and four calls on a clone that moves can yield a SAFE that was
  true at no instant (`raced`): after a commit to the tree; after a remote upstream is
  recorded once `for-each-ref` has listed the upstreams (`git push -u` of a head that nothing else
  holds: contained by the time of `--contains`, and backed from that very instant); and
  after an obstacle goes while one that was asked about earlier has come to stand (a ref takes in a head whose
  tree was edited or locked meanwhile; an upstream is pruned and nothing else holds the head).
- worktrees.py:352: the admin `gitdir` file dates from the creation of the tree, not
  from the last work in it; the model's age is that of the creation.
- tracing.py:131: an interrupt in a span that then fails to close is swallowed: the
  history `dropped` of `InterruptsAreKept`.
- report.py:827-834: a record that a broken discovery left has no session, and the report
  counts it with its agent's sessions (`SkipsAreSessions` in the properties that add up).
- report.py:435: the fingerprint folds the counts of calls, malformed and unjoinable
  records; a result that is appended for a waiting call moves token columns and the
  error and no-result counts, and not the fingerprint (listed as a hazard, not run).
- src/tools/mcp.py:149 with monitor.py:631: a call that the proxy refuses stays in the trace (only a
  guard takes its event back), so the rule is broken on the prefix from then on, and the same call
  made again at once is "stale", passes and is run, although call_tool's docstring (mcp.py:119)
  says that a violating call is not executed and rollback_last_event's (monitor.py:293) that after a
  block "the trace must look as if it never happened". `AdmittedCallsKeepTheRules` therefore
  says of a call that it does not *break* a rule: one that was broken before it, by a refused call or a slipped
  one, is outside its reach.
- src/tools/mcp.py:184: the comment on the lock (monitor.py:171-174) says that at most one thread
  runs a check or a reset at a time, and the proxy resets the verifier without the lock. The reset falls inside another
  client's check: into its sync loop, which starts again or goes on from its cursor over a verifier
  that has lost the first events (`shifted`, until the next reset), or between two contracts (`torn`). That check
  judges by less than the trace, and may let a call through that breaks a rule. `GroundedIsCurrent` excepts what is `shifted`
  and `AdmittedCallsKeepTheRules` the calls let through by a check so disturbed ("slipped" in
  `outcome`); a reset that falls between two checks is no exception.
- src/tools/monitor.py:313: a rollback pops the last event, which may be another client's;
  the mark `spoiled` of `EveryCallIsCountedOnce`.
- src/tools/monitor.py:174-176 says that callbacks fire outside the lock; they fire inside it,
  and one that raises leaves its event in the trace (`CheckRaises`).
- hermes.py:91: frames committed after the test for `-wal` may be missed;
  `SettledCallsAreJoined` is about what was committed before the parse.

## Proofs

Every theorem holds for all values of the constants that satisfy the named ASSUMEs.

**Report_proofs** (any sessions, agents, command lines, archives, page size and number of changes).
`SourceIsNamed` holds whatever fails and whatever changes, from `SourceInv`: which source is being
drained, and what the skips and the fallback say of how it came to that. The rest speaks of
an archive that holds still (`churn = 0` in the properties) and
rests on more conjuncts of one inductive invariant, `ReportInv`:
`SampleInv` says that the rows taken and the rows served are together the listing down to the
cursor, newest first, and that the parents known are those down to the cursor of the probe
(`SampleIsNewestFirst`); `CensusInv` that the totals are counts over the population,
and that once the listing is drained the sample is all of it (`CensusDescribesSample`);
`PeekInv` that the limit probe's answer is true of what the sample left out; and `ScanInv` that
the table and the skip records are two halves of the sample. One conjunct holds over a moving archive: `LookupInv`,
that a session which was there since the lookup began and is not below its position has its agent among
those seen, and that an agent seen is that of some session there was. `ReportDiscovers` carries what holds of a
discovery to the report on it, and the five theorems about the report then need
no further induction: `GapsAreBlamedRightly`, `SpreadHasItsCauses`, `ZeroRowsAreTold`, `SessionsAreReported`,
`EmptyReportsAreTrue`. TLC confirmed `ReportInv` on the instance of the run discovery before it was proved.
Two groups of lemmas carry the weight. A finite set of ranks has a newest and an oldest
(`NewestExists`, from the well-founded order of finite sets), so a page that is not the last
is full and the next cursor is below it (`PageIs`, `PageGoesDown`). And the sum over the table of the census is
the number of sessions counted in it (`SumOfCounts`), so the residual is a number of
sessions (`ResidualIs`) and one that is not reached is one that was lost (`LossIsCounted`).
The proof of `SpreadIsExplained` corrected the property: it used to say that the note names
the limit only if a session of an agent *in the census* was left out. With more agents than the
instance has, the session beyond the limit may be one of an agent the parent probe cannot
see; report.py then rightly names the limit. The property now speaks of any agent.

**Tracing_proofs** (any threads, commands and number of calls).
`TypeCorrect` needs `TypeInv`: a thread past "idle" calls one of the commands and a
setup about to restore has come to something, else `Restore` would fall out of its
CASE. `NeverRunTwice` and `TracingDecidesNothing` follow from `CallInv`, which says per
step of a call what has happened before it: nothing ran before the step that runs the
operation, `started` holds exactly inside the span (this is what sends the handler of
_run_sync to "flush" and not to a second run), and any step that lost its way
has an interrupt on record. `InterruptsEndTheCall` follows from `InterruptInv`: an
interrupt on record is being delivered, or on its way out of the span (`leaving`), or was
dropped by a span that failed to close. A step of one thread leaves all others alone, so
each proof is one frame step and one step per action. `ReadyOnce` follows from `SetupInv`
(the thread in a setup holds its command's lock; `readied` is `on`, or is about to be put
there) and `EnvironmentComesBack` from `EnvInv` (whoever is between sanitize and restore
holds the SDK lock and keeps the operator's values).

**Trial_proofs** (any pins, paths, manifests, tools, arms and calls). Of DepsCache, with `Rollback = FALSE`:
`CacheInv` is the inductive invariant, confirmed by TLC before it was proved: pins in order (stamp <= want <= pin);
nothing of an old pin survives where the wipe has been; the build loop leaves each dep it
has handled whole; a stamp equal to the wanted pin vouches for all of them; and so does
having left the build loop. With
it: `CacheInvariant`, `StampSound`, `EnsuredSound`, `TrialSound`, and the action property `CacheKept`.
Without `~Rollback` the invariant is false: run deps_rollback. `TypeCorrect` needs no
such assumption. Of Trial:
`TrialImplementsCache`: every step of a trial is a step of DepsCache or a stutter, so what is
proved of the cache holds under trials (`TrialDepsAreWhole`, with `~Rollback`).
`TreeIsHermetic` needs no such assumption: `HermeticInv` says what `dest` holds while it is
provisioned - nothing or the archived pin, then the prompt and the links that the loop has
handled - and rests on the refusal of a tree that holds files. `TrialTypeCorrect` types the
transcript, the arm and the score on top of it (`TrialTypeInv`). `ScoresAreEarned` then is a
lemma per part: `AuditIsComplete` (a call that neither audit objects to is one that the arm
grants) and `ScoreStep` (the halves of the cost make up the whole; the oracle runs on deps
that are whole, so it tells a repair from none). Only the part about `fixed` needs `~Rollback`.

**FreezeReplay_proofs** (any sessions, runs, scopes and manifests).
`TypeCorrect` and `NeverSilentlyEmpty` hold for concurrent runs too. So do `HonestReplay` and
`PinnedParentsSurvive`, from `HonestInv`: apart from sessions in `late`, a manifest stamps only children, and if its
census says what it counted, that census counted every pinned ref of its population; it pins only what
the archive held at some time. Within a discovery (`RunHonest`), every session listed or still live is a child, a parent the probe showed,
or late, and counted or late; each run carries such data from the step that read them to its report. That
two writers may overlap (see above) does no harm to either property: each writes a manifest
that is honest by itself. With `Serial`: `OnePinnerInvariant` (at most one run is past its
choice to discover), from which `SerialOneCorpus`, `SerialWriteOnce`, and `SerialPromise`,
the refinement of PinnedCorpus.

**TranscriptIntake_proofs** (any lines, window, streams and length of stream).
About DetectParser: `EveryLineOnce` from `StreamIsKept`: what was given followed by what is
buffered is the stream at any time, nothing is given before the sniff has ended, and the count
of malformed lines is the number of garbage lines given. Two lemmas about sequences (moving
the head of the buffer to the end of what was given) and cardinalities carry it. About
TranscriptIntake: `IntakeReadsAStream` shows each of its steps to be one of DetectParser's or a
stutter, so both hold of it (`IntakeReadsEveryLineOnce`). For a rollout, `IdentityIsOne`,
`ModelIsTheTurns` and `CallsAreAccountedFor` follow from one invariant, `RolloutInv`, of
the codex parser over the records it has been given: the identity is the first one they give
and the model the last; each call stands where its record was, with what was in force there;
it waits exactly as long as no output with its id has come; no call is lost; and calls, waiting
calls and web searches count up to the real calls among the records. The last step of
each proof carries this from what was given to what was pulled: a prefix decides what
is in force, and at the end of the stream the two are equal. Ids may be used again: a call whose id comes again while it waits is
lost from the dict, and `RolloutInv` counts the others. For a claude stream one invariant,
`ClaudeInv`, has three parts over the records given. `UsageInv`: the keys charged are those of the records
with usage, and the total and every bucket are the sums over the copies that a reader of
all of them would charge; from it `TokensAreChargedOnce`, by lemmas about the sum that
MapThenSumSet iterates (it does not depend on the order in which it takes its arguments out, and the
sums of the classes of a partition add up). `CallsHeld`: the waiting and the joined calls are
those of distinct uses, a waiting one not answered and not used again, a joined one answered
before any use of its id that follows, and every other use replaced; a record is a left fold over its
uses, then over its results, and the lemmas about folds give the states between. From it
`UsesAreCalls`, the calls being as many as the kept uses by a bijection. `TurnsInv`: a turn has at
least the uses of any two of its records together and spoke if one did, so that a turn of one use
and no prose is one record: `PricedArmsAreAlone`. `SeededArmsAreAbsent` follows from `CallsHeld`, from
`TurnsInv` (every call of a probed session has a turn, so that none is dropped) and from what
two sentinels of one probe being different implies for a call that names exactly one.

The same module goes on to the Reducer (`Corpus == INSTANCE Reducer`, any corpus, agents, run manifest,
date window and bounds), because it needs both `UsageInv` and `CallsHeld`. `CorpusInv` is the inductive
invariant, in five parts. `SessionInv`: the transcript being parsed has what the claude parser keeps.
`Logs` types the history of the sessions. `HomesInv`: the books of the run are the
sums, over every absorbed session, of what its first copies with that home spent, the run's own being one sum over
its branches and one over its worktrees, which are disjoint unless HEAD is among the branches. A step needs what one session books
(`RunShares`): the branch and cwd buckets over any set of branches or directories are sums over a
part of its copies (`BooksOver`), those parts are disjoint (`HomesAre`), so the
remainder that `_minus` leaves is the tokens of the other detached checkouts and never negative, and a
session is a candidate exactly if a copy of it stands on the run (`CandidateIs`).
`TablesInv`: each column of an agent is the sum of that column over its tools, as counting
calls by name loses none (`CountedByName`). `ChurnInv`: churn and the number of spoiled sessions together are at most the
bad calls; a session adds fewer retries than it has bad calls, since its first bad call is none
(`RetriesAre`), and has as many bad calls as there are places of one (a bijection, the calls being distinct).
From it `BooksAreBalanced` (`Corpus!BooksBalance`) and `ChurnIsLocal` (`Corpus!ChurnStaysInItsSession`). Neither has a hypothesis on the run manifest: with HEAD among its branches the books
are what `EveryTokenHasItsHome` says of two homes (see above).

**Worktrees_proofs** (any trees, clones, modes and number of changes).
`OnlyMeasuredTreesNamed` from `FlowInv`: what each step of the command has filled in so
far, and that at most one tree is under judgement. `SafeIsNoMixture` from `SafeInv`: a listed tree that
was never safe so far has an obstacle which the listing printed, which a later call will still ask about, or which its
verdict names (`Reason`), unless a change of one of the named kinds (`raced`) or a misread
call excuses it. The clone's steps and the command's are separate lemmas. `QuietRunIsExact`
from `QuietInv`: with no change, what was read is what is there, so that the verdict is equivalent to
`TrulySafe` and the age to the tree's own.

**Hermes_proofs** (any profiles, calls, events and builds of SQLite).
`ArchiveInv`: nothing committed goes away, and what the database file lacks is in a -wal
that is there. `ReaderInv`: a connection is immutable only on a file that holds all that was
committed before the parse. From both `SettledCallsAreRead` (`SettledInv`: what was
answered before is read by the first SELECT, what was asked by the second).
`RestingArchiveIsRead` needs in addition that the lookup leaves no database out (`Searched`) and
that a probe fails only where there is no -wal (`AtRest`).

**Monitor_proofs** (any tools, contracts, clients, imports and number of checks).
`GroundedStaysCurrent` needs `CursorInv`: a sync loop continues where the verifier left off, unless a reset
fell into it; a turn of the loop then grounds the next event of the trace, and a step that changes an
earlier event leaves a client at "written" or resets the verifier. `CallsAreCountedOnce` needs
`NumberInv` (checks are numbered as they come, and the event of the one under way is the last) and `CountInv`:
while nothing is `spoiled`, at most one call awaits its check or is to be taken back, its event is the last one and not counted,
and every other call of the trace is counted; a proxy's clients never take back and a guard's
never wait (`OneKindOfUser`). Both hold whatever the patterns mean. `RulesAreKept` does not:
`GroundedAgrees` says that what the verifier judges by differs from the trace in outputs alone, on
which no pattern depends (`HoldsOfAlike`); `JudgedInv` that a rule which the last event is the first to break has
stopped it, once judged and not disturbed; and a call stays a passed one only while the trace up to it
stays (`PassedStay`). An authored contract is one of the four patterns by assumption
(`MonitorAssumption`): `IsPattern` lists what `Holds` can judge.

The assumptions are those of the code: finitely many sessions and agents, a page of at least one row,
a sniff of at least one line, a clone whose states are typed (`ClonesAssumption`), arms and calls of known
tools (`CallsAssumption`), at least one profile (`HermesAssumption`), a manifest
that was absent or written before a census said what it counted
(`ManifestsAssumption`; one with such a census is written by a run of the model), records that are typed (`EntriesAssumption` and `LinesAssumption`: lists, and
counts that are not negative), a bash sentinel that is not the tool's (`ProbesAssumption`), a run manifest that names a branch and no worktree "/", which is what read_run_manifest refuses (`ManifestAssumption`). TLC evaluates each on the instance of its run.

Only model-checked: `EveryCallEnds`, which is liveness under fairness and out of the provers' reach.
Every other property of a run that passes is a theorem. The violations are TLC's: each
is a counterexample.

## Not modelled

- src/tools/code_analysis.py, llm_extraction.py and regex_check.py: scanners of source text,
  prompts and patterns. They keep no state between calls and have no order of steps to get
  wrong; a model would restate their regular expressions.
- complexity_gate.py: a measure over syntax trees. cli.py: argument dispatch (its one decision
  about tracing is in Tracing).
- complex_runner.py:187-334: the checks of the base path (owner, mode, symbolic links), functions
  of file metadata; in the model a refused path is a call that stops. complex.py:155-291 and
  547-714: loading of fixtures, medians and text.
- shell_safety.py's lexer: a call of a trial already says what its command is to the gate.
- Concurrent callers of `ensure_deps`: the code has no lock and states no rule for them, so
  there is nothing to check them against (listed as a hazard).
- A daemon that repeats a cursor: the listing loop has no bound, and the fault is the daemon's
  (listed as a hazard).
- Wording, percentiles, payload bytes, the corpus fingerprint, the monitor's event log and
  spans, contracts that need a language model to judge. The Monitor has one agent: what
  check_action skips for other agents is skipped in the model by leaving their contracts out.

Would come next: a composition of Discovery and FreezeReplay, in place of the summary of a
discovery that FreezeReplay has now; a composition of Reducer and Report, so that the table a report renders is one that was reduced.

## How to run

    tlc -workers 2 -config MCTracing.cfg MCTracing
    tlapm Tracing_proofs.tla
