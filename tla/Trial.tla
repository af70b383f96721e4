-------------------------------- MODULE Trial --------------------------------
(***************************************************************************)
(* One trial of the complex probe over the dependency cache: the tree that *)
(* provision_worktree builds in `dest`, the agent that run_trial launches  *)
(* in it, the oracle's verdict over the linked deps, and the score.  A     *)
(* provisioning may stop half-way and be tried again over what it left.    *)
(*                                                                         *)
(* A tool call is the tool, what its command is to the arm's gate and      *)
(* where its path argument leads; every call costs one token.              *)
(***************************************************************************)
EXTENDS DepsCache, FiniteSets, Sequences, SequencesExt

CONSTANTS
    SerenaTools, NativeTools,  \* complex.SERENA_TOOLS, complex.NATIVE_TOOLS
    AgentCalls,                \* the calls an agent may make
    MaxCalls                   \* bound on the calls of one trial

Baseline == {"Read", "TodoWrite"}
Banned   == {"Task", "Agent"}

\* Only Bash has a command, and TodoWrite takes no path.
ASSUME CallsAssumption ==
    /\ AgentCalls \subseteq [tool : STRING,
                             cmd  : {"none", "gate", "chained", "other", "unreadable"},
                             path : {"none", "inside", "outside", "hidden"}]
    /\ \A c \in AgentCalls : /\ c.tool # "Bash" => c.cmd = "none"
                             /\ c.tool = "TodoWrite" => c.path = "none"
ASSUME MaxCallsAssumption == MaxCalls \in Nat

VARIABLES
    dest,     \* the trial tree on disk
    arm,      \* the arm of the trial, once it is launched
    session,  \* the transcript: the calls, the first claim, the calls before it
    repaired, \* the agent has really undone the defect
    result    \* the TrialResult, once scored

trialVars == <<vars, dest, arm, session, repaired, result>>

-----------------------------------------------------------------------------
(* complex.build_arms and shell_safety.arm_violations                      *)

\* A full shell subsumes the gate; the other arms get Bash through it only.
Arms == [serena  |-> [tools |-> Baseline \cup SerenaTools, gate |-> TRUE, shell |-> FALSE],
         native  |-> [tools |-> Baseline \cup NativeTools, gate |-> TRUE, shell |-> FALSE],
         bash    |-> [tools |-> Baseline, gate |-> FALSE, shell |-> TRUE],
         control |-> [tools |-> Baseline \cup SerenaTools \cup NativeTools,
                      gate |-> TRUE, shell |-> TRUE]]
NoArm == [tools |-> {}, gate |-> FALSE, shell |-> FALSE]

Granted(a) == a.tools \cup (IF a.gate \/ a.shell THEN {"Bash"} ELSE {})

EscapesGate(c) == c.tool = "Bash" /\ c.cmd # "gate"

IsViolation(a, c) ==
    \/ c.tool \notin Granted(a) \/ c.tool \in Banned
    \/ a.gate /\ ~a.shell /\ EscapesGate(c)

\* The tools whose path argument is resolved, mutators included.
MutantAudited == Baseline \cup SerenaTools \cup {"Grep", "Glob"}
Audited == (Baseline \ {"TodoWrite"}) \cup SerenaTools \cup NativeTools

\* An unreadable command has no legible path, and what a command reads by
\* indirection cannot be seen.
IsReadEscape(c) ==
    /\ c.path = "outside"
    /\ IF c.tool = "Bash" THEN c.cmd # "unreadable" ELSE c.tool \in Audited

-----------------------------------------------------------------------------
(* provision_worktree: the tree around the links                           *)

EmptyDest == [pins |-> {}, prompt |-> FALSE, links |-> {}, committed |-> FALSE]

MutantDestIsFree == TRUE
DestIsFree == dest = EmptyDest

\* Refusing a tree that holds files is an exception: see Stops.
ProvisionStarts ==
    /\ Provision /\ DestIsFree
    /\ UNCHANGED <<dest, arm, session, repaired, result>>

Provisioning == pc = "link"

ExportTree ==
    /\ Provisioning /\ archived \notin dest.pins
    /\ dest' = [dest EXCEPT !.pins = @ \cup {archived}]
    /\ UNCHANGED <<vars, arm, session, repaired, result>>

\* The patch, then PROMPT.md.
ApplyFixture ==
    /\ Provisioning /\ archived \in dest.pins /\ ~dest.prompt
    /\ dest' = [dest EXCEPT !.prompt = TRUE]
    /\ UNCHANGED <<vars, arm, session, repaired, result>>

LinkDep(d) ==
    /\ Link(d) /\ dest.prompt /\ d \notin dest.links
    /\ dest' = [dest EXCEPT !.links = @ \cup {d}]
    /\ UNCHANGED <<arm, session, repaired, result>>

NoSession == [calls |-> <<>>, claim |-> "none", before |-> 0]
NoResult  == [scored |-> FALSE]

\* The one commit ends the provisioning.
CommitTree ==
    /\ TrialStarts /\ dest.prompt
    /\ dest' = [dest EXCEPT !.committed = TRUE]
    /\ UNCHANGED <<arm, session, repaired, result>>

\* run_trial: a tree with PROMPT.md in it gets the agent and the arm's tools.
Launch(name) ==
    /\ pc = "trial" /\ arm = NoArm
    /\ dest.prompt
    /\ arm' = Arms[name]
    /\ UNCHANGED <<vars, dest, session, repaired, result>>

-----------------------------------------------------------------------------
(* The agent                                                               *)

InTrial == arm # NoArm /\ ~result.scored

CallsTool(c) ==
    /\ InTrial /\ Len(session.calls) < MaxCalls
    /\ session' = [session EXCEPT !.calls = Append(@, c)]
    /\ UNCHANGED <<vars, dest, arm, repaired, result>>

\* find_located takes the first legible claim.  The calls of the claim's own
\* instant are not before it, and none is before a claim without a timestamp.
Claims(claim) ==
    /\ InTrial /\ session.claim = "none"
    /\ \E n \in {0, Len(session.calls) - 1, Len(session.calls)} \cap Nat :
           session' = [session EXCEPT !.claim = claim, !.before = n]
    /\ UNCHANGED <<vars, dest, arm, repaired, result>>

Repairs ==
    /\ InTrial /\ ~repaired
    /\ repaired' = TRUE
    /\ UNCHANGED <<vars, dest, arm, session, result>>

-----------------------------------------------------------------------------
(* The verdict and the score                                               *)

\* The oracle follows the links into the cache as it is now.
DepsWork == \A d \in dest.links : tree[d] = Whole(archived)
Verdict  == repaired /\ DepsWork

Located == session.claim = "right"
Undefined == -1

\* The cost of a trial that did not locate is not split.
Navigation == session.before
Edit == Len(session.calls) - session.before

IsVoid ==
    \E i \in DOMAIN session.calls :
        IsViolation(arm, session.calls[i]) \/ IsReadEscape(session.calls[i])

ScoreTrial ==
    /\ InTrial
    /\ result' = [scored |-> TRUE, located |-> Located, fixed |-> Verdict, void |-> IsVoid,
                  n1 |-> IF Located THEN Navigation ELSE Undefined,
                  n2 |-> IF Located THEN Edit ELSE Undefined,
                  total |-> Len(session.calls)]
    /\ UNCHANGED <<vars, dest, arm, session, repaired>>

-----------------------------------------------------------------------------
\* A call that raised or died, or a trial that is over.
Stops ==
    /\ Abandon
    /\ result' = NoResult
    /\ session' = NoSession
    /\ repaired' = FALSE
    /\ arm' = NoArm
    /\ UNCHANGED dest

\* The caller removes the tree, or takes a fresh one for the next trial.
FreshDest ==
    /\ pc = "idle" /\ dest # EmptyDest
    /\ dest' = EmptyDest
    /\ UNCHANGED <<vars, arm, session, repaired, result>>

TrialInit ==
    /\ Init
    /\ dest = EmptyDest
    /\ arm = NoArm
    /\ session = NoSession
    /\ repaired = FALSE
    /\ result = NoResult

CacheStep ==
    /\ Ensure \/ \E s \in Shas : Repin(s)
    /\ UNCHANGED <<dest, arm, session, repaired, result>>

TrialNext ==
    \/ CacheStep
    \/ ProvisionStarts \/ ExportTree \/ ApplyFixture
    \/ \E d \in Paths : LinkDep(d)
    \/ CommitTree \/ \E name \in DOMAIN Arms : Launch(name)
    \/ \E c \in AgentCalls : CallsTool(c)
    \/ \E claim \in {"right", "wrong"} : Claims(claim)
    \/ Repairs \/ ScoreTrial
    \/ Stops \/ FreshDest

TrialSpec == TrialInit /\ [][TrialNext]_trialVars

-----------------------------------------------------------------------------
TrialTypeOK ==
    /\ TypeOK
    /\ dest \in [pins : SUBSET Shas, prompt : BOOLEAN, links : SUBSET Paths,
                 committed : BOOLEAN]
    /\ session.before \in 0..MaxCalls
    /\ arm = NoArm \/ pc = "trial"
    /\ repaired \in BOOLEAN

\* A trial runs in a tree that this provisioning made whole: the export of one
\* pin, its prompt and the links of that pin's deps, with nothing left over from
\* an attempt that failed (C1).
HermeticTree ==
    pc = "trial" => dest = [pins |-> {archived}, prompt |-> TRUE,
                            links |-> DepsOf[archived], committed |-> TRUE]

\* A score is about the agent's work.  Unless the manifest moved between
\* ensure_deps and the provisioning, `fixed` is the repair and never the state
\* of the cache; the two halves of a located trial's cost make up the whole,
\* and no other trial has halves; and a score that counts made no call its arm
\* was not granted, no second command behind a gate, and no access by a path
\* that the transcript shows outside the tree (C7, I5, TB-29).
ScoreIsEarned ==
    result.scored =>
        /\ archived = want => result.fixed = repaired
        /\ IF result.located THEN result.n1 + result.n2 = result.total
                             ELSE {result.n1, result.n2} = {Undefined}
        /\ ~result.void => \A i \in DOMAIN session.calls :
               LET c == session.calls[i]
               IN  /\ c.tool \in Granted(arm) \ Banned
                   /\ c.path = "outside" => c.cmd = "unreadable"
                   /\ (c.cmd \notin {"none", "gate"}) => arm.shell
===============================================================================
