------------------------------ MODULE DepsCache ------------------------------
(***************************************************************************)
(* The dependency cache of one corpus repo, as a caller drives it before a *)
(* trial: complex_runner.ensure_deps (invalidate, build, stamp, warm up)   *)
(* and then provision_worktree, which links the cached trees into the      *)
(* trial.  The caller may die, or a subprocess may fail, between any two   *)
(* steps; the packaged manifest may move to another pin at any time.       *)
(*                                                                         *)
(* A pin is a natural number: a larger one is a later pin of the manifest. *)
(* A manifest lists its deps in an order; any order is allowed here.       *)
(***************************************************************************)
EXTENDS Integers

CONSTANTS
    Shas,     \* the pins the packaged manifest may hold
    Paths,    \* the dep paths a manifest entry may declare
    DepsOf,   \* DepsOf[s]: the dep paths of the entry pinned at s
    Rollback  \* the manifest may also move back to an earlier pin

ASSUME ShasAssumption == Shas \subseteq Nat \ {0}
ASSUME DepsAssumption == DepsOf \in [Shas -> SUBSET Paths]
ASSUME RollbackAssumption == Rollback \in BOOLEAN

VARIABLES
    pin,       \* the pin in the packaged manifest now
    tree,      \* tree[d]: what is on disk at <deps_root>/d
    stamp,     \* what _read_deps_stamp returns; 0 is a missing or empty stamp
    pc,        \* the step the caller takes next
    want,      \* the pin ensure_deps read
    archived,  \* the pin provision_worktree read
    todo,      \* the deps the current loop has not handled yet
    making     \* the one dep a build subprocess is writing, as a set

disk  == <<tree, stamp>>
local == <<pc, want, archived, todo, making>>
vars  == <<pin, disk, local>>

-----------------------------------------------------------------------------
(* A dep tree: absent, partly there, or complete for the pin it was built  *)
(* from.                                                                   *)
Absent   == [sha |-> 0, whole |-> FALSE]
Part(s)  == [sha |-> s, whole |-> FALSE]
Whole(s) == [sha |-> s, whole |-> TRUE]

Present(d) == tree[d] # Absent
Built(s)   == \A d \in DepsOf[s] : tree[d] = Whole(s)

-----------------------------------------------------------------------------
(* ensure_deps                                                             *)

MutantStampMatches(s) == stamp # 0
MutantNeverMatches(s) == FALSE
StampMatches(s) == stamp = s

\* An entry without deps needs neither a cache nor a stamp.
EnsureStart ==
    /\ pc = "idle"
    /\ want' = pin
    /\ todo' = DepsOf[pin]
    /\ pc' = IF DepsOf[pin] = {} THEN "warmup"
             ELSE IF StampMatches(pin) THEN "build" ELSE "wipe"
    /\ UNCHANGED <<pin, disk, archived, making>>

\* rmtree empties a tree before it removes it.
WipeStarts(d) ==
    /\ pc = "wipe" /\ d \in todo
    /\ tree[d].whole
    /\ tree' = [tree EXCEPT ![d].whole = FALSE]
    /\ UNCHANGED <<pin, stamp, local>>

WipeEnds(d) ==
    /\ pc = "wipe" /\ d \in todo
    /\ ~tree[d].whole
    /\ tree' = [tree EXCEPT ![d] = Absent]
    /\ todo' = todo \ {d}
    /\ UNCHANGED <<pin, stamp, pc, want, archived, making>>

DropStamp ==
    /\ pc = "wipe" /\ todo = {}
    /\ stamp' = 0
    /\ pc' = "build"
    /\ todo' = DepsOf[want]
    /\ UNCHANGED <<pin, tree, want, archived, making>>

BuildSkips(d) ==
    /\ pc = "build" /\ d \in todo /\ making = {}
    /\ Present(d)
    /\ todo' = todo \ {d}
    /\ UNCHANGED <<pin, disk, pc, want, archived, making>>

BuildStarts(d) ==
    /\ pc = "build" /\ d \in todo /\ making = {}
    /\ ~Present(d)
    /\ tree' = [tree EXCEPT ![d] = Part(want)]
    /\ making' = {d}
    /\ UNCHANGED <<pin, stamp, pc, want, archived, todo>>

BuildEnds(d) ==
    /\ pc = "build" /\ d \in making
    /\ tree' = [tree EXCEPT ![d] = Whole(want)]
    /\ making' = {}
    /\ todo' = todo \ {d}
    /\ UNCHANGED <<pin, stamp, pc, want, archived>>

ReadyToStamp == todo = {}

\* write_text truncates the stamp before it writes the new one.
StampStarts ==
    /\ pc = "build" /\ ReadyToStamp
    /\ stamp' = 0
    /\ pc' = "stamp"
    /\ UNCHANGED <<pin, tree, want, archived, todo, making>>

StampEnds ==
    /\ pc = "stamp"
    /\ stamp' = want
    /\ pc' = "warmup"
    /\ UNCHANGED <<pin, tree, want, archived, todo, making>>

\* The warm-up fills a cache outside this one.
Warmup ==
    /\ pc = "warmup"
    /\ pc' = "ensured"
    /\ UNCHANGED <<pin, disk, want, archived, todo, making>>

-----------------------------------------------------------------------------
(* provision_worktree                                                      *)

\* The manifest is read again, and its pin archived into the trial tree.
Provision ==
    /\ pc = "ensured"
    /\ archived' = pin
    /\ todo' = DepsOf[pin]
    /\ pc' = "link"
    /\ UNCHANGED <<pin, disk, want, making>>

\* A dep missing from the cache ends the provisioning: see Abandon.
Link(d) ==
    /\ pc = "link" /\ d \in todo
    /\ Present(d)
    /\ todo' = todo \ {d}
    /\ UNCHANGED <<pin, disk, pc, want, archived, making>>

TrialStarts ==
    /\ pc = "link" /\ todo = {}
    /\ pc' = "trial"
    /\ UNCHANGED <<pin, disk, want, archived, todo, making>>

-----------------------------------------------------------------------------
(* The caller and its surroundings                                         *)

\* The trial is over, or the call raised (an unsafe cache, a failed git, npm,
\* pip or rmtree, a missing dep), or its process died: only the disk remains.
Abandon ==
    /\ pc # "idle"
    /\ pc' = "idle"
    /\ todo' = {} /\ making' = {}
    /\ UNCHANGED <<pin, disk, want, archived>>

\* A pull, or another manifest_path over the same cache, changes the pin.
Repin(s) ==
    /\ s > pin \/ (Rollback /\ s # pin)
    /\ pin' = s
    /\ UNCHANGED <<disk, local>>

-----------------------------------------------------------------------------
Init ==
    /\ pin \in Shas
    /\ tree = [d \in Paths |-> Absent]
    /\ stamp = 0
    /\ pc = "idle"
    /\ want = 0 /\ archived = 0
    /\ todo = {} /\ making = {}

Ensure ==
    \/ EnsureStart \/ DropStamp \/ StampStarts \/ StampEnds \/ Warmup
    \/ \E d \in Paths : \/ WipeStarts(d) \/ WipeEnds(d)
                        \/ BuildSkips(d) \/ BuildStarts(d) \/ BuildEnds(d)

Serve == Provision \/ TrialStarts \/ \E d \in Paths : Link(d)

Next == Ensure \/ Serve \/ Abandon \/ \E s \in Shas : Repin(s)

Spec == Init /\ [][Next]_vars

-----------------------------------------------------------------------------
Tree == {Absent} \cup [sha : Shas, whole : BOOLEAN]

\* Every variable stays in its domain, and at most one dep is being built: one
\* that is still to do, of an entry that was read.
TypeOK ==
    /\ pin \in Shas
    /\ tree \in [Paths -> Tree]
    /\ stamp \in Shas \cup {0}
    /\ pc \in {"idle", "wipe", "build", "stamp", "warmup", "ensured", "link",
              "trial"}
    /\ want \in Shas \cup {0}
    /\ archived \in Shas \cup {0}
    /\ todo \in SUBSET Paths
    /\ making \in SUBSET todo
    /\ \A d, e \in making : d = e
    /\ pc # "build" => making = {}
    /\ pc # "idle" => want # 0

\* The stamp never lies: whenever it names the current pin, every dep of that
\* pin is on disk, whole and built from it, whatever failed before (#102).
StampMeansBuilt == stamp = pin => Built(pin)

\* Once ensure_deps is past its build loop, what a trial links is complete and
\* built from the pin ensure_deps read, until the caller is done with it.
EnsuredMeansBuilt == pc \in {"stamp", "warmup", "ensured", "link", "trial"} => Built(want)

\* A trial archived at the pin ensure_deps read runs on the deps of that pin.
TrialDepsSound == (pc = "trial" /\ archived = want) => Built(archived)

\* The reason the two above hold while pins only move forward (inductive,
\* Trial_proofs): the stamp never runs ahead of the pin read last, nothing
\* of an old pin survives the wipe, and the build loop leaves each dep it has
\* handled whole, so a stamp can vouch for them all.
PinsInOrder == stamp <= want /\ want <= pin
WipedSoFar  ==
    pc = "wipe" => /\ stamp < want
                   /\ \A d \in DepsOf[want] \ todo : tree[d] = Absent
BuiltSoFar  ==
    pc = "build" => /\ \A d \in DepsOf[want] \ todo : tree[d] = Whole(want)
                    /\ \A d \in (DepsOf[want] \cap todo) \ making :
                           tree[d] \in {Absent, Whole(want)}
StampVouches == (stamp = want /\ want # 0) => Built(want)
CacheInv ==
    PinsInOrder /\ WipedSoFar /\ BuiltSoFar /\ StampVouches /\ EnsuredMeansBuilt

\* Idempotence: a tree that the matching stamp vouches for is left alone by
\* every later call, failure and retry under the same pin.
CacheIsKept ==
    [][\A d \in DepsOf[pin] :
           (stamp = pin /\ tree[d] = Whole(pin)) => tree'[d] = tree[d]]_vars
=============================================================================
