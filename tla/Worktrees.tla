------------------------------ MODULE Worktrees ------------------------------
(***************************************************************************)
(* `toolbench worktrees`: one listing of the linked trees, one of the      *)
(* recorded upstreams, then up to six calls per tree, and a report of the  *)
(* trees one may reclaim (_collect, _verdict, _reachability, is_claimed,   *)
(* _idle_days, reclaimable, _hook, main).  Any call may fail, and the      *)
(* clone may change between two calls, once the trees are listed: agents   *)
(* work in them.                                                           *)
(*                                                                         *)
(* A tree has the facts the calls ask for.  Three kinds of ref may hold    *)
(* the head that is listed: the trunk (`kept`), the remote-tracking ref of *)
(* its own branch (`pushed`, while that ref is `live`), and any other      *)
(* remote-tracking ref (`other`).  `upstream` is what the branch records,  *)
(* `moved` says that a commit has replaced the listed head.  `created` are *)
(* the days since its `gitdir` file was written, when the tree was added   *)
(* or moved (git writes it at no other time).                              *)
(***************************************************************************)
EXTENDS Integers, FiniteSets

CONSTANTS
    Trees,         \* the linked worktrees of the clone
    InitClones,    \* the clones the command may meet
    Idle,          \* IDLE_DAYS
    Modes,         \* the ways the command is run
    MaxChanges     \* bound: the changes of the clone while it runs

ASSUME IdleAssumption == Idle \in Nat \ {0} /\ MaxChanges \in Nat

\* A tree as the command meets it: its head is the one that will be listed.
TreeStates ==
    [locked : BOOLEAN, gone : BOOLEAN, dirty : BOOLEAN, kept : BOOLEAN,
     pushed : BOOLEAN, other : BOOLEAN, moved : BOOLEAN,
     upstream : {"none", "local", "remote"}, live : BOOLEAN, created : Nat]
ASSUME ClonesAssumption ==
    /\ InitClones \subseteq [Trees -> TreeStates]
    /\ \A f \in InitClones : \A t \in Trees : ~f[t].moved
    /\ Modes \subseteq {"table", "hook", "hook-compact"}

VARIABLES
    clone,      \* clone[t]: tree t as it is now
    changes,    \* the changes of the clone so far
    mode,       \* how the command was run
    pc,         \* the call that comes next
    stanza,     \* stanza[t]: t as `worktree list` printed it
    upstream,   \* upstream[t]: the recorded upstream, as for-each-ref printed it
    todo,       \* the trees still to classify
    tree,       \* the one being classified, as a set
    verdict,    \* verdict[t]
    age,        \* age[t]: idle_days
    named,      \* the trees the report names
    wasSafe,    \* history: the trees that were reclaimable at some instant
    raced,      \* history: those that changed in a way the calls cannot see
    misread     \* history: those whose live upstream rev-parse did not find

world   == <<clone, changes, wasSafe, raced>>
results == <<verdict, age, named, misread>>
vars    == <<world, mode, pc, stanza, upstream, todo, tree, results>>

UNKNOWN  == -1
Verdicts == {"SAFE", "DIRTY", "LOCKED", "UNIQUE-WORK", "CLAIMED", "none"}

-----------------------------------------------------------------------------
(* The clone.                                                              *)

\* `for-each-ref --contains`: main and refs/remotes, whatever the upstream is.
Contained(s) == s.kept \/ s.other \/ (s.pushed /\ s.live)
Backed(s)    == s.upstream = "remote" /\ s.live

\* What keeps a tree from being safe, in the order in which it is asked.
Obstacles == {"LOCKED", "DIRTY", "UNIQUE-WORK", "CLAIMED"}

Stands(s, o) ==
    \/ o = "LOCKED" /\ s.locked
    \/ o = "DIRTY" /\ s.dirty /\ ~s.gone
    \/ o = "UNIQUE-WORK" /\ (s.moved \/ ~Contained(s))
    \/ o = "CLAIMED" /\ Backed(s)

Before(o, p) ==
    \/ o = "LOCKED" /\ p # "LOCKED"
    \/ o = "DIRTY" /\ p \in {"UNIQUE-WORK", "CLAIMED"}
    \/ o = "UNIQUE-WORK" /\ p = "CLAIMED"

TrulySafe(s) == \A o \in Obstacles : ~Stands(s, o)

\* What agents do in the trees and to the refs of the clone.
Commit(s)      == IF s.gone THEN s ELSE [s EXCEPT !.moved = TRUE, !.dirty = FALSE]
Edit(s)        == IF s.gone THEN s ELSE [s EXCEPT !.dirty = TRUE]
MergeToMain(s) == [s EXCEPT !.kept = TRUE]
Push(s)        == [s EXCEPT !.live = TRUE, !.pushed = TRUE]
PushAndTrack(s) == [Push(s) EXCEPT !.upstream = "remote"]
PruneRemote(s) == [s EXCEPT !.live = FALSE, !.pushed = FALSE]

Changes == {"commit", "edit", "restore", "lock", "unlock", "merge", "push", "push -u",
            "unset", "fetch", "fetch-other", "prune", "prune-other"}

Changed(s, c) ==
    CASE c = "commit"      -> Commit(s)
      [] c = "edit"        -> Edit(s)
      [] c = "restore"     -> [s EXCEPT !.dirty = FALSE]
      [] c = "lock"        -> [s EXCEPT !.locked = TRUE]
      [] c = "unlock"      -> [s EXCEPT !.locked = FALSE]
      [] c = "merge"       -> MergeToMain(s)
      [] c = "push"        -> Push(s)
      [] c = "push -u"     -> PushAndTrack(s)
      [] c = "unset"       -> [s EXCEPT !.upstream = "none"]
      [] c = "fetch"       -> [s EXCEPT !.live = TRUE]
      [] c = "fetch-other" -> [s EXCEPT !.other = TRUE]
      [] c = "prune"       -> PruneRemote(s)
      [] c = "prune-other" -> [s EXCEPT !.other = FALSE]

\* What the calls cannot tell from a tree that was safe at some instant: its
\* head moves; a remote upstream is recorded once the upstreams were listed; or
\* one obstacle goes while another stands that is asked about before it.
Races(t, n) ==
    \/ n.moved
    \/ n.upstream = "remote" /\ clone[t].upstream # "remote" /\ pc # "refs"
    \/ \E o, p \in Obstacles :
          Before(p, o) /\ Stands(clone[t], o) /\ ~Stands(n, o) /\ Stands(n, p)

CloneChanges(t, c) ==
    /\ pc \notin {"list", "done", "failed"}
    /\ changes < MaxChanges
    /\ clone' = [clone EXCEPT ![t] = Changed(@, c)]
    /\ clone' # clone
    /\ changes' = changes + 1
    /\ wasSafe' = IF TrulySafe(clone'[t]) THEN wasSafe \cup {t} ELSE wasSafe
    /\ raced' = IF Races(t, clone'[t]) THEN raced \cup {t} ELSE raced
    /\ UNCHANGED <<mode, pc, stanza, upstream, todo, tree, results>>

-----------------------------------------------------------------------------
(* The command.                                                            *)
Goto(step) ==
    /\ pc' = step
    /\ UNCHANGED <<mode, changes, wasSafe, raced, stanza, upstream, todo, tree, named>>

\* A call times out, or one that decides a verdict fails: a traceback, or
\* silence from a hook.
ProbeFails ==
    /\ pc \in {"list", "refs", "status", "contains", "claimed", "age"}
    /\ Goto("failed")
    /\ UNCHANGED <<clone, verdict, age, misread>>

\* Compaction fires over and over: the hook says nothing then.
HookDeclines ==
    /\ pc = "list" /\ mode = "hook-compact"
    /\ Goto("done")
    /\ UNCHANGED <<clone, verdict, age, misread>>

ListTrees ==
    /\ pc = "list" /\ mode # "hook-compact"
    /\ stanza' = [t \in Trees |-> [locked |-> clone[t].locked,
                                   gone |-> clone[t].gone]]
    /\ wasSafe' = {t \in Trees : TrulySafe(clone[t])}
    /\ pc' = "refs"
    /\ UNCHANGED <<clone, changes, raced, mode, upstream, todo, tree, results>>

ListRefs ==
    /\ pc = "refs"
    /\ upstream' = [t \in Trees |-> clone[t].upstream]
    /\ todo' = Trees
    /\ pc' = "next"
    /\ UNCHANGED <<world, mode, stanza, tree, results>>

\* LOCKED > DIRTY > UNIQUE-WORK > CLAIMED > SAFE
MutantFirstCall(s) == IF s.locked THEN "age" ELSE "contains"
FirstCall(s) ==
    IF s.locked THEN "age" ELSE IF s.gone THEN "contains" ELSE "status"

NextTree(t) ==
    /\ pc = "next" /\ t \in todo
    /\ tree' = {t}
    /\ todo' = todo \ {t}
    /\ verdict' = IF stanza[t].locked THEN [verdict EXCEPT ![t] = "LOCKED"] ELSE verdict
    /\ pc' = FirstCall(stanza[t])
    /\ UNCHANGED <<world, mode, stanza, upstream, age, named, misread>>

Status(t) ==
    /\ pc = "status" /\ t \in tree
    /\ ~clone[t].gone
    /\ verdict' = IF clone[t].dirty THEN [verdict EXCEPT ![t] = "DIRTY"] ELSE verdict
    /\ Goto(IF clone[t].dirty THEN "age" ELSE "contains")
    /\ UNCHANGED <<clone, age, misread>>

\* for-each-ref --contains, of the head that was listed.
Contains(t) ==
    /\ pc = "contains" /\ t \in tree
    /\ verdict' = IF Contained(clone[t]) THEN verdict
                  ELSE [verdict EXCEPT ![t] = "UNIQUE-WORK"]
    /\ Goto(IF Contained(clone[t]) THEN "claimed" ELSE "age")
    /\ UNCHANGED <<clone, age, misread>>

\* is_claimed: a recorded remote upstream, and rev-parse finds it.  Any exit
\* status but 0, as of a call that was killed, reads as an upstream gone.
MutantIsClaimed(t, verified) == upstream[t] = "remote" /\ ~verified
IsClaimed(t, verified) == upstream[t] = "remote" /\ verified

AskOwner(t) ==
    /\ pc = "claimed" /\ t \in tree
    /\ \E verified \in {clone[t].live, FALSE} :
          /\ verdict' = [verdict EXCEPT ![t] =
                            IF IsClaimed(t, verified) THEN "CLAIMED" ELSE "SAFE"]
          /\ misread' = IF verified # clone[t].live THEN misread \cup {t} ELSE misread
    /\ Goto("age")
    /\ UNCHANGED <<clone, age>>

\* The mtime of the admin `gitdir` file.
AgeOf(t) == clone[t].created

ReadAge(t) ==
    /\ pc = "age" /\ t \in tree
    /\ ~stanza[t].gone
    /\ age' = [age EXCEPT ![t] = AgeOf(t)]
    /\ Goto(IF todo = {} THEN "report" ELSE "next")
    /\ UNCHANGED <<clone, verdict, misread>>

\* A prunable tree is not measured; a failing rev-parse or stat is not fatal.
AgeUnknown(t) ==
    /\ pc = "age" /\ t \in tree
    /\ age' = [age EXCEPT ![t] = UNKNOWN]
    /\ Goto(IF todo = {} THEN "report" ELSE "next")
    /\ UNCHANGED <<clone, verdict, misread>>

MutantReclaimable(t) == verdict[t] = "SAFE" /\ (age[t] = UNKNOWN \/ age[t] >= Idle)
Reclaimable(t) == verdict[t] = "SAFE" /\ age[t] # UNKNOWN /\ age[t] >= Idle

Report ==
    /\ pc = "report"
    /\ named' = {t \in Trees : Reclaimable(t)}
    /\ pc' = "done"
    /\ UNCHANGED <<world, mode, stanza, upstream, todo, tree, verdict, age, misread>>

-----------------------------------------------------------------------------
Init ==
    /\ clone \in InitClones
    /\ changes = 0 /\ wasSafe = {} /\ raced = {} /\ misread = {}
    /\ mode \in Modes /\ pc = "list"
    /\ stanza = [t \in Trees |-> [locked |-> FALSE, gone |-> FALSE]]
    /\ upstream = [t \in Trees |-> "none"]
    /\ todo = {} /\ tree = {}
    /\ verdict = [t \in Trees |-> "none"]
    /\ age = [t \in Trees |-> UNKNOWN]
    /\ named = {}

Next ==
    \/ ListTrees \/ ListRefs \/ HookDeclines \/ ProbeFails \/ Report
    \/ \E t \in Trees :
          \/ NextTree(t) \/ Status(t) \/ Contains(t)
          \/ AskOwner(t) \/ ReadAge(t) \/ AgeUnknown(t)
          \/ \E c \in Changes : CloneChanges(t, c)

Spec == Init /\ [][Next]_vars

-----------------------------------------------------------------------------
(* Every variable stays in its domain.                                     *)
TypeOK ==
    /\ clone \in [Trees -> TreeStates]
    /\ changes \in 0 .. MaxChanges
    /\ mode \in {"table", "hook", "hook-compact"}
    /\ pc \in {"list", "refs", "next", "status", "contains", "claimed", "age",
               "report", "done", "failed"}
    /\ stanza \in [Trees -> [locked : BOOLEAN, gone : BOOLEAN]]
    /\ upstream \in [Trees -> {"none", "local", "remote"}]
    /\ todo \subseteq Trees /\ tree \subseteq Trees
    /\ verdict \in [Trees -> Verdicts]
    /\ age \in [Trees -> Nat \cup {UNKNOWN}]
    /\ named \subseteq Trees /\ wasSafe \subseteq Trees
    /\ raced \subseteq Trees /\ misread \subseteq Trees

(* A tree the report calls SAFE was safe, in every respect at once, at     *)
(* some instant of the command: its verdict is no mixture of what several  *)
(* calls saw of a clone that changed between them.  The exceptions, all in *)
(* the middle of the command: a commit to the tree; a `push -u` after the  *)
(* upstreams were listed, which gives the head its only other holder and   *)
(* backs the tree in one go; an obstacle that goes while an earlier one    *)
(* stands by now (its upstream is pruned, and nothing else holds the head; *)
(* a ref takes in a tree that was edited or locked meanwhile); or a        *)
(* rev-parse that failed.                                                  *)
SafeWasTrueOnce ==
    \A t \in Trees : verdict[t] = "SAFE" => t \in wasSafe \cup raced \cup misread

(* The report names only trees it has measured as idle, that still have a  *)
(* directory, and no run that failed, or that nobody asked, names any      *)
(* (reclaimable, _hook: "silent on any failure").                          *)
NamedWasMeasured ==
    /\ \A t \in named : age[t] >= Idle /\ ~stanza[t].gone /\ ~stanza[t].locked
    /\ pc = "failed" \/ mode = "hook-compact" => named = {}

(* While the clone holds still, the report names a tree exactly when it is *)
(* idle, clean, unlocked, kept elsewhere and backed by no live upstream;   *)
(* a detached head, or an upstream in this clone, claims nothing.          *)
QuietReportIsExact ==
    pc = "done" /\ mode # "hook-compact" /\ changes = 0 =>
        \A t \in Trees \ misread :
            t \in named <=> TrulySafe(clone[t]) /\ ~clone[t].gone /\ age[t] >= Idle
=============================================================================
