--------------------------- MODULE Worktrees_proofs ---------------------------
(***************************************************************************)
(* Proofs about Worktrees for any trees, clones, modes and number of       *)
(* changes: type correctness, that SAFE was true at some instant, that the *)
(* report names only what was measured, and that it is exact for a clone   *)
(* that holds still.                                                       *)
(***************************************************************************)
EXTENDS Worktrees, TLAPS

-----------------------------------------------------------------------------
\* What a change of the clone does to a tree stays a tree.
LEMMA ChangedIsATree ==
  ASSUME NEW s \in TreeStates, NEW c \in Changes
  PROVE  Changed(s, c) \in TreeStates
<1> USE DEF Changed, TreeStates, Commit, Edit, MergeToMain, Push, PushAndTrack, PruneRemote
<1>1. CASE c \in {"commit", "edit", "restore", "lock", "unlock"}
  BY <1>1
<1>2. CASE c \in {"merge", "push", "push -u", "unset"}
  BY <1>2
<1>3. CASE c \in {"fetch", "fetch-other", "prune", "prune-other"}
  BY <1>3
<1> QED
  BY <1>1, <1>2, <1>3 DEF Changes

\* Every step of the command and of the clone keeps every variable in its
\* domain.
THEOREM TypeCorrect == Spec => []TypeOK
<1> USE IdleAssumption DEF TypeOK
<1>1. Init => TypeOK
  BY ClonesAssumption DEF Init, Verdicts, UNKNOWN
<1>2. TypeOK /\ [Next]_vars => TypeOK'
  <2> SUFFICES ASSUME TypeOK, [Next]_vars PROVE TypeOK'
    OBVIOUS
  <2> USE DEF world, results, Goto
  <2>1. CASE ListTrees
    BY <2>1 DEF ListTrees, TreeStates
  <2>2. CASE ListRefs
    BY <2>2 DEF ListRefs, TreeStates
  <2>3. CASE HookDeclines \/ ProbeFails \/ Report
    BY <2>3 DEF HookDeclines, ProbeFails, Report
  <2>4. ASSUME NEW t \in Trees, NextTree(t) PROVE TypeOK'
    <3>1. pc' \in {"age", "contains", "status"} /\ verdict' \in [Trees -> Verdicts]
      BY <2>4 DEF NextTree, FirstCall, Verdicts
    <3> QED
      BY <2>4, <3>1 DEF NextTree
  <2>5. ASSUME NEW t \in Trees, Status(t) \/ Contains(t) \/ AskOwner(t) PROVE TypeOK'
    <3>1. /\ UNCHANGED <<clone, changes, mode, stanza, upstream, todo, tree, age, named,
                         wasSafe, raced>>
          /\ pc' \in {"age", "contains", "claimed"}
      BY <2>5 DEF Status, Contains, AskOwner
    <3>2. verdict' \in [Trees -> Verdicts] /\ misread' \subseteq Trees
      BY <2>5 DEF Status, Contains, AskOwner, Verdicts
    <3> QED
      BY <3>1, <3>2
  <2>6. ASSUME NEW t \in Trees, ReadAge(t) \/ AgeUnknown(t) PROVE TypeOK'
    <3>1. AgeOf(t) \in Nat
      BY DEF AgeOf, TreeStates
    <3>2. age' \in [Trees -> Nat \cup {UNKNOWN}] /\ pc' \in {"report", "next"}
      BY <2>6, <3>1 DEF ReadAge, AgeUnknown
    <3> QED
      BY <2>6, <3>2 DEF ReadAge, AgeUnknown
  <2>7. ASSUME NEW t \in Trees, NEW c \in Changes, CloneChanges(t, c) PROVE TypeOK'
    <3>1. clone' \in [Trees -> TreeStates]
      BY <2>7, ChangedIsATree DEF CloneChanges
    <3>2. changes' \in 0 .. MaxChanges /\ wasSafe' \subseteq Trees /\ raced' \subseteq Trees
      BY <2>7 DEF CloneChanges
    <3> QED
      BY <2>7, <3>1, <3>2 DEF CloneChanges
  <2>8. CASE UNCHANGED vars
    BY <2>8 DEF vars
  <2> QED
    BY <2>1, <2>2, <2>3, <2>4, <2>5, <2>6, <2>7, <2>8 DEF Next
<1> QED
  BY <1>1, <1>2, PTL DEF Spec

-----------------------------------------------------------------------------
\* How far the command is: the calls on a tree come one tree at a time, its
\* verdict is open while they do, and only the report of a finished run names.
Open   == {"status", "contains", "claimed"}
Listed == pc \in {"refs", "next", "age", "report"} \cup Open
             \/ (pc = "done" /\ mode # "hook-compact")

FlowInv ==
    /\ pc \in {"list", "refs"} =>
           tree = {} /\ \A t \in Trees : verdict[t] = "none" /\ age[t] = UNKNOWN
    /\ mode = "hook-compact" => pc \in {"list", "done", "failed"} /\ named = {}
    /\ pc # "done" => named = {}
    /\ pc = "report" \/ (pc = "done" /\ mode # "hook-compact") => todo = {}
    /\ pc = "done" /\ mode # "hook-compact" => named = {t \in Trees : Reclaimable(t)}
    /\ \A s, t \in tree : s = t
    /\ tree \cap todo = {}
    /\ \A t \in todo : verdict[t] = "none"
    /\ pc \in Open => \A t \in tree : verdict[t] = "none" /\ ~stanza[t].locked
    /\ \A t \in Trees : verdict[t] = "SAFE" => ~stanza[t].locked
    /\ \A t \in Trees : age[t] # UNKNOWN => ~stanza[t].gone
    /\ \A t \in named : Reclaimable(t)

LEMMA FlowInvariant == Spec => []FlowInv
<1> USE DEF FlowInv, Open, Reclaimable
<1>1. Init => FlowInv
  BY DEF Init
<1>2. TypeOK /\ FlowInv /\ [Next]_vars => FlowInv'
  <2> SUFFICES ASSUME TypeOK, FlowInv, [Next]_vars PROVE FlowInv'
    OBVIOUS
  <2> USE DEF TypeOK, world, results, Goto
  <2>1. CASE ListTrees
    BY <2>1 DEF ListTrees
  <2>2. CASE ListRefs
    BY <2>2 DEF ListRefs
  <2>3. CASE HookDeclines \/ ProbeFails
    BY <2>3 DEF HookDeclines, ProbeFails
  <2>4. CASE Report
    BY <2>4 DEF Report
  <2>5. ASSUME NEW t \in Trees, NextTree(t) PROVE FlowInv'
    BY <2>5 DEF NextTree, FirstCall
  <2>6. ASSUME NEW t \in Trees, Status(t) \/ Contains(t) PROVE FlowInv'
    BY <2>6 DEF Status, Contains
  <2>7. ASSUME NEW t \in Trees, AskOwner(t) PROVE FlowInv'
    BY <2>7 DEF AskOwner
  <2>8. ASSUME NEW t \in Trees, ReadAge(t) \/ AgeUnknown(t) PROVE FlowInv'
    BY <2>8 DEF ReadAge, AgeUnknown
  <2>9. ASSUME NEW t \in Trees, NEW c \in Changes, CloneChanges(t, c) PROVE FlowInv'
    BY <2>9 DEF CloneChanges
  <2>10. CASE UNCHANGED vars
    BY <2>10 DEF vars
  <2> QED
    BY <2>1, <2>2, <2>3, <2>4, <2>5, <2>6, <2>7, <2>8, <2>9, <2>10 DEF Next
<1> QED
  BY <1>1, <1>2, TypeCorrect, PTL DEF Spec

\* The report names only trees measured as idle, with a directory and without
\* a lock, and a run that failed, or that nobody asked, names none.
THEOREM OnlyMeasuredTreesNamed == Spec => []NamedWasMeasured
<1>1. TypeOK /\ FlowInv => NamedWasMeasured
  BY DEF TypeOK, FlowInv, Reclaimable, NamedWasMeasured
<1> QED
  BY <1>1, TypeCorrect, FlowInvariant, PTL

-----------------------------------------------------------------------------
\* What every change leaves alone.
LEMMA ChangeKeeps ==
  ASSUME NEW s \in TreeStates, NEW c \in Changes, NEW n, n = Changed(s, c)
  PROVE  /\ n.gone = s.gone /\ (s.moved => n.moved)
         /\ n.upstream = "remote" => s.upstream = "remote" \/ c = "push -u"
BY DEF Changed, Changes, TreeStates, Commit, Edit, MergeToMain, Push, PushAndTrack, PruneRemote

\* Why SAFE is no mixture: a listed tree that was not safe then has an obstacle
\* that the listing printed, that a later call will still ask about, or that
\* its verdict names.
Ahead(t, o) ==
    \/ pc = "refs" \/ t \in todo
    \/ t \in tree /\ pc = "status"
    \/ t \in tree /\ pc = "contains" /\ o \in {"UNIQUE-WORK", "CLAIMED"}
    \/ t \in tree /\ pc = "claimed" /\ o = "CLAIMED"
Excused(t) == t \in wasSafe \cup raced \cup misread

Reason(t) ==
    \/ stanza[t].locked
    \/ \E o \in Obstacles \ {"LOCKED"} : Ahead(t, o) /\ Stands(clone[t], o)
    \/ verdict[t] \notin {"none", "SAFE"}

SafeOk(t) ==
    /\ t \in raced \/ ~clone[t].moved
    /\ Listed => clone[t].gone = stanza[t].gone
    /\ Listed /\ pc # "refs" =>
           t \in raced \/ (clone[t].upstream = "remote" => upstream[t] = "remote")
    /\ Listed => Excused(t) \/ Reason(t)
    /\ verdict[t] = "SAFE" => Excused(t)

SafeInv == \A t \in Trees : SafeOk(t)

LEMMA SafeStepOfClone ==
  ASSUME TypeOK, SafeInv, NEW t \in Trees, NEW c \in Changes, CloneChanges(t, c)
  PROVE  SafeInv'
<1>1. /\ UNCHANGED <<mode, pc, stanza, upstream, todo, tree, verdict, misread>>
      /\ clone' = [clone EXCEPT ![t] = Changed(clone[t], c)]
      /\ wasSafe' = IF TrulySafe(clone'[t]) THEN wasSafe \cup {t} ELSE wasSafe
      /\ raced' = IF Races(t, clone'[t]) THEN raced \cup {t} ELSE raced
      /\ clone[t] \in TreeStates /\ clone'[t] = Changed(clone[t], c)
      /\ pc # "list"
  BY DEF CloneChanges, results, TypeOK
<1>2. ASSUME NEW u \in Trees, u # t PROVE SafeOk(u)'
  <2>1. UNCHANGED <<clone[u], pc, mode, stanza, upstream, todo, tree, verdict>>
        /\ (Excused(u) => Excused(u)') /\ (u \in raced <=> u \in raced')
    BY <1>1, <1>2 DEF Excused, TypeOK
  <2>2. SafeOk(u)
    BY DEF SafeInv
  <2> QED
    BY <2>1, <2>2 DEF SafeOk, Listed, Reason, Ahead
<1>3. SafeOk(t)'
  <2>0. SafeOk(t)
    BY DEF SafeInv
  <2>1. /\ clone'[t].gone = clone[t].gone
        /\ clone[t].moved => clone'[t].moved
    <3>1. clone[t] \in TreeStates /\ clone'[t] = Changed(clone[t], c)
      BY <1>1
    <3> QED
      BY <3>1, ChangeKeeps
  <2>2. Excused(t) => Excused(t)'
    BY <1>1 DEF Excused
  <2>3. CASE Races(t, clone'[t])
    <3>1. t \in raced' /\ Excused(t)'
      BY <1>1, <2>3 DEF Excused
    <3> QED
      BY <1>1, <2>0, <2>1, <3>1 DEF SafeOk, Listed
  <2>4. CASE ~Races(t, clone'[t])
    <3>1. /\ ~clone'[t].moved
          /\ clone'[t].upstream = "remote" /\ pc # "refs" => clone[t].upstream = "remote"
      BY <2>4 DEF Races
    <3>2. raced' = raced
      BY <1>1, <2>4
    <3>3. ASSUME ~Excused(t), Reason(t) PROVE Excused(t)' \/ Reason(t)'
      <4>1. CASE stanza[t].locked \/ verdict[t] \notin {"none", "SAFE"}
        BY <1>1, <4>1 DEF Reason
      <4>2. CASE TrulySafe(clone'[t])
        BY <1>1, <4>2 DEF Excused
      <4>3. ASSUME ~TrulySafe(clone'[t]),
                   NEW o \in Obstacles \ {"LOCKED"}, Ahead(t, o), Stands(clone[t], o)
            PROVE  Reason(t)'
        <5>1. CASE Stands(clone'[t], o)
          <6>1. Ahead(t, o)'
            BY <1>1, <4>3 DEF Ahead
          <6> QED
            BY <5>1, <6>1 DEF Reason
        <5>2. CASE ~Stands(clone'[t], o)
          <6>1. PICK p \in Obstacles : Stands(clone'[t], p)
            BY <4>3 DEF TrulySafe, Stands, Obstacles
          <6>2. ~Before(p, o)
            BY <2>4, <4>3, <5>2, <6>1 DEF Races
          <6>3. p # "LOCKED" /\ Ahead(t, p)
            BY <4>3, <5>2, <6>1, <6>2 DEF Before, Ahead, Obstacles
          <6>4. Ahead(t, p)'
            BY <1>1, <6>3 DEF Ahead
          <6> QED
            BY <6>1, <6>3, <6>4 DEF Reason
        <5> QED
          BY <5>1, <5>2
      <4> QED
        BY <3>3, <4>1, <4>2, <4>3 DEF Reason
    <3>4. Listed' <=> Listed
      BY <1>1 DEF Listed
    <3> QED
      BY <1>1, <2>0, <2>1, <2>2, <3>1, <3>2, <3>3, <3>4 DEF SafeOk
  <2> QED
    BY <2>3, <2>4
<1> QED
  BY <1>2, <1>3 DEF SafeInv

LEMMA SafeStepOfCommand ==
  ASSUME TypeOK, FlowInv, SafeInv,
         \/ ListTrees \/ ListRefs \/ HookDeclines \/ ProbeFails \/ Report
         \/ \E t \in Trees : \/ NextTree(t) \/ Status(t) \/ Contains(t)
                             \/ AskOwner(t) \/ ReadAge(t) \/ AgeUnknown(t)
  PROVE  SafeInv'
<1> SUFFICES ASSUME NEW u \in Trees PROVE SafeOk(u)'
  BY DEF SafeInv
<1>0. SafeOk(u) /\ clone[u] \in TreeStates
  BY DEF SafeInv, TypeOK
<1> USE DEF SafeOk, Listed, Open, Excused, Goto, world, results
<1>1. CASE ListTrees
  <2>1. /\ pc = "list" /\ pc' = "refs"
        /\ stanza'[u] = [locked |-> clone[u].locked, gone |-> clone[u].gone]
        /\ wasSafe' = {t \in Trees : TrulySafe(clone[t])}
        /\ UNCHANGED <<clone, raced, misread, verdict, tree>>
    BY <1>1 DEF ListTrees
  <2>2. verdict[u] = "none"
    BY <2>1 DEF FlowInv
  <2>3. Excused(u)' \/ Reason(u)'
    <3>1. CASE TrulySafe(clone[u])
      BY <2>1, <3>1
    <3>2. CASE ~TrulySafe(clone[u])
      <4>1. PICK o \in Obstacles : Stands(clone[u], o)
        BY <3>2 DEF TrulySafe, Stands, Obstacles
      <4>2. CASE o = "LOCKED"
        BY <2>1, <4>1, <4>2 DEF Stands, Reason
      <4>3. CASE o # "LOCKED"
        BY <2>1, <4>1, <4>3 DEF Ahead, Reason
      <4> QED
        BY <4>2, <4>3
    <3> QED
      BY <3>1, <3>2
  <2> QED
    BY <1>0, <2>1, <2>2, <2>3
<1>2. CASE ListRefs
  <2>1. /\ pc = "refs" /\ pc' = "next" /\ todo' = Trees /\ upstream'[u] = clone[u].upstream
        /\ UNCHANGED <<clone, wasSafe, raced, misread, verdict, stanza, tree>>
    BY <1>2 DEF ListRefs
  <2> QED
    BY <1>0, <2>1 DEF Reason, Ahead
<1>3. CASE HookDeclines \/ ProbeFails \/ Report
  <2>1. /\ UNCHANGED <<clone, wasSafe, raced, misread, verdict, stanza, upstream, todo, tree, mode>>
        /\ pc' # "claimed" /\ pc' # "refs"
        /\ pc' = "done" /\ mode # "hook-compact" => pc = "report"
        /\ pc' \in {"done", "failed"}
    BY <1>3 DEF HookDeclines, ProbeFails, Report
  <2>2. Reason(u) /\ pc = "report" => Reason(u)'
    BY <2>1 DEF Reason, Ahead
  <2> QED
    BY <1>0, <2>1, <2>2
<1>4. ASSUME NEW t \in Trees, NextTree(t) PROVE SafeOk(u)'
  <2>1. /\ pc = "next" /\ t \in todo /\ tree' = {t} /\ todo' = todo \ {t}
        /\ pc' = IF stanza[t].locked THEN "age"
                 ELSE IF stanza[t].gone THEN "contains" ELSE "status"
        /\ UNCHANGED <<clone, wasSafe, raced, misread, stanza, upstream, mode>>
        /\ verdict'[u] = verdict[u] \/ (u = t /\ verdict'[u] = "LOCKED")
    BY <1>4 DEF NextTree, FirstCall, TypeOK
  <2>2. ASSUME NEW o \in Obstacles \ {"LOCKED"}, Ahead(u, o), Stands(clone[u], o)
        PROVE  Ahead(u, o)' \/ stanza[u].locked
    BY <1>0, <2>1, <2>2 DEF Ahead, Stands, Obstacles
  <2>3. Reason(u) => Reason(u)'
    BY <2>1, <2>2 DEF Reason
  <2> QED
    BY <1>0, <2>1, <2>3
<1>5. ASSUME NEW t \in Trees, Status(t) PROVE SafeOk(u)'
  <2>1. /\ pc = "status" /\ t \in tree
        /\ pc' = IF clone[t].dirty THEN "age" ELSE "contains"
        /\ verdict' = IF clone[t].dirty THEN [verdict EXCEPT ![t] = "DIRTY"] ELSE verdict
        /\ UNCHANGED <<clone, wasSafe, raced, misread, stanza, upstream, todo, tree, mode>>
    BY <1>5 DEF Status
  <2>2. verdict'[u] = verdict[u] \/ verdict'[u] = "DIRTY"
    BY <2>1 DEF TypeOK
  <2>3. u = t /\ clone[u].dirty => verdict'[u] = "DIRTY"
    BY <2>1 DEF TypeOK
  <2>4. ASSUME NEW o \in Obstacles \ {"LOCKED"}, Ahead(u, o), Stands(clone[u], o)
        PROVE  Ahead(u, o)' \/ verdict'[u] = "DIRTY"
    BY <2>1, <2>3, <2>4 DEF Ahead, Stands, Obstacles, FlowInv
  <2>5. Reason(u) => Reason(u)'
    BY <2>1, <2>2, <2>4 DEF Reason
  <2> QED
    BY <1>0, <2>1, <2>2, <2>5
<1>6. ASSUME NEW t \in Trees, Contains(t) PROVE SafeOk(u)'
  <2>1. /\ pc = "contains" /\ t \in tree
        /\ pc' = IF Contained(clone[t]) THEN "claimed" ELSE "age"
        /\ verdict' = IF Contained(clone[t]) THEN verdict
                      ELSE [verdict EXCEPT ![t] = "UNIQUE-WORK"]
        /\ UNCHANGED <<clone, wasSafe, raced, misread, stanza, upstream, todo, tree, mode>>
    BY <1>6 DEF Contains
  <2>2. verdict'[u] = verdict[u] \/ verdict'[u] = "UNIQUE-WORK"
    BY <2>1 DEF TypeOK
  <2>3. ~Contained(clone[t]) /\ u = t => verdict'[u] = "UNIQUE-WORK"
    BY <2>1 DEF TypeOK
  <2>4. ASSUME ~Excused(u), NEW o \in Obstacles \ {"LOCKED"}, Ahead(u, o), Stands(clone[u], o)
        PROVE  Ahead(u, o)' \/ verdict'[u] = "UNIQUE-WORK"
    BY <1>0, <2>1, <2>3, <2>4 DEF Ahead, Stands, Obstacles, FlowInv
  <2>5. ~Excused(u) /\ Reason(u) => Reason(u)'
    BY <2>1, <2>2, <2>4 DEF Reason
  <2> QED
    BY <1>0, <2>1, <2>2, <2>5
<1>7. ASSUME NEW t \in Trees, AskOwner(t) PROVE SafeOk(u)'
  <2>1. PICK verified \in {clone[t].live, FALSE} :
           /\ pc = "claimed" /\ t \in tree /\ pc' = "age"
           /\ verdict' = [verdict EXCEPT ![t] =
                             IF IsClaimed(t, verified) THEN "CLAIMED" ELSE "SAFE"]
           /\ misread' = IF verified # clone[t].live THEN misread \cup {t} ELSE misread
           /\ UNCHANGED <<clone, wasSafe, raced, stanza, upstream, todo, tree, mode>>
    BY <1>7 DEF AskOwner
  <2>2. CASE u # t
    <3>1. verdict'[u] = verdict[u] /\ (Excused(u) => Excused(u)')
      BY <2>1, <2>2 DEF TypeOK
    <3>2. Reason(u) => Reason(u)'
      <4>1. u \notin tree
        BY <2>1, <2>2 DEF FlowInv
      <4> QED
        BY <2>1, <3>1, <4>1 DEF Reason, Ahead
    <3> QED
      BY <1>0, <2>1, <3>1, <3>2
  <2>3. CASE u = t
    <3>1. verdict'[t] = IF IsClaimed(t, verified) THEN "CLAIMED" ELSE "SAFE"
      BY <2>1 DEF TypeOK
    <3>2. ~stanza[t].locked /\ verdict[t] = "none" /\ t \notin todo
      BY <2>1 DEF FlowInv
    <3>3. \A o \in Obstacles \ {"LOCKED"} : Ahead(t, o) => o = "CLAIMED"
      BY <2>1, <3>2 DEF Ahead
    <3>4. t \in raced \/ (clone[t].upstream = "remote" => upstream[t] = "remote")
      BY <1>0, <2>1, <2>3
    <3>5. CASE Excused(t)
      BY <1>0, <2>1, <2>3, <3>5
    <3>6. CASE ~Excused(t) /\ verified # clone[t].live
      BY <1>0, <2>1, <2>3, <3>6
    <3>7. CASE ~Excused(t) /\ verified = clone[t].live
      <4>1. Reason(t)
        BY <1>0, <2>1, <2>3, <3>7
      <4>2. Backed(clone[t])
        BY <3>2, <3>3, <4>1 DEF Reason, Stands
      <4>3. verdict'[t] = "CLAIMED"
        BY <3>1, <3>4, <3>7, <4>2 DEF Backed, IsClaimed
      <4>4. Reason(t)'
        BY <4>3 DEF Reason
      <4> QED
        BY <1>0, <2>1, <2>3, <4>3, <4>4
    <3> QED
      BY <3>5, <3>6, <3>7
  <2> QED
    BY <2>2, <2>3
<1>8. ASSUME NEW t \in Trees, ReadAge(t) \/ AgeUnknown(t) PROVE SafeOk(u)'
  <2>1. /\ pc = "age" /\ pc' \in {"report", "next"}
        /\ UNCHANGED <<clone, wasSafe, raced, misread, verdict, stanza, upstream, todo, tree, mode>>
    BY <1>8 DEF ReadAge, AgeUnknown
  <2>2. Reason(u) => Reason(u)'
    BY <2>1 DEF Reason, Ahead
  <2> QED
    BY <1>0, <2>1, <2>2
<1> QED
  BY <1>1, <1>2, <1>3, <1>4, <1>5, <1>6, <1>7, <1>8

LEMMA SafeInvariant == Spec => []SafeInv
<1>1. Init => SafeInv
  BY ClonesAssumption DEF Init, SafeInv, SafeOk, Listed, Open
<1>2. UNCHANGED vars /\ SafeInv => SafeInv'
  BY DEF vars, world, results, SafeInv, SafeOk, Listed, Open, Excused, Reason, Ahead
<1>3. TypeOK /\ FlowInv /\ SafeInv /\ [Next]_vars => SafeInv'
  BY <1>2, SafeStepOfClone, SafeStepOfCommand DEF Next
<1> QED
  BY <1>1, <1>3, TypeCorrect, FlowInvariant, PTL DEF Spec

\* However many changes strike between the calls, SAFE is no mixture of what
\* they saw: the tree was safe, in every respect at once, at some instant.
THEOREM SafeIsNoMixture == Spec => []SafeWasTrueOnce
<1>1. SafeInv => SafeWasTrueOnce
  BY DEF SafeInv, SafeOk, Excused, SafeWasTrueOnce
<1> QED
  BY <1>1, SafeInvariant, PTL

-----------------------------------------------------------------------------
\* While nothing has changed, every call has seen the one clone there is: the
\* listing is its locks and directories, each call a tree has passed is true of
\* it, and a verdict that is in is SAFE exactly when the tree is.
InUse(s)  == Stands(s, "LOCKED") \/ Stands(s, "DIRTY")
Judged(t) == Listed /\ pc # "refs" /\ t \notin todo /\ ~(pc \in Open /\ t \in tree)

QuietOk(t) ==
    changes = 0 =>
        /\ t \notin raced
        /\ Listed => stanza[t].locked = clone[t].locked /\ stanza[t].gone = clone[t].gone
        /\ Listed /\ pc # "refs" => upstream[t] = clone[t].upstream
        /\ pc \in {"contains", "claimed"} /\ t \in tree => ~InUse(clone[t])
        /\ pc = "claimed" /\ t \in tree => Contained(clone[t])
        /\ Judged(t) /\ t \notin misread => (verdict[t] = "SAFE" <=> TrulySafe(clone[t]))

QuietInv == \A t \in Trees : QuietOk(t)

LEMMA QuietStep ==
  ASSUME TypeOK, FlowInv, SafeInv, QuietInv,
         \/ ListTrees \/ ListRefs \/ HookDeclines \/ ProbeFails \/ Report
         \/ \E t \in Trees : \/ NextTree(t) \/ Status(t) \/ Contains(t)
                             \/ AskOwner(t) \/ ReadAge(t) \/ AgeUnknown(t)
  PROVE  QuietInv'
<1> SUFFICES ASSUME NEW u \in Trees, changes' = 0 PROVE QuietOk(u)'
  BY DEF QuietInv, QuietOk
<1>0. SafeOk(u) /\ QuietOk(u) /\ clone[u] \in TreeStates
  BY DEF SafeInv, QuietInv, TypeOK
<1> USE DEF QuietOk, Listed, Open, Goto, world, results
<1>1. CASE ListTrees
  <2>1. /\ pc = "list" /\ pc' = "refs"
        /\ stanza'[u] = [locked |-> clone[u].locked, gone |-> clone[u].gone]
        /\ UNCHANGED <<clone, raced, changes>>
    BY <1>1 DEF ListTrees
  <2> QED
    BY <1>0, <2>1 DEF Judged
<1>2. CASE ListRefs
  <2>1. /\ pc = "refs" /\ pc' = "next" /\ todo' = Trees /\ upstream'[u] = clone[u].upstream
        /\ UNCHANGED <<clone, raced, changes, stanza, tree>>
    BY <1>2 DEF ListRefs
  <2> QED
    BY <1>0, <2>1 DEF Judged
<1>3. CASE HookDeclines \/ ProbeFails \/ Report
  <2>1. /\ UNCHANGED <<clone, changes, raced, misread, verdict, stanza, upstream, todo, tree, mode>>
        /\ pc' = "done" /\ mode # "hook-compact" => pc = "report"
        /\ pc' \in {"done", "failed"}
    BY <1>3 DEF HookDeclines, ProbeFails, Report
  <2>2. Judged(u)' => Judged(u)
    BY <2>1 DEF Judged
  <2> QED
    BY <1>0, <2>1, <2>2
<1>4. ASSUME NEW t \in Trees, NextTree(t) PROVE QuietOk(u)'
  <2>1. /\ pc = "next" /\ t \in todo /\ tree' = {t} /\ todo' = todo \ {t}
        /\ pc' = IF stanza[t].locked THEN "age"
                 ELSE IF stanza[t].gone THEN "contains" ELSE "status"
        /\ UNCHANGED <<clone, changes, raced, misread, stanza, upstream, mode>>
        /\ verdict' = IF stanza[t].locked THEN [verdict EXCEPT ![t] = "LOCKED"] ELSE verdict
    BY <1>4 DEF NextTree, FirstCall
  <2>2. CASE u # t
    <3>1. verdict'[u] = verdict[u] /\ (Judged(u)' => Judged(u))
      BY <2>1, <2>2 DEF Judged, TypeOK
    <3> QED
      BY <1>0, <2>1, <2>2, <3>1
  <2>3. CASE u = t
    <3>1. stanza[u].locked = clone[u].locked /\ stanza[u].gone = clone[u].gone
      BY <1>0, <2>1
    <3>2. Judged(u)' => stanza[u].locked /\ verdict'[u] = "LOCKED"
      BY <2>1, <2>3 DEF Judged, TypeOK
    <3>3. pc' = "contains" => ~InUse(clone[u])
      BY <2>1, <2>3, <3>1 DEF InUse, Stands
    <3>4. Judged(u)' => ~TrulySafe(clone[u])
      BY <3>1, <3>2 DEF TrulySafe, InUse, Stands, Obstacles
    <3> QED
      BY <1>0, <2>1, <2>3, <3>1, <3>2, <3>3, <3>4
  <2> QED
    BY <2>2, <2>3
<1>5. ASSUME NEW t \in Trees, Status(t) PROVE QuietOk(u)'
  <2>1. /\ pc = "status" /\ t \in tree
        /\ pc' = IF clone[t].dirty THEN "age" ELSE "contains"
        /\ verdict' = IF clone[t].dirty THEN [verdict EXCEPT ![t] = "DIRTY"] ELSE verdict
        /\ ~clone[t].gone
        /\ UNCHANGED <<clone, changes, raced, misread, stanza, upstream, todo, tree, mode>>
    BY <1>5 DEF Status
  <2>2. CASE u # t
    <3>1. u \notin tree
      BY <2>1, <2>2 DEF FlowInv
    <3>2. verdict'[u] = verdict[u] /\ (Judged(u)' => Judged(u))
      BY <2>1, <2>2, <3>1 DEF Judged, TypeOK
    <3> QED
      BY <1>0, <2>1, <3>1, <3>2
  <2>3. CASE u = t
    <3>1. ~clone[u].locked
      BY <1>0, <2>1, <2>3 DEF FlowInv
    <3>2. CASE clone[u].dirty
      <4>1. verdict'[u] = "DIRTY" /\ pc' = "age" /\ ~TrulySafe(clone[u])
        BY <2>1, <2>3, <3>2 DEF TypeOK, TrulySafe, InUse, Stands, Obstacles
      <4> QED
        BY <1>0, <2>1, <4>1
    <3>3. CASE ~clone[u].dirty
      BY <1>0, <2>1, <2>3, <3>1, <3>3 DEF InUse, Stands, Judged
    <3> QED
      BY <3>2, <3>3
  <2> QED
    BY <2>2, <2>3
<1>6. ASSUME NEW t \in Trees, Contains(t) PROVE QuietOk(u)'
  <2>1. /\ pc = "contains" /\ t \in tree
        /\ pc' = IF Contained(clone[t]) THEN "claimed" ELSE "age"
        /\ verdict' = IF Contained(clone[t]) THEN verdict
                      ELSE [verdict EXCEPT ![t] = "UNIQUE-WORK"]
        /\ UNCHANGED <<clone, changes, raced, misread, stanza, upstream, todo, tree, mode>>
    BY <1>6 DEF Contains
  <2>2. CASE u # t
    <3>1. u \notin tree
      BY <2>1, <2>2 DEF FlowInv
    <3>2. verdict'[u] = verdict[u] /\ (Judged(u)' => Judged(u))
      BY <2>1, <2>2, <3>1 DEF Judged, TypeOK
    <3> QED
      BY <1>0, <2>1, <3>1, <3>2
  <2>3. CASE u = t
    <3>1. CASE Contained(clone[u])
      BY <1>0, <2>1, <2>3, <3>1 DEF Judged
    <3>2. CASE ~Contained(clone[u])
      <4>1. verdict'[u] = "UNIQUE-WORK" /\ pc' = "age" /\ ~TrulySafe(clone[u])
        BY <2>1, <2>3, <3>2 DEF TypeOK, TrulySafe, Stands, Obstacles
      <4> QED
        BY <1>0, <2>1, <4>1
    <3> QED
      BY <3>1, <3>2
  <2> QED
    BY <2>2, <2>3
<1>7. ASSUME NEW t \in Trees, AskOwner(t) PROVE QuietOk(u)'
  <2>1. PICK verified \in {clone[t].live, FALSE} :
           /\ pc = "claimed" /\ t \in tree /\ pc' = "age"
           /\ verdict' = [verdict EXCEPT ![t] =
                             IF IsClaimed(t, verified) THEN "CLAIMED" ELSE "SAFE"]
           /\ misread' = IF verified # clone[t].live THEN misread \cup {t} ELSE misread
           /\ UNCHANGED <<clone, changes, raced, stanza, upstream, todo, tree, mode>>
    BY <1>7 DEF AskOwner
  <2>2. CASE u # t
    <3>1. u \notin tree /\ misread \subseteq misread'
      BY <2>1, <2>2 DEF FlowInv
    <3>2. verdict'[u] = verdict[u] /\ (Judged(u)' => Judged(u))
      BY <2>1, <2>2, <3>1 DEF Judged, TypeOK
    <3> QED
      BY <1>0, <2>1, <3>1, <3>2
  <2>3. CASE u = t
    <3>1. verdict'[t] = IF IsClaimed(t, verified) THEN "CLAIMED" ELSE "SAFE"
      BY <2>1 DEF TypeOK
    <3>2. /\ Contained(clone[t]) /\ ~clone[t].moved /\ ~InUse(clone[t])
          /\ upstream[t] = clone[t].upstream
      BY <1>0, <2>1, <2>3 DEF SafeOk
    <3>3. CASE verified = clone[t].live
      <4>1. IsClaimed(t, verified) <=> Backed(clone[t])
        BY <1>0, <2>3, <3>2, <3>3 DEF IsClaimed, Backed, TreeStates
      <4>2. verdict'[t] = "SAFE" <=> TrulySafe(clone[t])
        BY <3>1, <3>2, <4>1 DEF TrulySafe, Stands, Obstacles, InUse
      <4> QED
        BY <1>0, <2>1, <2>3, <4>2
    <3>4. CASE verified # clone[t].live
      BY <1>0, <2>1, <2>3, <3>4
    <3> QED
      BY <3>3, <3>4
  <2> QED
    BY <2>2, <2>3
<1>8. ASSUME NEW t \in Trees, ReadAge(t) \/ AgeUnknown(t) PROVE QuietOk(u)'
  <2>1. /\ pc = "age" /\ pc' \in {"report", "next"}
        /\ UNCHANGED <<clone, changes, raced, misread, verdict, stanza, upstream, todo, tree, mode>>
    BY <1>8 DEF ReadAge, AgeUnknown
  <2>2. Judged(u)' => Judged(u)
    BY <2>1 DEF Judged
  <2> QED
    BY <1>0, <2>1, <2>2
<1> QED
  BY <1>1, <1>2, <1>3, <1>4, <1>5, <1>6, <1>7, <1>8

LEMMA QuietInvariant == Spec => []QuietInv
<1>1. Init => QuietInv
  BY DEF Init, QuietInv, QuietOk, Judged, Listed, Open
<1>2. UNCHANGED vars /\ QuietInv => QuietInv'
  BY DEF vars, world, results, QuietInv, QuietOk, Judged, Listed, Open
<1>3. ASSUME NEW t \in Trees, NEW c \in Changes, TypeOK, CloneChanges(t, c) PROVE QuietInv'
  BY <1>3 DEF CloneChanges, TypeOK, QuietInv, QuietOk
<1>4. TypeOK /\ FlowInv /\ SafeInv /\ QuietInv /\ [Next]_vars => QuietInv'
  BY <1>2, <1>3, QuietStep DEF Next
<1> QED
  BY <1>1, <1>4, TypeCorrect, FlowInvariant, SafeInvariant, PTL DEF Spec

\* A finished run over a clone that held still names a tree exactly when it is
\* safe, has a directory and was measured as idle.
THEOREM QuietRunIsExact == Spec => []QuietReportIsExact
<1>1. TypeOK /\ FlowInv /\ SafeInv /\ QuietInv => QuietReportIsExact
  <2> SUFFICES ASSUME TypeOK, FlowInv, SafeInv, QuietInv, pc = "done", mode # "hook-compact",
                      changes = 0, NEW t \in Trees \ misread
               PROVE  t \in named <=> TrulySafe(clone[t]) /\ ~clone[t].gone /\ age[t] >= Idle
    BY DEF QuietReportIsExact
  <2>1. Listed /\ Judged(t)
    BY DEF Judged, Listed, Open, FlowInv
  <2>2. verdict[t] = "SAFE" <=> TrulySafe(clone[t])
    BY <2>1 DEF QuietInv, QuietOk
  <2>3. t \in named <=> Reclaimable(t)
    BY DEF FlowInv
  <2>4. age[t] # UNKNOWN => ~clone[t].gone
    BY <2>1 DEF FlowInv, SafeInv, SafeOk
  <2>5. age[t] >= Idle => age[t] # UNKNOWN
    BY IdleAssumption DEF UNKNOWN
  <2> QED
    BY <2>2, <2>3, <2>4, <2>5 DEF Reclaimable
<1> QED
  BY <1>1, TypeCorrect, FlowInvariant, SafeInvariant, QuietInvariant, PTL
=============================================================================
