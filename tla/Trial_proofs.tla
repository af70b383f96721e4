----------------------------- MODULE Trial_proofs -----------------------------
(***************************************************************************)
(* Proofs about DepsCache and Trial for any pins, deps, tools and calls.   *)
(* Of the cache: type correctness always, and the soundness of the stamp   *)
(* and of what a trial links while the manifest never moves back to an     *)
(* earlier pin.  Of a trial: it is one behaviour of the cache, so all that *)
(* holds under it; it runs in a hermetic tree, however many provisionings  *)
(* failed before it; and its score is earned.                              *)
(***************************************************************************)
EXTENDS Trial, TLAPS

USE ShasAssumption, DepsAssumption DEF ShasAssumption, DepsAssumption

-----------------------------------------------------------------------------
\* Every step of the caller and of its surroundings keeps every variable in
\* its domain, and an abandoned build is never left marked as running.
THEOREM TypeCorrect == Spec => []TypeOK
<1>1. Init => TypeOK
  BY DEF Init, TypeOK, Tree, Absent
<1>2. TypeOK /\ [Next]_vars => TypeOK'
  <2> SUFFICES ASSUME TypeOK, [Next]_vars PROVE TypeOK'
    OBVIOUS
  <2> USE DEF TypeOK, disk, local
  <2>1. CASE EnsureStart
    BY <2>1 DEF EnsureStart
  <2>2. CASE \E d \in Paths : WipeStarts(d)
    <3> PICK d \in Paths : WipeStarts(d)
      BY <2>2
    <3>1. tree[d] \in Tree /\ tree[d].whole
      BY DEF WipeStarts
    <3>2. [tree[d] EXCEPT !.whole = FALSE] \in Tree
      <4>1. tree[d] \in [sha : Shas, whole : BOOLEAN]
        BY <3>1 DEF Tree, Absent
      <4> QED
        BY <4>1 DEF Tree
    <3> QED
      BY <3>2 DEF WipeStarts
  <2>3. CASE \E d \in Paths : WipeEnds(d)
    <3> PICK d \in Paths : WipeEnds(d)
      BY <2>3
    <3>1. Absent \in Tree
      BY DEF Tree
    <3>2. making' \subseteq todo'
      BY DEF WipeEnds
    <3> QED
      BY <3>1, <3>2 DEF WipeEnds
  <2>4. CASE DropStamp
    BY <2>4 DEF DropStamp
  <2>5. CASE \E d \in Paths : BuildSkips(d)
    BY <2>5 DEF BuildSkips
  <2>6. CASE \E d \in Paths : BuildStarts(d)
    <3> PICK d \in Paths : BuildStarts(d)
      BY <2>6
    <3>1. Part(want) \in Tree
      BY DEF BuildStarts, Part, Tree
    <3> QED
      BY <3>1 DEF BuildStarts
  <2>7. CASE \E d \in Paths : BuildEnds(d)
    <3> PICK d \in Paths : BuildEnds(d)
      BY <2>7
    <3>1. Whole(want) \in Tree
      BY DEF BuildEnds, Whole, Tree
    <3> QED
      BY <3>1 DEF BuildEnds
  <2>8. CASE StampStarts \/ StampEnds \/ Warmup \/ TrialStarts
    BY <2>8 DEF StampStarts, ReadyToStamp, StampEnds, Warmup, TrialStarts
  <2>9. CASE Provision \/ \E d \in Paths : Link(d)
    BY <2>9 DEF Provision, Link
  <2>10. CASE Abandon \/ \E s \in Shas : Repin(s)
    BY <2>10 DEF Abandon, Repin
  <2>11. CASE UNCHANGED vars
    BY <2>11 DEF vars
  <2> QED
    BY <2>1, <2>2, <2>3, <2>4, <2>5, <2>6, <2>7, <2>8, <2>9, <2>10, <2>11
       DEF Next, Ensure, Serve
<1> QED
  BY <1>1, <1>2, PTL DEF Spec

-----------------------------------------------------------------------------
\* The step lemma: each step of a caller that meets only forward pins keeps
\* the inductive invariant.
LEMMA CacheInvStep ==
    ASSUME ~Rollback, TypeOK, TypeOK', CacheInv, [Next]_vars PROVE CacheInv'
<1> USE DEF CacheInv, PinsInOrder, WipedSoFar, BuiltSoFar, StampVouches,
            EnsuredMeansBuilt, disk, local
<1>0. /\ pin \in Nat /\ want \in Nat /\ stamp \in Nat
      /\ \A s : Absent # Whole(s)
  <2>1. pin \in Nat /\ want \in Nat /\ stamp \in Nat
    BY DEF TypeOK
  <2>2. \A s : Absent.whole # Whole(s).whole
    BY DEF Absent, Whole
  <2> QED
    BY <2>1, <2>2
<1>1. CASE EnsureStart
  <2>1. stamp <= pin /\ want' = pin /\ UNCHANGED <<pin, stamp, tree>>
    BY <1>0, <1>1 DEF EnsureStart
  <2>2. stamp = pin => want = pin /\ Built(pin)
    BY <1>0 DEF TypeOK
  <2>3. pc' = "wipe" => stamp < pin
    BY <1>0, <1>1, <2>1 DEF EnsureStart, StampMatches
  <2>4. pc' = "warmup" => Built(pin)
    BY <1>1 DEF EnsureStart, Built
  <2>5. pc' = "build" => Built(pin)
    BY <1>1, <2>2 DEF EnsureStart, StampMatches
  <2>6. WipedSoFar' /\ BuiltSoFar'
    BY <1>1, <2>1, <2>3, <2>5 DEF EnsureStart, Built
  <2>7. StampVouches' /\ EnsuredMeansBuilt'
    BY <1>1, <2>1, <2>2, <2>4 DEF EnsureStart, Built
  <2> QED
    BY <1>0, <2>1, <2>6, <2>7
<1>2. ASSUME NEW d \in Paths, WipeStarts(d) \/ WipeEnds(d) PROVE CacheInv'
  <2>1. pc = "wipe" /\ UNCHANGED <<pin, stamp, want, pc>>
    BY <1>2 DEF WipeStarts, WipeEnds
  <2>2. \A e \in DepsOf[want] \ todo' : tree'[e] = Absent
    BY <1>2, <2>1 DEF WipeStarts, WipeEnds, TypeOK
  <2> QED
    BY <1>0, <2>1, <2>2
<1>3. CASE DropStamp
  BY <1>0, <1>3 DEF DropStamp
<1>4. ASSUME NEW d \in Paths, BuildSkips(d) PROVE CacheInv'
  <2>1. pc = "build" /\ making = {} /\ d \in todo /\ tree[d] # Absent
        /\ todo' = todo \ {d} /\ UNCHANGED <<pin, tree, stamp, pc, want, making>>
    BY <1>4 DEF BuildSkips, Present
  <2>2. BuiltSoFar'
    BY <2>1
  <2>3. StampVouches'
    BY <2>1 DEF Built
  <2> QED
    BY <2>1, <2>2, <2>3
<1>5. ASSUME NEW d \in Paths, BuildStarts(d) PROVE CacheInv'
  <2>1. pc = "build" /\ making = {} /\ d \in todo /\ tree[d] = Absent
        /\ tree' = [tree EXCEPT ![d] = Part(want)] /\ making' = {d}
        /\ UNCHANGED <<pin, stamp, pc, want, todo>>
    BY <1>5 DEF BuildStarts, Present
  <2>2. \A e \in Paths : e # d => tree'[e] = tree[e]
    BY <2>1 DEF TypeOK
  <2>3. DepsOf[want] \subseteq Paths
    BY <2>1 DEF TypeOK
  <2>4. BuiltSoFar'
    BY <2>1, <2>2, <2>3
  <2>5. StampVouches'
    BY <1>0, <2>1, <2>2, <2>3 DEF Built
  <2> QED
    BY <2>1, <2>4, <2>5
<1>6. ASSUME NEW d \in Paths, BuildEnds(d) PROVE CacheInv'
  <2>1. pc = "build" /\ tree' = [tree EXCEPT ![d] = Whole(want)]
        /\ making' = {} /\ todo' = todo \ {d} /\ making \subseteq {d}
        /\ UNCHANGED <<pin, stamp, pc, want>>
    BY <1>6 DEF BuildEnds, TypeOK
  <2>2. DepsOf[want] \subseteq Paths
    BY <2>1 DEF TypeOK
  <2>3. /\ tree'[d] = Whole(want)
        /\ \A e \in Paths : e # d => tree'[e] = tree[e]
    BY <2>1 DEF TypeOK
  <2>4. BuiltSoFar'
    BY <2>1, <2>2, <2>3
  <2>5. StampVouches'
    BY <2>1, <2>2, <2>3 DEF Built
  <2> QED
    BY <2>1, <2>4, <2>5
<1>7. CASE StampStarts \/ StampEnds \/ Warmup
  BY <1>0, <1>7 DEF StampStarts, StampEnds, Warmup, ReadyToStamp, Built
<1>8. CASE Provision \/ TrialStarts \/ \E d \in Paths : Link(d)
  BY <1>0, <1>8 DEF Provision, TrialStarts, Link, Built
<1>9. CASE Abandon
  BY <1>0, <1>9 DEF Abandon, Built
<1>10. CASE \E s \in Shas : Repin(s)
  BY <1>0, <1>10 DEF Repin, Built
<1>11. CASE UNCHANGED vars
  BY <1>11 DEF vars, Built
<1> QED
  BY <1>1, <1>2, <1>3, <1>4, <1>5, <1>6, <1>7, <1>8, <1>9, <1>10, <1>11
     DEF Next, Ensure, Serve

\* Pins that only move forward keep the inductive invariant in every state.
THEOREM CacheInvariant == ASSUME ~Rollback PROVE Spec => []CacheInv
<1>1. Init => CacheInv
  BY DEF Init, CacheInv, PinsInOrder, WipedSoFar, BuiltSoFar, StampVouches,
         EnsuredMeansBuilt
<1>2. TypeOK /\ TypeOK' /\ CacheInv /\ [Next]_vars => CacheInv'
  BY CacheInvStep
<1> QED
  BY <1>1, <1>2, TypeCorrect, PTL DEF Spec

\* The stamp never lies: for any pins and deps, when it names the current pin
\* every dep of that pin is whole and built from it.
THEOREM StampSound == ASSUME ~Rollback PROVE Spec => []StampMeansBuilt
<1>1. TypeOK /\ CacheInv => StampMeansBuilt
  BY DEF TypeOK, CacheInv, PinsInOrder, StampVouches, StampMeansBuilt
<1> QED
  BY <1>1, TypeCorrect, CacheInvariant, PTL

\* Once ensure_deps is past its build loop, every dep of the pin it read is
\* whole and built from that pin until the caller is done.
THEOREM EnsuredSound == ASSUME ~Rollback PROVE Spec => []EnsuredMeansBuilt
<1>1. CacheInv => EnsuredMeansBuilt
  BY DEF CacheInv
<1> QED
  BY <1>1, CacheInvariant, PTL

\* A trial archived at the pin ensure_deps read runs on that pin's deps.
THEOREM TrialSound == ASSUME ~Rollback PROVE Spec => []TrialDepsSound
<1>1. CacheInv => TrialDepsSound
  BY DEF CacheInv, EnsuredMeansBuilt, TrialDepsSound
<1> QED
  BY <1>1, CacheInvariant, PTL

\* No call, failure or retry touches a tree that a matching stamp vouches for.
THEOREM CacheKept == ASSUME ~Rollback PROVE Spec => CacheIsKept
<1> DEFINE Kept == \A d \in DepsOf[pin] :
                       (stamp = pin /\ tree[d] = Whole(pin)) => tree'[d] = tree[d]
<1>1. ASSUME TypeOK, CacheInv, Next PROVE Kept
  <2> SUFFICES ASSUME NEW d \in DepsOf[pin], stamp = pin, tree[d] = Whole(pin)
               PROVE tree'[d] = tree[d]
    OBVIOUS
  <2>1. stamp = want /\ pc # "wipe"
    BY <1>1 DEF TypeOK, CacheInv, PinsInOrder, WipedSoFar
  <2>2. tree[d] # Absent /\ \A e \in DepsOf[want] : tree[e] = Whole(want)
    BY <1>1, <2>1 DEF TypeOK, CacheInv, StampVouches, Built, Whole, Absent
  <2>3. CASE \E e \in Paths : BuildStarts(e)
    BY <1>1, <2>2, <2>3 DEF BuildStarts, Present, TypeOK
  <2>4. CASE \E e \in Paths : BuildEnds(e)
    BY <1>1, <2>1, <2>4 DEF BuildEnds, TypeOK
  <2>5. CASE \E e \in Paths : WipeStarts(e) \/ WipeEnds(e)
    BY <2>1, <2>5 DEF WipeStarts, WipeEnds
  <2>6. CASE UNCHANGED tree
    BY <2>6
  <2> QED
    BY <1>1, <2>3, <2>4, <2>5, <2>6
       DEF Next, Ensure, Serve, EnsureStart, DropStamp, BuildSkips, StampStarts,
           StampEnds, Warmup, Provision, Link, TrialStarts, Abandon, Repin, disk
<1>2. TypeOK /\ CacheInv /\ [Next]_vars => [Kept]_vars
  BY <1>1
<1> QED
  BY <1>2, TypeCorrect, CacheInvariant, PTL DEF Spec, CacheIsKept

-----------------------------------------------------------------------------
\* What a trial does to the cache is what the cache's own specification allows.
LEMMA TrialStepIsCacheStep == [TrialNext]_trialVars => [Next]_vars
<1> SUFFICES ASSUME [TrialNext]_trialVars PROVE [Next]_vars
  OBVIOUS
<1>1. CASE CacheStep
  BY <1>1 DEF CacheStep, Next
<1>2. CASE ProvisionStarts \/ CommitTree \/ Stops \/ \E d \in Paths : LinkDep(d)
  BY <1>2 DEF ProvisionStarts, CommitTree, Stops, LinkDep, Next, Serve
<1>3. CASE ExportTree \/ ApplyFixture \/ Repairs \/ ScoreTrial \/ FreshDest
  BY <1>3 DEF ExportTree, ApplyFixture, Repairs, ScoreTrial, FreshDest
<1>4. CASE \E name \in DOMAIN Arms : Launch(name)
  BY <1>4 DEF Launch
<1>5. CASE \E c \in AgentCalls : CallsTool(c)
  BY <1>5 DEF CallsTool
<1>6. CASE \E claim \in {"right", "wrong"} : Claims(claim)
  BY <1>6 DEF Claims
<1>7. CASE UNCHANGED trialVars
  BY <1>7 DEF trialVars
<1> QED
  BY <1>1, <1>2, <1>3, <1>4, <1>5, <1>6, <1>7 DEF TrialNext

\* Trials, failed provisionings and agents included, implement the cache's
\* specification: nothing a trial does is a step the cache was not checked for.
THEOREM TrialImplementsCache == TrialSpec => Spec
<1>1. TrialInit => Init
  BY DEF TrialInit
<1> QED
  BY <1>1, TrialStepIsCacheStep, PTL DEF TrialSpec, Spec

\* While the manifest only moves forward, what a trial links is whole and of the
\* pin ensure_deps read, whatever the trial before it did.
THEOREM TrialDepsAreWhole == ASSUME ~Rollback PROVE TrialSpec => []EnsuredMeansBuilt
BY TrialImplementsCache, EnsuredSound

-----------------------------------------------------------------------------
\* Why the tree is hermetic: from the moment the provisioning has found an empty
\* `dest`, the tree holds the archived pin or nothing, and the links that the
\* loop has handled.
HermeticInv ==
    /\ pc = "link" =>
        /\ archived \in Shas /\ todo \subseteq DepsOf[archived]
        /\ \/ /\ dest.pins \in {{}, {archived}}
              /\ dest = [pins |-> dest.pins, prompt |-> FALSE, links |-> {}, committed |-> FALSE]
              /\ todo = DepsOf[archived]
           \/ dest = [pins |-> {archived}, prompt |-> TRUE,
                      links |-> DepsOf[archived] \ todo, committed |-> FALSE]
    /\ HermeticTree

LEMMA HermeticStep ==
    ASSUME TypeOK, HermeticInv, [TrialNext]_trialVars
    PROVE  HermeticInv'
<1>1. CASE CacheStep
  <2>1. UNCHANGED <<dest, archived>>
    BY <1>1 DEF CacheStep, Ensure, EnsureStart, DropStamp, StampStarts, StampEnds, Warmup,
                WipeStarts, WipeEnds, BuildSkips, BuildStarts, BuildEnds, Repin, local
  <2>2. CASE \E s \in Shas : Repin(s)
    BY <2>1, <2>2 DEF Repin, local, HermeticInv, HermeticTree
  <2>3. CASE Ensure
    <3>1. pc' \notin {"link", "trial"}
      BY <2>3 DEF Ensure, EnsureStart, DropStamp, StampStarts, StampEnds, Warmup,
                  WipeStarts, WipeEnds, BuildSkips, BuildStarts, BuildEnds, local
    <3> QED
      BY <3>1 DEF HermeticInv, HermeticTree
  <2> QED
    BY <1>1, <2>2, <2>3 DEF CacheStep
<1>2. CASE ProvisionStarts
  <2>1. archived' = pin /\ todo' = DepsOf[pin] /\ pc' = "link" /\ pin \in Shas
    BY <1>2 DEF ProvisionStarts, Provision, TypeOK
  <2>2. dest' = EmptyDest
    BY <1>2 DEF ProvisionStarts, DestIsFree
  <2> QED
    BY <2>1, <2>2 DEF HermeticInv, HermeticTree, EmptyDest
<1>3. CASE ExportTree
  <2>1. pc = "link" /\ pc' = "link" /\ archived' = archived /\ todo' = todo
    BY <1>3 DEF ExportTree, Provisioning, vars, local
  <2>2. archived \notin dest.pins /\ dest' = [dest EXCEPT !.pins = @ \cup {archived}]
    BY <1>3 DEF ExportTree
  <2>3. /\ dest = [pins |-> {}, prompt |-> FALSE, links |-> {}, committed |-> FALSE]
        /\ todo = DepsOf[archived] /\ archived \in Shas
    BY <2>1, <2>2 DEF HermeticInv
  <2>4. dest' = [pins |-> {archived}, prompt |-> FALSE, links |-> {}, committed |-> FALSE]
    BY <2>2, <2>3
  <2> QED
    BY <2>1, <2>3, <2>4 DEF HermeticInv, HermeticTree
<1>4. CASE ApplyFixture
  <2>1. pc = "link" /\ pc' = "link" /\ archived' = archived /\ todo' = todo
    BY <1>4 DEF ApplyFixture, Provisioning, vars, local
  <2>2. archived \in dest.pins /\ ~dest.prompt /\ dest' = [dest EXCEPT !.prompt = TRUE]
    BY <1>4 DEF ApplyFixture
  <2>3. /\ dest = [pins |-> {archived}, prompt |-> FALSE, links |-> {}, committed |-> FALSE]
        /\ todo = DepsOf[archived] /\ archived \in Shas
    BY <2>1, <2>2 DEF HermeticInv
  <2>4. dest' = [pins |-> {archived}, prompt |-> TRUE, links |-> {}, committed |-> FALSE]
    BY <2>2, <2>3
  <2>5. DepsOf[archived] \ todo = {}
    BY <2>3
  <2> QED
    BY <2>1, <2>3, <2>4, <2>5 DEF HermeticInv, HermeticTree
<1>5. ASSUME NEW d \in Paths, LinkDep(d) PROVE HermeticInv'
  <2>1. /\ pc = "link" /\ d \in todo /\ pc' = "link" /\ archived' = archived
        /\ todo' = todo \ {d}
    BY <1>5 DEF LinkDep, Link
  <2>2. dest.prompt /\ dest' = [dest EXCEPT !.links = @ \cup {d}]
    BY <1>5 DEF LinkDep
  <2>3. /\ dest = [pins |-> {archived}, prompt |-> TRUE,
                   links |-> DepsOf[archived] \ todo, committed |-> FALSE]
        /\ archived \in Shas /\ todo \subseteq DepsOf[archived]
    BY <2>1, <2>2 DEF HermeticInv
  <2>4. (DepsOf[archived] \ todo) \cup {d} = DepsOf[archived] \ todo'
    BY <2>1, <2>3
  <2>5. dest' = [pins |-> {archived}, prompt |-> TRUE,
                 links |-> DepsOf[archived] \ todo', committed |-> FALSE]
    BY <2>2, <2>3, <2>4
  <2> QED
    BY <2>1, <2>3, <2>5 DEF HermeticInv, HermeticTree
<1>6. CASE CommitTree
  <2>1. pc = "link" /\ todo = {} /\ pc' = "trial" /\ archived' = archived
    BY <1>6 DEF CommitTree, TrialStarts
  <2>2. dest.prompt /\ dest' = [dest EXCEPT !.committed = TRUE]
    BY <1>6 DEF CommitTree
  <2>3. dest = [pins |-> {archived}, prompt |-> TRUE, links |-> DepsOf[archived] \ todo,
                committed |-> FALSE]
    BY <2>1, <2>2 DEF HermeticInv
  <2>4. dest' = [pins |-> {archived}, prompt |-> TRUE, links |-> DepsOf[archived],
                 committed |-> TRUE]
    BY <2>1, <2>2, <2>3
  <2> QED
    BY <2>1, <2>4 DEF HermeticInv, HermeticTree
<1>7. CASE Stops \/ FreshDest
  <2>1. pc' = "idle"
    BY <1>7 DEF Stops, FreshDest, Abandon, vars, local
  <2> QED
    BY <2>1 DEF HermeticInv, HermeticTree
<1>8. CASE \/ \E name \in DOMAIN Arms : Launch(name)
           \/ \E c \in AgentCalls : CallsTool(c)
           \/ \E claim \in {"right", "wrong"} : Claims(claim)
           \/ Repairs \/ ScoreTrial \/ UNCHANGED trialVars
  <2>1. UNCHANGED <<pc, archived, todo, dest>>
    BY <1>8 DEF Launch, CallsTool, Claims, Repairs, ScoreTrial, trialVars, vars, local
  <2> QED
    BY <2>1 DEF HermeticInv, HermeticTree
<1> QED
  BY <1>1, <1>2, <1>3, <1>4, <1>5, <1>6, <1>7, <1>8 DEF TrialNext

LEMMA HermeticInvariant == TrialSpec => []HermeticInv
<1>1. TrialInit => HermeticInv
  BY DEF TrialInit, Init, HermeticInv, HermeticTree
<1>2. TypeOK /\ HermeticInv /\ [TrialNext]_trialVars => HermeticInv'
  BY HermeticStep
<1>3. TrialSpec => []TypeOK
  BY TrialImplementsCache, TypeCorrect
<1> QED
  BY <1>1, <1>2, <1>3, PTL DEF TrialSpec

\* A trial runs in a tree that this provisioning made whole: one pin's export,
\* its prompt and the links of that pin's deps, whatever earlier attempts left
\* in `dest`, for any pins and deps, the manifest moving back included (C1).
THEOREM TreeIsHermetic == TrialSpec => []HermeticTree
<1>1. HermeticInv => HermeticTree
  BY DEF HermeticInv
<1> QED
  BY <1>1, HermeticInvariant, PTL

-----------------------------------------------------------------------------
\* The transcript is a sequence of the agent's calls, the calls before its
\* claim are some of them, and a launched trial has the tools of one arm.
Dest == [pins : SUBSET Shas, prompt : BOOLEAN, links : SUBSET Paths, committed : BOOLEAN]
TranscriptOk ==
    /\ session \in [calls : Seq(AgentCalls), claim : {"none", "right", "wrong"}, before : Nat]
    /\ session.before <= Len(session.calls) /\ Len(session.calls) <= MaxCalls
ArmOk ==
    /\ arm \in {NoArm} \cup {Arms[name] : name \in DOMAIN Arms}
    /\ arm = NoArm \/ pc = "trial"
    /\ result.scored => arm # NoArm
TrialTypeInv == TypeOK /\ dest \in Dest /\ TranscriptOk /\ ArmOk /\ repaired \in BOOLEAN

LEMMA DestStep ==
    ASSUME dest \in Dest, HermeticInv, [TrialNext]_trialVars PROVE dest' \in Dest
<1> USE DEF Dest
<1>1. CASE ProvisionStarts \/ CacheStep \/ Stops
  BY <1>1 DEF ProvisionStarts, CacheStep, Stops
<1>2. CASE FreshDest
  <2>1. EmptyDest \in Dest
    BY DEF EmptyDest
  <2> QED
    BY <1>2, <2>1 DEF FreshDest
<1>3. CASE ExportTree
  BY <1>3 DEF ExportTree, Provisioning, HermeticInv
<1>4. CASE ApplyFixture \/ CommitTree
  BY <1>4 DEF ApplyFixture, CommitTree
<1>5. CASE \E d \in Paths : LinkDep(d)
  BY <1>5 DEF LinkDep
<1>6. CASE \/ \E name \in DOMAIN Arms : Launch(name)
           \/ \E c \in AgentCalls : CallsTool(c)
           \/ \E claim \in {"right", "wrong"} : Claims(claim)
           \/ Repairs \/ ScoreTrial \/ UNCHANGED trialVars
  BY <1>6 DEF Launch, CallsTool, Claims, Repairs, ScoreTrial, trialVars
<1> QED
  BY <1>1, <1>2, <1>3, <1>4, <1>5, <1>6 DEF TrialNext

LEMMA TranscriptStep ==
    ASSUME TranscriptOk, [TrialNext]_trialVars PROVE TranscriptOk'
<1> USE MaxCallsAssumption DEF TranscriptOk
<1>0. session.calls \in Seq(AgentCalls) /\ Len(session.calls) \in Nat
  OBVIOUS
<1>1. ASSUME NEW c \in AgentCalls, CallsTool(c) PROVE TranscriptOk'
  <2>1. /\ Append(session.calls, c) \in Seq(AgentCalls)
        /\ Len(Append(session.calls, c)) = Len(session.calls) + 1
    BY <1>0
  <2>2. /\ session' = [session EXCEPT !.calls = Append(session.calls, c)]
        /\ Len(session.calls) < MaxCalls
    BY <1>1 DEF CallsTool
  <2>3. /\ session'.calls = Append(session.calls, c) /\ session'.before = session.before
        /\ session' \in [calls : Seq(AgentCalls), claim : {"none", "right", "wrong"},
                         before : Nat]
    BY <2>1, <2>2
  <2> QED
    BY <1>0, <2>1, <2>2, <2>3
<1>2. ASSUME NEW claim \in {"right", "wrong"}, Claims(claim) PROVE TranscriptOk'
  <2> PICK n \in {0, Len(session.calls) - 1, Len(session.calls)} \cap Nat :
             session' = [session EXCEPT !.claim = claim, !.before = n]
    BY <1>2 DEF Claims
  <2>1. n \in Nat /\ n <= Len(session.calls)
    BY <1>0
  <2>2. /\ session'.calls = session.calls /\ session'.before = n
        /\ session' \in [calls : Seq(AgentCalls), claim : {"none", "right", "wrong"},
                         before : Nat]
    BY <2>1
  <2> QED
    BY <2>1, <2>2
<1>3. CASE Stops
  <2>1. <<>> \in Seq(AgentCalls) /\ Len(<<>>) = 0
    OBVIOUS
  <2>2. session' = [calls |-> <<>>, claim |-> "none", before |-> 0]
    BY <1>3 DEF Stops, NoSession
  <2>3. session'.calls = <<>> /\ session'.before = 0
    BY <2>2
  <2> QED
    BY <2>1, <2>2, <2>3
<1>4. ASSUME UNCHANGED session PROVE TranscriptOk'
  BY <1>4
<1>5. CASE \/ CacheStep \/ ProvisionStarts \/ ExportTree \/ ApplyFixture
           \/ \E d \in Paths : LinkDep(d)
           \/ CommitTree \/ FreshDest \/ \E name \in DOMAIN Arms : Launch(name)
           \/ Repairs \/ ScoreTrial \/ UNCHANGED trialVars
  BY <1>4, <1>5 DEF CacheStep, ProvisionStarts, ExportTree, ApplyFixture, LinkDep, CommitTree,
                    FreshDest, Launch, Repairs, ScoreTrial, trialVars
<1> QED
  BY <1>1, <1>2, <1>3, <1>5 DEF TrialNext

LEMMA ArmStep ==
    ASSUME ArmOk, repaired \in BOOLEAN, [TrialNext]_trialVars
    PROVE  ArmOk' /\ repaired' \in BOOLEAN
<1>1. CASE CacheStep
  <2>1. UNCHANGED <<arm, repaired, result>>
    BY <1>1 DEF CacheStep
  <2>2. pc' = pc \/ pc # "trial"
    BY <1>1 DEF CacheStep, Ensure, EnsureStart, DropStamp, StampStarts, StampEnds, Warmup,
                WipeStarts, WipeEnds, BuildSkips, BuildStarts, BuildEnds, Repin, local
  <2> QED
    BY <2>1, <2>2 DEF ArmOk
<1>2. CASE \/ ProvisionStarts \/ CommitTree \/ FreshDest \/ ExportTree \/ ApplyFixture
           \/ \E d \in Paths : LinkDep(d)
  <2>1. UNCHANGED <<arm, repaired, result>> /\ (pc' = pc \/ pc # "trial")
    BY <1>2 DEF ProvisionStarts, Provision, CommitTree, TrialStarts, FreshDest, ExportTree,
                ApplyFixture, LinkDep, Link, vars, local
  <2> QED
    BY <2>1 DEF ArmOk
<1>3. ASSUME NEW name \in DOMAIN Arms, Launch(name) PROVE ArmOk' /\ repaired' \in BOOLEAN
  BY <1>3 DEF Launch, vars, local, ArmOk
<1>4. CASE \/ \E c \in AgentCalls : CallsTool(c)
           \/ \E claim \in {"right", "wrong"} : Claims(claim)
           \/ Repairs \/ ScoreTrial \/ UNCHANGED trialVars
  BY <1>4 DEF CallsTool, Claims, Repairs, ScoreTrial, InTrial, trialVars, vars, local, ArmOk
<1>5. CASE Stops
  BY <1>5 DEF Stops, NoResult, ArmOk
<1> QED
  BY <1>1, <1>2, <1>3, <1>4, <1>5 DEF TrialNext

LEMMA TrialTypeInvariant == TrialSpec => []TrialTypeInv
<1>1. TrialInit /\ TypeOK => TrialTypeInv
  <2> SUFFICES ASSUME TrialInit PROVE dest \in Dest /\ TranscriptOk /\ ArmOk /\ repaired \in BOOLEAN
    BY DEF TrialTypeInv
  <2>1. dest \in Dest
    BY DEF TrialInit, EmptyDest, Dest
  <2>2. <<>> \in Seq(AgentCalls) /\ Len(<<>>) = 0
    OBVIOUS
  <2>3. session = [calls |-> <<>>, claim |-> "none", before |-> 0]
    BY DEF TrialInit, NoSession
  <2>4. TranscriptOk
    BY <2>2, <2>3, MaxCallsAssumption DEF TranscriptOk
  <2> QED
    BY <2>1, <2>4 DEF TrialInit, NoResult, ArmOk
<1>2. TrialTypeInv /\ HermeticInv /\ TypeOK' /\ [TrialNext]_trialVars => TrialTypeInv'
  BY DestStep, TranscriptStep, ArmStep DEF TrialTypeInv
<1>3. TrialSpec => []TypeOK
  BY TrialImplementsCache, TypeCorrect
<1> QED
  BY <1>1, <1>2, <1>3, HermeticInvariant, PTL DEF TrialSpec

\* Every step of a trial and of the cache beneath it keeps every variable in
\* its domain, and only a trial that runs has an arm.
THEOREM TrialTypeCorrect == TrialSpec => []TrialTypeOK
<1>1. TrialTypeInv => TrialTypeOK
  BY MaxCallsAssumption DEF TrialTypeInv, TrialTypeOK, TranscriptOk, ArmOk, Dest
<1> QED
  BY <1>1, TrialTypeInvariant, PTL

-----------------------------------------------------------------------------
\* A transcript that neither audit objects to holds only what the arm allows:
\* whichever arm it is, a tool it grants that is not audited takes no path.
LEMMA AuditIsComplete ==
    ASSUME NEW name \in DOMAIN Arms, NEW c \in AgentCalls,
           ~IsViolation(Arms[name], c), ~IsReadEscape(c)
    PROVE  /\ c.tool \in Granted(Arms[name]) \ Banned
           /\ c.path = "outside" => c.cmd = "unreadable"
           /\ c.cmd \notin {"none", "gate"} => Arms[name].shell
<1>1. Arms[name].gate \in BOOLEAN /\ Arms[name].shell \in BOOLEAN
      /\ (Arms[name].gate \/ Arms[name].shell)
  <2>1. name \in {"serena", "native", "bash", "control"}
    BY DEF Arms
  <2>2. CASE name = "serena" \/ name = "native"
    <3>1. Arms[name].gate = TRUE /\ Arms[name].shell = FALSE
      BY <2>2 DEF Arms
    <3> QED
      BY <3>1
  <2>3. CASE name = "bash"
    <3>1. Arms[name].gate = FALSE /\ Arms[name].shell = TRUE
      BY <2>3 DEF Arms
    <3> QED
      BY <3>1
  <2>4. CASE name = "control"
    <3>1. Arms[name].gate = TRUE /\ Arms[name].shell = TRUE
      BY <2>4 DEF Arms
    <3> QED
      BY <3>1
  <2> QED
    BY <2>1, <2>2, <2>3, <2>4
<1>2. Granted(Arms[name]) \subseteq Baseline \cup SerenaTools \cup NativeTools \cup {"Bash"}
  BY DEF Arms, Granted
<1>3. c.tool \in Granted(Arms[name]) \ Banned
  BY DEF IsViolation
<1>4. ASSUME c.path = "outside" PROVE c.cmd = "unreadable"
  <2>1. CASE c.tool = "Bash"
    BY <1>4, <2>1 DEF IsReadEscape
  <2>2. CASE c.tool # "Bash"
    BY <1>2, <1>3, <1>4, <2>2, CallsAssumption DEF IsReadEscape, Audited, CallsAssumption
  <2> QED
    BY <2>1, <2>2
<1>5. ASSUME c.cmd \notin {"none", "gate"} PROVE Arms[name].shell
  <2>1. EscapesGate(c)
    BY <1>5, CallsAssumption DEF EscapesGate, CallsAssumption
  <2> QED
    BY <1>1, <2>1 DEF IsViolation
<1> QED
  BY <1>3, <1>4, <1>5

LEMMA ScoreStep ==
    ASSUME ~Rollback, TrialTypeInv, HermeticInv, EnsuredMeansBuilt, ScoreIsEarned,
           [TrialNext]_trialVars
    PROVE  ScoreIsEarned'
<1>1. CASE ScoreTrial
  <2>1. /\ pc = "trial" /\ session \in [calls : Seq(AgentCalls),
                 claim : {"none", "right", "wrong"}, before : Nat]
        /\ \E name \in DOMAIN Arms : arm = Arms[name]
    BY <1>1 DEF ScoreTrial, InTrial, TrialTypeInv, ArmOk, TranscriptOk
  <2>2. UNCHANGED <<vars, dest, arm, session, repaired>>
    BY <1>1 DEF ScoreTrial
  <2>3. /\ result'.fixed = Verdict /\ result'.located = Located /\ result'.void = IsVoid
        /\ result'.n1 = IF Located THEN Navigation ELSE Undefined
        /\ result'.n2 = IF Located THEN Edit ELSE Undefined
        /\ result'.total = Len(session.calls)
    BY <1>1 DEF ScoreTrial
  <2>4. archived = want => DepsWork
    BY <2>1 DEF EnsuredMeansBuilt, Built, HermeticInv, HermeticTree, DepsWork
  <2>5. archived = want => result'.fixed = repaired
    <3>1. repaired \in BOOLEAN
      BY DEF TrialTypeInv
    <3> QED
      BY <2>3, <2>4, <3>1, Zenon DEF Verdict
  <2>6. IF result'.located THEN result'.n1 + result'.n2 = result'.total
        ELSE {result'.n1, result'.n2} = {Undefined}
    <3>1. Navigation + Edit = Len(session.calls)
      BY <2>1 DEF Navigation, Edit
    <3> QED
      BY <2>3, <3>1
  <2>7. ASSUME ~IsVoid, NEW i \in DOMAIN session.calls
        PROVE  LET c == session.calls[i]
               IN  /\ c.tool \in Granted(arm) \ Banned
                   /\ c.path = "outside" => c.cmd = "unreadable"
                   /\ (c.cmd \notin {"none", "gate"}) => arm.shell
    <3>1. session.calls[i] \in AgentCalls
      BY <2>1
    <3>2. ~IsViolation(arm, session.calls[i]) /\ ~IsReadEscape(session.calls[i])
      BY <2>7 DEF IsVoid
    <3> QED
      BY <2>1, <3>1, <3>2, AuditIsComplete
  <2> QED
    BY <2>2, <2>3, <2>5, <2>6, <2>7 DEF ScoreIsEarned, vars, local
<1>2. CASE CacheStep
  <2>1. UNCHANGED <<dest, arm, session, repaired, result>>
    BY <1>2 DEF CacheStep
  <2>2. result.scored => pc = "trial"
    BY DEF TrialTypeInv, ArmOk
  <2>3. pc = "trial" => UNCHANGED <<want, archived>>
    BY <1>2 DEF CacheStep, Ensure, EnsureStart, DropStamp, StampStarts, StampEnds, Warmup,
                WipeStarts, WipeEnds, BuildSkips, BuildStarts, BuildEnds, Repin, local
  <2> QED
    BY <2>1, <2>2, <2>3 DEF ScoreIsEarned
<1>3. CASE Stops
  BY <1>3 DEF Stops, NoResult, ScoreIsEarned
<1>4. CASE \/ ProvisionStarts \/ ExportTree \/ ApplyFixture \/ CommitTree
           \/ \E d \in Paths : LinkDep(d)
  <2>1. pc # "trial" /\ UNCHANGED result
    BY <1>4 DEF ProvisionStarts, Provision, ExportTree, ApplyFixture, Provisioning, CommitTree,
                TrialStarts, LinkDep, Link
  <2> QED
    BY <2>1 DEF TrialTypeInv, ArmOk, ScoreIsEarned
<1>5. CASE \/ \E name \in DOMAIN Arms : Launch(name)
           \/ \E c \in AgentCalls : CallsTool(c)
           \/ \E claim \in {"right", "wrong"} : Claims(claim)
           \/ Repairs
  <2>1. ~result.scored /\ UNCHANGED result
    BY <1>5 DEF Launch, CallsTool, Claims, Repairs, InTrial, TrialTypeInv, ArmOk
  <2> QED
    BY <2>1 DEF ScoreIsEarned
<1>6. CASE FreshDest \/ UNCHANGED trialVars
  BY <1>6 DEF FreshDest, trialVars, vars, local, ScoreIsEarned
<1> QED
  BY <1>1, <1>2, <1>3, <1>4, <1>5, <1>6 DEF TrialNext

\* While the manifest only moves forward, every score is about the agent's work:
\* the verdict is its repair, the costs add up, and a score that counts broke
\* neither the arm's grant nor, by a path on record, the tree's boundary.
THEOREM ScoresAreEarned == ASSUME ~Rollback PROVE TrialSpec => []ScoreIsEarned
<1>1. TrialInit => ScoreIsEarned
  BY DEF TrialInit, NoResult, ScoreIsEarned
<1>2. TrialTypeInv /\ HermeticInv /\ EnsuredMeansBuilt /\ ScoreIsEarned /\ [TrialNext]_trialVars
         => ScoreIsEarned'
  BY ScoreStep
<1> QED
  BY <1>1, <1>2, TrialTypeInvariant, HermeticInvariant, TrialDepsAreWhole, PTL DEF TrialSpec
=============================================================================
