-------------------------- MODULE FreezeReplay_proofs --------------------------
(***************************************************************************)
(* Proofs about FreezeReplay for any sessions, runs and initial manifests: *)
(* type correctness, no silent empty answer, an honest replay that drops   *)
(* no pinned parent, and, when runs are serial, that the manifest is       *)
(* written once and implements PinnedCorpus.                               *)
(***************************************************************************)
EXTENDS FreezeReplay, TLAPS

-----------------------------------------------------------------------------
\* Every step of every run keeps every variable in its domain, and the stamps
\* a manifest holds are always stamps of refs it pins.
THEOREM TypeCorrect == Spec => []TypeOK
<1> USE DEF TypeOK, Pcs, Populations, Sources
<1>1. Init => TypeOK
  <2> SUFFICES ASSUME Init PROVE TypeOK
    OBVIOUS
  <2>1. manifest.state \in {"absent", "whole"} /\ manifest.population \in Populations
        /\ manifest.src \in Sources
        /\ manifest.subs \subseteq manifest.ids /\ manifest.ids \subseteq Sessions
        /\ manifest.census \subseteq SUBSET Sessions
    BY ManifestsAssumption DEF ManifestsAssumption, Init, Unwritten, Manifest
  <2> QED
    BY <2>1, SessionsAssumption DEF SessionsAssumption, Init
<1>2. TypeOK /\ [Next]_vars => TypeOK'
  <2> SUFFICES ASSUME TypeOK, [Next]_vars PROVE TypeOK'
    OBVIOUS
  <2> USE DEF archive, plan, run
  <2>1. ASSUME NEW r \in Runs, Plan(r) PROVE TypeOK'
    <3>1. PICK x \in BOOLEAN, a \in SUBSET Sessions :
              exclude' = [exclude EXCEPT ![r] = x] /\ scope' = [scope EXCEPT ![r] = a]
      BY <2>1, SessionsAssumption DEF SessionsAssumption, Plan
    <3>2. /\ pc' = [pc EXCEPT ![r] = IF Replaying THEN "read" ELSE "discover"]
          /\ replaying' = [replaying EXCEPT ![r] = Replaying] /\ Replaying \in BOOLEAN
          /\ UNCHANGED <<archive, manifest, ids, subs, source, parents, kept, census, pinned>>
      BY <2>1 DEF Plan, Replaying
    <3> QED
      BY <3>1, <3>2
  <2>2. ASSUME NEW r \in Runs, NEW part \in SUBSET Sessions,
               \/ ProbePass(r) \/ TakeCensus(r) \/ EndListing(r)
               \/ ListPage(r, part) \/ ScanRaw(r, part)
        PROVE  TypeOK'
    <3>1. CASE ProbePass(r) \/ TakeCensus(r)
      BY <3>1 DEF ProbePass, TakeCensus, Effective
    <3>2. CASE ListPage(r, part)
      BY <3>2 DEF ListPage
    <3>3. CASE EndListing(r)
      BY <3>3 DEF EndListing, Stamped
    <3>4. CASE ScanRaw(r, part)
      BY <3>4 DEF ScanRaw
    <3> QED
      BY <2>2, <3>1, <3>2, <3>3, <3>4
  <2>3. ASSUME NEW r \in Runs, OpenManifest(r) PROVE TypeOK'
    BY <2>3 DEF OpenManifest, Unwritten, Manifest
  <2>4. ASSUME NEW r \in Runs, WriteManifest(r) PROVE TypeOK'
    BY <2>4 DEF WriteManifest, Manifest, PopulationOf
  <2>5. ASSUME NEW r \in Runs, ReadManifest(r) PROVE TypeOK'
    BY <2>5 DEF ReadManifest, Healed, ReplayCensus
  <2>6. ASSUME NEW r \in Runs, ProbeParents(r) \/ Restamp(r) PROVE TypeOK'
    BY <2>6 DEF ProbeParents, Restamp, Restamped
  <2>7. ASSUME NEW r \in Runs, Filter(r) \/ Stop(r) PROVE TypeOK'
    BY <2>7 DEF Filter, Stop, Effective
  <2>8. ASSUME NEW s \in Sessions, SessionAppears(s) \/ SessionPruned(s) PROVE TypeOK'
    BY <2>8 DEF SessionAppears, SessionPruned
  <2>9. CASE UNCHANGED vars
    BY <2>9 DEF vars
  <2> QED
    BY <2>1, <2>2, <2>3, <2>4, <2>5, <2>6, <2>7, <2>8, <2>9 DEF Next, RunStep
<1> QED
  BY <1>1, <1>2, PTL DEF Spec

-----------------------------------------------------------------------------
\* A run that exits 0 has selected at least one session, even when runs overlap.
THEOREM NeverSilentlyEmpty == Spec => []NoSilentEmpty
<1> USE DEF GuardPassed, NoSilentEmpty, Succeeded, Effective, archive, plan, run
<1>1. Init => GuardPassed /\ NoSilentEmpty
  BY DEF Init
<1>2. TypeOK /\ GuardPassed /\ NoSilentEmpty /\ [Next]_vars
          => (GuardPassed /\ NoSilentEmpty)'
  <2> SUFFICES ASSUME TypeOK, GuardPassed, NoSilentEmpty, [Next]_vars
               PROVE  (GuardPassed /\ NoSilentEmpty)'
    OBVIOUS
  <2> USE DEF TypeOK
  <2>1. ASSUME NEW r \in Runs, Plan(r) PROVE (GuardPassed /\ NoSilentEmpty)'
    BY <2>1 DEF Plan, Replaying
  <2>2. ASSUME NEW r \in Runs, NEW part \in SUBSET Sessions,
               \/ ProbePass(r) \/ TakeCensus(r) \/ EndListing(r)
               \/ ListPage(r, part) \/ ScanRaw(r, part)
        PROVE  (GuardPassed /\ NoSilentEmpty)'
    <3>1. CASE ProbePass(r) \/ TakeCensus(r) \/ ListPage(r, part)
      BY <3>1 DEF ProbePass, TakeCensus, ListPage
    <3>2. CASE EndListing(r) \/ ScanRaw(r, part)
      BY <3>2 DEF EndListing, ScanRaw, NothingToPin
    <3> QED
      BY <2>2, <3>1, <3>2
  <2>3. ASSUME NEW r \in Runs, OpenManifest(r) \/ WriteManifest(r)
        PROVE  (GuardPassed /\ NoSilentEmpty)'
    BY <2>3 DEF OpenManifest, WriteManifest
  <2>4. ASSUME NEW r \in Runs, ReadManifest(r) PROVE (GuardPassed /\ NoSilentEmpty)'
    BY <2>4 DEF ReadManifest
  <2>5. ASSUME NEW r \in Runs, ProbeParents(r) \/ Restamp(r)
        PROVE  (GuardPassed /\ NoSilentEmpty)'
    BY <2>5 DEF ProbeParents, Restamp
  <2>6. ASSUME NEW r \in Runs, Filter(r) PROVE (GuardPassed /\ NoSilentEmpty)'
    BY <2>6 DEF Filter
  <2>7. ASSUME NEW r \in Runs, Stop(r) PROVE (GuardPassed /\ NoSilentEmpty)'
    BY <2>7 DEF Stop
  <2>8. ASSUME NEW s \in Sessions, SessionAppears(s) \/ SessionPruned(s)
        PROVE  (GuardPassed /\ NoSilentEmpty)'
    BY <2>8 DEF SessionAppears, SessionPruned
  <2>9. CASE UNCHANGED vars
    BY <2>9 DEF vars
  <2> QED
    BY <2>1, <2>2, <2>3, <2>4, <2>5, <2>6, <2>7, <2>8, <2>9 DEF Next, RunStep
<1> QED
  BY <1>1, <1>2, TypeCorrect, PTL DEF Spec

-----------------------------------------------------------------------------
\* The refs a run still has to filter fit the census it will divide by.
FitsCensus(r) ==
    \A counted \in census[r] :
        /\ Effective(r, ids[r], Children) \subseteq counted \cup late
        /\ exclude[r] => counted \cap Children = {}

\* Why a report of frozen refs is honest.  A discovery probed every parent that
\* is no latecomer and counted every session of its population that is none, so
\* the stamps it pins miss no child, stamp no other parent, and its sample fits
\* its census; a replay's stamps come to stamp no further parent, because a
\* session that the second of the two listings shows and the first did not is
\* newer than any pinned ref; and a child escapes the stamps only into `kept`.
RunHonest(r) ==
    /\ ids[r] \subseteq seen
    /\ parents[r] \cap Children = {}
    /\ pc[r] \in {"idle", "read", "discover", "census"} => ids[r] = {} /\ census[r] = {}
    /\ pc[r] \in {"census", "list"} =>
           (ids[r] \cup (live \cap scope[r])) \ Children \subseteq parents[r] \cup late
    /\ pc[r] = "list" =>
           /\ FitsCensus(r)
           /\ \A counted \in census[r] :
                  Effective(r, live \cap scope[r], Children) \subseteq counted \cup late
    /\ pc[r] \in {"open", "write"} =>
           /\ ids[r] \cap Children \subseteq subs[r] /\ subs[r] \subseteq ids[r]
           /\ subs[r] \subseteq Children \cup late /\ FitsCensus(r)
    /\ pc[r] \in {"probe", "restamp"} =>
           /\ pinned[r] = ids[r] /\ subs[r] \subseteq Children \cup late /\ FitsCensus(r)
           /\ census[r] # {} => ids[r] \cap Children \subseteq subs[r]
    /\ pc[r] = "restamp" => (live \cap scope[r] \cap ids[r]) \ Children \subseteq parents[r]
    /\ pc[r] = "filter" =>
           /\ pinned[r] = ids[r] /\ subs[r] \subseteq Children \cup late /\ FitsCensus(r)
           /\ exclude[r] => ids[r] \cap Children \subseteq subs[r] \cup kept[r]
           /\ exclude[r] /\ census[r] # {} => ids[r] \cap Children \subseteq subs[r]
    /\ pc[r] = "exit0" =>
           /\ pinned[r] \ (Children \cup late) \subseteq ids[r]
           /\ exclude[r] => ids[r] \cap Children \subseteq kept[r]
           /\ \A counted \in census[r] :
                  /\ ids[r] \subseteq counted \cup late
                  /\ exclude[r] => counted \cap Children = {}

\* What a census that says its population counted.
Counted(m) == IF m.population = "parents" THEN m.ids \ Children ELSE m.ids

ManifestHonest ==
    /\ manifest.subs \subseteq Children \cup late
    /\ manifest.ids \subseteq seen
    /\ manifest.population # "unrecorded" =>
           /\ manifest.ids \cap Children \subseteq manifest.subs
           /\ \A counted \in manifest.census :
                  /\ Counted(manifest) \subseteq counted \cup late
                  /\ manifest.population = "parents" => counted \cap Children = {}

HonestInv == ManifestHonest /\ \A r \in Runs : RunHonest(r)

\* A step of one run leaves every other one as honest as it was.
LEMMA OtherRunsHonest ==
  ASSUME TypeOK, HonestInv, NEW r \in Runs, RunStep(r), NEW q \in Runs, q # r
  PROVE  RunHonest(q)'
<1>1. UNCHANGED <<live, seen, late, pc[q], exclude[q], scope[q], ids[q], subs[q], parents[q],
                  kept[q], census[q], pinned[q]>>
  <2> USE DEF TypeOK, archive, plan, run
  <2>1. CASE Plan(r)
    BY <2>1 DEF Plan
  <2>2. CASE OpenManifest(r) \/ WriteManifest(r) \/ ReadManifest(r)
    BY <2>2 DEF OpenManifest, WriteManifest, ReadManifest
  <2>3. CASE ProbeParents(r) \/ Restamp(r) \/ Filter(r) \/ Stop(r)
    BY <2>3 DEF ProbeParents, Restamp, Filter, Stop
  <2>4. CASE ProbePass(r) \/ TakeCensus(r) \/ EndListing(r)
    BY <2>4 DEF ProbePass, TakeCensus, EndListing
  <2>5. CASE \E part \in SUBSET Sessions : ListPage(r, part) \/ ScanRaw(r, part)
    BY <2>5 DEF ListPage, ScanRaw
  <2> QED
    BY <2>1, <2>2, <2>3, <2>4, <2>5 DEF RunStep
<1> QED
  BY <1>1 DEF HonestInv, RunHonest, FitsCensus, Effective

\* A discovery pins what its probe and its census can answer for.
LEMMA HonestDiscovery ==
  ASSUME TypeOK, HonestInv, NEW r \in Runs, NEW part \in SUBSET Sessions,
         \/ ProbePass(r) \/ TakeCensus(r) \/ EndListing(r)
         \/ ListPage(r, part) \/ ScanRaw(r, part)
  PROVE  RunHonest(r)' /\ ManifestHonest'
<1> USE DEF TypeOK, archive, plan, run
<1>0. RunHonest(r) /\ ManifestHonest
  BY DEF HonestInv
<1>1. ManifestHonest'
  <2>1. UNCHANGED <<manifest, seen, late>>
    BY DEF ProbePass, TakeCensus, EndListing, ListPage, ScanRaw
  <2> QED
    BY <1>0, <2>1 DEF ManifestHonest, Counted
<1>2. CASE ProbePass(r)
  BY <1>0, <1>1, <1>2 DEF ProbePass, RunHonest
<1>3. CASE TakeCensus(r)
  <2>1. /\ pc[r] = "census" /\ pc'[r] = "list" /\ ids[r] = {} /\ census[r] = {}
        /\ census'[r] \in {{}, {Effective(r, live \cap scope[r], Children)}}
        /\ UNCHANGED <<archive, exclude, scope, ids, parents>>
    BY <1>0, <1>3 DEF TakeCensus, RunHonest
  <2> QED
    BY <1>0, <1>1, <2>1 DEF RunHonest, FitsCensus, Effective
<1>4. CASE ListPage(r, part)
  <2>1. /\ pc[r] = "list" /\ pc'[r] = "list" /\ part \subseteq live \cap scope[r]
        /\ ids'[r] = ids[r] \cup part
        /\ UNCHANGED <<archive, exclude, scope, parents, census>>
    BY <1>4 DEF ListPage
  <2>2. Effective(r, ids[r], Children)'
           \subseteq Effective(r, ids[r], Children) \cup Effective(r, live \cap scope[r], Children)
    BY <2>1 DEF Effective
  <2>3. FitsCensus(r)'
    BY <1>0, <2>1, <2>2 DEF RunHonest, FitsCensus
  <2>4. \A counted \in census'[r] :
           Effective(r, live \cap scope[r], Children)' \subseteq counted \cup late'
    BY <1>0, <2>1 DEF RunHonest, Effective
  <2> QED
    BY <1>0, <1>1, <2>1, <2>3, <2>4 DEF RunHonest
<1>5. CASE EndListing(r)
  <2>1. /\ pc[r] = "list" /\ pc'[r] \in {"open", "exit1"} /\ subs'[r] = ids[r] \ parents[r]
        /\ UNCHANGED <<archive, exclude, ids, parents, census>>
    BY <1>5 DEF EndListing, Stamped
  <2>2. FitsCensus(r)'
    BY <1>0, <2>1 DEF RunHonest, FitsCensus, Effective
  <2> QED
    BY <1>0, <1>1, <2>1, <2>2 DEF RunHonest
<1>6. CASE ScanRaw(r, part)
  <2>1. /\ pc'[r] \in {"open", "exit1"} /\ ids'[r] = part /\ part \subseteq live
        /\ subs'[r] = part \cap Children /\ census'[r] = {}
        /\ UNCHANGED <<archive, exclude, parents>>
    BY <1>6 DEF ScanRaw
  <2> QED
    BY <1>0, <1>1, <2>1 DEF RunHonest, FitsCensus
<1> QED
  BY <1>2, <1>3, <1>4, <1>5, <1>6

LEMMA HonestStep ==
  ASSUME TypeOK, HonestInv, [Next]_vars PROVE HonestInv'
<1> USE DEF TypeOK, archive, plan, run
<1>1. ASSUME NEW r \in Runs, RunStep(r) PROVE HonestInv'
  <2>0. RunHonest(r) /\ ManifestHonest
    BY DEF HonestInv
  <2>1. SUFFICES RunHonest(r)' /\ ManifestHonest'
    BY <1>1, OtherRunsHonest DEF HonestInv
  <2>2. CASE Plan(r)
    BY <2>0, <2>2 DEF Plan, RunHonest, ManifestHonest, Counted
  <2>3. ASSUME NEW part \in SUBSET Sessions,
               \/ ProbePass(r) \/ TakeCensus(r) \/ EndListing(r)
               \/ ListPage(r, part) \/ ScanRaw(r, part)
        PROVE  RunHonest(r)' /\ ManifestHonest'
    BY <2>3, HonestDiscovery
  <2>4. CASE OpenManifest(r)
    BY <2>0, <2>4 DEF OpenManifest, Unwritten, Manifest, RunHonest, FitsCensus, Effective,
                      ManifestHonest
  <2>5. CASE WriteManifest(r)
    <3>1. /\ pc[r] = "write" /\ ids[r] \cap Children \subseteq subs[r]
          /\ subs[r] \subseteq Children \cup late /\ FitsCensus(r) /\ ids[r] \subseteq seen
      BY <2>0, <2>5 DEF WriteManifest, RunHonest
    <3>2. /\ manifest'.ids = ids[r] /\ manifest'.subs = subs[r] /\ manifest'.census = census[r]
          /\ census[r] # {} => manifest'.population = PopulationOf(r)
          /\ UNCHANGED <<archive, exclude, ids, subs, census, parents, kept>>
          /\ pc'[r] = "filter" /\ pinned'[r] = ids[r]
      BY <2>5 DEF WriteManifest, Manifest
    <3>3. census[r] # {} => Counted(manifest)' = Effective(r, ids[r], Children)
      BY <3>2 DEF Counted, PopulationOf, Effective
    <3>4. ManifestHonest'
      <4>1. ASSUME NEW counted \in census[r]
            PROVE  /\ Counted(manifest)' \subseteq counted \cup late
                   /\ manifest'.population = "parents" => counted \cap Children = {}
        BY <3>1, <3>2, <3>3, <4>1 DEF FitsCensus, PopulationOf
      <4> QED
        BY <3>1, <3>2, <4>1 DEF ManifestHonest
    <3> QED
      BY <2>0, <3>1, <3>2, <3>4 DEF RunHonest, FitsCensus, Effective
  <2>6. CASE ReadManifest(r)
    <3>1. ManifestHonest'
      BY <2>0, <2>6 DEF ReadManifest, ManifestHonest, Counted
    <3>2. CASE Unreplayable
      BY <2>0, <2>6, <3>1, <3>2 DEF ReadManifest, RunHonest
    <3>3. CASE ~Unreplayable
      <4>1. /\ ids'[r] = manifest.ids /\ subs'[r] = Healed(manifest) /\ pinned'[r] = manifest.ids
            /\ census'[r] = ReplayCensus(r, manifest)
            /\ pc'[r] = IF exclude[r] /\ manifest.src = "agentsview" THEN "probe" ELSE "filter"
            /\ UNCHANGED <<archive, manifest, exclude[r], scope[r], kept[r], parents[r]>>
        BY <2>6, <3>3 DEF ReadManifest
      <4>2. /\ subs'[r] \subseteq Children \cup late
            /\ manifest.src = "raw" => ids'[r] \cap Children \subseteq subs'[r]
            /\ manifest.subs \subseteq subs'[r]
        BY <2>0, <4>1 DEF Healed, ManifestHonest
      <4>3. census'[r] # {} => /\ manifest.population = PopulationOf(r)
                              /\ census'[r] = manifest.census
                              /\ Counted(manifest) = Effective(r, ids[r], Children)'
        BY <4>1 DEF ReplayCensus, Counted, PopulationOf, Effective
      <4>4. census'[r] # {} => ids'[r] \cap Children \subseteq subs'[r]
        BY <2>0, <4>1, <4>2, <4>3 DEF ManifestHonest, PopulationOf
      <4>5. FitsCensus(r)'
        <5> SUFFICES ASSUME NEW counted \in census'[r]
                     PROVE  /\ Effective(r, ids[r], Children)' \subseteq counted \cup late'
                            /\ exclude'[r] => counted \cap Children = {}
          BY DEF FitsCensus
        <5>1. census'[r] # {}
          OBVIOUS
        <5>2. manifest.population = PopulationOf(r) /\ census'[r] = manifest.census
          BY <4>3, <5>1
        <5>3. Counted(manifest) = Effective(r, ids[r], Children)'
          BY <4>3, <5>1
        <5>4. late' = late
          BY <4>1 DEF archive
        <5>5. /\ manifest.population # "unrecorded" /\ counted \in manifest.census
              /\ exclude'[r] => manifest.population = "parents"
          BY <4>1, <5>2 DEF PopulationOf
        <5>6. /\ Counted(manifest) \subseteq counted \cup late
              /\ manifest.population = "parents" => counted \cap Children = {}
          BY <2>0, <5>5 DEF ManifestHonest
        <5> QED
          BY <5>3, <5>4, <5>5, <5>6, Zenon
      <4>6. manifest.src = "raw" \/ pc'[r] = "probe" \/ ~exclude'[r]
        BY <4>1 DEF Sources
      <4> QED
        BY <2>0, <3>1, <4>1, <4>2, <4>4, <4>5, <4>6 DEF RunHonest, ManifestHonest
    <3> QED
      BY <3>2, <3>3
  <2>7. CASE ProbeParents(r)
    BY <2>0, <2>7 DEF ProbeParents, RunHonest, ManifestHonest, Counted, FitsCensus, Effective
  <2>8. CASE Restamp(r)
    <3>1. ManifestHonest'
      BY <2>0, <2>8 DEF Restamp, ManifestHonest, Counted
    <3> DEFINE children == (live \cap scope[r]) \ parents[r]
    <3>2. /\ subs' = [subs EXCEPT ![r] = (subs[r] \cup (ids[r] \cap children)) \ parents[r]]
          /\ kept' = [kept EXCEPT ![r] = ids[r] \ (children \cup parents[r])]
      BY <2>8, Zenon DEF Restamp, Restamped
    <3>3. /\ pc[r] = "restamp" /\ pc'[r] = "filter"
          /\ UNCHANGED <<archive, exclude, scope, ids, parents, census, pinned>>
      BY <2>8 DEF Restamp
    <3>4. ids[r] \cap children \subseteq Children
      BY <2>0, <3>2, <3>3 DEF RunHonest
    <3>5. /\ subs'[r] \subseteq Children \cup late
          /\ ids[r] \cap Children \subseteq subs'[r] \cup kept'[r]
          /\ ids[r] \cap Children \subseteq subs[r] => ids[r] \cap Children \subseteq subs'[r]
      BY <2>0, <3>2, <3>3, <3>4 DEF RunHonest
    <3>6. FitsCensus(r)'
      BY <2>0, <3>3 DEF RunHonest, FitsCensus, Effective
    <3> QED
      BY <2>0, <3>1, <3>3, <3>5, <3>6 DEF RunHonest
  <2>9. CASE Filter(r)
    <3>1. ManifestHonest'
      BY <2>0, <2>9 DEF Filter, ManifestHonest, Counted
    <3>2. /\ pc[r] = "filter" /\ pc'[r] \in {"exit0", "exit1"}
          /\ ids'[r] = Effective(r, ids[r], subs[r])
          /\ UNCHANGED <<archive, exclude, subs, parents, kept, census, pinned>>
      BY <2>9 DEF Filter
    <3>3. census[r] # {} => ids'[r] \subseteq Effective(r, ids[r], Children)
      BY <2>0, <3>2 DEF RunHonest, Effective
    <3>4. pinned[r] \ (Children \cup late) \subseteq ids'[r] /\ ids'[r] \subseteq ids[r]
      BY <2>0, <3>2 DEF RunHonest, Effective
    <3>5. exclude[r] => ids'[r] \cap Children \subseteq kept[r]
      BY <2>0, <3>2 DEF RunHonest, Effective
    <3>6. \A counted \in census[r] :
             ids'[r] \subseteq counted \cup late /\ (exclude[r] => counted \cap Children = {})
      BY <2>0, <3>2, <3>3 DEF RunHonest, FitsCensus
    <3> QED
      BY <2>0, <3>1, <3>2, <3>4, <3>5, <3>6 DEF RunHonest
  <2>10. CASE Stop(r)
    BY <2>0, <2>10 DEF Stop, RunHonest, ManifestHonest, Counted
  <2> QED
    BY <1>1, <2>2, <2>3, <2>4, <2>5, <2>6, <2>7, <2>8, <2>9, <2>10 DEF RunStep
<1>2. ASSUME NEW s \in Sessions, SessionAppears(s) PROVE HonestInv'
  <2>1. /\ s \notin seen /\ live' = live \cup {s} /\ seen' = seen \cup {s}
        /\ late \subseteq late' /\ UNCHANGED <<manifest, run>>
        /\ \A r \in Runs : pc[r] \in {"census", "list"} => s \in late'
    BY <1>2, SessionsAssumption DEF SessionAppears, SessionsAssumption
  <2>2. ManifestHonest'
    BY <2>1 DEF HonestInv, ManifestHonest, Counted
  <2>3. ASSUME NEW r \in Runs PROVE RunHonest(r)'
    <3>1. RunHonest(r) /\ live' \cap ids[r] = live \cap ids[r]
      BY <2>1 DEF HonestInv, RunHonest
    <3>2. FitsCensus(r) => FitsCensus(r)'
      BY <2>1 DEF FitsCensus, Effective
    <3>3. pc[r] = "list" =>
            \A counted \in census[r] :
               Effective(r, live \cap scope[r], Children)' \subseteq counted \cup late'
      BY <2>1, <3>1 DEF RunHonest, Effective
    <3> QED
      BY <2>1, <3>1, <3>2, <3>3 DEF RunHonest
  <2> QED
    BY <2>2, <2>3 DEF HonestInv
<1>3. ASSUME NEW s \in Sessions, SessionPruned(s) PROVE HonestInv'
  <2>1. live' = live \ {s} /\ UNCHANGED <<seen, late, manifest, run>>
    BY <1>3 DEF SessionPruned
  <2>2. ManifestHonest'
    BY <2>1 DEF HonestInv, ManifestHonest, Counted
  <2>3. ASSUME NEW r \in Runs PROVE RunHonest(r)'
    <3>1. RunHonest(r) /\ live' \subseteq live
      BY <2>1 DEF HonestInv
    <3> QED
      BY <2>1, <3>1 DEF RunHonest, FitsCensus, Effective
  <2> QED
    BY <2>2, <2>3 DEF HonestInv
<1>4. CASE UNCHANGED vars
  BY <1>4 DEF vars, HonestInv, ManifestHonest, RunHonest, Counted, FitsCensus, Effective
<1> QED
  BY <1>1, <1>2, <1>3, <1>4 DEF Next

LEMMA HonestInvariant == Spec => []HonestInv
<1>1. Init => HonestInv
  <2> SUFFICES ASSUME Init PROVE HonestInv
    OBVIOUS
  <2>1. ManifestHonest
    BY ManifestsAssumption
       DEF ManifestsAssumption, Init, ManifestHonest, Unwritten, Manifest
  <2> QED
    BY <2>1 DEF Init, HonestInv, RunHonest
<1> QED
  BY <1>1, HonestStep, TypeCorrect, PTL DEF Spec

\* Whatever runs overlap and however the archive changes under them: a child
\* that a run lets through is disclosed, and whatever the sample holds beyond
\* the census it is divided by arrived while a discovery was under way.
THEOREM HonestReplay == Spec => []ReplayIsHonest
<1>1. HonestInv => ReplayIsHonest
  BY DEF HonestInv, RunHonest, ReplayIsHonest, WrongStampIsDisclosed, SampleFitsCensus,
         Succeeded
<1> QED
  BY <1>1, HonestInvariant, PTL

\* No replay drops a pinned parent as a subagent, latecomers excepted.
THEOREM PinnedParentsSurvive == Spec => []ParentsSurvive
<1>1. HonestInv => ParentsSurvive
  BY DEF HonestInv, RunHonest, ParentsSurvive, Succeeded
<1> QED
  BY <1>1, HonestInvariant, PTL

-----------------------------------------------------------------------------
\* The step lemma for serial runs.
LEMMA OnePinnerStep ==
    ASSUME Serial, TypeOK, OnePinner, [Next]_vars PROVE OnePinner'
<1> USE DEF TypeOK, OnePinner, Active, archive, plan, run
<1>1. ASSUME NEW r \in Runs, Plan(r) PROVE OnePinner'
  BY <1>1 DEF Plan, Replaying
<1>2. ASSUME NEW r \in Runs, NEW part \in SUBSET Sessions,
             \/ ProbePass(r) \/ TakeCensus(r) \/ EndListing(r)
             \/ ListPage(r, part) \/ ScanRaw(r, part)
      PROVE  OnePinner'
  <2>1. CASE ProbePass(r) \/ TakeCensus(r) \/ ListPage(r, part)
    BY <2>1 DEF ProbePass, TakeCensus, ListPage
  <2>2. CASE EndListing(r) \/ ScanRaw(r, part)
    BY <2>2 DEF EndListing, ScanRaw
  <2> QED
    BY <1>2, <2>1, <2>2
<1>3. ASSUME NEW r \in Runs, OpenManifest(r) PROVE OnePinner'
  BY <1>3 DEF OpenManifest, Unwritten, Manifest
<1>4. ASSUME NEW r \in Runs, WriteManifest(r) PROVE OnePinner'
  BY <1>4 DEF WriteManifest, Manifest
<1>5. ASSUME NEW r \in Runs, ReadManifest(r) PROVE OnePinner'
  BY <1>5 DEF ReadManifest, Unreplayable
<1>6. ASSUME NEW r \in Runs, ProbeParents(r) \/ Restamp(r) PROVE OnePinner'
  BY <1>6 DEF ProbeParents, Restamp
<1>7. ASSUME NEW r \in Runs, Filter(r) \/ Stop(r) PROVE OnePinner'
  BY <1>7 DEF Filter, Stop
<1>8. ASSUME NEW s \in Sessions, SessionAppears(s) \/ SessionPruned(s) PROVE OnePinner'
  BY <1>8 DEF SessionAppears, SessionPruned
<1>9. CASE UNCHANGED vars
  BY <1>9 DEF vars
<1> QED
  BY <1>1, <1>2, <1>3, <1>4, <1>5, <1>6, <1>7, <1>8, <1>9 DEF Next, RunStep

\* Serial runs keep the inductive invariant in every state.
THEOREM OnePinnerInvariant == ASSUME Serial PROVE Spec => []OnePinner
<1>1. Init => OnePinner
  BY DEF Init, OnePinner, Active
<1>2. TypeOK /\ OnePinner /\ [Next]_vars => OnePinner'
  BY OnePinnerStep
<1> QED
  BY <1>1, <1>2, TypeCorrect, PTL DEF Spec

\* Serial runs that succeed all answered from the same pinned refs.
THEOREM SerialOneCorpus == ASSUME Serial PROVE Spec => []OneCorpus
<1>1. OnePinner => OneCorpus
  BY DEF OnePinner, OneCorpus, Succeeded
<1> QED
  BY <1>1, OnePinnerInvariant, PTL

\* A manifest that is whole is never written again by serial runs.
THEOREM SerialWriteOnce == ASSUME Serial PROVE Spec => WriteOnce
<1>1. TypeOK /\ OnePinner /\ [Next]_vars
          => [manifest.state = "whole" => UNCHANGED manifest]_vars
  BY DEF OnePinner, Next, RunStep, Plan, ProbePass, TakeCensus, ListPage, EndListing,
         ScanRaw, OpenManifest, WriteManifest, ReadManifest, ProbeParents, Restamp, Filter,
         Stop, SessionAppears, SessionPruned
<1> QED
  BY <1>1, TypeCorrect, OnePinnerInvariant, PTL DEF Spec, WriteOnce

-----------------------------------------------------------------------------
\* Serial runs of `--freeze P` implement PinnedCorpus: each step pins once,
\* answers from the pin, or leaves the promise alone.
THEOREM SerialPromise == ASSUME Serial PROVE Spec => PromiseKept
<1> DEFINE corpusBar == IF manifest.state = "whole" THEN {manifest.ids} ELSE {}
           answerBar == [r \in Runs |-> IF pc[r] = "exit0" THEN {pinned[r]} ELSE {}]
<1>1. Init => Promise!Init
  <2> SUFFICES ASSUME Init PROVE Promise!Init
    OBVIOUS
  <2>1. manifest.ids \in SUBSET Sessions
    BY ManifestsAssumption DEF ManifestsAssumption, Init, Unwritten, Manifest
  <2> QED
    BY <2>1 DEF Init, Promise!Init
<1>2. TypeOK /\ OnePinner /\ [Next]_vars => [Promise!Next]_Promise!vars
  <2> SUFFICES ASSUME TypeOK, OnePinner, [Next]_vars
               PROVE  [Promise!Next]_Promise!vars
    OBVIOUS
  <2> USE DEF TypeOK, OnePinner, archive, plan, run
  <2>1. ASSUME NEW r \in Runs, WriteManifest(r) PROVE Promise!Pin
    <3>1. corpusBar = {} /\ corpusBar' = {ids[r]} /\ ids[r] \in SUBSET Sessions
      BY <2>1 DEF WriteManifest, Manifest
    <3>2. answerBar' = answerBar
      BY <2>1 DEF WriteManifest
    <3> QED
      BY <3>1, <3>2 DEF Promise!Pin
  <2>2. ASSUME NEW r \in Runs, Filter(r), pc'[r] = "exit0" PROVE Promise!Answer(r)
    <3>1. corpusBar' = corpusBar /\ corpusBar = {pinned[r]}
      BY <2>2 DEF Filter
    <3>2. answerBar[r] = {} /\ answerBar' = [answerBar EXCEPT ![r] = {pinned[r]}]
      BY <2>2 DEF Filter
    <3> QED
      BY <3>1, <3>2 DEF Promise!Answer
  <2>3. ASSUME NEW r \in Runs, \/ Plan(r) \/ OpenManifest(r) \/ ReadManifest(r)
                               \/ ProbeParents(r) \/ Restamp(r) \/ Stop(r)
                               \/ Filter(r) /\ pc'[r] # "exit0"
                               \/ ProbePass(r) \/ TakeCensus(r) \/ EndListing(r)
                               \/ \E part \in SUBSET Sessions :
                                      ListPage(r, part) \/ ScanRaw(r, part)
        PROVE  UNCHANGED <<corpusBar, answerBar>>
    <3>1. UNCHANGED corpusBar
      BY <2>3 DEF Plan, OpenManifest, ReadManifest, ProbeParents, Restamp, Stop,
                  Filter, ProbePass, TakeCensus, ListPage, EndListing, ScanRaw, Unwritten, Manifest
    <3>2. pc[r] # "exit0" /\ pc'[r] # "exit0"
      BY <2>3 DEF Plan, OpenManifest, ReadManifest, ProbeParents, Restamp, Stop,
                  Filter, ProbePass, TakeCensus, ListPage, EndListing, ScanRaw, Active
    <3>3. \A q \in Runs : q # r => pc'[q] = pc[q] /\ pinned'[q] = pinned[q]
      BY <2>3 DEF Plan, OpenManifest, ReadManifest, ProbeParents, Restamp, Stop,
                  Filter, ProbePass, TakeCensus, ListPage, EndListing, ScanRaw
    <3> QED
      BY <3>1, <3>2, <3>3
  <2>4. ASSUME \E s \in Sessions : SessionAppears(s) \/ SessionPruned(s)
        PROVE  UNCHANGED <<corpusBar, answerBar>>
    BY <2>4 DEF SessionAppears, SessionPruned
  <2>5. CASE UNCHANGED vars
    BY <2>5 DEF vars, Promise!vars
  <2>6. CASE Next
    <3>1. UNCHANGED <<corpusBar, answerBar>> => UNCHANGED Promise!vars
      BY DEF Promise!vars
    <3> QED
      BY <2>1, <2>2, <2>3, <2>4, <2>6, <3>1 DEF Next, RunStep, Promise!Next
  <2> QED
    BY <2>5, <2>6
<1> QED
  BY <1>1, <1>2, TypeCorrect, OnePinnerInvariant, PTL DEF Spec, PromiseKept, Promise!Spec
=============================================================================
