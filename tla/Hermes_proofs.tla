---------------------------- MODULE Hermes_proofs ----------------------------
(***************************************************************************)
(* Proofs about Hermes for any databases, sessions and number of events:   *)
(* type correctness, that what was committed before the parse is read, and *)
(* that an archive at rest is read on every build of SQLite.               *)
(***************************************************************************)
EXTENDS Hermes, FiniteSetTheorems, TLAPS

-----------------------------------------------------------------------------
(* Types                                                                   *)

Pcs      == {"open", "check_wal", "query", "results", "calls", "done"}
Outcomes == {"none", "parsed", "skipped", "fatal"}

\* TypeOK without the counts, which hold of any asked and answered.
Typed ==
    /\ home \in Homes /\ rejects \in BOOLEAN /\ running \in [Databases -> BOOLEAN]
    /\ wal \in [Databases -> BOOLEAN]
    /\ rows \in Contents /\ main \in Contents /\ before \in Contents
    /\ events \in 0 .. MaxEvents
    /\ pc \in Pcs /\ phase \in {"resolve", "parse"} /\ at \in DOMAIN Profiles
    /\ conn \in {"none", "ro", "immutable"}
    /\ torn \in BOOLEAN /\ idle \in BOOLEAN
    /\ answered \subseteq Calls /\ asked \subseteq Calls
    /\ outcome \in Outcomes

LEMMA DbIsADatabase == ASSUME Typed PROVE Db \in Databases
BY DEF Typed, Db, Databases

LEMMA CountsAreBounded ==
    ASSUME Typed
    PROVE  Joined \subseteq Reported /\ Malformed <= Cardinality(asked)
<1>1. IsFiniteSet(asked)
  BY FS_Subset, HermesAssumption DEF Typed
<1>2. {c \in asked : Kind[c] = "malformed"} \subseteq asked
  OBVIOUS
<1> QED
  BY <1>1, <1>2, FS_Subset DEF Malformed, Joined

LEMMA HermesKeepsTypes ==
    ASSUME Typed, HermesMoves
    PROVE  Typed'
<1>1. ASSUME Happens
      PROVE  /\ home' \in Homes /\ rejects' \in BOOLEAN /\ idle' \in BOOLEAN
             /\ events' \in 0 .. MaxEvents /\ before' \in Contents
             /\ pc' \in Pcs /\ phase' \in {"resolve", "parse"} /\ at' \in DOMAIN Profiles
             /\ conn' \in {"none", "ro", "immutable"} /\ outcome' \in Outcomes
             /\ answered' \subseteq Calls /\ asked' \subseteq Calls
  <2>1. events' \in 0 .. MaxEvents
    BY <1>1, HermesAssumption DEF Happens, Typed
  <2> QED
    BY <1>1, <2>1 DEF Happens, Typed, reader
<1>2. ASSUME CopyFrames PROVE main' \in Contents /\ torn' \in BOOLEAN
  BY <1>2 DEF CopyFrames, Typed
<1>3. ASSUME NEW d \in Databases, Starts(d) PROVE Typed'
  BY <1>1, <1>3 DEF Starts, Typed
<1>4. ASSUME NEW d \in Databases, Stops(d) PROVE Typed'
  <2>1. running' \in [Databases -> BOOLEAN] /\ wal' \in [Databases -> BOOLEAN]
    BY <1>4 DEF Stops, Typed
  <2>2. rows' \in Contents /\ main' \in Contents /\ torn' \in BOOLEAN
    BY <1>2, <1>4 DEF Stops, Typed
  <2> QED
    BY <1>1, <1>4, <2>1, <2>2 DEF Stops, Typed
<1>5. ASSUME NEW d \in Databases, IsKilled(d) PROVE Typed'
  BY <1>1, <1>5 DEF IsKilled, Typed
<1>6. ASSUME NEW c \in Calls, Commits(c) PROVE Typed'
  <2>1. rows' \in Contents
    BY <1>6 DEF Commits, Typed, Contents, Absent, Answered
  <2> QED
    BY <1>1, <1>6, <2>1 DEF Commits, Typed
<1>7. ASSUME Checkpoints PROVE Typed'
  BY <1>1, <1>2, <1>7 DEF Checkpoints, Typed
<1> QED
  BY <1>3, <1>4, <1>5, <1>6, <1>7 DEF HermesMoves

LEMMA TypedStep ==
    ASSUME Typed, [Next]_vars
    PROVE  Typed'
<1>1. CASE HermesMoves
  BY <1>1, HermesKeepsTypes
<1>2. CASE ProbeReads
  BY <1>2 DEF ProbeReads, Goto, Typed, Pcs
<1>3. CASE ProbeFails
  BY <1>3 DEF ProbeFails, Goto, archive, Typed, Pcs
<1>4. CASE CheckWal
  BY <1>4 DEF CheckWal, Fatal, Goto, archive, Typed, Pcs, Outcomes
<1>5. CASE QueryFails
  BY <1>5 DEF QueryFails, Fatal, Goto, archive, Typed, Pcs, Outcomes
<1>6. CASE ResolveIn
  <2>1. at' \in DOMAIN Profiles
    BY <1>6, HermesAssumption DEF ResolveIn, Typed
  <2> QED
    BY <1>6, <2>1 DEF ResolveIn, Goto, archive, Typed, Pcs, Outcomes
<1>7. CASE ReadSession
  BY <1>7 DEF ReadSession, Goto, archive, Typed, Pcs
<1>8. CASE ReadResults
  BY <1>8 DEF ReadResults, Goto, archive, Typed, Pcs
<1>9. CASE ReadCalls
  BY <1>9 DEF ReadCalls, Goto, archive, Typed, Pcs, Outcomes
<1>10. CASE UNCHANGED vars
  BY <1>10 DEF vars, archive, reader, Typed
<1> QED
  BY <1>1, <1>2, <1>3, <1>4, <1>5, <1>6, <1>7, <1>8, <1>9, <1>10 DEF Next

LEMMA TypedInvariant == Spec => []Typed
<1>1. Init => Typed
  <2>1. MaxEvents \in Nat /\ 1 \in DOMAIN Profiles
    BY HermesAssumption
  <2>2. Init => rows \in Contents /\ main \in Contents /\ wal \in [Databases -> BOOLEAN]
    BY DEF Init
  <2>3. Init => /\ home \in Homes /\ rejects \in BOOLEAN /\ running \in [Databases -> BOOLEAN]
                /\ events \in 0 .. MaxEvents /\ before \in Contents
    BY <2>1, <2>2 DEF Init
  <2>4. Init => pc \in Pcs /\ phase \in {"resolve", "parse"} /\ at \in DOMAIN Profiles
    BY <2>1 DEF Init, Pcs
  <2>5. Init => /\ conn \in {"none", "ro", "immutable"} /\ torn \in BOOLEAN /\ idle \in BOOLEAN
                /\ answered \subseteq Calls /\ asked \subseteq Calls /\ outcome \in Outcomes
    BY DEF Init, Outcomes
  <2> QED
    BY <2>2, <2>3, <2>4, <2>5 DEF Typed
<1> QED
  BY <1>1, TypedStep, PTL DEF Spec

(* Every variable stays in its domain, and a result is only joined to a    *)
(* call that is reported (parse_hermes_session).                           *)
THEOREM TypeCorrect == Spec => []TypeOK
<1>1. Typed => TypeOK
  BY CountsAreBounded DEF Typed, TypeOK, Pcs, Outcomes
<1> QED
  BY <1>1, TypedInvariant, PTL

-----------------------------------------------------------------------------
(* The archive                                                             *)

\* Nothing that was committed goes away; what the database file lacks of it
\* is in a -wal; and a database that hermes has open has one.
ArchiveInv ==
    /\ Within(before, rows) /\ Within(main, rows)
    /\ main # rows => home \in Databases /\ wal[home]
    /\ \A d \in Databases : running[d] => wal[d]

\* The file changes only where all frames are copied into it.
LEMMA MainStep ==
    ASSUME HermesMoves
    PROVE  UNCHANGED <<main, torn>> \/ CopyFrames
BY DEF HermesMoves, Starts, Stops, IsKilled, Commits, Checkpoints

LEMMA ArchiveStep ==
    ASSUME Typed, ArchiveInv, [Next]_vars
    PROVE  ArchiveInv'
<1>1. CASE UNCHANGED <<home, before, running, wal, rows, main>>
  BY <1>1 DEF ArchiveInv, Within
<1>2. CASE ProbeReads
  BY <1>2, DbIsADatabase DEF ProbeReads, ArchiveInv, Within, Typed
<1>3. ASSUME NEW c \in Calls, Commits(c) PROVE ArchiveInv'
  <2>1. \A k \in Calls : rows'[k] >= rows[k]
    BY <1>3 DEF Commits, Typed, Contents, Absent, Answered
  <2>2. rows' \in Contents
    BY <1>3 DEF Commits, Typed, Contents, Absent, Answered
  <2>3. \A k \in Calls : /\ rows[k] \in Int /\ rows'[k] \in Int
                         /\ before[k] \in Int /\ main[k] \in Int
    BY <2>2 DEF Typed, Contents, Absent, Answered
  <2>4. Within(before, rows') /\ Within(main, rows')
    BY <2>1, <2>3 DEF ArchiveInv, Within
  <2>5. home \in Databases /\ wal[home]
    BY <1>3 DEF Commits, ArchiveInv
  <2> QED
    BY <1>3, <2>4, <2>5 DEF Commits, Happens, ArchiveInv
<1>4. ASSUME NEW d \in Databases, Starts(d) PROVE ArchiveInv'
  BY <1>4 DEF Starts, Happens, ArchiveInv, Within, Typed
<1>5. ASSUME NEW d \in Databases, IsKilled(d) PROVE ArchiveInv'
  BY <1>5 DEF IsKilled, Happens, ArchiveInv, Within, Typed
<1>6. ASSUME CopyFrames, UNCHANGED rows PROVE Within(main', rows') /\ main' = rows'
  BY <1>6 DEF CopyFrames, Within, Typed, Contents, Absent, Answered
<1>7. ASSUME NEW d \in Databases, Stops(d) PROVE ArchiveInv'
  <2>1. UNCHANGED <<home, before, rows>>
    BY <1>7 DEF Stops, Happens
  <2>2. Within(main', rows')
    BY <1>6, <1>7, <2>1 DEF Stops, ArchiveInv
  <2>3. main' # rows' => home' \in Databases /\ wal'[home']
    BY <1>6, <1>7, <2>1 DEF Stops, ArchiveInv, Typed
  <2>4. \A e \in Databases : running'[e] => wal'[e]
    BY <1>7 DEF Stops, ArchiveInv, Typed
  <2> QED
    BY <2>1, <2>2, <2>3, <2>4 DEF ArchiveInv, Within
<1>8. CASE Checkpoints
  <2>1. UNCHANGED <<home, before, running, wal, rows>>
    BY <1>8 DEF Checkpoints, Happens
  <2> QED
    BY <1>6, <1>8, <2>1 DEF Checkpoints, ArchiveInv, Within
<1> QED
  BY <1>1, <1>2, <1>3, <1>4, <1>5, <1>7, <1>8
  DEF Next, HermesMoves, vars, archive, ProbeFails, CheckWal, QueryFails, ResolveIn,
      ReadSession, ReadResults, ReadCalls

-----------------------------------------------------------------------------
(* What the parse has read                                                 *)

\* A connection is open exactly while it is queried, a session is parsed in
\* the database that has it, and an immutable connection is only opened on
\* a file that holds all that was committed.
ReaderInv ==
    /\ conn = "none" <=> pc \in {"open", "check_wal", "done"}
    /\ outcome = "none" <=> pc # "done"
    /\ phase = "parse" => Db = home
    /\ pc \in {"results", "calls"} \/ outcome = "parsed" => phase = "parse"
    /\ Reading(home, "immutable") => Within(before, main)

\* The reader's results, unless the file changed under it.
SettledInv ==
    ~torn =>
        /\ pc = "calls" \/ outcome = "parsed" =>
               \A c \in Calls : before[c] = Answered => c \in answered
        /\ outcome = "parsed" => \A c \in Calls : before[c] >= Asked => c \in asked

LEMMA ReaderStep ==
    ASSUME Typed, ArchiveInv, ReaderInv, [Next]_vars
    PROVE  ReaderInv'
<1>1. CASE HermesMoves
  <2>1. UNCHANGED <<home, reader, before>> /\ pc # "done"
    BY <1>1 DEF HermesMoves, Starts, Stops, IsKilled, Commits, Checkpoints, Happens
  <2>2. Reading(home, "immutable")' => Within(before', main')
    BY <1>1, <2>1, MainStep DEF reader, ReaderInv, ArchiveInv, CopyFrames, Reading, Db, Within
  <2> QED
    BY <2>1, <2>2 DEF reader, ReaderInv, Db
<1>2. CASE ProbeReads
  BY <1>2 DEF ProbeReads, Goto, ReaderInv, Reading, Db
<1>3. CASE ProbeFails
  BY <1>3 DEF ProbeFails, Goto, archive, ReaderInv, Reading, Db
<1>4. CASE CheckWal
  <2>1. UNCHANGED <<home, before, main, at, phase, wal, rows>>
    BY <1>4 DEF CheckWal, archive
  <2>2. ASSUME Reading(home, "immutable")' PROVE Within(before', main')
    <3>1. ~wal[Db] /\ Db = home
      BY <1>4, <2>1, <2>2 DEF CheckWal, MayMissFrames, Fatal, Reading, Db
    <3> QED
      BY <2>1, <3>1 DEF ArchiveInv
  <2>3. CASE MayMissFrames
    BY <1>4, <2>1, <2>2, <2>3 DEF CheckWal, Fatal, Goto, ReaderInv, Db
  <2>4. CASE ~MayMissFrames
    BY <1>4, <2>1, <2>2, <2>4 DEF CheckWal, Goto, ReaderInv, Db
  <2> QED
    BY <2>3, <2>4
<1>5. CASE QueryFails
  BY <1>5 DEF QueryFails, Fatal, Goto, archive, ReaderInv, Reading, Db
<1>6. CASE ResolveIn
  BY <1>6 DEF ResolveIn, Goto, archive, ReaderInv, Reading, Db
<1>7. CASE ReadSession
  BY <1>7 DEF ReadSession, Goto, archive, ReaderInv, Reading, Db
<1>8. CASE ReadResults
  BY <1>8 DEF ReadResults, Goto, archive, ReaderInv, Reading, Db
<1>9. CASE ReadCalls
  BY <1>9 DEF ReadCalls, Goto, archive, ReaderInv, Reading, Db
<1>10. CASE UNCHANGED vars
  BY <1>10 DEF vars, archive, reader, ReaderInv, Reading, Db
<1> QED
  BY <1>1, <1>2, <1>3, <1>4, <1>5, <1>6, <1>7, <1>8, <1>9, <1>10 DEF Next

\* A query sees all that was committed before the parse began.
LEMMA QuerySeesWhatWasThere ==
    ASSUME Typed, ArchiveInv, ReaderInv, pc \in {"results", "calls"}, ~torn,
           NEW seen \in Visible
    PROVE  \A c \in Calls : seen[c] \in Absent .. Answered /\ before[c] <= seen[c]
<1>1. phase = "parse" /\ Db = home /\ conn \in {"ro", "immutable"}
  BY DEF ReaderInv, Typed
<1>2. CASE conn = "ro"
  BY <1>2 DEF Visible, ArchiveInv, Within, Typed, Contents
<1>3. CASE conn = "immutable"
  <2>1. seen = main /\ Within(before, main)
    BY <1>1, <1>3 DEF Visible, ReaderInv, Reading
  <2> QED
    BY <2>1 DEF Within, Typed, Contents
<1> QED
  BY <1>1, <1>2, <1>3

LEMMA SettledStep ==
    ASSUME Typed, ArchiveInv, ReaderInv, SettledInv, [Next]_vars
    PROVE  SettledInv'
<1>1. CASE HermesMoves
  <2>1. UNCHANGED <<reader, before>>
    BY <1>1 DEF HermesMoves, Starts, Stops, IsKilled, Commits, Checkpoints, Happens
  <2>2. torn => torn'
    BY <1>1, MainStep DEF CopyFrames
  <2> QED
    BY <2>1, <2>2 DEF reader, SettledInv
<1>2. CASE ReadResults
  <2> SUFFICES ASSUME ~torn PROVE SettledInv'
    BY <1>2 DEF ReadResults, SettledInv
  <2>1. PICK seen \in Visible : answered' = {c \in Calls : seen[c] = Answered}
    BY <1>2 DEF ReadResults
  <2>2. \A c \in Calls : seen[c] \in Absent .. Answered /\ before[c] <= seen[c]
    BY <1>2, QuerySeesWhatWasThere DEF ReadResults
  <2>3. \A c \in Calls : before[c] = Answered => c \in answered'
    BY <2>1, <2>2 DEF Absent, Answered
  <2>4. UNCHANGED <<before, outcome>> /\ outcome = "none"
    BY <1>2 DEF ReadResults, ReaderInv
  <2> QED
    BY <2>3, <2>4 DEF SettledInv
<1>3. CASE ReadCalls
  <2> SUFFICES ASSUME ~torn PROVE SettledInv'
    BY <1>3 DEF ReadCalls, SettledInv
  <2>1. PICK seen \in Visible : asked' = {c \in Calls : seen[c] >= Asked}
    BY <1>3 DEF ReadCalls
  <2>2. \A c \in Calls : seen[c] \in Absent .. Answered /\ before[c] <= seen[c]
    BY <1>3, QuerySeesWhatWasThere DEF ReadCalls
  <2>3. \A c \in Calls : before[c] \in Int
    BY DEF Typed, Contents, Absent, Answered
  <2>4. \A c \in Calls : before[c] >= Asked => c \in asked'
    BY <2>1, <2>2, <2>3 DEF Asked, Absent, Answered
  <2>5. UNCHANGED <<before, answered>> /\ pc = "calls"
    BY <1>3 DEF ReadCalls
  <2> QED
    BY <2>4, <2>5 DEF SettledInv
<1>4. CASE CheckWal
  BY <1>4 DEF CheckWal, Fatal, Goto, ReaderInv, SettledInv
<1>5. CASE UNCHANGED vars
  BY <1>5 DEF vars, reader, SettledInv
<1>6. CASE ProbeReads \/ ProbeFails \/ QueryFails \/ ResolveIn \/ ReadSession
  <2>1. pc' # "calls" /\ outcome' # "parsed"
    BY <1>6 DEF ProbeReads, ProbeFails, QueryFails, Fatal, ResolveIn, ReadSession, Goto, ReaderInv
  <2> QED
    BY <2>1 DEF SettledInv
<1> QED
  BY <1>1, <1>2, <1>3, <1>4, <1>5, <1>6 DEF Next

LEMMA ReaderInvariant == Spec => [](Typed /\ ArchiveInv /\ ReaderInv /\ SettledInv)
<1>1. Init /\ Typed => ArchiveInv
  BY DEF Init, Typed, ArchiveInv, Within, Contents, Absent, Answered
<1>2. Init => ReaderInv /\ SettledInv
  BY DEF Init, ReaderInv, SettledInv, Reading
<1>3. Typed /\ ArchiveInv /\ ReaderInv /\ SettledInv /\ [Next]_vars
      => (Typed /\ ArchiveInv /\ ReaderInv /\ SettledInv)'
  BY TypedStep, ArchiveStep, ReaderStep, SettledStep
<1> QED
  BY <1>1, <1>2, <1>3, TypedInvariant, PTL DEF Spec

(* Whichever way the database is opened, and whatever hermes does in the   *)
(* meantime, a call that was committed before the parse began is reported, *)
(* with its result if that was committed, unless the file changed under an *)
(* immutable connection (_connect).                                        *)
THEOREM SettledCallsAreRead == Spec => []SettledCallsAreJoined
<1>1. Typed /\ SettledInv => SettledCallsAreJoined
  <2>1. Asked <= Answered
    BY DEF Asked, Answered
  <2> QED
    BY <2>1 DEF Typed, SettledInv, SettledCallsAreJoined, Reported, Joined, Asked, Answered
<1> QED
  BY <1>1, ReaderInvariant, PTL

-----------------------------------------------------------------------------
(* An archive at rest                                                      *)

\* resolve_session has been through the databases before the present one,
\* and gives up when it has been through all of them.
Searched ==
    /\ phase = "resolve" => \A i \in 1 .. at - 1 : Profiles[i] # home
    /\ outcome = "skipped" => home \notin Databases

\* No database is open, one that has a -wal can be read, and one whose probe
\* failed has none: the fallback then reads it all.
AtRest ==
    /\ \A d \in Databases : ~running[d] /\ (wal[d] => ~rejects)
    /\ ~torn /\ outcome # "fatal"
    /\ pc = "check_wal" => ~wal[Db]

LEMMA SearchedStep ==
    ASSUME Typed, ReaderInv, Searched, [Next]_vars
    PROVE  Searched'
<1>1. CASE ResolveIn
  <2>1. UNCHANGED home /\ pc = "query" /\ phase = "resolve" /\ outcome = "none"
    BY <1>1 DEF ResolveIn, ReaderInv
  <2>2. \A i \in 1 .. at - 1 : Profiles[i] # home
    BY <2>1 DEF Searched
  <2>3. at \in 1 .. Len(Profiles) /\ Len(Profiles) \in Nat
    BY HermesAssumption DEF Typed
  <2>4. CASE Db = home
    BY <1>1, <2>1, <2>4 DEF ResolveIn, Searched
  <2>5. CASE Db # home /\ at < Len(Profiles)
    <3>1. at' = at + 1 /\ outcome' = "none"
      BY <1>1, <2>1, <2>5 DEF ResolveIn
    <3>2. \A i \in 1 .. at' - 1 : Profiles[i] # home
      BY <2>2, <2>3, <2>5, <3>1 DEF Db
    <3> QED
      BY <2>1, <3>1, <3>2 DEF Searched
  <2>6. CASE Db # home /\ at = Len(Profiles)
    <3>1. \A i \in 1 .. Len(Profiles) : Profiles[i] # home
      BY <2>2, <2>3, <2>6 DEF Db
    <3>2. home \notin Databases
      BY <3>1, HermesAssumption DEF Databases
    <3>3. UNCHANGED at
      BY <1>1, <2>6 DEF ResolveIn
    <3> QED
      BY <2>1, <2>2, <3>2, <3>3 DEF Searched
  <2> QED
    BY <1>1, <2>4, <2>5, <2>6 DEF ResolveIn
<1>2. CASE HermesMoves \/ ProbeReads \/ ProbeFails \/ ReadSession \/ ReadResults \/ UNCHANGED vars
  <2>1. UNCHANGED <<home, phase, at, outcome>>
    BY <1>2 DEF HermesMoves, Starts, Stops, IsKilled, Commits, Checkpoints, Happens, reader, vars,
                ProbeReads, ProbeFails, ReadSession, ReadResults
  <2> QED
    BY <2>1 DEF Searched
<1>3. CASE CheckWal \/ QueryFails \/ ReadCalls
  <2>1. UNCHANGED <<home, phase, at>> /\ (UNCHANGED outcome \/ outcome' # "skipped")
    BY <1>3 DEF CheckWal, QueryFails, ReadCalls, Fatal
  <2> QED
    BY <2>1 DEF Searched
<1> QED
  BY <1>1, <1>2, <1>3 DEF Next

LEMMA AtRestStep ==
    ASSUME Typed, ReaderInv, idle => AtRest, [Next]_vars
    PROVE  (idle => AtRest)'
<1> SUFFICES ASSUME idle' PROVE AtRest'
  OBVIOUS
<1>1. CASE HermesMoves
  BY <1>1 DEF HermesMoves, Starts, Stops, IsKilled, Commits, Checkpoints, Happens
<1>2. CASE ~HermesMoves
  <2>1. idle /\ UNCHANGED <<home, rejects, running>>
    BY <1>2 DEF Next, vars, archive, ProbeReads, ProbeFails, CheckWal, QueryFails, ResolveIn,
                ReadSession, ReadResults, ReadCalls
  <2>2. AtRest /\ Db \in Databases
    BY <2>1, DbIsADatabase
  <2>3. CASE ProbeReads
    <3>1. wal' = [wal EXCEPT ![Db] = TRUE] /\ UNCHANGED <<torn, outcome>> /\ pc' = "query"
      BY <2>3 DEF ProbeReads, Goto
    <3>2. wal[Db] \/ ~rejects
      BY <2>3 DEF ProbeReads, Readable
    <3>3. \A d \in Databases : wal'[d] => ~rejects'
      BY <2>1, <2>2, <3>1, <3>2 DEF AtRest, Typed
    <3> QED
      BY <2>1, <2>2, <3>1, <3>3 DEF AtRest
  <2>4. CASE ProbeFails
    BY <2>1, <2>2, <2>4 DEF ProbeFails, Readable, Goto, archive, AtRest, Db
  <2>5. CASE CheckWal
    BY <2>1, <2>2, <2>5 DEF CheckWal, MayMissFrames, Goto, archive, AtRest
  <2>6. CASE QueryFails
    BY <2>2, <2>6 DEF QueryFails, AtRest
  <2>7. CASE ResolveIn
    BY <2>1, <2>2, <2>7 DEF ResolveIn, Goto, archive, AtRest
  <2>8. CASE ReadSession \/ ReadResults \/ ReadCalls
    BY <2>1, <2>2, <2>8 DEF ReadSession, ReadResults, ReadCalls, Goto, archive, AtRest
  <2>9. CASE UNCHANGED vars
    BY <2>1, <2>2, <2>9 DEF vars, archive, reader, AtRest, Db
  <2> QED
    BY <1>2, <2>3, <2>4, <2>5, <2>6, <2>7, <2>8, <2>9 DEF Next
<1> QED
  BY <1>1, <1>2

(* An archive that hermes has left cleanly and does not open again is read *)
(* on every build of SQLite, or has not got the session (_connect's        *)
(* fallback: no -wal means that the file holds everything).                *)
THEOREM RestingArchiveIsRead == Spec => []IdleArchiveIsRead
<1>1. Init => Searched /\ (idle => AtRest)
  BY DEF Init, Searched, AtRest
<1>2. Typed /\ ReaderInv /\ Searched /\ (idle => AtRest) /\ [Next]_vars
      => Searched' /\ (idle => AtRest)'
  BY SearchedStep, AtRestStep
<1>3. Typed /\ ReaderInv /\ Searched /\ (idle => AtRest) => IdleArchiveIsRead
  BY DbIsADatabase DEF Typed, Outcomes, ReaderInv, Searched, AtRest, IdleArchiveIsRead
<1> QED
  BY <1>1, <1>2, <1>3, ReaderInvariant, PTL DEF Spec

=============================================================================
