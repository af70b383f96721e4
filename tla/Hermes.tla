------------------------------- MODULE Hermes -------------------------------
(***************************************************************************)
(* parse_hermes_session: the scan reads one session out of the SQLite      *)
(* databases of hermes, which may be running, starting or stopping at the  *)
(* same time.  The databases are in WAL mode: a commit goes to the -wal    *)
(* file beside the database, and a checkpoint copies it over.              *)
(*                                                                         *)
(* A call of the session is not yet there, asked (its assistant row is     *)
(* committed) or answered (the row of its result is committed as well).    *)
(***************************************************************************)
EXTENDS Integers, Sequences, FiniteSets

CONSTANTS
    Profiles,  \* iter_profile_dbs: the databases, in the order they are searched
    Homes,     \* where the session may be: some of them, or "nowhere"
    Calls,     \* the assistant rows of the session, one block each
    Kind,      \* Kind[c]: a "call", a "malformed" blob, or an "other" block
    MaxEvents  \* bound: what hermes does while the scan reads

Databases == {Profiles[i] : i \in DOMAIN Profiles}
Kinds     == {"call", "malformed", "other"}

ASSUME HermesAssumption ==
    /\ Len(Profiles) \in Nat \ {0} /\ DOMAIN Profiles = 1 .. Len(Profiles)
    /\ IsFiniteSet(Calls) /\ Kind \in [Calls -> Kinds] /\ MaxEvents \in Nat

VARIABLES
    home,     \* the database that holds the session
    rejects,  \* this build of SQLite cannot read a WAL database without sidecars
    running,  \* running[d]: hermes has d open
    wal,      \* wal[d]: the sidecar -wal is there
    rows,     \* rows[c]: what is committed of c
    main,     \* main[c]: what the database file itself holds of c
    events,   \* how often hermes did something
    pc,       \* the step of the parse
    phase,    \* "resolve" (resolve_session) or "parse"
    at,       \* the position of the database in Profiles
    conn,     \* the open connection: "none", "ro" or "immutable"
    torn,     \* the database file changed under an immutable connection
    answered, \* the ids in `results`
    asked,    \* the calls in `assistant_rows`
    outcome,  \* how the session ended for _scan_refs
    before,   \* history: what was committed when the parse began
    idle      \* history: so far hermes was not running and left no -wal

archive == <<running, wal, rows, main, events>>
reader  == <<pc, phase, at, conn, answered, asked, outcome>>
vars    == <<home, rejects, archive, reader, torn, before, idle>>

Absent   == 0
Asked    == 1
Answered == 2
Contents == [Calls -> Absent .. Answered]
Within(f, g) == \A c \in Calls : f[c] <= g[c]

Db == Profiles[at]
Reading(d, how) == conn = how /\ Db = d

-----------------------------------------------------------------------------
Init ==
    /\ home \in Homes /\ rejects \in BOOLEAN
    /\ running \in [Databases -> BOOLEAN]
    /\ wal \in {f \in [Databases -> BOOLEAN] : \A d \in Databases : running[d] => f[d]}
    /\ rows \in Contents
    /\ main \in {f \in Contents : Within(f, rows)}
    /\ main # rows => home \in Databases /\ wal[home]
    /\ events = 0
    /\ pc = "open" /\ phase = "resolve" /\ at = 1 /\ conn = "none"
    /\ torn = FALSE /\ answered = {} /\ asked = {} /\ outcome = "none"
    /\ before = rows
    /\ idle = (\A d \in Databases : ~running[d] /\ ~wal[d])

-----------------------------------------------------------------------------
(* What hermes does meanwhile                                              *)
Happens ==
    /\ pc # "done" /\ events < MaxEvents
    /\ events' = events + 1
    /\ idle' = FALSE
    /\ UNCHANGED <<home, rejects, reader, before>>

Starts(d) ==
    /\ Happens /\ ~running[d]
    /\ running' = [running EXCEPT ![d] = TRUE]
    /\ wal' = [wal EXCEPT ![d] = TRUE]
    /\ UNCHANGED <<rows, main, torn>>

Commits(c) ==
    /\ Happens /\ home \in Databases /\ running[home] /\ rows[c] < Answered
    /\ rows' = [rows EXCEPT ![c] = @ + 1]
    /\ UNCHANGED <<running, wal, main, torn>>

CopyFrames ==
    /\ main' = rows
    /\ torn' = (torn \/ (Reading(home, "immutable") /\ main # rows))

Checkpoints ==
    /\ Happens /\ home \in Databases /\ running[home] /\ main # rows
    /\ CopyFrames
    /\ UNCHANGED <<running, wal, rows>>

\* The last connection to close checkpoints and removes the sidecars.
Stops(d) ==
    /\ Happens /\ running[d]
    /\ running' = [running EXCEPT ![d] = FALSE]
    /\ IF Reading(d, "ro") THEN UNCHANGED <<wal, main, torn>>
       ELSE /\ wal' = [wal EXCEPT ![d] = FALSE]
            /\ IF d = home THEN CopyFrames ELSE UNCHANGED <<main, torn>>
    /\ UNCHANGED rows

IsKilled(d) ==
    /\ Happens /\ running[d]
    /\ running' = [running EXCEPT ![d] = FALSE]
    /\ UNCHANGED <<wal, rows, main, torn>>

-----------------------------------------------------------------------------
(* _connect                                                                *)
Goto(step) == pc' = step

\* A sqlite3.Error is none of the exceptions that _scan_refs catches.
Fatal == Goto("done") /\ conn' = "none" /\ outcome' = "fatal"

Readable == wal[Db] \/ ~rejects

\* The probe creates the sidecars, and a read-only connection leaves them.
ProbeReads ==
    /\ pc = "open" /\ Readable
    /\ conn' = "ro" /\ wal' = [wal EXCEPT ![Db] = TRUE]
    /\ Goto("query")
    /\ UNCHANGED <<home, rejects, running, rows, main, events, phase, at, torn,
                   answered, asked, outcome, before, idle>>

\* This build rejects the file, or hermes holds a lock for too long.
ProbeFails ==
    /\ pc = "open" /\ (~Readable \/ running[Db])
    /\ Goto("check_wal")
    /\ UNCHANGED <<home, rejects, archive, phase, at, conn, torn,
                   answered, asked, outcome, before, idle>>

MutantMayMissFrames == FALSE
MutantAlwaysRaises == TRUE
MayMissFrames == wal[Db]

CheckWal ==
    /\ pc = "check_wal"
    /\ IF MayMissFrames THEN Fatal
       ELSE conn' = "immutable" /\ Goto("query") /\ UNCHANGED outcome
    /\ torn' = FALSE
    /\ UNCHANGED <<home, rejects, archive, phase, at, answered, asked,
                   before, idle>>

-----------------------------------------------------------------------------
(* resolve_session and parse_hermes_session                                *)

\* What a SELECT may return.  SQLite promises nothing about an immutable
\* file that changes; it never returns what was not written.
Visible ==
    IF conn = "ro" THEN {rows}
    ELSE IF torn THEN {f \in Contents : Within(f, main)} ELSE {main}

QueryFails ==
    /\ pc \in {"query", "results", "calls"}
    /\ (conn = "ro" /\ running[Db]) \/ (conn = "immutable" /\ torn)
    /\ Fatal
    /\ UNCHANGED <<home, rejects, archive, phase, at, torn, answered, asked,
                   before, idle>>

\* SELECT 1 FROM sessions; the connection is closed either way.
ResolveIn ==
    /\ pc = "query" /\ phase = "resolve"
    /\ conn' = "none"
    /\ \/ Db = home /\ phase' = "parse" /\ Goto("open") /\ UNCHANGED <<at, outcome>>
       \/ Db # home /\ at < Len(Profiles)
             /\ at' = at + 1 /\ Goto("open") /\ UNCHANGED <<phase, outcome>>
       \/ Db # home /\ at = Len(Profiles)     \* NonTranscriptExport
             /\ Goto("done") /\ outcome' = "skipped" /\ UNCHANGED <<phase, at>>
    /\ UNCHANGED <<home, rejects, archive, torn, answered, asked, before, idle>>

ReadSession ==
    /\ pc = "query" /\ phase = "parse"
    /\ Goto("results")
    /\ UNCHANGED <<home, rejects, archive, phase, at, conn, torn,
                   answered, asked, outcome, before, idle>>

ReadResults ==
    /\ pc = "results"
    /\ \E seen \in Visible : answered' = {c \in Calls : seen[c] = Answered}
    /\ Goto("calls")
    /\ UNCHANGED <<home, rejects, archive, phase, at, conn, torn,
                   asked, outcome, before, idle>>

ReadCalls ==
    /\ pc = "calls"
    /\ \E seen \in Visible : asked' = {c \in Calls : seen[c] >= Asked}
    /\ Goto("done") /\ conn' = "none" /\ outcome' = "parsed"
    /\ UNCHANGED <<home, rejects, archive, phase, at, torn, answered, before, idle>>

\* The ParseResult.  A blob that will not decode is counted, an entry of
\* another shape is passed over, and a result without a call is left out.
Reported == {c \in asked : Kind[c] = "call"}
Joined == Reported \cap answered
Malformed == Cardinality({c \in asked : Kind[c] = "malformed"})

-----------------------------------------------------------------------------
HermesMoves ==
    \/ \E d \in Databases : Starts(d) \/ Stops(d) \/ IsKilled(d)
    \/ \E c \in Calls : Commits(c)
    \/ Checkpoints

Next ==
    \/ HermesMoves
    \/ ProbeReads \/ ProbeFails \/ CheckWal \/ QueryFails
    \/ ResolveIn \/ ReadSession \/ ReadResults \/ ReadCalls

Spec == Init /\ [][Next]_vars

-----------------------------------------------------------------------------
(* Every variable stays in its domain, and a result is only joined to a    *)
(* call that is reported.                                                  *)
TypeOK ==
    /\ home \in Homes /\ rejects \in BOOLEAN /\ running \in [Databases -> BOOLEAN]
    /\ wal \in [Databases -> BOOLEAN]
    /\ rows \in Contents /\ main \in Contents /\ before \in Contents
    /\ events \in 0 .. MaxEvents
    /\ pc \in {"open", "check_wal", "query", "results", "calls", "done"}
    /\ phase \in {"resolve", "parse"} /\ at \in DOMAIN Profiles
    /\ conn \in {"none", "ro", "immutable"}
    /\ torn \in BOOLEAN /\ idle \in BOOLEAN
    /\ answered \subseteq Calls /\ asked \subseteq Calls
    /\ outcome \in {"none", "parsed", "skipped", "fatal"}
    /\ outcome = "parsed" => Joined \subseteq Reported /\ Malformed <= Cardinality(asked)

(* Whichever way the database is opened, and whatever hermes does in the   *)
(* meantime, a call that was committed before the parse began is reported, *)
(* with its result if that was committed; only a file that changes under   *)
(* an immutable connection is beyond promise (_connect: "will silently     *)
(* return stale rows if frames are pending").                              *)
SettledCallsAreJoined ==
    outcome = "parsed" /\ ~torn => \A c \in Calls : Kind[c] = "call" =>
        /\ before[c] >= Asked => c \in Reported
        /\ before[c] = Answered => c \in Joined

(* An archive that hermes has left cleanly and does not open again is read *)
(* on every build of SQLite, or has not got the session (_connect: "Idle   *)
(* hermes profiles have been found in exactly that state").                *)
IdleArchiveIsRead ==
    idle /\ pc = "done" => outcome = IF home \in Databases THEN "parsed" ELSE "skipped"

(* "a hermes archive we cannot read degrades the run, never aborts it"     *)
(* (test_hermes.py).                                                       *)
ArchiveNeverAborts == outcome # "fatal"

=============================================================================
