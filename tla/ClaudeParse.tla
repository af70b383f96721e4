----------------------------- MODULE ClaudeParse -----------------------------
(***************************************************************************)
(* ClaudeParser.parse over one transcript: a streaming pass that charges   *)
(* each response's usage once, splits it by branch and by the cwd of a     *)
(* detached checkout, keys assistant output to its billing turn, and joins *)
(* tool_use blocks to tool_result blocks by id.  The module is the         *)
(* parser's side of a stream that TranscriptIntake hands it.               *)
(*                                                                         *)
(* A record carries the fields the parser reads.  `assistant` says that    *)
(* the content is a list on the assistant side; `spoken` that one of its   *)
(* blocks is text or thinking; a use is `valid` when its id and name are   *)
(* strings, and `says` what its raw input names.  The result's id is the   *)
(* block's, or the entry's toolUseID.                                      *)
(* Four token counts are two here: those of the cache, and those of input  *)
(* and output.                                                             *)
(* For a call the provenance of its usage is whether its record has one.   *)
(***************************************************************************)
EXTENDS PendingCalls

CONSTANT Entries  \* the records that may follow one another

VARIABLES
    trackTurns, \* the track_turns argument: probe runs set it
    read,       \* history: the records read so far
    parsing,    \* "reading", "parsed", or "failed" (TurnKeyError)
    pending,    \* calls awaiting a result, in the order of the dict
    calls,      \* ParseResult.calls
    turns,      \* ParseResult.turns
    malformed,  \* ParseResult.malformed
    charged,    \* _UsageTally.charged
    total,      \* the session's usage
    byBranch,   \* usage_by_branch
    byCwd       \* detached_usage_by_cwd

tally == <<charged, total, byBranch, byCwd>>
vars  == <<trackTurns, read, parsing, pending, calls, turns, malformed, tally>>

-----------------------------------------------------------------------------
Malformed == [malformed |-> TRUE]
IsEntry(r) == r # Malformed

None     == "none"   \* a key or a turn that is absent
Unstated == ""       \* the bucket of an entry without gitBranch or cwd
Detached == "HEAD"   \* DETACHED_BRANCH

NoUsage == [cache |-> -1, io |-> -1]
HasUsage(r) == IsEntry(r) /\ r.usage # NoUsage

IsWellFormed(r) ==
    IsEntry(r) => /\ r.uses \in Seq(ToSet(r.uses)) /\ r.results \in Seq(ToSet(r.results))
                  /\ r.usage \in [cache : Nat, io : Nat] \cup {NoUsage}
                  /\ r.spoken \in BOOLEAN /\ r.assistant \in BOOLEAN

ASSUME EntriesAssumption == IsFiniteSet(Entries) /\ \A r \in Entries : IsWellFormed(r)

AllEntries == {r \in Entries : IsEntry(r)}
Keys     == {r.request : r \in AllEntries} \cup {r.message : r \in AllEntries}
Branches == {r.branch : r \in AllEntries} \cup {Unstated, Detached}
Cwds     == {r.cwd : r \in AllEntries} \cup {Unstated}

\* A BranchUsage.
Bucket == [cache : Nat, io : Nat, messages : Nat]
Empty  == [cache |-> 0, io |-> 0, messages |-> 0]
Plus(b, c) == [cache |-> b.cache + c.cache, io |-> b.io + c.io,
               messages |-> b.messages + c.messages]
Spent(r) == [cache |-> r.usage.cache, io |-> r.usage.io, messages |-> 1]

-----------------------------------------------------------------------------
(* _account_usage                                                          *)

BillingKey(r) == IF r.request # None THEN r.request ELSE r.message

MutantCharges(r) == HasUsage(r)
Charges(r) == HasUsage(r) /\ BillingKey(r) \notin charged

\* An entry of a detached checkout is also booked under its cwd.
BooksCwd(r) == Charges(r) /\ r.branch = Detached

Account(r) ==
    /\ charged' = IF Charges(r) /\ BillingKey(r) # None
                  THEN charged \cup {BillingKey(r)} ELSE charged
    /\ total' = IF Charges(r) THEN Plus(total, Spent(r)) ELSE total
    /\ byBranch' = IF Charges(r)
                   THEN [byBranch EXCEPT ![r.branch] = Plus(@, Spent(r))]
                   ELSE byBranch
    /\ byCwd' = IF BooksCwd(r)
                THEN [byCwd EXCEPT ![r.cwd] = Plus(@, Spent(r))] ELSE byCwd

-----------------------------------------------------------------------------
(* _track_turn: a turn is the responses that share a requestId.            *)
Tracked(r) == trackTurns /\ r.assistant

TurnOf(r) == IF Tracked(r) THEN r.request ELSE None

Turn(t, r) == [uses |-> t.uses + Len(r.uses), spoken |-> t.spoken \/ r.spoken]

TrackTurn(r) ==
    turns' = IF Tracked(r) THEN [turns EXCEPT ![r.request] = Turn(@, r)]
             ELSE turns

-----------------------------------------------------------------------------
(* _enqueue_tool_uses and _join_results.  A call remembers, as history,    *)
(* the record and the block it was opened at.                              *)
Opened(r, at, k) ==
    [id |-> r.uses[k].id, name |-> r.uses[k].name, says |-> r.uses[k].says,
     at |-> <<at, k>>, turn |-> TurnOf(r), measured |-> HasUsage(r), outcome |-> "pending"]

\* With turns tracked, only assistant content opens calls.
Opens(r) == {k \in DOMAIN r.uses : r.uses[k].valid /\ (trackTurns => r.assistant)}

Enqueued(r, at) ==
    FoldLeft(LAMBDA p, k : IF k \in Opens(r) THEN Put(p, Opened(r, at, k)) ELSE p,
             pending, [k \in DOMAIN r.uses |-> k])

\* A result that reports an error still ends its call.
JoinResult(s, res) == Join(s, res.id, IF res.bad THEN "error" ELSE "ok")

Joined(r, at) ==
    FoldLeft(JoinResult, [pending |-> Enqueued(r, at), calls |-> calls], r.results)

-----------------------------------------------------------------------------
Init ==
    /\ trackTurns \in BOOLEAN
    /\ read = <<>> /\ parsing = "reading"
    /\ pending = <<>> /\ calls = <<>> /\ malformed = 0
    /\ turns = [k \in Keys |-> [uses |-> 0, spoken |-> FALSE]]
    /\ charged = {} /\ total = Empty
    /\ byBranch = [b \in Branches |-> Empty]
    /\ byCwd = [c \in Cwds |-> Empty]

\* Undecodable lines, and lines that are not an object.
SkipMalformed ==
    /\ parsing = "reading"
    /\ malformed' = malformed + 1
    /\ read' = Append(read, Malformed)
    /\ UNCHANGED <<trackTurns, parsing, pending, calls, turns, tally>>

ParseEntry(r) ==
    /\ parsing = "reading"
    /\ Tracked(r) => r.request # None
    /\ read' = Append(read, r)
    /\ Account(r)
    /\ TrackTurn(r)
    /\ LET joined == Joined(r, Len(read) + 1)
       IN  pending' = joined.pending /\ calls' = joined.calls
    /\ UNCHANGED <<trackTurns, parsing, malformed>>

\* TurnKeyError: the usage was booked, and the whole parse is lost.
TurnKeyMissing(r) ==
    /\ parsing = "reading"
    /\ Tracked(r) /\ r.request = None
    /\ read' = Append(read, r)
    /\ Account(r)
    /\ parsing' = "failed"
    /\ UNCHANGED <<trackTurns, pending, calls, turns, malformed>>

EndOfFile ==
    /\ parsing = "reading"
    /\ parsing' = "parsed"
    /\ calls' = calls \o Drained(pending)
    /\ pending' = <<>>
    /\ UNCHANGED <<trackTurns, read, turns, malformed, tally>>

\* One turn of the parser's loop.
Consume(r) == IF IsEntry(r) THEN ParseEntry(r) \/ TurnKeyMissing(r) ELSE SkipMalformed

Next == EndOfFile \/ \E r \in Entries : Consume(r)

Spec == Init /\ [][Next]_vars

-----------------------------------------------------------------------------
(* Every variable keeps its shape.                                         *)
TypeOK ==
    /\ trackTurns \in BOOLEAN
    /\ read \in Seq(Entries)
    /\ parsing \in {"reading", "parsed", "failed"}
    /\ \A c \in ToSet(pending) : c.outcome = "pending"
    /\ \A c \in ToSet(calls) : c.outcome \in {"ok", "error", "no_result"}
    /\ malformed \in 0 .. Len(read)
    /\ turns \in [Keys -> [uses : Nat, spoken : BOOLEAN]]
    /\ charged \subseteq Keys \ {None}
    /\ total \in Bucket
    /\ byBranch \in [Branches -> Bucket] /\ byCwd \in [Cwds -> Bucket]

\* The records whose usage a reader who holds the whole file would charge:
\* the first copy of each response, and every copy that names no response.
FirstCopies(s) ==
    {i \in DOMAIN s : /\ HasUsage(s[i])
                      /\ \/ BillingKey(s[i]) = None
                         \/ \A j \in 1 .. i - 1 :
                               HasUsage(s[j]) => BillingKey(s[j]) # BillingKey(s[i])}

Sum(buckets, D) ==
    [cache |-> MapThenSumSet(LAMBDA d : buckets[d].cache, D),
     io |-> MapThenSumSet(LAMBDA d : buckets[d].io, D),
     messages |-> MapThenSumSet(LAMBDA d : buckets[d].messages, D)]

(* Each response is charged once and every one is charged, however many    *)
(* entries repeat its usage and whatever stands between them (S43,         *)
(* _already_charged).                                                      *)
ChargedOnce ==
    LET copies == FirstCopies(read)
    IN  total = Sum([i \in copies |-> Spent(read[i])], copies)

(* The session total is the sum of the branch buckets, and the cwd buckets *)
(* split the one of the detached checkout exactly (S40, the comments on    *)
(* ParseResult.usage_by_branch and detached_usage_by_cwd): what the        *)
(* reducer's subtraction relies on.                                        *)
BucketsPartition ==
    /\ Sum(byBranch, DOMAIN byBranch) = total
    /\ Sum(byCwd, DOMAIN byCwd) = byBranch[Detached]

Uses == UNION {{<<i, k>> : k \in Opens(read[i])} : i \in {i \in DOMAIN read : IsEntry(read[i])}}

IdOf(u) == read[u[1]].uses[u[2]].id

\* The records at or after a use that answer it.
Answers(u) ==
    {i \in u[1] .. Len(read) :
        IsEntry(read[i]) /\ \E res \in ToSet(read[i].results) : res.id = IdOf(u)}

\* An id that is used again before its answer replaces the waiting call.
Superseded(u) ==
    \E v \in Uses :
        /\ IdOf(v) = IdOf(u)
        /\ u[1] < v[1] \/ (u[1] = v[1] /\ u[2] < v[2])
        /\ \A i \in Answers(u) : i >= v[1]

Kept == {u \in Uses : ~Superseded(u)}

(* No call of a transcript is lost or doubled: at end of file every        *)
(* tool_use the parser accepts has become exactly one call, answered if    *)
(* and only if a result with its id stands in its record or a later one    *)
(* (S6, _join_results, _drain_pending).  The only use that leaves no call  *)
(* is one whose id was used again before an answer came.                   *)
EveryUseIsOneCall ==
    parsing = "parsed" =>
        /\ Len(calls) = Cardinality(Kept)
        /\ \A u \in Kept : \E c \in ToSet(calls) :
               /\ c.at = u
               /\ c.outcome = "no_result" <=> Answers(u) = {}
=============================================================================
