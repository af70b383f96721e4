----------------------------- MODULE CodexParse -----------------------------
(***************************************************************************)
(* CodexParser.parse over one rollout: calls join outputs on call_id, and  *)
(* two facts are carried along the stream, the rollout's own identity and  *)
(* the model of the turn.  The module is the parser's side of a stream it  *)
(* is handed record by record: RolloutIntake gives it the stream.          *)
(*                                                                         *)
(* A record is what the parser reads of it: its `kind`, a call_id `id`, a  *)
(* `model`, and for session_meta the `own` id and the `parent` thread's.   *)
(* The three call shapes are one kind here, and the three output shapes.   *)
(***************************************************************************)
EXTENDS PendingCalls

CONSTANT Records  \* the records that may follow one another

VARIABLES
    read,        \* history: the records read so far
    parsing,     \* "reading" or "parsed"
    pending,     \* calls awaiting their output
    calls,       \* ParseResult.calls
    unjoinable,  \* ParseResult.unjoinable: the web searches
    malformed,   \* ParseResult.malformed
    sessionId,   \* the identity stamped on calls
    model        \* the model stamped on calls

vars == <<read, parsing, pending, calls, unjoinable, malformed, sessionId, model>>

Unknown == ""
Ids == {r.id : r \in {r \in Records : r.kind = "call"}}

-----------------------------------------------------------------------------
Init ==
    /\ read = <<>> /\ parsing = "reading"
    /\ pending = <<>> /\ calls = <<>>
    /\ unjoinable = 0 /\ malformed = 0
    /\ sessionId = Unknown /\ model = Unknown

Takes(r, kind) ==
    /\ parsing = "reading"
    /\ r.kind = kind
    /\ read' = Append(read, r)

SkipMalformed(r) ==
    /\ Takes(r, "malformed")
    /\ malformed' = malformed + 1
    /\ UNCHANGED <<parsing, pending, calls, unjoinable, sessionId, model>>

\* Only the first identity counts: compaction writes a second session_meta.
MutantIdentity(r) == IF r.own # Unknown THEN r.own ELSE r.parent
Identity(r) ==
    IF sessionId # Unknown THEN sessionId
    ELSE IF r.own # Unknown THEN r.own ELSE r.parent

SessionMeta(r) ==
    /\ Takes(r, "session_meta")
    /\ sessionId' = Identity(r)
    /\ UNCHANGED <<parsing, pending, calls, unjoinable, malformed, model>>

\* A turn_context without a model leaves the previous one in force.
MutantTurnModel(r) == IF model = Unknown THEN r.model ELSE model
TurnModel(r) == IF r.model # Unknown THEN r.model ELSE model

TurnContext(r) ==
    /\ Takes(r, "turn_context")
    /\ model' = TurnModel(r)
    /\ UNCHANGED <<parsing, pending, calls, unjoinable, malformed, sessionId>>

\* web_search_call is counted, before the guard on call_id.
WebSearch(r) ==
    /\ Takes(r, "web_search_call")
    /\ unjoinable' = unjoinable + 1
    /\ UNCHANGED <<parsing, pending, calls, malformed, sessionId, model>>

\* A call_id that still waits is overwritten, and its first call is gone.
OpenCall(r) ==
    /\ Takes(r, "call")
    /\ pending' = Put(pending, [id |-> r.id, at |-> Len(read) + 1,
                                session |-> sessionId, model |-> model,
                                outcome |-> "pending"])
    /\ UNCHANGED <<parsing, calls, unjoinable, malformed, sessionId, model>>

CallOutput(r) ==
    /\ Takes(r, "output")
    /\ LET joined == Join([pending |-> pending, calls |-> calls], r.id, "ok")
       IN  pending' = joined.pending /\ calls' = joined.calls
    /\ UNCHANGED <<parsing, unjoinable, malformed, sessionId, model>>

\* A blank line, event_msg, compacted, no payload, a call without a usable
\* id or name, and any object that is no rollout record.
Ignore(r) ==
    /\ Takes(r, "other")
    /\ UNCHANGED <<parsing, pending, calls, unjoinable, malformed, sessionId, model>>

EndOfFile ==
    /\ parsing = "reading"
    /\ parsing' = "parsed"
    /\ calls' = calls \o Drained(pending)
    /\ pending' = <<>>
    /\ UNCHANGED <<read, unjoinable, malformed, sessionId, model>>

\* One turn of the parser's loop.
Consume(r) ==
    \/ SkipMalformed(r) \/ SessionMeta(r) \/ TurnContext(r)
    \/ WebSearch(r) \/ OpenCall(r) \/ CallOutput(r) \/ Ignore(r)

Next == EndOfFile \/ \E r \in Records : Consume(r)

Spec == Init /\ [][Next]_vars

-----------------------------------------------------------------------------
(* Every variable keeps its shape; nothing pending has ended.              *)
TypeOK ==
    /\ parsing \in {"reading", "parsed"}
    /\ \A c \in ToSet(pending) : c.outcome = "pending"
    /\ \A c \in ToSet(calls) : c.outcome \in {"ok", "no_result"} /\ c.id \in Ids
    /\ unjoinable \in Nat /\ malformed \in Nat

OfKind(kind) == {i \in DOMAIN read : read[i].kind = kind}

\* A call whose id is used again before an output with that id came.
Superseded(i) ==
    \E j \in OfKind("call") :
        /\ j > i /\ read[j].id = read[i].id
        /\ \A k \in OfKind("output") : i < k /\ k < j => read[k].id # read[i].id

Kept == {i \in OfKind("call") : ~Superseded(i)}

(* Every real tool call of a rollout is accounted for at its end: joined,  *)
(* kept without a result, or counted as unjoinable (S6, S38), and answered *)
(* if and only if an output with its call_id follows it.  The exception,   *)
(* which the docstring of parse ("kept ... rather than dropped") does not  *)
(* make: a call whose id was used again before its output came is replaced *)
(* in the dict and neither kept nor counted.                               *)
EveryCallIsAccountedFor ==
    parsing = "parsed" =>
        /\ Len(calls) + unjoinable = Cardinality(Kept \cup OfKind("web_search_call"))
        /\ \A i \in Kept : \E c \in ToSet(calls) :
              /\ c.at = i
              /\ c.outcome = "ok" <=>
                    \E j \in OfKind("output") : j > i /\ read[j].id = read[i].id

\* What a reader who holds the whole rollout finds before position i.
Before(i, kind, Test(_)) == {j \in OfKind(kind) : j < i /\ Test(read[j])}

(* A call carries the model of the last turn_context before it, whatever   *)
(* changes of model follow before its output arrives.                      *)
ModelIsOfItsTurn ==
    \A c \in ToSet(calls) \cup ToSet(pending) :
        LET turns == Before(c.at, "turn_context", LAMBDA r : r.model # Unknown)
        IN  c.model = IF turns = {} THEN Unknown ELSE read[Max(turns)].model

(* All calls after the first session_meta carry the identity it gave: the  *)
(* second one, of a compaction, never splits a rollout in two, and a       *)
(* subagent with an id of its own is never counted as its parent.          *)
OneIdentity ==
    \A c \in ToSet(calls) \cup ToSet(pending) :
        LET metas == Before(c.at, "session_meta",
                            LAMBDA r : r.own # Unknown \/ r.parent # Unknown)
            first == read[Min(metas)]
        IN  metas # {} =>
               c.session = IF first.own # Unknown THEN first.own ELSE first.parent
=============================================================================
