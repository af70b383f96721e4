---------------------------- MODULE PendingCalls ----------------------------
(***************************************************************************)
(* The dict of calls that await their result, which every transcript       *)
(* parser keeps: a sequence in insertion order, keyed by the field `id`.   *)
(***************************************************************************)
EXTENDS Integers, Sequences, FiniteSets, SequencesExt

\* Assigning to a key that a dict holds keeps the key's place.
Put(p, c) ==
    LET i == SelectInSeq(p, LAMBDA q : q.id = c.id)
    IN  IF i = 0 THEN Append(p, c) ELSE [p EXCEPT ![i] = c]

MutantAwaiting(p, id) == IF p = <<>> THEN 0 ELSE 1
Awaiting(p, id) == SelectInSeq(p, LAMBDA c : c.id = id)

\* pop and finish: a result whose id is not pending is dropped.
Join(s, id, outcome) ==
    LET i == Awaiting(s.pending, id)
    IN  IF i = 0 THEN s
        ELSE [pending |-> RemoveAt(s.pending, i),
              calls |-> Append(s.calls, [s.pending[i] EXCEPT !.outcome = outcome])]

\* _drain_pending
Drained(p) == [i \in DOMAIN p |-> [p[i] EXCEPT !.outcome = "no_result"]]
=============================================================================
