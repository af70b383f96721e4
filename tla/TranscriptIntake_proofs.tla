------------------------ MODULE TranscriptIntake_proofs ------------------------
(***************************************************************************)
(* Proofs about DetectParser and TranscriptIntake for any lines, window,   *)
(* streams and length of stream.                                           *)
(*                                                                         *)
(* DetectParser: type correctness, and that the parser reads every line of *)
(* the stream once and in order, whatever the sniff consumed.              *)
(*                                                                         *)
(* TranscriptIntake: its steps on the stream are DetectParser's, and the   *)
(* three properties of a rollout: each call is accounted for, carries the  *)
(* model of its turn, and carries the first identity of the stream.        *)
(*                                                                         *)
(* Of a claude stream: its tokens are charged once and split exactly, each *)
(* use is one call, and what a probe prices or seeds is as its docstrings  *)
(* say.                                                                    *)
(*                                                                         *)
(* Reducer (Corpus!), which feeds the claude parser whole transcripts: for *)
(* any corpus and run manifest every token has one home, the tables of     *)
(* agents and of tools agree, and churn stays inside its session.          *)
(***************************************************************************)
EXTENDS TranscriptIntake, SequenceTheorems, FiniteSetTheorems, WellFoundedInduction, TLAPS

-----------------------------------------------------------------------------
(* Lemmas about sequences and about the garbage in them.                   *)

LEMMA MovingTheHead ==
    ASSUME NEW S, NEW g \in Seq(S), NEW b \in Seq(S), b # <<>>
    PROVE  Append(g, Head(b)) \o Tail(b) = g \o b
<1>1. /\ Head(b) \in S /\ Tail(b) \in Seq(S) /\ Len(Tail(b)) = Len(b) - 1
      /\ Len(b) \in Nat \ {0} /\ Len(g) \in Nat
      /\ \A i \in 1 .. Len(b) - 1 : Tail(b)[i] = b[i + 1]
  BY HeadTailProperties
<1>2. /\ Append(g, Head(b)) \in Seq(S) /\ Len(Append(g, Head(b))) = Len(g) + 1
      /\ \A i \in 1 .. Len(g) : Append(g, Head(b))[i] = g[i]
      /\ Append(g, Head(b))[Len(g) + 1] = b[1]
  BY <1>1
<1> DEFINE h == Append(g, Head(b))
           t == Tail(b)
<1>3. h \o t \in Seq(S) /\ Len(h \o t) = Len(g) + Len(b) /\ g \o b \in Seq(S)
      /\ Len(g \o b) = Len(g) + Len(b)
  BY <1>1, <1>2
<1>4. ASSUME NEW i \in 1 .. Len(g) + Len(b) PROVE (h \o t)[i] = (g \o b)[i]
  <2>1. CASE i <= Len(g)
    BY <1>1, <1>2, <2>1
  <2>2. CASE i = Len(g) + 1
    BY <1>1, <1>2, <2>2
  <2>3. CASE i > Len(g) + 1
    <3>1. (h \o t)[i] = t[i - (Len(g) + 1)]
      BY <1>1, <1>2, <2>3
    <3>2. t[i - (Len(g) + 1)] = b[i - Len(g)]
      BY <1>1, <2>3
    <3>3. (g \o b)[i] = b[i - Len(g)]
      BY <1>1, <2>3
    <3> QED
      BY <3>1, <3>2, <3>3
  <2> QED
    BY <1>1, <2>1, <2>2, <2>3
<1> QED
  BY <1>3, <1>4, SeqEqual

LEMMA GarbageIsFinite ==
    ASSUME NEW s \in Seq(Lines)
    PROVE  IsFiniteSet(Garbage(s)) /\ Cardinality(Garbage(s)) \in Nat
<1>1. Garbage(s) \subseteq 1 .. Len(s) /\ Len(s) \in Nat
  BY DEF Garbage
<1>2. IsFiniteSet(1 .. Len(s))
  BY <1>1, FS_Interval
<1> QED
  BY <1>1, <1>2, FS_Subset, FS_CardinalityType

LEMMA GarbageOfAppend ==
    ASSUME NEW s \in Seq(Lines), NEW l \in Lines
    PROVE  Cardinality(Garbage(Append(s, l))) =
               Cardinality(Garbage(s)) + (IF l.claim = "garbage" THEN 1 ELSE 0)
<1>1. /\ Len(s) \in Nat /\ DOMAIN s = 1 .. Len(s)
      /\ DOMAIN Append(s, l) = 1 .. Len(s) + 1
      /\ \A i \in 1 .. Len(s) : Append(s, l)[i] = s[i]
      /\ Append(s, l)[Len(s) + 1] = l
  OBVIOUS
<1>2. Garbage(Append(s, l)) =
          IF l.claim = "garbage" THEN Garbage(s) \cup {Len(s) + 1} ELSE Garbage(s)
  BY <1>1 DEF Garbage
<1>3. Len(s) + 1 \notin Garbage(s)
  BY <1>1 DEF Garbage
<1>4. IsFiniteSet(Garbage(s)) /\ Cardinality(Garbage(s)) \in Nat
  BY GarbageIsFinite
<1>5. Cardinality(Garbage(s) \cup {Len(s) + 1}) = Cardinality(Garbage(s)) + 1
  BY <1>3, <1>4, FS_AddElement
<1>6. CASE l.claim = "garbage"
  BY <1>2, <1>5, <1>6
<1>7. CASE l.claim # "garbage"
  BY <1>2, <1>4, <1>7
<1> QED
  BY <1>6, <1>7

-----------------------------------------------------------------------------
\* What was given and what is buffered make up the stream, at any time; nothing
\* is given while the sniff goes on, and nobody has claimed the stream.
StreamIsKept ==
    /\ given \o buffered = pulled
    /\ phase = "sniff" => given = <<>> /\ parser = Nobody
    /\ phase = "parsed" => buffered = <<>>
    /\ malformed = Cardinality(Garbage(given))

StreamInv == TypeOK /\ StreamIsKept

\* A line of the sniff joins the buffer, or ends the sniff.
LEMMA SniffStep ==
    ASSUME StreamInv, NEW l \in Lines,
           SniffBlank(l) \/ GiveUp(l) \/ SniffOther(l) \/ SniffClaimed(l)
    PROVE  StreamInv'
<1>1. /\ phase = "sniff" /\ given = <<>> /\ pulled \in Seq(Lines) /\ buffered \in Seq(Lines)
      /\ given \o buffered = pulled
  BY DEF SniffBlank, GiveUp, SniffOther, SniffClaimed, StreamInv, StreamIsKept, TypeOK
<1>2. pulled' = Append(pulled, l) /\ buffered' = Append(buffered, l) /\ UNCHANGED <<given, malformed>>
  BY DEF SniffBlank, GiveUp, SniffOther, SniffClaimed, Pull, Replayed
<1>3. buffered = pulled
  BY <1>1
<1>4. pulled' \in Seq(Lines) /\ buffered' = pulled' /\ given' = <<>>
  BY <1>1, <1>2, <1>3
<1>5. given' \o buffered' = pulled'
  BY <1>4
<1>6. /\ phase' \in {"sniff", "unknown", "parse"} /\ parser' \in Schemas \cup {Nobody}
      /\ phase' = "sniff" => parser' = Nobody
      /\ seen' \in 0 .. Window
  BY WindowAssumption DEF SniffBlank, GiveUp, SniffOther, SniffClaimed, WindowClosed, StreamInv,
                          StreamIsKept, TypeOK
<1>7. malformed' = Cardinality(Garbage(given')) /\ malformed' \in Nat
  BY <1>1, <1>2 DEF StreamInv, StreamIsKept, TypeOK
<1> QED
  BY <1>4, <1>5, <1>6, <1>7 DEF StreamInv, StreamIsKept, TypeOK

\* A line that is given is counted, if it is garbage.
LEMMA GiveCounts ==
    ASSUME StreamInv, NEW l \in Lines, Give(l)
    PROVE  /\ given' \in Seq(Lines) /\ malformed' \in Nat
           /\ malformed' = Cardinality(Garbage(given'))
<1>1. given \in Seq(Lines) /\ malformed = Cardinality(Garbage(given)) /\ malformed \in Nat
  BY DEF StreamInv, StreamIsKept, TypeOK
<1>2. given' = Append(given, l)
  BY DEF Give
<1>3. malformed' = malformed + (IF l.claim = "garbage" THEN 1 ELSE 0)
  BY <1>1 DEF Give
<1> QED
  BY <1>1, <1>2, <1>3, GarbageOfAppend

LEMMA StreamInvariant == Spec => []StreamInv
<1>1. Init => StreamInv
  <2> SUFFICES ASSUME Init PROVE StreamInv
    OBVIOUS
  <2>1. Garbage(given) = {}
    BY DEF Init, Garbage
  <2>2. malformed = Cardinality(Garbage(given))
    BY <2>1, FS_EmptySet DEF Init
  <2> QED
    BY <2>2, WindowAssumption DEF Init, StreamInv, StreamIsKept, TypeOK
<1>2. StreamInv /\ [Next]_vars => StreamInv'
  <2> SUFFICES ASSUME StreamInv, [Next]_vars PROVE StreamInv'
    OBVIOUS
  <2>1. CASE NothingClaimed
    BY <2>1 DEF NothingClaimed, StreamInv, StreamIsKept, TypeOK
  <2>2. CASE ParseReplayed
    <3>1. buffered \in Seq(Lines) /\ buffered # <<>> /\ given \in Seq(Lines)
      BY <2>2 DEF ParseReplayed, StreamInv, TypeOK
    <3>2. Head(buffered) \in Lines /\ Tail(buffered) \in Seq(Lines)
      BY <3>1
    <3>3. given' \o buffered' = given \o buffered
      BY <2>2, <3>1, MovingTheHead DEF ParseReplayed, Give
    <3>4. /\ given' \in Seq(Lines) /\ malformed' \in Nat
          /\ malformed' = Cardinality(Garbage(given'))
      BY <2>2, <3>2, GiveCounts DEF ParseReplayed
    <3> QED
      BY <2>2, <3>2, <3>3, <3>4 DEF ParseReplayed, StreamInv, StreamIsKept, TypeOK
  <2>3. ASSUME NEW l \in Lines, ParseNext(l) PROVE StreamInv'
    <3>1. /\ given \o buffered = pulled /\ buffered = <<>> /\ phase = "parse"
          /\ given \in Seq(Lines) /\ pulled \in Seq(Lines)
      BY <2>3 DEF ParseNext, StreamInv, StreamIsKept, TypeOK
    <3>2. given = pulled
      BY <3>1
    <3>3. pulled' = given' /\ pulled' \in Seq(Lines) /\ buffered' = <<>>
      BY <2>3, <3>1, <3>2 DEF ParseNext, Pull, Give
    <3>4. given' \o buffered' = pulled'
      BY <3>3
    <3>5. /\ given' \in Seq(Lines) /\ malformed' \in Nat
          /\ malformed' = Cardinality(Garbage(given'))
      BY <2>3, GiveCounts DEF ParseNext
    <3> QED
      BY <2>3, <3>1, <3>3, <3>4, <3>5 DEF ParseNext, StreamInv, StreamIsKept, TypeOK
  <2>4. CASE EndOfStream
    BY <2>4 DEF EndOfStream, StreamInv, StreamIsKept, TypeOK
  <2>5. CASE StreamFails
    BY <2>5 DEF StreamFails, StreamInv, StreamIsKept, TypeOK
  <2>6. CASE UNCHANGED vars
    BY <2>6 DEF vars, StreamInv, StreamIsKept, TypeOK
  <2> QED
    BY <2>1, <2>2, <2>3, <2>4, <2>5, <2>6, SniffStep DEF Next, Sniff
<1> QED
  BY <1>1, <1>2, PTL DEF Spec

\* Phases, counters and lines stay in their domains, and the sniff counts no
\* more lines than its window has.
THEOREM TypeCorrect == Spec => []TypeOK
<1>1. StreamInv => TypeOK
  BY DEF StreamInv
<1> QED
  BY <1>1, StreamInvariant, PTL

\* For any stream and window, however long the sniff was and wherever the
\* stream ends, its parser is given every line once and in order, and each
\* malformed line is counted once.
THEOREM EveryLineOnce == Spec => []EveryLineIsParsedOnce
<1>1. StreamInv => EveryLineIsParsedOnce
  <2> SUFFICES ASSUME StreamInv PROVE EveryLineIsParsedOnce
    OBVIOUS
  <2>1. given \in Seq(Lines) /\ given \o buffered = pulled
    BY DEF StreamInv, StreamIsKept, TypeOK
  <2>2. phase = "parsed" => given = pulled
    BY <2>1 DEF StreamInv, StreamIsKept
  <2> QED
    BY <2>1, <2>2 DEF StreamInv, StreamIsKept, EveryLineIsParsedOnce
<1> QED
  BY <1>1, StreamInvariant, PTL

-----------------------------------------------------------------------------
(* TranscriptIntake drives the stream of DetectParser.                     *)

SourceOk == source \in Streams

\* A step of the intake is a step of the stream or leaves it alone, and keeps
\* the file that is read.
LEMMA IntakeStepIsStreamStep ==
    ASSUME SourceOk, [IntakeNext]_intakeVars
    PROVE  [Next]_vars /\ SourceOk'
<1>1. source.lines \subseteq Lines
  BY StreamsAssumption DEF SourceOk
<1>2. CASE SniffLine
  BY <1>1, <1>2 DEF SniffLine, Next, Sniff, SourceOk
<1>3. CASE ReplayLine
  BY <1>3 DEF ReplayLine, Next, SourceOk
<1>4. CASE StreamEnds
  BY <1>4 DEF StreamEnds, Next, SourceOk
<1>5. CASE LoaderRaises
  BY <1>5 DEF LoaderRaises, Next, SourceOk
<1>6. CASE ScoreProbe
  BY <1>6 DEF ScoreProbe, SourceOk
<1>7. ASSUME NEW l \in source.lines, ReadLine(l) PROVE [Next]_vars /\ SourceOk'
  <2>1. l \in Lines
    BY <1>1
  <2> QED
    BY <1>7, <2>1 DEF ReadLine, Next, SourceOk
<1>8. CASE UNCHANGED intakeVars
  BY <1>8 DEF intakeVars, vars, SourceOk
<1> QED
  BY <1>2, <1>3, <1>4, <1>5, <1>6, <1>7, <1>8 DEF IntakeNext

\* An intake is a behaviour of the stream's own specification.
THEOREM IntakeReadsAStream == IntakeSpec => Spec /\ []SourceOk
<1>1. IntakeInit => Init /\ SourceOk
  BY DEF IntakeInit, SourceOk
<1>2. SourceOk /\ [IntakeNext]_intakeVars => [Next]_vars /\ SourceOk'
  BY IntakeStepIsStreamStep
<1> QED
  BY <1>1, <1>2, PTL DEF IntakeSpec, Spec

\* For either reader, the scan or the probe, the chosen parser is given every
\* line once and in order.
THEOREM IntakeReadsEveryLineOnce == IntakeSpec => []EveryLineIsParsedOnce
BY IntakeReadsAStream, EveryLineOnce, PTL

-----------------------------------------------------------------------------
(* Rollouts: what CodexParser carries along the records it has read.  The  *)
(* operators are about any sequence R of records, so that what holds of    *)
(* the records given so far can be read off the whole stream.              *)

Records == {l.record : l \in Lines}

NamesIt(r) == r.kind = "session_meta" /\ (r.own # "" \/ r.parent # "")
NameOf(r)  == IF r.own # "" THEN r.own ELSE r.parent
Renews(r)  == r.kind = "turn_context" /\ r.model # ""

\* `s` is the identity that the first n records of R give, the first one.
NameInForce(R, n, s) ==
    \/ s = "" /\ \A j \in 1 .. n : ~NamesIt(R[j])
    \/ \E j \in 1 .. n : /\ NamesIt(R[j]) /\ s = NameOf(R[j])
                         /\ \A k \in 1 .. j - 1 : ~NamesIt(R[k])

\* `m` is the model that they leave in force, the last one.
ModelInForce(R, n, m) ==
    \/ m = "" /\ \A j \in 1 .. n : ~Renews(R[j])
    \/ \E j \in 1 .. n : /\ Renews(R[j]) /\ m = R[j].model
                         /\ \A k \in j + 1 .. n : ~Renews(R[k])

\* A call stands where it was opened, with what was in force there.
StandsAt(R, c) ==
    /\ c.at \in 1 .. Len(R) /\ R[c.at].kind = "call" /\ R[c.at].id = c.id
    /\ NameInForce(R, c.at - 1, c.session)
    /\ ModelInForce(R, c.at - 1, c.model)

Answered(R, i) == \E j \in 1 .. Len(R) : j > i /\ R[j].kind = "output" /\ R[j].id = R[i].id

\* A call whose id is used again, no output with it in between.
Gone(R, i) ==
    \E j \in 1 .. Len(R) :
        /\ j > i /\ R[j].kind = "call" /\ R[j].id = R[i].id
        /\ \A k \in 1 .. Len(R) : R[k].kind = "output" /\ i < k /\ k < j => R[k].id # R[i].id

Lasting(R) == {i \in 1 .. Len(R) : R[i].kind = "call" /\ ~Gone(R, i)}
Real(R) == Lasting(R) \cup {i \in 1 .. Len(R) : R[i].kind = "web_search_call"}

\* Q goes on from R.
Begins(R, Q) == Len(R) <= Len(Q) /\ \A i \in 1 .. Len(R) : Q[i] = R[i]

\* What is in force after n records depends on those n alone.
LEMMA PrefixDecides ==
    ASSUME NEW R, NEW Q, NEW n \in Nat, \A i \in 1 .. n : Q[i] = R[i], NEW x
    PROVE  /\ NameInForce(R, n, x) => NameInForce(Q, n, x)
           /\ ModelInForce(R, n, x) => ModelInForce(Q, n, x)
<1>1. ASSUME NEW j \in 1 .. n PROVE \A k \in 1 .. j - 1 : Q[k] = R[k]
  OBVIOUS
<1>2. ASSUME NEW j \in 1 .. n PROVE \A k \in j + 1 .. n : Q[k] = R[k]
  OBVIOUS
<1>3. NameInForce(R, n, x) => NameInForce(Q, n, x)
  BY <1>1 DEF NameInForce
<1>4. ModelInForce(R, n, x) => ModelInForce(Q, n, x)
  BY <1>2 DEF ModelInForce
<1> QED
  BY <1>3, <1>4

\* A call stands in the whole stream where it stands in what was read of it.
LEMMA CallStands ==
    ASSUME NEW S, NEW R \in Seq(S), NEW Q \in Seq(S), Begins(R, Q), NEW c, StandsAt(R, c)
    PROVE  StandsAt(Q, c)
<1>1. /\ c.at \in 1 .. Len(Q) /\ Q[c.at] = R[c.at]
      /\ \A i \in 1 .. c.at - 1 : Q[i] = R[i]
  BY DEF StandsAt, Begins
<1>2. c.at - 1 \in Nat
  BY DEF StandsAt
<1>3. NameInForce(R, c.at - 1, c.session) /\ ModelInForce(R, c.at - 1, c.model)
  BY DEF StandsAt
<1>4. NameInForce(Q, c.at - 1, c.session) /\ ModelInForce(Q, c.at - 1, c.model)
  BY <1>1, <1>2, <1>3, PrefixDecides
<1> QED
  BY <1>1, <1>4 DEF StandsAt

LEMMA RecordAppended ==
    ASSUME NEW S, NEW R \in Seq(S), NEW r \in S
    PROVE  /\ Append(R, r) \in Seq(S) /\ Len(R) \in Nat /\ Len(Append(R, r)) = Len(R) + 1
           /\ \A i \in 1 .. Len(R) : Append(R, r)[i] = R[i]
           /\ Append(R, r)[Len(R) + 1] = r
           /\ Begins(R, Append(R, r))
BY DEF Begins

\* The first identity stays; a later one changes nothing.
LEMMA NameMovesOn ==
    ASSUME NEW S, NEW R \in Seq(S), NEW r \in S, NEW s, NameInForce(R, Len(R), s)
    PROVE  NameInForce(Append(R, r), Len(R) + 1, IF NamesIt(r) /\ s = "" THEN NameOf(r) ELSE s)
<1> DEFINE Q == Append(R, r)
           n == Len(R)
<1>1. /\ n \in Nat /\ Q[n + 1] = r
      /\ \A i \in 1 .. n : Q[i] = R[i]
  BY RecordAppended
<1> HIDE DEF Q, n
<1>2. NameInForce(R, n, s)
  BY DEF n
<1>3. CASE s = "" /\ \A j \in 1 .. n : ~NamesIt(R[j])
  <2>1. \A j \in 1 .. n : ~NamesIt(Q[j])
    BY <1>1, <1>3
  <2>2. CASE NamesIt(r)
    <3>1. n + 1 \in 1 .. n + 1 /\ NamesIt(Q[n + 1]) /\ NameOf(r) = NameOf(Q[n + 1])
          /\ \A k \in 1 .. (n + 1) - 1 : ~NamesIt(Q[k])
      BY <1>1, <2>1, <2>2
    <3>2. NameInForce(Q, n + 1, NameOf(r))
      BY <3>1 DEF NameInForce
    <3> QED
      BY <1>3, <2>2, <3>2 DEF Q, n
  <2>3. CASE ~NamesIt(r)
    <3>1. \A j \in 1 .. n + 1 : ~NamesIt(Q[j])
      BY <1>1, <2>1, <2>3
    <3>2. NameInForce(Q, n + 1, s)
      BY <1>3, <3>1 DEF NameInForce
    <3> QED
      BY <2>3, <3>2 DEF Q, n
  <2> QED
    BY <2>2, <2>3
<1>4. ASSUME NEW j \in 1 .. n, NamesIt(R[j]), s = NameOf(R[j]),
             \A k \in 1 .. j - 1 : ~NamesIt(R[k])
      PROVE  NameInForce(Append(R, r), Len(R) + 1, IF NamesIt(r) /\ s = "" THEN NameOf(r) ELSE s)
  <2>1. s # ""
    BY <1>4 DEF NamesIt, NameOf
  <2>2. /\ j \in 1 .. n + 1 /\ NamesIt(Q[j]) /\ s = NameOf(Q[j])
        /\ \A k \in 1 .. j - 1 : ~NamesIt(Q[k])
    BY <1>1, <1>4
  <2>3. NameInForce(Q, n + 1, s)
    BY <2>2 DEF NameInForce
  <2> QED
    BY <2>1, <2>3 DEF Q, n
<1> QED
  BY <1>2, <1>3, <1>4 DEF NameInForce

\* The last model counts; a turn_context without one changes nothing.
LEMMA ModelMovesOn ==
    ASSUME NEW S, NEW R \in Seq(S), NEW r \in S, NEW m, ModelInForce(R, Len(R), m)
    PROVE  ModelInForce(Append(R, r), Len(R) + 1, IF Renews(r) THEN r.model ELSE m)
<1> DEFINE Q == Append(R, r)
           n == Len(R)
<1>1. /\ n \in Nat /\ Q[n + 1] = r
      /\ \A i \in 1 .. n : Q[i] = R[i]
  BY RecordAppended
<1> HIDE DEF Q, n
<1>2. ModelInForce(R, n, m)
  BY DEF n
<1>3. CASE Renews(r)
  <2>1. /\ n + 1 \in 1 .. n + 1 /\ Renews(Q[n + 1]) /\ r.model = Q[n + 1].model
        /\ \A k \in (n + 1) + 1 .. n + 1 : ~Renews(Q[k])
    BY <1>1, <1>3
  <2>2. ModelInForce(Q, n + 1, r.model)
    BY <2>1 DEF ModelInForce
  <2> QED
    BY <1>3, <2>2 DEF Q, n
<1>4. CASE ~Renews(r)
  <2>1. CASE m = "" /\ \A j \in 1 .. n : ~Renews(R[j])
    <3>1. ASSUME NEW j \in 1 .. n + 1 PROVE ~Renews(Q[j])
      <4>1. CASE j = n + 1
        BY <1>1, <1>4, <4>1
      <4>2. CASE j # n + 1
        <5>1. j \in 1 .. n
          BY <1>1, <4>2
        <5>2. Q[j] = R[j] /\ ~Renews(R[j])
          BY <1>1, <2>1, <5>1
        <5> QED
          BY <5>2
      <4> QED
        BY <4>1, <4>2
    <3> QED
      BY <1>4, <2>1, <3>1 DEF ModelInForce, Q, n
  <2>2. ASSUME NEW j \in 1 .. n, Renews(R[j]), m = R[j].model,
               \A k \in j + 1 .. n : ~Renews(R[k])
        PROVE  ModelInForce(Q, n + 1, m)
    <3>1. /\ j \in 1 .. n + 1 /\ Renews(Q[j]) /\ m = Q[j].model
          /\ \A k \in j + 1 .. n + 1 : ~Renews(Q[k])
      BY <1>1, <1>4, <2>2
    <3> QED
      BY <3>1 DEF ModelInForce
  <2>3. ModelInForce(Q, n + 1, m)
    BY <1>2, <1>4, <2>1, <2>2 DEF ModelInForce, Q, n
  <2> QED
    BY <1>4, <2>3 DEF Q, n
<1> QED
  BY <1>3, <1>4

-----------------------------------------------------------------------------
(* The dict of the calls that await their output.                          *)

OneCallPerId(p) == \A i, j \in 1 .. Len(p) : p[i].id = p[j].id => i = j

\* A result finds the one call that has its id, or none.
LEMMA AwaitingFinds ==
    ASSUME NEW T, NEW p \in Seq(T), OneCallPerId(p), NEW id
    PROVE  \/ /\ Codex!Awaiting(p, id) = 0
              /\ \A i \in 1 .. Len(p) : p[i].id # id
           \/ /\ Codex!Awaiting(p, id) \in 1 .. Len(p)
              /\ p[Codex!Awaiting(p, id)].id = id
<1> DEFINE I == {i \in 1 .. Len(p) : p[i].id = id}
<1>1. Codex!Awaiting(p, id) = IF I # {} THEN Codex!Min(I) ELSE 0
  BY DEF Codex!Awaiting, Codex!SelectInSeq
<1>2. CASE I = {}
  BY <1>1, <1>2
<1>3. ASSUME NEW k \in I PROVE Codex!Awaiting(p, id) = k /\ k \in 1 .. Len(p) /\ p[k].id = id
  <2>1. I = {k} /\ k \in Nat
    BY <1>3 DEF OneCallPerId
  <2>2. Codex!Min({k}) = k
    BY <2>1 DEF Codex!Min
  <2> QED
    BY <1>1, <1>3, <2>1, <2>2
<1> QED
  BY <1>2, <1>3

\* An id that is not in the dict is added at its end; another keeps its place.
LEMMA PutIs ==
    ASSUME NEW p, NEW c
    PROVE  Codex!Put(p, c) = IF Codex!Awaiting(p, c.id) = 0 THEN Append(p, c)
                             ELSE [p EXCEPT ![Codex!Awaiting(p, c.id)] = c]
BY DEF Codex!Put, Codex!Awaiting

\* What is left of the dict when a call is joined.
LEMMA RemovedAt ==
    ASSUME NEW T, NEW p \in Seq(T), NEW k \in 1 .. Len(p)
    PROVE  /\ Codex!RemoveAt(p, k) \in Seq(T)
           /\ Len(Codex!RemoveAt(p, k)) = Len(p) - 1
           /\ \A i \in 1 .. Len(p) - 1 :
                  Codex!RemoveAt(p, k)[i] = IF i < k THEN p[i] ELSE p[i + 1]
<1>1. /\ Len(p) \in Nat /\ k \in Nat /\ k - 1 \in Nat /\ k + 1 \in Nat
  OBVIOUS
<1> DEFINE a == SubSeq(p, 1, k - 1)
           b == SubSeq(p, k + 1, Len(p))
<1>2. /\ a \in Seq(T) /\ Len(a) = k - 1
      /\ \A i \in 1 .. k - 1 : a[i] = p[i]
  BY <1>1, SubSeqProperties
<1>3. /\ b \in Seq(T) /\ Len(b) = Len(p) - k
      /\ \A i \in 1 .. Len(p) - k : b[i] = p[k + i]
  BY <1>1, SubSeqProperties
<1>4. Codex!RemoveAt(p, k) = a \o b
  BY DEF Codex!RemoveAt
<1> HIDE DEF a, b
<1>5. /\ a \o b \in Seq(T) /\ Len(a \o b) = Len(p) - 1
      /\ \A i \in 1 .. Len(p) - 1 : (a \o b)[i] = IF i <= k - 1 THEN a[i] ELSE b[i - (k - 1)]
  <2>1. /\ a \o b \in Seq(T) /\ Len(a \o b) = Len(a) + Len(b)
        /\ \A i \in 1 .. Len(a) + Len(b) : (a \o b)[i] = IF i <= Len(a) THEN a[i] ELSE b[i - Len(a)]
    BY <1>2, <1>3, ConcatProperties
  <2>2. Len(a) + Len(b) = Len(p) - 1
    BY <1>1, <1>2, <1>3
  <2> QED
    BY <1>2, <2>1, <2>2
<1>6. ASSUME NEW i \in 1 .. Len(p) - 1 PROVE (a \o b)[i] = IF i < k THEN p[i] ELSE p[i + 1]
  <2>1. CASE i < k
    BY <1>1, <1>2, <1>5, <2>1
  <2>2. CASE ~(i < k)
    <3>1. (a \o b)[i] = b[i - (k - 1)] /\ i - (k - 1) \in 1 .. Len(p) - k
      BY <1>1, <1>5, <2>2
    <3>2. b[i - (k - 1)] = p[k + (i - (k - 1))]
      BY <1>3, <3>1
    <3>3. k + (i - (k - 1)) = i + 1 /\ ~(i < k)
      BY <1>1, <2>2
    <3>4. b[i - (k - 1)] = p[i + 1]
      BY <3>2, <3>3
    <3> QED
      BY <3>1, <3>3, <3>4
  <2> QED
    BY <2>1, <2>2
<1> QED
  BY <1>4, <1>5, <1>6

-----------------------------------------------------------------------------
(* The invariant of a rollout's parser.                                    *)

Read == RecordsOf(given)

CallIds    == {r.id : r \in {r \in Records : r.kind = "call"}}
Identities == {""} \cup {NameOf(r) : r \in {r \in Records : NamesIt(r)}}
Models     == {""} \cup {r.model : r \in {r \in Records : Renews(r)}}

CallRecord == [id : CallIds, at : Nat, session : Identities, model : Models,
               outcome : {"pending", "ok", "no_result"}]

Placed(R, s) == \A k \in 1 .. Len(s) : StandsAt(R, s[k])
\* No output has come for what waits, and one for whatever ended ok.
Waiting(R, p) == \A k \in 1 .. Len(p) : ~Answered(R, p[k].at)
Ended(R, c) == \A k \in 1 .. Len(c) : c[k].outcome = "ok" <=> Answered(R, c[k].at)
AllOk(c) == \A k \in 1 .. Len(c) : c[k].outcome = "ok"
Standing(R, s) == \A k \in 1 .. Len(s) : ~Gone(R, s[k].at)
\* No call that was not replaced is lost: it waits or it is in the result.
Kept(R, p, c) ==
    \A i \in Lasting(R) :
        \/ \E k \in 1 .. Len(p) : p[k].at = i
        \/ \E k \in 1 .. Len(c) : c[k].at = i

RolloutTyped ==
    /\ parsing \in {"reading", "parsed"}
    /\ pending \in Seq(CallRecord) /\ calls \in Seq(CallRecord)
    /\ unjoinable \in Nat
    /\ sessionId \in Identities /\ model \in Models

\* Identity and model are those the records so far give; every call stands
\* where it was opened, is not replaced, waits as long as no output has come,
\* and is counted once.
RolloutInv ==
    /\ RolloutTyped
    /\ NameInForce(Read, Len(Read), sessionId)
    /\ ModelInForce(Read, Len(Read), model)
    /\ OneCallPerId(pending)
    /\ Placed(Read, pending) /\ Placed(Read, calls)
    /\ Standing(Read, pending) /\ Standing(Read, calls)
    /\ Waiting(Read, pending) /\ Ended(Read, calls)
    /\ Kept(Read, pending, calls)
    /\ Len(calls) + Len(pending) + unjoinable = Cardinality(Real(Read))
    /\ parsing = "reading" => AllOk(calls)
    /\ parsing = "parsed" => phase = "parsed" /\ pending = <<>>

-----------------------------------------------------------------------------
(* What one more record leaves as it was.                                  *)

LEMMA PlacedStays ==
    ASSUME NEW S, NEW R \in Seq(S), NEW r \in S, NEW s, Placed(R, s)
    PROVE  Placed(Append(R, r), s)
BY RecordAppended, CallStands DEF Placed

\* An output answers the call before it that has its id, and nothing else does.
LEMMA AnsweredMovesOn ==
    ASSUME NEW S, NEW R \in Seq(S), NEW r \in S, NEW i \in 1 .. Len(R)
    PROVE  Answered(Append(R, r), i) <=>
               Answered(R, i) \/ (r.kind = "output" /\ r.id = R[i].id)
<1> DEFINE Q == Append(R, r)
           n == Len(R)
<1>1. /\ n \in Nat /\ Len(Q) = n + 1 /\ Q[n + 1] = r /\ i \in 1 .. n
      /\ \A j \in 1 .. n : Q[j] = R[j]
  BY RecordAppended
<1> HIDE DEF Q
<1>2. ASSUME Answered(R, i) PROVE Answered(Q, i)
  BY <1>1, <1>2 DEF Answered
<1>3. ASSUME r.kind = "output", r.id = R[i].id PROVE Answered(Q, i)
  <2>1. n + 1 \in 1 .. Len(Q) /\ n + 1 > i /\ Q[n + 1].kind = "output" /\ Q[n + 1].id = Q[i].id
    BY <1>1, <1>3
  <2> QED
    BY <2>1 DEF Answered
<1>4. ASSUME Answered(Q, i) PROVE Answered(R, i) \/ (r.kind = "output" /\ r.id = R[i].id)
  <2>1. PICK j \in 1 .. Len(Q) : j > i /\ Q[j].kind = "output" /\ Q[j].id = Q[i].id
    BY <1>4 DEF Answered
  <2>2. CASE j = n + 1
    BY <1>1, <2>1, <2>2
  <2>3. CASE j # n + 1
    <3>1. j \in 1 .. n
      BY <1>1, <2>3
    <3> QED
      BY <1>1, <2>1, <3>1 DEF Answered
  <2> QED
    BY <2>2, <2>3
<1> QED
  BY <1>2, <1>3, <1>4 DEF Q

\* A call that stands in R is answered by a later output alone.
LEMMA EndedStays ==
    ASSUME NEW S, NEW R \in Seq(S), NEW r \in S, NEW c, Placed(R, c), Ended(R, c), AllOk(c)
    PROVE  Ended(Append(R, r), c)
<1> SUFFICES ASSUME NEW k \in 1 .. Len(c)
             PROVE  c[k].outcome = "ok" <=> Answered(Append(R, r), c[k].at)
  BY DEF Ended
<1>1. c[k].at \in 1 .. Len(R)
  BY DEF Placed, StandsAt
<1>2. c[k].outcome = "ok" /\ Answered(R, c[k].at)
  BY DEF Ended, AllOk
<1> QED
  BY <1>1, <1>2, AnsweredMovesOn

LEMMA WaitingStays ==
    ASSUME NEW S, NEW R \in Seq(S), NEW r \in S, NEW p, Placed(R, p), Waiting(R, p),
           r.kind = "output" => \A k \in 1 .. Len(p) : p[k].id # r.id
    PROVE  Waiting(Append(R, r), p)
<1> SUFFICES ASSUME NEW k \in 1 .. Len(p)
             PROVE  ~Answered(Append(R, r), p[k].at)
  BY DEF Waiting
<1>1. p[k].at \in 1 .. Len(R) /\ R[p[k].at].id = p[k].id
  BY DEF Placed, StandsAt
<1>2. ~Answered(R, p[k].at)
  BY DEF Waiting
<1> QED
  BY <1>1, <1>2, AnsweredMovesOn

\* A call that stands in R is replaced by a call with its id, if no output came.
LEMMA GoneMovesOn ==
    ASSUME NEW S, NEW R \in Seq(S), NEW r \in S, NEW i \in 1 .. Len(R)
    PROVE  Gone(Append(R, r), i) <=>
               Gone(R, i) \/ (r.kind = "call" /\ r.id = R[i].id /\ ~Answered(R, i))
<1> DEFINE Q == Append(R, r)
           n == Len(R)
<1>1. /\ n \in Nat /\ Len(Q) = n + 1 /\ Q[n + 1] = r /\ i \in 1 .. n
      /\ \A j \in 1 .. n : Q[j] = R[j] /\ j \in 1 .. n + 1 /\ j < n + 1
  BY RecordAppended
<1> HIDE DEF Q
<1>2. ASSUME Gone(R, i) PROVE Gone(Q, i)
  <2>1. PICK j \in 1 .. n : /\ j > i /\ R[j].kind = "call" /\ R[j].id = R[i].id
                            /\ \A k \in 1 .. n : R[k].kind = "output" /\ i < k /\ k < j => R[k].id # R[i].id
    BY <1>2 DEF Gone
  <2>2. ASSUME NEW k \in 1 .. n + 1, Q[k].kind = "output", i < k, k < j PROVE Q[k].id # Q[i].id
    <3>1. k \in 1 .. n
      BY <1>1, <2>2
    <3> QED
      BY <1>1, <2>1, <2>2, <3>1
  <2> QED
    BY <1>1, <2>1, <2>2 DEF Gone
<1>3. ASSUME r.kind = "call", r.id = R[i].id, ~Answered(R, i) PROVE Gone(Q, i)
  <2>1. n + 1 \in 1 .. n + 1 /\ n + 1 > i /\ Q[n + 1].kind = "call" /\ Q[n + 1].id = Q[i].id
    BY <1>1, <1>3
  <2>2. ASSUME NEW k \in 1 .. n + 1, Q[k].kind = "output", i < k, k < n + 1 PROVE Q[k].id # Q[i].id
    <3>1. k \in 1 .. n /\ k > i
      BY <1>1, <2>2
    <3> QED
      BY <1>1, <1>3, <2>2, <3>1 DEF Answered
  <2> QED
    BY <1>1, <2>1, <2>2 DEF Gone
<1>4. ASSUME Gone(Q, i) PROVE Gone(R, i) \/ (r.kind = "call" /\ r.id = R[i].id /\ ~Answered(R, i))
  <2>1. PICK j \in 1 .. n + 1 :
            /\ j > i /\ Q[j].kind = "call" /\ Q[j].id = Q[i].id
            /\ \A k \in 1 .. n + 1 : Q[k].kind = "output" /\ i < k /\ k < j => Q[k].id # Q[i].id
    BY <1>1, <1>4 DEF Gone
  <2>2. CASE j = n + 1
    <3>1. ~Answered(R, i)
      BY <1>1, <2>1, <2>2 DEF Answered
    <3> QED
      BY <1>1, <2>1, <2>2, <3>1
  <2>3. CASE j # n + 1
    <3>1. j \in 1 .. n
      BY <1>1, <2>3
    <3> QED
      BY <1>1, <2>1, <3>1 DEF Gone
  <2> QED
    BY <2>2, <2>3
<1> QED
  BY <1>2, <1>3, <1>4 DEF Q

\* The newest record is replaced by none.
LEMMA NewestStands ==
    ASSUME NEW S, NEW R \in Seq(S), NEW r \in S
    PROVE  ~Gone(Append(R, r), Len(R) + 1) /\ ~Answered(Append(R, r), Len(R) + 1)
<1>1. Len(R) \in Nat /\ Len(Append(R, r)) = Len(R) + 1
  BY RecordAppended
<1>2. \A j \in 1 .. Len(R) + 1 : ~(j > Len(R) + 1)
  BY <1>1
<1> QED
  BY <1>1, <1>2 DEF Gone, Answered

\* What is not a call replaces none.
LEMMA LastingStays ==
    ASSUME NEW S, NEW R \in Seq(S), NEW r \in S, r.kind # "call"
    PROVE  Lasting(Append(R, r)) = Lasting(R)
<1> DEFINE Q == Append(R, r)
           n == Len(R)
<1>1. /\ n \in Nat /\ Len(Q) = n + 1 /\ Q[n + 1] = r
      /\ \A j \in 1 .. n : Q[j] = R[j]
  BY RecordAppended
<1>2. \A i \in 1 .. n : Gone(Q, i) <=> Gone(R, i)
  BY GoneMovesOn
<1>3. 1 .. n + 1 = (1 .. n) \cup {n + 1}
  BY <1>1
<1> HIDE DEF Q
<1> QED
  BY <1>1, <1>2, <1>3 DEF Lasting, Q

LEMMA KeptStays ==
    ASSUME NEW S, NEW R \in Seq(S), NEW r \in S, NEW p, NEW c, Kept(R, p, c), r.kind # "call"
    PROVE  Kept(Append(R, r), p, c)
BY LastingStays DEF Kept

LEMMA StandingStays ==
    ASSUME NEW S, NEW R \in Seq(S), NEW r \in S, NEW s, Placed(R, s), Standing(R, s),
           r.kind = "call" =>
               \A k \in 1 .. Len(s) : s[k].id = r.id => Answered(R, s[k].at)
    PROVE  Standing(Append(R, r), s)
<1> SUFFICES ASSUME NEW k \in 1 .. Len(s)
             PROVE  ~Gone(Append(R, r), s[k].at)
  BY DEF Standing
<1>1. s[k].at \in 1 .. Len(R) /\ R[s[k].at].id = s[k].id /\ ~Gone(R, s[k].at)
  BY DEF Placed, StandsAt, Standing
<1> QED
  BY <1>1, GoneMovesOn

\* The calls that a call leaves: it replaces those of its id with no output.
LEMMA LastingOfCall ==
    ASSUME NEW S, NEW R \in Seq(S), NEW r \in S, r.kind = "call"
    PROVE  Lasting(Append(R, r)) =
               {i \in Lasting(R) : R[i].id = r.id => Answered(R, i)} \cup {Len(R) + 1}
<1> DEFINE Q == Append(R, r)
           n == Len(R)
<1>1. /\ n \in Nat /\ Len(Q) = n + 1 /\ Q[n + 1] = r
      /\ \A j \in 1 .. n : Q[j] = R[j]
  BY RecordAppended
<1>2. \A i \in 1 .. n : Gone(Q, i) <=> Gone(R, i) \/ (r.id = R[i].id /\ ~Answered(R, i))
  BY GoneMovesOn
<1>3. 1 .. n + 1 = (1 .. n) \cup {n + 1}
  BY <1>1
<1>4. ~Gone(Q, n + 1)
  BY NewestStands
<1> HIDE DEF Q, n
<1>5. Lasting(R) = {i \in 1 .. n : R[i].kind = "call" /\ ~Gone(R, i)}
  BY DEF Lasting, n
<1>6. Lasting(Q) = {i \in 1 .. n + 1 : Q[i].kind = "call" /\ ~Gone(Q, i)}
  BY <1>1 DEF Lasting
<1>7. \A i \in 1 .. n : i \in Lasting(Q) <=> i \in Lasting(R) /\ (R[i].id = r.id => Answered(R, i))
  BY <1>1, <1>2, <1>3, <1>5, <1>6
<1>8. n + 1 \in Lasting(Q)
  BY <1>1, <1>3, <1>4, <1>6
<1> QED
  BY <1>3, <1>5, <1>6, <1>7, <1>8 DEF Q, n

LEMMA RealIsFinite ==
    ASSUME NEW S, NEW R \in Seq(S)
    PROVE  IsFiniteSet(Real(R)) /\ Cardinality(Real(R)) \in Nat /\ Real(R) \subseteq 1 .. Len(R)
<1>1. Real(R) \subseteq 1 .. Len(R)
  BY DEF Real, Lasting
<1>2. IsFiniteSet(1 .. Len(R))
  BY FS_Interval
<1> QED
  BY <1>1, <1>2, FS_Subset, FS_CardinalityType

\* The web searches after one more record.
LEMMA SearchesOfAppend ==
    ASSUME NEW S, NEW R \in Seq(S), NEW r \in S
    PROVE  {i \in 1 .. Len(Append(R, r)) : Append(R, r)[i].kind = "web_search_call"} =
               {i \in 1 .. Len(R) : R[i].kind = "web_search_call"}
               \cup (IF r.kind = "web_search_call" THEN {Len(R) + 1} ELSE {})
<1> DEFINE Q == Append(R, r)
           n == Len(R)
<1>1. /\ n \in Nat /\ Len(Q) = n + 1 /\ Q[n + 1] = r
      /\ \A j \in 1 .. n : Q[j] = R[j]
  BY RecordAppended
<1>2. 1 .. n + 1 = (1 .. n) \cup {n + 1}
  BY <1>1
<1> HIDE DEF Q, n
<1> QED
  BY <1>1, <1>2 DEF Q, n

\* A record that is no call is one more real call if it is a web search.
LEMMA RealOfOther ==
    ASSUME NEW S, NEW R \in Seq(S), NEW r \in S, r.kind # "call"
    PROVE  /\ Cardinality(Real(R)) \in Nat
           /\ Cardinality(Real(Append(R, r))) =
                  Cardinality(Real(R)) + (IF r.kind = "web_search_call" THEN 1 ELSE 0)
<1>1. Real(Append(R, r)) = Real(R) \cup (IF r.kind = "web_search_call" THEN {Len(R) + 1} ELSE {})
  BY LastingStays, SearchesOfAppend DEF Real
<1>2. IsFiniteSet(Real(R)) /\ Cardinality(Real(R)) \in Nat /\ Len(R) + 1 \notin Real(R)
  BY RealIsFinite
<1>3. Cardinality(Real(R) \cup {Len(R) + 1}) = Cardinality(Real(R)) + 1
  BY <1>2, FS_AddElement
<1>4. CASE r.kind = "web_search_call"
  BY <1>1, <1>2, <1>3, <1>4
<1>5. CASE r.kind # "web_search_call"
  BY <1>1, <1>2, <1>5
<1> QED
  BY <1>4, <1>5

\* A call that replaces none is one more real call.
LEMMA RealOfNewCall ==
    ASSUME NEW S, NEW R \in Seq(S), NEW r \in S, r.kind = "call",
           \A i \in Lasting(R) : R[i].id = r.id => Answered(R, i)
    PROVE  /\ Cardinality(Real(R)) \in Nat
           /\ Cardinality(Real(Append(R, r))) = Cardinality(Real(R)) + 1
<1>1. Lasting(Append(R, r)) = Lasting(R) \cup {Len(R) + 1}
  BY LastingOfCall
<1>2. Real(Append(R, r)) = Real(R) \cup {Len(R) + 1}
  BY <1>1, SearchesOfAppend DEF Real
<1>3. IsFiniteSet(Real(R)) /\ Cardinality(Real(R)) \in Nat /\ Len(R) + 1 \notin Real(R)
  BY RealIsFinite
<1> QED
  BY <1>2, <1>3, FS_AddElement

\* A call that replaces one leaves as many.
LEMMA RealOfReuse ==
    ASSUME NEW S, NEW R \in Seq(S), NEW r \in S, r.kind = "call",
           NEW g \in Lasting(R), R[g].id = r.id, ~Answered(R, g),
           \A i \in Lasting(R) : R[i].id = r.id /\ i # g => Answered(R, i)
    PROVE  /\ Cardinality(Real(R)) \in Nat
           /\ Cardinality(Real(Append(R, r))) = Cardinality(Real(R))
<1>1. Lasting(Append(R, r)) = (Lasting(R) \ {g}) \cup {Len(R) + 1}
  BY LastingOfCall
<1>2. g \in Real(R) /\ g \notin {i \in 1 .. Len(R) : R[i].kind = "web_search_call"}
  BY DEF Real, Lasting
<1>3. Real(Append(R, r)) = (Real(R) \ {g}) \cup {Len(R) + 1}
  BY <1>1, <1>2, SearchesOfAppend DEF Real
<1>4. IsFiniteSet(Real(R)) /\ Cardinality(Real(R)) \in Nat /\ Len(R) + 1 \notin Real(R)
  BY RealIsFinite
<1>5. /\ IsFiniteSet(Real(R) \ {g})
      /\ Cardinality(Real(R) \ {g}) = Cardinality(Real(R)) - 1
  BY <1>2, <1>4, FS_RemoveElement
<1>6. Cardinality((Real(R) \ {g}) \cup {Len(R) + 1}) = Cardinality(Real(R) \ {g}) + 1
  BY <1>4, <1>5, FS_AddElement
<1> QED
  BY <1>3, <1>4, <1>5, <1>6

-----------------------------------------------------------------------------
(* One record.                                                             *)

LEMMA RecordIsRead ==
    ASSUME NEW r, Codex!Consume(r)
    PROVE  parsing = "reading" /\ parsing' = "reading" /\ Read' = Append(Read, r)
BY DEF Codex!Consume, Codex!SkipMalformed, Codex!SessionMeta, Codex!TurnContext, Codex!WebSearch,
       Codex!OpenCall, Codex!CallOutput, Codex!Ignore, Codex!Takes, Read

\* The records of the lines that were given.
LEMMA ReadIsTyped ==
    ASSUME given \in Seq(Lines)
    PROVE  Read \in Seq(Records) /\ Len(Read) = Len(given)
           /\ \A i \in 1 .. Len(given) : Read[i] = given[i].record
<1>1. given \in [1 .. Len(given) -> Lines] /\ Len(given) \in Nat
  BY LenProperties
<1>2. Read = [i \in 1 .. Len(given) |-> given[i].record]
  BY <1>1 DEF Read, RecordsOf
<1>3. Read \in [1 .. Len(given) -> Records]
  BY <1>1, <1>2 DEF Records
<1> QED
  BY <1>1, <1>2, <1>3, SeqDef

\* The first identity and the last model.
LEMMA CarriedStep ==
    ASSUME RolloutInv, Read \in Seq(Records), NEW r \in Records, Codex!Consume(r)
    PROVE  /\ sessionId' \in Identities /\ model' \in Models
           /\ NameInForce(Append(Read, r), Len(Read) + 1, sessionId')
           /\ ModelInForce(Append(Read, r), Len(Read) + 1, model')
<1>1. /\ sessionId \in Identities /\ model \in Models
      /\ NameInForce(Read, Len(Read), sessionId) /\ ModelInForce(Read, Len(Read), model)
  BY DEF RolloutInv, RolloutTyped
<1>2. sessionId' = IF NamesIt(r) /\ sessionId = "" THEN NameOf(r) ELSE sessionId
  BY DEF Codex!Consume, Codex!SkipMalformed, Codex!SessionMeta, Codex!TurnContext, Codex!WebSearch,
         Codex!OpenCall, Codex!CallOutput, Codex!Ignore, Codex!Takes, Codex!Identity, Codex!Unknown,
         NamesIt, NameOf
<1>3. model' = IF Renews(r) THEN r.model ELSE model
  BY DEF Codex!Consume, Codex!SkipMalformed, Codex!SessionMeta, Codex!TurnContext, Codex!WebSearch,
         Codex!OpenCall, Codex!CallOutput, Codex!Ignore, Codex!Takes, Codex!TurnModel, Codex!Unknown,
         Renews
<1>4. sessionId' \in Identities
  BY <1>1, <1>2 DEF Identities
<1>5. model' \in Models
  BY <1>1, <1>3 DEF Models
<1>6. NameInForce(Append(Read, r), Len(Read) + 1, sessionId')
  BY <1>1, <1>2, NameMovesOn
<1>7. ModelInForce(Append(Read, r), Len(Read) + 1, model')
  BY <1>1, <1>3, ModelMovesOn
<1> QED
  BY <1>4, <1>5, <1>6, <1>7

\* The calls and the count of a record, for the kinds of records.
CallsStep(Q) ==
    /\ pending' \in Seq(CallRecord) /\ calls' \in Seq(CallRecord) /\ unjoinable' \in Nat
    /\ OneCallPerId(pending')
    /\ Placed(Q, pending') /\ Placed(Q, calls')
    /\ Standing(Q, pending') /\ Standing(Q, calls')
    /\ Waiting(Q, pending') /\ Ended(Q, calls') /\ AllOk(calls')
    /\ Kept(Q, pending', calls')
    /\ Len(calls') + Len(pending') + unjoinable' = Cardinality(Real(Q))

\* A record that neither opens nor answers a call: a web search is counted.
LEMMA OtherRecord ==
    ASSUME RolloutInv, parsing = "reading", Read \in Seq(Records), NEW r \in Records,
           r.kind \notin {"call", "output"}, UNCHANGED <<pending, calls>>,
           unjoinable' = unjoinable + (IF r.kind = "web_search_call" THEN 1 ELSE 0)
    PROVE  CallsStep(Append(Read, r))
<1> DEFINE Q == Append(Read, r)
<1>1. /\ OneCallPerId(pending)
      /\ Placed(Read, pending) /\ Placed(Read, calls)
      /\ Standing(Read, pending) /\ Standing(Read, calls)
      /\ Waiting(Read, pending) /\ Ended(Read, calls) /\ AllOk(calls)
      /\ Kept(Read, pending, calls)
      /\ Len(calls) + Len(pending) + unjoinable = Cardinality(Real(Read))
      /\ pending \in Seq(CallRecord) /\ calls \in Seq(CallRecord) /\ unjoinable \in Nat
  BY DEF RolloutInv, RolloutTyped
<1>2. Standing(Q, pending) /\ Standing(Q, calls)
  BY <1>1, StandingStays
<1>3. Placed(Q, pending) /\ Placed(Q, calls)
  BY <1>1, PlacedStays
<1>4. Waiting(Q, pending)
  BY <1>1, WaitingStays
<1>5. Ended(Q, calls)
  BY <1>1, EndedStays
<1>6. Kept(Q, pending, calls)
  BY <1>1, KeptStays
<1>7. /\ Cardinality(Real(Read)) \in Nat
      /\ Cardinality(Real(Q)) =
             Cardinality(Real(Read)) + (IF r.kind = "web_search_call" THEN 1 ELSE 0)
  BY RealOfOther
<1>8. Len(calls) \in Nat /\ Len(pending) \in Nat
  BY <1>1
<1> HIDE DEF Q
<1>9. Len(calls') + Len(pending') + unjoinable' = Cardinality(Real(Q)) /\ unjoinable' \in Nat
  BY <1>1, <1>7, <1>8
<1> QED
  BY <1>1, <1>2, <1>3, <1>4, <1>5, <1>6, <1>9 DEF CallsStep, Q

\* A call record waits with what is in force; if a call with its id waits, it
\* takes that one's place.
LEMMA CallRecordOpens ==
    ASSUME RolloutInv, parsing = "reading", Read \in Seq(Records), NEW r \in Records, Codex!OpenCall(r)
    PROVE  CallsStep(Append(Read, r))
<1> DEFINE Q == Append(Read, r)
           n == Len(Read)
           a == Codex!Awaiting(pending, r.id)
           c == [id |-> r.id, at |-> n + 1, session |-> sessionId, model |-> model,
                 outcome |-> "pending"]
<1>1. /\ OneCallPerId(pending)
      /\ Placed(Read, pending) /\ Placed(Read, calls)
      /\ Standing(Read, pending) /\ Standing(Read, calls)
      /\ Waiting(Read, pending) /\ Ended(Read, calls) /\ AllOk(calls)
      /\ Kept(Read, pending, calls)
      /\ Len(calls) + Len(pending) + unjoinable = Cardinality(Real(Read))
      /\ pending \in Seq(CallRecord) /\ calls \in Seq(CallRecord) /\ unjoinable \in Nat
      /\ sessionId \in Identities /\ model \in Models
      /\ NameInForce(Read, n, sessionId) /\ ModelInForce(Read, n, model)
  BY DEF RolloutInv, RolloutTyped
<1>2. r.kind = "call" /\ pending' = Codex!Put(pending, c) /\ UNCHANGED <<calls, unjoinable>>
  BY DEF Codex!OpenCall, Codex!Takes, Read
<1>3. n \in Nat /\ Len(Q) = n + 1 /\ Q[n + 1] = r /\ \A i \in 1 .. n : Q[i] = Read[i]
  BY RecordAppended
<1>4. \/ a = 0 /\ \A k \in 1 .. Len(pending) : pending[k].id # r.id
      \/ a \in 1 .. Len(pending) /\ pending[a].id = r.id
  BY <1>1, AwaitingFinds
<1>5. pending' = IF a = 0 THEN Append(pending, c) ELSE [pending EXCEPT ![a] = c]
  BY <1>2, PutIs
<1>6. c.id = r.id /\ c.at = n + 1 /\ c.session = sessionId /\ c.model = model
  OBVIOUS
<1>7. c \in CallRecord
  BY <1>1, <1>2, <1>3 DEF CallRecord, CallIds
<1>8. /\ DOMAIN pending = 1 .. Len(pending) /\ Len(pending) \in Nat /\ Len(calls) \in Nat
      /\ DOMAIN calls = 1 .. Len(calls)
  BY <1>1
<1> HIDE DEF Q, c, n, a
\* The place of the call in the dict, and what stands at the other places.
<1> DEFINE Seat(v) ==
          \/ v = Len(pending) + 1 /\ Len(pending') = Len(pending) + 1
             /\ \A k \in 1 .. Len(pending) : pending[k].id # r.id
          \/ v \in 1 .. Len(pending) /\ Len(pending') = Len(pending) /\ pending[v].id = r.id
           Left(v) == \A k \in 1 .. Len(pending') :
                         k # v => k \in 1 .. Len(pending) /\ pending'[k] = pending[k]
           Rest(v) == \A k \in 1 .. Len(pending) : k # v => k \in 1 .. Len(pending')
<1>9. PICK w \in Nat \ {0} :
          /\ Seat(w) /\ pending' \in Seq(CallRecord) /\ w \in 1 .. Len(pending') /\ pending'[w] = c
          /\ Left(w) /\ Rest(w)
  <2>1. CASE a = 0
    <3>1. pending' = Append(pending, c) /\ \A k \in 1 .. Len(pending) : pending[k].id # r.id
      BY <1>4, <1>5, <1>8, <2>1
    <3>2. /\ pending' \in Seq(CallRecord) /\ Len(pending') = Len(pending) + 1
          /\ pending'[Len(pending) + 1] = c
          /\ \A k \in 1 .. Len(pending) : pending'[k] = pending[k]
      BY <1>1, <1>7, <3>1
    <3>3. Len(pending) + 1 \in Nat \ {0} /\ Len(pending) + 1 \in 1 .. Len(pending')
      BY <1>8, <3>2
    <3>4. \A k \in 1 .. Len(pending') : k # Len(pending) + 1 => k \in 1 .. Len(pending)
      BY <1>8, <3>2
    <3>5. \A k \in 1 .. Len(pending) : k \in 1 .. Len(pending')
      BY <1>8, <3>2
    <3>6. Seat(Len(pending) + 1)
      BY <3>1, <3>2
    <3>7. Left(Len(pending) + 1)
      BY <3>2, <3>4
    <3>8. Rest(Len(pending) + 1)
      BY <3>5
    <3> HIDE DEF Seat, Left, Rest
    <3> QED
      BY <3>2, <3>3, <3>6, <3>7, <3>8
  <2>2. CASE a # 0
    <3>1. pending' = [pending EXCEPT ![a] = c] /\ a \in 1 .. Len(pending) /\ pending[a].id = r.id
      BY <1>4, <1>5, <2>2
    <3>2. /\ pending' \in Seq(CallRecord) /\ Len(pending') = Len(pending) /\ pending'[a] = c
          /\ \A k \in 1 .. Len(pending) : k # a => pending'[k] = pending[k]
      BY <1>1, <1>7, <1>8, <3>1
    <3>3. a \in Nat \ {0}
      BY <1>8, <3>1
    <3>4. Seat(a)
      BY <3>1, <3>2
    <3>5. Left(a) /\ Rest(a)
      BY <3>2
    <3> HIDE DEF Seat, Left, Rest
    <3> QED
      BY <3>1, <3>2, <3>3, <3>4, <3>5
  <2> QED
    BY <2>1, <2>2
\* The other calls of the dict have other ids.
<1>10. ASSUME NEW k \in 1 .. Len(pending), k # w PROVE pending[k].id # r.id
  BY <1>1, <1>9, <1>10 DEF OneCallPerId
\* A call of this id that stands has its output, or is the one replaced.
<1>11. ASSUME NEW i \in Lasting(Read), Read[i].id = r.id
       PROVE  Answered(Read, i) \/ (w \in 1 .. Len(pending) /\ pending[w].at = i)
  <2>1. CASE \E k \in 1 .. Len(pending) : pending[k].at = i
    <3>1. PICK k \in 1 .. Len(pending) : pending[k].at = i
      BY <2>1
    <3>2. pending[k].id = r.id
      BY <1>1, <1>11, <3>1 DEF Placed, StandsAt
    <3> QED
      BY <1>10, <3>1, <3>2
  <2>2. CASE \E k \in 1 .. Len(calls) : calls[k].at = i
    BY <1>1, <2>2 DEF Ended, AllOk
  <2> QED
    BY <1>1, <2>1, <2>2 DEF Kept
<1>12. OneCallPerId(pending')
  <2> SUFFICES ASSUME NEW i \in 1 .. Len(pending'), NEW j \in 1 .. Len(pending'),
                      pending'[i].id = pending'[j].id
               PROVE  i = j
    BY DEF OneCallPerId
  <2>1. CASE i # w /\ j # w
    BY <1>1, <1>9, <2>1 DEF OneCallPerId
  <2>2. CASE i = w /\ j # w
    BY <1>6, <1>9, <1>10, <2>2
  <2>3. CASE j = w /\ i # w
    BY <1>6, <1>9, <1>10, <2>3
  <2> QED
    BY <2>1, <2>2, <2>3
<1>13. StandsAt(Q, c)
  <2>1. NameInForce(Q, n, sessionId) /\ ModelInForce(Q, n, model)
    BY <1>1, <1>3, PrefixDecides
  <2>2. c.at - 1 = n /\ c.at \in 1 .. Len(Q)
    BY <1>3, <1>6
  <2> QED
    BY <1>2, <1>3, <1>6, <2>1, <2>2 DEF StandsAt
<1>14. Placed(Q, pending) /\ Placed(Q, calls)
  BY <1>1, PlacedStays DEF Q
<1>15. Placed(Q, pending')
  BY <1>9, <1>13, <1>14 DEF Placed
<1>16. ~Gone(Q, c.at) /\ ~Answered(Q, c.at)
  BY <1>6, NewestStands DEF Q, n
<1>17. Standing(Q, calls)
  BY <1>1, StandingStays DEF Q, Ended, AllOk
<1>18. ASSUME NEW k \in 1 .. Len(pending), k # w
       PROVE  ~Gone(Q, pending[k].at) /\ ~Answered(Q, pending[k].at)
  <2>1. /\ pending[k].at \in 1 .. Len(Read) /\ Read[pending[k].at].id # r.id
        /\ ~Gone(Read, pending[k].at) /\ ~Answered(Read, pending[k].at)
    BY <1>1, <1>10, <1>18 DEF Placed, StandsAt, Standing, Waiting
  <2> QED
    BY <1>2, <2>1, GoneMovesOn, AnsweredMovesOn DEF Q
<1>19. Standing(Q, pending') /\ Waiting(Q, pending')
  BY <1>9, <1>16, <1>18 DEF Standing, Waiting
<1>20. Ended(Q, calls)
  BY <1>1, EndedStays DEF Q
<1>21. Kept(Q, pending', calls)
  <2> SUFFICES ASSUME NEW i \in Lasting(Q)
               PROVE  \/ \E k \in 1 .. Len(pending') : pending'[k].at = i
                      \/ \E k \in 1 .. Len(calls) : calls[k].at = i
    BY DEF Kept
  <2>1. CASE i = n + 1
    BY <1>6, <1>9, <2>1
  <2>2. CASE i # n + 1
    <3>1. i \in Lasting(Read) /\ (Read[i].id = r.id => Answered(Read, i))
      BY <1>2, <2>2, LastingOfCall DEF Q, n
    <3>2. CASE \E k \in 1 .. Len(pending) : pending[k].at = i
      <4>1. PICK k \in 1 .. Len(pending) : pending[k].at = i
        BY <3>2
      <4>2. k # w
        <5>1. ~Answered(Read, i) /\ Read[i].id = pending[k].id
          BY <1>1, <4>1 DEF Waiting, Placed, StandsAt
        <5> QED
          BY <1>9, <3>1, <5>1
      <4> QED
        BY <1>9, <4>1, <4>2
    <3> QED
      BY <1>1, <3>1, <3>2 DEF Kept
  <2> QED
    BY <2>1, <2>2
<1>22. Len(calls') + Len(pending') + unjoinable' = Cardinality(Real(Q))
  <2>1. CASE w \in 1 .. Len(pending) /\ Len(pending') = Len(pending) /\ pending[w].id = r.id
    <3> DEFINE g == pending[w].at
    <3>1. /\ g \in Lasting(Read) /\ Read[g].id = r.id /\ ~Answered(Read, g)
      BY <1>1, <2>1 DEF Lasting, Placed, StandsAt, Standing, Waiting
    <3>2. \A i \in Lasting(Read) : Read[i].id = r.id /\ i # g => Answered(Read, i)
      BY <1>11
    <3> HIDE DEF g
    <3>3. Cardinality(Real(Q)) = Cardinality(Real(Read))
      BY <1>2, <3>1, <3>2, RealOfReuse DEF Q
    <3> QED
      BY <1>1, <1>2, <2>1, <3>3
  <2>2. CASE w = Len(pending) + 1 /\ Len(pending') = Len(pending) + 1
    <3>1. w \notin 1 .. Len(pending)
      BY <1>8, <2>2
    <3>2. \A i \in Lasting(Read) : Read[i].id = r.id => Answered(Read, i)
      BY <1>11, <3>1
    <3>3. Cardinality(Real(Read)) \in Nat /\ Cardinality(Real(Q)) = Cardinality(Real(Read)) + 1
      BY <1>2, <3>2, RealOfNewCall DEF Q
    <3> QED
      BY <1>1, <1>2, <1>8, <2>2, <3>3
  <2> QED
    BY <1>9, <2>1, <2>2
<1> QED
  BY <1>1, <1>2, <1>9, <1>12, <1>14, <1>15, <1>17, <1>19, <1>20, <1>21, <1>22 DEF CallsStep, Q

\* An output ends the one call that waits for its id, or is ignored.
LEMMA OutputJoins ==
    ASSUME RolloutInv, parsing = "reading", Read \in Seq(Records), NEW r \in Records, Codex!CallOutput(r)
    PROVE  CallsStep(Append(Read, r))
<1> DEFINE Q == Append(Read, r)
           a == Codex!Awaiting(pending, r.id)
           done == [pending[a] EXCEPT !.outcome = "ok"]
<1>1. /\ OneCallPerId(pending)
      /\ Placed(Read, pending) /\ Placed(Read, calls)
      /\ Standing(Read, pending) /\ Standing(Read, calls)
      /\ Waiting(Read, pending) /\ Ended(Read, calls) /\ AllOk(calls)
      /\ Kept(Read, pending, calls)
      /\ Len(calls) + Len(pending) + unjoinable = Cardinality(Real(Read))
      /\ pending \in Seq(CallRecord) /\ calls \in Seq(CallRecord) /\ unjoinable \in Nat
  BY DEF RolloutInv, RolloutTyped
<1>2. r.kind = "output" /\ UNCHANGED unjoinable
  BY DEF Codex!CallOutput, Codex!Takes
<1>3. IF a = 0 THEN pending' = pending /\ calls' = calls
      ELSE pending' = Codex!RemoveAt(pending, a) /\ calls' = Append(calls, done)
  BY DEF Codex!CallOutput, Codex!Join
<1>4. \/ a = 0 /\ \A i \in 1 .. Len(pending) : pending[i].id # r.id
      \/ a \in 1 .. Len(pending) /\ pending[a].id = r.id
  BY <1>1, AwaitingFinds
<1>5. /\ Cardinality(Real(Read)) \in Nat
      /\ Cardinality(Real(Q)) = Cardinality(Real(Read))
  BY <1>2, RealOfOther
<1>6. Standing(Q, pending) /\ Standing(Q, calls)
  BY <1>1, <1>2, StandingStays
<1>7. Placed(Q, pending) /\ Placed(Q, calls)
  BY <1>1, PlacedStays
<1>8. Ended(Q, calls)
  BY <1>1, EndedStays
<1>9. Kept(Q, pending, calls)
  BY <1>1, <1>2, KeptStays
<1>10. CASE a = 0 /\ \A i \in 1 .. Len(pending) : pending[i].id # r.id
  <2>1. Waiting(Q, pending)
    BY <1>1, <1>10, WaitingStays
  <2>2. pending' = pending /\ calls' = calls
    BY <1>3, <1>10
  <2> HIDE DEF Q, a
  <2> QED
    BY <1>1, <1>2, <1>5, <1>6, <1>7, <1>8, <1>9, <2>1, <2>2 DEF CallsStep, Q
<1>11. CASE a \in 1 .. Len(pending) /\ pending[a].id = r.id
  <2>1. pending' = Codex!RemoveAt(pending, a) /\ calls' = Append(calls, done)
    BY <1>1, <1>3, <1>11
  <2>2. /\ pending[a] \in CallRecord /\ done \in CallRecord
        /\ done.id = pending[a].id /\ done.at = pending[a].at /\ done.session = pending[a].session
        /\ done.model = pending[a].model /\ done.outcome = "ok"
    <3> HIDE DEF a
    <3>1. pending[a] \in CallRecord
      BY <1>1, <1>11
    <3> QED
      BY <3>1 DEF CallRecord
  <2> HIDE DEF Q, a, done
  <2>3. /\ pending' \in Seq(CallRecord) /\ Len(pending') = Len(pending) - 1
        /\ \A i \in 1 .. Len(pending) - 1 : pending'[i] = IF i < a THEN pending[i] ELSE pending[i + 1]
    BY <1>1, <1>11, <2>1, RemovedAt
  <2>4. /\ calls' \in Seq(CallRecord) /\ Len(calls) \in Nat /\ Len(calls') = Len(calls) + 1
        /\ \A i \in 1 .. Len(calls) : calls'[i] = calls[i]
        /\ calls'[Len(calls) + 1] = done
    BY <1>1, <2>1, <2>2
  <2>5. Len(pending) \in Nat /\ a \in Nat
    BY <1>1, <1>11
  \* What is left stood at another place of the dict.
  <2>6. ASSUME NEW i \in 1 .. Len(pending')
        PROVE  \E k \in 1 .. Len(pending) : k # a /\ pending'[i] = pending[k]
    <3>1. CASE i < a
      <4>1. i \in 1 .. Len(pending) /\ i # a /\ pending'[i] = pending[i]
        BY <2>3, <2>5, <3>1
      <4> QED
        BY <4>1
    <3>2. CASE ~(i < a)
      <4>1. i + 1 \in 1 .. Len(pending) /\ i + 1 # a /\ pending'[i] = pending[i + 1]
        BY <2>3, <2>5, <3>2
      <4> QED
        BY <4>1
    <3> QED
      BY <3>1, <3>2
  <2>7. ASSUME NEW k \in 1 .. Len(pending), k # a
        PROVE  \E i \in 1 .. Len(pending') : pending'[i] = pending[k]
    <3>1. CASE k < a
      <4>1. k \in 1 .. Len(pending') /\ pending'[k] = pending[k]
        BY <1>11, <2>3, <2>5, <3>1
      <4> QED
        BY <4>1
    <3>2. CASE ~(k < a)
      <4>1. k - 1 \in 1 .. Len(pending') /\ ~(k - 1 < a) /\ (k - 1) + 1 = k
        BY <1>11, <2>3, <2>5, <2>7, <3>2
      <4>2. pending'[k - 1] = pending[k]
        BY <2>3, <4>1
      <4> QED
        BY <4>1, <4>2
    <3> QED
      BY <3>1, <3>2
  <2>8. OneCallPerId(pending')
    <3> SUFFICES ASSUME NEW i \in 1 .. Len(pending'), NEW j \in 1 .. Len(pending'),
                        pending'[i].id = pending'[j].id
                 PROVE  i = j
      BY DEF OneCallPerId
    <3>1. /\ pending'[i] = IF i < a THEN pending[i] ELSE pending[i + 1]
          /\ pending'[j] = IF j < a THEN pending[j] ELSE pending[j + 1]
          /\ i \in 1 .. Len(pending) /\ i + 1 \in 1 .. Len(pending)
          /\ j \in 1 .. Len(pending) /\ j + 1 \in 1 .. Len(pending)
      BY <2>3, <2>5
    <3>2. (IF i < a THEN i ELSE i + 1) = (IF j < a THEN j ELSE j + 1)
      BY <1>1, <3>1 DEF OneCallPerId
    <3> QED
      BY <2>5, <3>1, <3>2
  <2>9. ASSUME NEW i \in 1 .. Len(pending') PROVE pending'[i].id # r.id
    <3>1. PICK k \in 1 .. Len(pending) : k # a /\ pending'[i] = pending[k]
      BY <2>6
    <3> QED
      BY <1>1, <1>11, <3>1 DEF OneCallPerId
  <2>10. Placed(Read, pending') /\ Waiting(Read, pending')
    BY <1>1, <2>6 DEF Placed, Waiting
  <2>11. Placed(Q, pending') /\ Standing(Q, pending')
    BY <1>6, <1>7, <2>6 DEF Placed, Standing
  <2>12. Waiting(Q, pending')
    BY <1>2, <2>9, <2>10, WaitingStays DEF Q
  <2>13. StandsAt(Q, done)
    <3>1. StandsAt(Q, pending[a])
      BY <1>7, <1>11 DEF Placed
    <3> QED
      BY <2>2, <3>1 DEF StandsAt
  <2>14. Placed(Q, calls') /\ Standing(Q, calls')
    BY <1>6, <1>7, <1>11, <2>2, <2>4, <2>13 DEF Placed, Standing
  <2>15. Answered(Q, done.at)
    <3>1. done.at \in 1 .. Len(Read) /\ Read[done.at].id = r.id
      BY <1>1, <1>11, <2>2 DEF Placed, StandsAt
    <3> QED
      BY <1>2, <3>1, AnsweredMovesOn DEF Q
  <2>16. Ended(Q, calls')
    BY <1>8, <2>2, <2>4, <2>15 DEF Ended
  <2>17. AllOk(calls')
    BY <1>1, <2>2, <2>4 DEF AllOk
  <2>18. Kept(Q, pending', calls')
    <3> SUFFICES ASSUME NEW i \in Lasting(Q)
                 PROVE  \/ \E k \in 1 .. Len(pending') : pending'[k].at = i
                        \/ \E k \in 1 .. Len(calls') : calls'[k].at = i
      BY DEF Kept
    <3>1. CASE \E k \in 1 .. Len(calls) : calls[k].at = i
      <4>1. PICK k \in 1 .. Len(calls) : calls[k].at = i
        BY <3>1
      <4>2. k \in 1 .. Len(calls') /\ calls'[k].at = i
        BY <2>4, <4>1
      <4> QED
        BY <4>2
    <3>2. CASE \E k \in 1 .. Len(pending) : pending[k].at = i
      <4>1. PICK k \in 1 .. Len(pending) : pending[k].at = i
        BY <3>2
      <4>2. CASE k = a
        <5>1. Len(calls) + 1 \in 1 .. Len(calls') /\ calls'[Len(calls) + 1].at = i
          BY <2>2, <2>4, <4>1, <4>2
        <5> QED
          BY <5>1
      <4>3. CASE k # a
        BY <2>7, <4>1, <4>3
      <4> QED
        BY <4>2, <4>3
    <3> QED
      BY <1>9, <3>1, <3>2 DEF Kept
  <2>19. Len(calls') + Len(pending') + unjoinable' = Cardinality(Real(Q))
    BY <1>1, <1>2, <1>5, <2>3, <2>4, <2>5
  <2> QED
    BY <1>1, <1>2, <1>6, <2>3, <2>4, <2>8, <2>11, <2>12, <2>14, <2>16, <2>17, <2>18, <2>19
    DEF CallsStep, Q
<1> QED
  BY <1>4, <1>10, <1>11

\* A record of any kind keeps the invariant.
LEMMA RolloutStep ==
    ASSUME RolloutInv, Read \in Seq(Records), NEW r \in Records, Codex!Consume(r)
    PROVE  RolloutInv'
<1>1. parsing = "reading" /\ parsing' = "reading" /\ Read' = Append(Read, r)
  BY RecordIsRead
<1>2. CallsStep(Append(Read, r))
  <2>1. CASE Codex!OpenCall(r)
    BY <1>1, <2>1, CallRecordOpens
  <2>2. CASE Codex!CallOutput(r)
    BY <1>1, <2>2, OutputJoins
  <2>3. CASE \/ Codex!SkipMalformed(r) \/ Codex!SessionMeta(r) \/ Codex!TurnContext(r)
             \/ Codex!WebSearch(r) \/ Codex!Ignore(r)
    <3>1. /\ r.kind \notin {"call", "output"} /\ UNCHANGED <<pending, calls>>
          /\ unjoinable' = IF r.kind = "web_search_call" THEN unjoinable + 1 ELSE unjoinable
      BY <2>3 DEF Codex!SkipMalformed, Codex!SessionMeta, Codex!TurnContext, Codex!WebSearch,
                  Codex!Ignore, Codex!Takes
    <3>2. unjoinable \in Nat
      BY DEF RolloutInv, RolloutTyped
    <3>3. unjoinable' = unjoinable + (IF r.kind = "web_search_call" THEN 1 ELSE 0)
      BY <3>1, <3>2
    <3> QED
      BY <1>1, <3>1, <3>3, OtherRecord
  <2> QED
    BY <2>1, <2>2, <2>3 DEF Codex!Consume
<1>3. /\ sessionId' \in Identities /\ model' \in Models
      /\ NameInForce(Append(Read, r), Len(Read) + 1, sessionId')
      /\ ModelInForce(Append(Read, r), Len(Read) + 1, model')
  BY CarriedStep
<1>4. Len(Read') = Len(Read) + 1
  BY <1>1, RecordAppended
<1> QED
  BY <1>1, <1>2, <1>3, <1>4 DEF RolloutInv, RolloutTyped, CallsStep

\* At the end of the stream what still waits is kept without a result.
LEMMA RolloutEnds ==
    ASSUME RolloutInv, Codex!EndOfFile, phase' = "parsed"
    PROVE  RolloutInv'
<1> DEFINE rest == Codex!Drained(pending)
<1>1. /\ OneCallPerId(pending)
      /\ Placed(Read, pending) /\ Placed(Read, calls)
      /\ Standing(Read, pending) /\ Standing(Read, calls)
      /\ Waiting(Read, pending) /\ Ended(Read, calls)
      /\ Kept(Read, pending, calls)
      /\ Len(calls) + Len(pending) + unjoinable = Cardinality(Real(Read))
      /\ pending \in Seq(CallRecord) /\ calls \in Seq(CallRecord) /\ unjoinable \in Nat
      /\ sessionId \in Identities /\ model \in Models
      /\ NameInForce(Read, Len(Read), sessionId) /\ ModelInForce(Read, Len(Read), model)
  BY DEF RolloutInv, RolloutTyped
<1>2. /\ parsing' = "parsed" /\ calls' = calls \o rest /\ pending' = <<>>
      /\ UNCHANGED <<unjoinable, sessionId, model>> /\ Read' = Read
  BY DEF Codex!EndOfFile, Read
<1>3. Len(pending) \in Nat /\ Len(calls) \in Nat /\ DOMAIN pending = 1 .. Len(pending)
  BY <1>1
<1>4. rest = [k \in 1 .. Len(pending) |-> [pending[k] EXCEPT !.outcome = "no_result"]]
  BY <1>3 DEF Codex!Drained
<1>5. ASSUME NEW k \in 1 .. Len(pending)
      PROVE  /\ rest[k] \in CallRecord /\ rest[k].outcome = "no_result"
             /\ rest[k].id = pending[k].id /\ rest[k].at = pending[k].at
             /\ rest[k].session = pending[k].session /\ rest[k].model = pending[k].model
  <2>1. pending[k] \in CallRecord
    BY <1>1
  <2>2. rest[k] = [pending[k] EXCEPT !.outcome = "no_result"]
    BY <1>4
  <2> HIDE DEF rest
  <2> QED
    BY <2>1, <2>2 DEF CallRecord
<1> HIDE DEF rest
<1>6. rest \in Seq(CallRecord) /\ Len(rest) = Len(pending)
  <2>1. rest \in [1 .. Len(pending) -> CallRecord]
    BY <1>4, <1>5
  <2> QED
    BY <1>3, <2>1, SeqDef
<1>7. /\ calls' \in Seq(CallRecord) /\ Len(calls') = Len(calls) + Len(pending)
      /\ \A k \in 1 .. Len(calls) + Len(pending) :
             calls'[k] = IF k <= Len(calls) THEN calls[k] ELSE rest[k - Len(calls)]
  <2>1. /\ calls \o rest \in Seq(CallRecord) /\ Len(calls \o rest) = Len(calls) + Len(rest)
        /\ \A k \in 1 .. Len(calls) + Len(rest) :
               (calls \o rest)[k] = IF k <= Len(calls) THEN calls[k] ELSE rest[k - Len(calls)]
    BY <1>1, <1>6, ConcatProperties
  <2> QED
    BY <1>2, <1>6, <2>1
<1>8. /\ \A k \in 1 .. Len(calls) : k \in 1 .. Len(calls') /\ calls'[k] = calls[k]
      /\ \A k \in 1 .. Len(pending) : /\ Len(calls) + k \in 1 .. Len(calls')
                                      /\ calls'[Len(calls) + k] = rest[k]
  <2>1. ASSUME NEW k \in 1 .. Len(pending)
        PROVE  Len(calls) + k \in 1 .. Len(calls') /\ calls'[Len(calls) + k] = rest[k]
    <3>1. /\ Len(calls) + k \in 1 .. Len(calls) + Len(pending)
          /\ ~(Len(calls) + k <= Len(calls)) /\ (Len(calls) + k) - Len(calls) = k
      BY <1>3
    <3> QED
      BY <1>7, <3>1
  <2> QED
    BY <1>3, <1>7, <2>1
<1>9. ASSUME NEW k \in 1 .. Len(calls')
      PROVE  \/ k \in 1 .. Len(calls) /\ calls'[k] = calls[k]
             \/ \E j \in 1 .. Len(pending) : calls'[k] = rest[j]
  <2>1. CASE k <= Len(calls)
    BY <1>3, <1>7, <2>1
  <2>2. CASE ~(k <= Len(calls))
    <3>1. k - Len(calls) \in 1 .. Len(pending) /\ calls'[k] = rest[k - Len(calls)]
      BY <1>3, <1>7, <2>2
    <3> QED
      BY <3>1
  <2> QED
    BY <2>1, <2>2
<1>10. Placed(Read, calls') /\ Standing(Read, calls')
  <2>1. ASSUME NEW j \in 1 .. Len(pending) PROVE StandsAt(Read, rest[j])
    <3>1. StandsAt(Read, pending[j])
      BY <1>1 DEF Placed
    <3> QED
      BY <1>5, <3>1 DEF StandsAt
  <2>2. ASSUME NEW j \in 1 .. Len(pending) PROVE ~Gone(Read, rest[j].at)
    BY <1>1, <1>5 DEF Standing
  <2> QED
    BY <1>1, <1>9, <2>1, <2>2 DEF Placed, Standing
<1>11. Ended(Read, calls')
  <2>1. ASSUME NEW j \in 1 .. Len(pending)
        PROVE  rest[j].outcome # "ok" /\ ~Answered(Read, rest[j].at)
    BY <1>1, <1>5 DEF Waiting
  <2> QED
    BY <1>1, <1>9, <2>1 DEF Ended
<1>12. Kept(Read, <<>>, calls')
  <2> SUFFICES ASSUME NEW i \in Lasting(Read)
               PROVE  \E k \in 1 .. Len(calls') : calls'[k].at = i
    BY DEF Kept
  <2>1. CASE \E k \in 1 .. Len(calls) : calls[k].at = i
    BY <1>8, <2>1
  <2>2. CASE \E k \in 1 .. Len(pending) : pending[k].at = i
    <3>1. PICK k \in 1 .. Len(pending) : pending[k].at = i
      BY <2>2
    <3>2. Len(calls) + k \in 1 .. Len(calls') /\ calls'[Len(calls) + k] = rest[k]
      BY <1>8
    <3>3. rest[k].at = i
      BY <1>5, <3>1
    <3> QED
      BY <3>2, <3>3
  <2> QED
    BY <1>1, <2>1, <2>2 DEF Kept
<1>13. Len(calls') + Len(<<>>) + unjoinable = Cardinality(Real(Read))
  BY <1>1, <1>3, <1>7
<1>14. OneCallPerId(<<>>) /\ Placed(Read, <<>>) /\ Standing(Read, <<>>) /\ Waiting(Read, <<>>) /\ <<>> \in Seq(CallRecord)
  BY DEF OneCallPerId, Placed, Standing, Waiting
<1> QED
  BY <1>1, <1>2, <1>7, <1>10, <1>11, <1>12, <1>13, <1>14 DEF RolloutInv, RolloutTyped

-----------------------------------------------------------------------------
(* The parser within the intake.                                           *)

\* A file that no claude parser reads is a rollout, or read by nobody yet.
IntakeInv == ~RunsClaude => RolloutInv

LEMMA ClaudeKeepsTheReader ==
    ASSUME NEW e, Claude!Consume(e) \/ Claude!EndOfFile
    PROVE  trackTurns' = trackTurns
BY DEF Claude!Consume, Claude!ParseEntry, Claude!TurnKeyMissing, Claude!SkipMalformed, Claude!EndOfFile

\* A line goes to one of the two parsers.
LEMMA LineIsRead ==
    ASSUME StreamInv, IntakeInv, NEW l \in Lines, Reads(l), UNCHANGED parser
    PROVE  IntakeInv'
<1>1. CASE RunsClaude
  <2>1. trackTurns' = trackTurns
    BY <1>1, ClaudeKeepsTheReader DEF Reads
  <2> QED
    BY <1>1, <2>1 DEF IntakeInv, RunsClaude
<1>2. CASE ~RunsClaude
  <2>1. RolloutInv /\ Codex!Consume(l.record)
    BY <1>2 DEF IntakeInv, Reads
  <2>2. Read \in Seq(Records) /\ l.record \in Records
    BY ReadIsTyped DEF StreamInv, TypeOK, Records
  <2>3. RolloutInv'
    BY <2>1, <2>2, RolloutStep
  <2> QED
    BY <2>3 DEF IntakeInv
<1> QED
  BY <1>1, <1>2

LEMMA IntakeInvariant == IntakeSpec => []IntakeInv
<1>1. IntakeInit => IntakeInv
  <2> SUFFICES ASSUME IntakeInit PROVE RolloutInv
    BY DEF IntakeInv
  <2>1. parsing = "reading" /\ unjoinable = 0 /\ sessionId = "" /\ model = ""
    BY DEF IntakeInit, Codex!Init, Codex!Unknown
  <2>2. /\ pending \in Seq(CallRecord) /\ calls \in Seq(CallRecord)
        /\ Len(pending) = 0 /\ Len(calls) = 0
    BY DEF IntakeInit, Codex!Init
  <2>3. Read \in Seq(Records) /\ Len(Read) = 0
    <3>1. given \in Seq(Lines) /\ Len(given) = 0
      BY DEF IntakeInit, Init
    <3> QED
      BY <3>1, ReadIsTyped
  <2>4. Lasting(Read) = {} /\ Real(Read) = {}
    BY <2>3 DEF Real, Lasting
  <2>5. Cardinality(Real(Read)) = 0
    BY <2>4, FS_EmptySet
  <2>6. "" \in Identities /\ "" \in Models
    BY DEF Identities, Models
  <2>7. RolloutTyped
    BY <2>1, <2>6, <2>2 DEF RolloutTyped
  <2>8. NameInForce(Read, 0, "") /\ ModelInForce(Read, 0, "")
    BY DEF NameInForce, ModelInForce
  <2>9. Standing(Read, pending) /\ Standing(Read, calls)
    BY <2>2 DEF Standing
  <2>10. /\ OneCallPerId(pending) /\ Placed(Read, pending) /\ Placed(Read, calls)
         /\ Waiting(Read, pending) /\ Ended(Read, calls) /\ AllOk(calls)
    BY <2>2 DEF OneCallPerId, Placed, Waiting, Ended, AllOk
  <2>11. Kept(Read, pending, calls)
    BY <2>4 DEF Kept
  <2>12. Len(calls) + Len(pending) + unjoinable = Cardinality(Real(Read))
    <3>1. unjoinable = 0 /\ Len(calls) = 0 /\ Len(pending) = 0 /\ Cardinality(Real(Read)) = 0
      BY <2>1, <2>2, <2>5
    <3> QED
      BY <3>1
  <2> QED
    BY <2>1, <2>3, <2>7, <2>8, <2>9, <2>2, <2>10, <2>11, <2>12 DEF RolloutInv
<1>2. SourceOk /\ StreamInv /\ IntakeInv /\ [IntakeNext]_intakeVars => IntakeInv'
  <2> SUFFICES ASSUME SourceOk, StreamInv, IntakeInv, [IntakeNext]_intakeVars PROVE IntakeInv'
    OBVIOUS
  <2>1. source.lines \subseteq Lines
    BY StreamsAssumption DEF SourceOk
  <2>2. CASE SniffLine
    <3>1. /\ phase = "sniff" /\ parser = Nobody /\ UNCHANGED <<given, trackTurns>>
          /\ UNCHANGED <<parsing, pending, calls, unjoinable, sessionId, model>>
      BY <2>2 DEF SniffLine, NothingClaimed, SniffBlank, GiveUp, SniffOther, SniffClaimed, StreamInv,
                  StreamIsKept, parserVars, codexVars
    <3> SUFFICES ASSUME ~RunsClaude' PROVE RolloutInv'
      BY DEF IntakeInv
    <3>2. ~RunsClaude
      BY <3>1 DEF RunsClaude, Nobody
    <3>3. RolloutInv
      BY <3>2 DEF IntakeInv
    <3>4. parsing # "parsed" /\ Read' = Read
      BY <3>1, <3>3 DEF RolloutInv, Read
    <3> QED
      BY <3>1, <3>3, <3>4 DEF RolloutInv, RolloutTyped
  <2>3. CASE ReplayLine
    <3>1. Head(buffered) \in Lines /\ Reads(Head(buffered)) /\ UNCHANGED parser
      BY <2>3 DEF ReplayLine, ParseReplayed, StreamInv, TypeOK
    <3> QED
      BY <3>1, LineIsRead
  <2>4. ASSUME NEW l \in source.lines, ReadLine(l) PROVE IntakeInv'
    <3>1. l \in Lines /\ Reads(l) /\ UNCHANGED parser
      BY <2>1, <2>4 DEF ReadLine, ParseNext
    <3> QED
      BY <3>1, LineIsRead
  <2>5. CASE StreamEnds
    <3>1. UNCHANGED parser /\ phase' = "parsed"
      BY <2>5 DEF StreamEnds, EndOfStream
    <3>2. CASE RunsClaude
      <4>1. trackTurns' = trackTurns
        BY <2>5, <3>2, ClaudeKeepsTheReader DEF StreamEnds
      <4> QED
        BY <3>1, <3>2, <4>1 DEF IntakeInv, RunsClaude
    <3>3. CASE ~RunsClaude
      <4>1. Codex!EndOfFile /\ RolloutInv
        BY <2>5, <3>3 DEF StreamEnds, IntakeInv
      <4> QED
        BY <3>1, <4>1, RolloutEnds DEF IntakeInv
    <3> QED
      BY <3>2, <3>3
  <2>6. CASE LoaderRaises
    <3>1. /\ parsing = "reading" /\ UNCHANGED <<given, trackTurns, parser>>
          /\ UNCHANGED <<parsing, pending, calls, unjoinable, sessionId, model>>
      BY <2>6 DEF LoaderRaises, Stopped, StreamFails, parserVars, codexVars
    <3>2. Read' = Read /\ (RunsClaude' <=> RunsClaude)
      BY <3>1 DEF Read, RunsClaude
    <3> QED
      BY <3>1, <3>2 DEF IntakeInv, RolloutInv, RolloutTyped
  <2>7. CASE ScoreProbe \/ UNCHANGED intakeVars
    <3>1. /\ UNCHANGED <<given, trackTurns, parser, phase>>
          /\ UNCHANGED <<parsing, pending, calls, unjoinable, sessionId, model>>
      BY <2>7 DEF ScoreProbe, intakeVars, vars, parserVars, codexVars
    <3>2. Read' = Read /\ (RunsClaude' <=> RunsClaude)
      BY <3>1 DEF Read, RunsClaude
    <3> QED
      BY <3>1, <3>2 DEF IntakeInv, RolloutInv, RolloutTyped
  <2> QED
    BY <2>2, <2>3, <2>4, <2>5, <2>6, <2>7 DEF IntakeNext
<1> QED
  BY <1>1, <1>2, IntakeReadsAStream, StreamInvariant, PTL DEF IntakeSpec

-----------------------------------------------------------------------------
(* What it says of the whole stream.                                       *)

All == RecordsOf(pulled)

\* What was read begins the stream, and is all of it once it was parsed.
LEMMA WholeStream ==
    ASSUME StreamInv
    PROVE  /\ Read \in Seq(Records) /\ All \in Seq(Records) /\ Begins(Read, All)
           /\ phase = "parsed" => All = Read
           /\ DOMAIN All = 1 .. Len(All)
<1>1. /\ given \in Seq(Lines) /\ buffered \in Seq(Lines) /\ pulled \in Seq(Lines)
      /\ given \o buffered = pulled
  BY DEF StreamInv, StreamIsKept, TypeOK
<1>2. /\ Len(pulled) = Len(given) + Len(buffered) /\ Len(given) \in Nat /\ Len(buffered) \in Nat
      /\ \A i \in 1 .. Len(given) : pulled[i] = given[i]
  BY <1>1, ConcatProperties
<1>3. /\ Read \in Seq(Records) /\ Len(Read) = Len(given)
      /\ \A i \in 1 .. Len(given) : Read[i] = given[i].record
  BY <1>1, ReadIsTyped
<1>4. /\ All \in Seq(Records) /\ Len(All) = Len(pulled)
      /\ \A i \in 1 .. Len(pulled) : All[i] = pulled[i].record
  <2>1. pulled \in [1 .. Len(pulled) -> Lines] /\ Len(pulled) \in Nat
    BY <1>1, LenProperties
  <2>2. All = [i \in 1 .. Len(pulled) |-> pulled[i].record]
    BY <2>1 DEF All, RecordsOf
  <2>3. All \in [1 .. Len(pulled) -> Records]
    BY <2>1, <2>2 DEF Records
  <2> QED
    BY <2>1, <2>2, <2>3, SeqDef
<1>5. Begins(Read, All)
  BY <1>2, <1>3, <1>4 DEF Begins
<1>6. phase = "parsed" => All = Read
  <2> SUFFICES ASSUME phase = "parsed" PROVE All = Read
    OBVIOUS
  <2>1. buffered = <<>>
    BY DEF StreamInv, StreamIsKept
  <2>2. given = pulled
    BY <1>1, <2>1
  <2> QED
    BY <2>2 DEF All, Read
<1> QED
  BY <1>3, <1>4, <1>5, <1>6

\* Every call of a rollout stands in the whole stream as in what was read.
LEMMA RolloutCalls ==
    ASSUME StreamInv, IntakeInv, IsRollout, NEW c \in ToSet(calls) \cup ToSet(pending)
    PROVE  StandsAt(All, c)
<1>1. RolloutInv
  BY DEF IntakeInv, RunsClaude, IsRollout
<1>2. /\ pending \in Seq(CallRecord) /\ calls \in Seq(CallRecord)
      /\ Placed(Read, pending) /\ Placed(Read, calls)
  BY <1>1 DEF RolloutInv, RolloutTyped
<1>3. StandsAt(Read, c)
  BY <1>2 DEF ToSet, Placed
<1> QED
  BY <1>3, WholeStream, CallStands

\* The least and the greatest index of a set that has one.
LEMMA MinIs ==
    ASSUME NEW I \in SUBSET Int, NEW j \in I, \A k \in I : j <= k
    PROVE  CodexStream!Min(I) = j
<1>1. \E x \in I : \A y \in I : x =< y
  OBVIOUS
<1>2. CodexStream!Min(I) \in I /\ \A y \in I : CodexStream!Min(I) =< y
  BY <1>1 DEF CodexStream!Min
<1>3. \A m \in Int : m \in I /\ (\A y \in I : m =< y) => m = j
  OBVIOUS
<1>4. CodexStream!Min(I) \in Int
  BY <1>2
<1> QED
  BY <1>2, <1>3, <1>4

LEMMA MaxIs ==
    ASSUME NEW I \in SUBSET Int, NEW j \in I, \A k \in I : k <= j
    PROVE  CodexStream!Max(I) = j
<1>1. \E x \in I : \A y \in I : x >= y
  OBVIOUS
<1>2. CodexStream!Max(I) \in I /\ \A y \in I : CodexStream!Max(I) >= y
  BY <1>1 DEF CodexStream!Max
<1>3. \A m \in Int : m \in I /\ (\A y \in I : m >= y) => m = j
  OBVIOUS
<1>4. CodexStream!Max(I) \in Int
  BY <1>2
<1> QED
  BY <1>2, <1>3, <1>4

\* The instance's count of a finite set is the count.
LEMMA SameCount == \A S : CodexStream!Cardinality(S) = Cardinality(S)
BY DEF CodexStream!Cardinality, Cardinality

\* Every call of a rollout after its first session_meta carries the identity
\* that one gave, whatever the sniff consumed and wherever the stream stops.
THEOREM IdentityIsOne == IntakeSpec => []OneIdentity
<1>1. StreamInv /\ IntakeInv => OneIdentity
  <2> SUFFICES ASSUME StreamInv, IntakeInv, IsRollout PROVE CodexStream!OneIdentity
    BY DEF OneIdentity
  <2> SUFFICES ASSUME NEW c \in ToSet(calls) \cup ToSet(pending)
               PROVE  LET metas == {j \in DOMAIN All : /\ All[j].kind = "session_meta" /\ j < c.at
                                                       /\ All[j].own # "" \/ All[j].parent # ""}
                          first == All[CodexStream!Min(metas)]
                      IN  metas # {} =>
                             c.session = IF first.own # "" THEN first.own ELSE first.parent
    BY DEF CodexStream!OneIdentity, CodexStream!Before, CodexStream!OfKind, CodexStream!Unknown,
           CodexStream!ToSet, ToSet, All
  <2> DEFINE metas == {j \in DOMAIN All : /\ All[j].kind = "session_meta" /\ j < c.at
                                          /\ All[j].own # "" \/ All[j].parent # ""}
  <2>1. StandsAt(All, c) /\ All \in Seq(Records) /\ DOMAIN All = 1 .. Len(All) /\ Len(All) \in Nat
    BY RolloutCalls, WholeStream
  <2>2. c.at \in 1 .. Len(All) /\ NameInForce(All, c.at - 1, c.session)
    BY <2>1 DEF StandsAt
  <2>3. metas = {j \in 1 .. c.at - 1 : NamesIt(All[j])}
    <3>1. ASSUME NEW j PROVE j \in DOMAIN All /\ j < c.at <=> j \in 1 .. c.at - 1
      BY <2>1, <2>2
    <3> QED
      BY <3>1 DEF NamesIt
  <2> HIDE DEF metas
  <2>4. CASE metas = {}
    BY <2>4 DEF metas
  <2>5. CASE metas # {}
    <3>1. PICK j \in 1 .. c.at - 1 : /\ NamesIt(All[j]) /\ c.session = NameOf(All[j])
                                     /\ \A k \in 1 .. j - 1 : ~NamesIt(All[k])
      BY <2>2, <2>3, <2>5 DEF NameInForce
    <3>2. metas \in SUBSET Int /\ j \in metas
      BY <2>2, <2>3, <3>1
    <3>3. \A k \in metas : j <= k
      BY <2>2, <2>3, <3>1
    <3>4. CodexStream!Min(metas) = j
      BY <3>2, <3>3, MinIs
    <3> QED
      BY <3>1, <3>4 DEF metas, NameOf
  <2> QED
    BY <2>4, <2>5
<1> QED
  BY <1>1, IntakeReadsAStream, StreamInvariant, IntakeInvariant, PTL

\* Every call carries the model of the last turn_context before it that names
\* one, or none.
THEOREM ModelIsTheTurns == IntakeSpec => []ModelIsOfItsTurn
<1>1. StreamInv /\ IntakeInv => ModelIsOfItsTurn
  <2> SUFFICES ASSUME StreamInv, IntakeInv, IsRollout PROVE CodexStream!ModelIsOfItsTurn
    BY DEF ModelIsOfItsTurn
  <2> SUFFICES ASSUME NEW c \in ToSet(calls) \cup ToSet(pending)
               PROVE  LET named == {j \in DOMAIN All : /\ All[j].kind = "turn_context" /\ j < c.at
                                                       /\ All[j].model # ""}
                      IN  c.model = IF named = {} THEN "" ELSE All[CodexStream!Max(named)].model
    BY DEF CodexStream!ModelIsOfItsTurn, CodexStream!Before, CodexStream!OfKind,
           CodexStream!Unknown, CodexStream!ToSet, ToSet, All
  <2> DEFINE named == {j \in DOMAIN All : /\ All[j].kind = "turn_context" /\ j < c.at
                                          /\ All[j].model # ""}
  <2>1. StandsAt(All, c) /\ All \in Seq(Records) /\ DOMAIN All = 1 .. Len(All) /\ Len(All) \in Nat
    BY RolloutCalls, WholeStream
  <2>2. c.at \in 1 .. Len(All) /\ ModelInForce(All, c.at - 1, c.model)
    BY <2>1 DEF StandsAt
  <2>3. named = {j \in 1 .. c.at - 1 : Renews(All[j])}
    <3>1. ASSUME NEW j PROVE j \in DOMAIN All /\ j < c.at <=> j \in 1 .. c.at - 1
      BY <2>1, <2>2
    <3> QED
      BY <3>1 DEF Renews
  <2> HIDE DEF named
  <2>4. CASE c.model = "" /\ \A j \in 1 .. c.at - 1 : ~Renews(All[j])
    <3>1. named = {}
      BY <2>3, <2>4
    <3> QED
      BY <2>4, <3>1 DEF named
  <2>5. CASE \E j \in 1 .. c.at - 1 : /\ Renews(All[j]) /\ c.model = All[j].model
                                      /\ \A k \in j + 1 .. c.at - 1 : ~Renews(All[k])
    <3>1. PICK j \in 1 .. c.at - 1 : /\ Renews(All[j]) /\ c.model = All[j].model
                                     /\ \A k \in j + 1 .. c.at - 1 : ~Renews(All[k])
      BY <2>5
    <3>2. named \in SUBSET Int /\ j \in named
      BY <2>2, <2>3, <3>1
    <3>3. \A k \in named : k <= j
      BY <2>2, <2>3, <3>1
    <3>4. CodexStream!Max(named) = j
      BY <3>2, <3>3, MaxIs
    <3> QED
      BY <3>1, <3>2, <3>4 DEF named
  <2> QED
    BY <2>2, <2>4, <2>5 DEF ModelInForce
<1> QED
  BY <1>1, IntakeReadsAStream, StreamInvariant, IntakeInvariant, PTL

\* At the end of a rollout every call of the stream is one call of the result,
\* or counted as unjoinable, and has its output if and only if one follows; but
\* a call whose id was used again before its output is neither.
THEOREM CallsAreAccountedFor == IntakeSpec => []EveryCallIsAccountedFor
<1>1. StreamInv /\ IntakeInv => EveryCallIsAccountedFor
  <2> SUFFICES ASSUME StreamInv, IntakeInv, IsRollout, parsing = "parsed"
               PROVE  /\ Len(calls) + unjoinable =
                             Cardinality(CodexStream!Kept \cup CodexStream!OfKind("web_search_call"))
                      /\ \A i \in CodexStream!Kept : \E c \in CodexStream!ToSet(calls) :
                            /\ c.at = i
                            /\ c.outcome = "ok" <=>
                                  \E j \in CodexStream!OfKind("output") :
                                      j > i /\ RecordsOf(pulled)[j].id = RecordsOf(pulled)[i].id
    BY SameCount DEF EveryCallIsAccountedFor, CodexStream!EveryCallIsAccountedFor
  <2>1. RolloutInv
    BY DEF IntakeInv, RunsClaude, IsRollout
  <2>2. phase = "parsed" /\ pending = <<>>
    BY <2>1 DEF RolloutInv
  <2>3. All = Read /\ All \in Seq(Records) /\ DOMAIN All = 1 .. Len(All)
    BY <2>2, WholeStream
  <2>4. /\ Placed(All, calls) /\ Ended(All, calls) /\ Kept(All, <<>>, calls)
        /\ Len(calls) + Len(<<>>) + unjoinable = Cardinality(Real(All))
        /\ calls \in Seq(CallRecord) /\ unjoinable \in Nat
    BY <2>1, <2>2, <2>3 DEF RolloutInv, RolloutTyped
  <2>a. \A i : CodexStream!Superseded(i) <=> Gone(All, i)
    BY <2>3 DEF CodexStream!Superseded, CodexStream!OfKind, Gone, All
  <2>b. CodexStream!Kept = Lasting(All)
    BY <2>3, <2>a DEF CodexStream!Kept, CodexStream!OfKind, Lasting, All
  <2>5. Real(All) = CodexStream!Kept \cup CodexStream!OfKind("web_search_call")
    BY <2>3, <2>b DEF CodexStream!OfKind, Real, All
  <2>6. Len(calls) + unjoinable = Cardinality(Real(All))
    BY <2>4
  <2>7. ASSUME NEW i \in CodexStream!Kept
        PROVE  \E c \in CodexStream!ToSet(calls) :
                   /\ c.at = i
                   /\ c.outcome = "ok" <=>
                         \E j \in CodexStream!OfKind("output") :
                             j > i /\ RecordsOf(pulled)[j].id = RecordsOf(pulled)[i].id
    <3>1. i \in Lasting(All)
      BY <2>b
    <3>2. PICK k \in 1 .. Len(calls) : calls[k].at = i
      BY <2>4, <3>1 DEF Kept
    <3>3. calls[k] \in CodexStream!ToSet(calls)
      BY <2>4, <3>2 DEF CodexStream!ToSet
    <3>4. calls[k].outcome = "ok" <=> Answered(All, i)
      BY <2>4, <3>2 DEF Ended
    <3>5. Answered(All, i) <=> \E j \in CodexStream!OfKind("output") :
                                   j > i /\ RecordsOf(pulled)[j].id = RecordsOf(pulled)[i].id
      BY <2>3 DEF Answered, CodexStream!OfKind, All
    <3> QED
      BY <3>2, <3>3, <3>4, <3>5
  <2> QED
    BY <2>5, <2>6, <2>7
<1> QED
  BY <1>1, IntakeReadsAStream, StreamInvariant, IntakeInvariant, PTL

-----------------------------------------------------------------------------
(* Sums over a finite domain.                                              *)

\* h gives, for each part of the domain, the sum of f over it.
AddsUp(f, h) ==
    /\ h \in [SUBSET DOMAIN f -> Nat]
    /\ h[{}] = 0
    /\ \A s \in SUBSET DOMAIN f : \A x \in s : h[s] = f[x] + h[s \ {x}]

\* So does g, which takes out one summand at a time, of its own choice.
BuildsUp(f, g) ==
    /\ g[{}] = 0
    /\ \A s \in SUBSET DOMAIN f : s # {} => \E x \in s : g[s] = f[x] + g[s \ {x}]

SumOf(f) == (CHOOSE h : AddsUp(f, h))[DOMAIN f]

Without(f, x) == [y \in DOMAIN f \ {x} |-> f[y]]

\* A property of the parts of a finite set fails of a least one, if of any.
LEMMA LeastPart ==
    ASSUME NEW D, IsFiniteSet(D), NEW W \in SUBSET SUBSET D, W # {}
    PROVE  \E s \in W : \A x \in s : s \ {x} \notin W
<1>1. IsWellFoundedOn(StrictSubsetOrdering(D), FiniteSubsetsOf(D))
  BY FS_StrictSubsetOrderingWellFounded
<1>2. FiniteSubsetsOf(D) = SUBSET D
  BY FS_FiniteSubsetsOfFinite
<1>3. IsWellFoundedOn(StrictSubsetOrdering(D), SUBSET D)
  BY <1>1, <1>2
<1>4. PICK s \in W : \A t \in W : ~(<<t, s>> \in StrictSubsetOrdering(D))
  BY <1>3, WFMin
<1>5. ASSUME NEW x \in s, s \ {x} \in W PROVE FALSE
  <2>1. s \in SUBSET D /\ s \ {x} \in SUBSET D
    OBVIOUS
  <2>2. <<s \ {x}, s>> \in StrictSubsetOrdering(D)
    BY <2>1 DEF StrictSubsetOrdering
  <2> QED
    BY <1>4, <1>5, <2>2
<1> QED
  BY <1>5

\* Every function to Nat on a finite set can be summed over its parts.
LEMMA SumExists ==
    ASSUME NEW D, IsFiniteSet(D), NEW f \in [D -> Nat]
    PROVE  \E h : AddsUp(f, h)
<1> DEFINE On(T) == [x \in T |-> f[x]]
           W == {T \in SUBSET D : ~\E h : AddsUp(On(T), h)}
<1>1. W = {}
  <2> SUFFICES ASSUME W # {} PROVE FALSE
    OBVIOUS
  <2>1. PICK T \in W : \A x \in T : T \ {x} \notin W
    <3> HIDE DEF W
    <3>1. W \in SUBSET SUBSET D
      BY DEF W
    <3> QED
      BY <3>1, LeastPart
  <2>2. T \in SUBSET D
    OBVIOUS
  <2>3. CASE T = {}
    <3> DEFINE z == [s \in SUBSET T |-> 0]
    <3>1. DOMAIN On(T) = T
      OBVIOUS
    <3>2. z \in [SUBSET T -> Nat] /\ z[{}] = 0
      OBVIOUS
    <3>3. \A s \in SUBSET T : s = {}
      BY <2>3
    <3> HIDE DEF z
    <3>4. AddsUp(On(T), z)
      BY <3>1, <3>2, <3>3 DEF AddsUp
    <3> QED
      BY <2>1, <3>4
  <2>4. ASSUME NEW a \in T PROVE FALSE
    <3> DEFINE U == T \ {a}
    <3>1. U \in SUBSET D /\ U \notin W
      BY <2>1, <2>2
    <3>2. PICK g : AddsUp(On(U), g)
      BY <3>1
    <3>3. DOMAIN On(U) = U /\ DOMAIN On(T) = T
      OBVIOUS
    <3>4. \A x \in U : On(U)[x] = f[x]
      OBVIOUS
    <3>5. \A x \in T : On(T)[x] = f[x] /\ f[x] \in Nat
      BY <2>2
    <3> HIDE DEF On, U, W
    <3>6. /\ g \in [SUBSET U -> Nat] /\ g[{}] = 0
          /\ \A s \in SUBSET U : \A x \in s : g[s] = f[x] + g[s \ {x}]
      BY <3>2, <3>3, <3>4 DEF AddsUp
    <3> DEFINE h == [s \in SUBSET T |-> IF a \in s THEN f[a] + g[s \ {a}] ELSE g[s]]
    <3>7. ASSUME NEW s \in SUBSET T
          PROVE  /\ a \in s => s \ {a} \in SUBSET U /\ h[s] = f[a] + g[s \ {a}]
                 /\ a \notin s => s \in SUBSET U /\ h[s] = g[s]
                 /\ h[s] \in Nat
      <4>1. a \in s => s \ {a} \in SUBSET U
        BY DEF U
      <4>2. a \notin s => s \in SUBSET U
        BY DEF U
      <4> QED
        BY <3>5, <3>6, <4>1, <4>2
    <3>8. h \in [SUBSET T -> Nat]
      BY <3>7
    <3>9. h[{}] = 0
      BY <3>6, <3>7
    <3>10. ASSUME NEW s \in SUBSET T, NEW x \in s
           PROVE  h[s] = f[x] + h[s \ {x}]
      <4>1. s \ {x} \in SUBSET T
        OBVIOUS
      <4>2. CASE x = a
        <5>1. h[s] = f[a] + g[s \ {a}]
          BY <3>7, <4>2
        <5>2. a \notin s \ {x}
          BY <4>2
        <5>3. h[s \ {x}] = g[s \ {x}]
          BY <3>7, <4>1, <5>2
        <5> QED
          BY <4>2, <5>1, <5>3
      <4>3. CASE x # a /\ a \in s
        <5>1. s \ {a} \in SUBSET U /\ x \in s \ {a} /\ h[s] = f[a] + g[s \ {a}]
          BY <3>7, <4>3
        <5>2. a \in s \ {x}
          BY <4>3
        <5>3. (s \ {x}) \ {a} \in SUBSET U /\ h[s \ {x}] = f[a] + g[(s \ {x}) \ {a}]
          BY <3>7, <4>1, <5>2
        <5>4. g[s \ {a}] = f[x] + g[(s \ {a}) \ {x}]
          BY <3>6, <5>1
        <5>5. (s \ {a}) \ {x} = (s \ {x}) \ {a}
          OBVIOUS
        <5>6. f[x] \in Nat /\ f[a] \in Nat /\ g[(s \ {x}) \ {a}] \in Nat
          BY <3>5, <3>6, <5>3
        <5> HIDE DEF h
        <5>7. g[s \ {a}] = f[x] + g[(s \ {x}) \ {a}]
          BY <5>4, <5>5
        <5> QED
          BY <5>1, <5>3, <5>6, <5>7
      <4>4. CASE a \notin s
        <5>1. s \in SUBSET U /\ h[s] = g[s]
          BY <3>7, <4>4
        <5>2. a \notin s \ {x}
          BY <4>4
        <5>3. h[s \ {x}] = g[s \ {x}]
          BY <3>7, <4>1, <5>2
        <5>4. g[s] = f[x] + g[s \ {x}]
          BY <3>6, <5>1
        <5> QED
          BY <5>1, <5>3, <5>4
      <4> QED
        BY <4>2, <4>3, <4>4
    <3> HIDE DEF h
    <3>11. \A s \in SUBSET T : \A x \in s : h[s] = On(T)[x] + h[s \ {x}]
      BY <3>5, <3>10
    <3>12. AddsUp(On(T), h)
      BY <3>3, <3>8, <3>9, <3>11 DEF AddsUp
    <3> QED
      BY <2>1, <3>12 DEF W
  <2> QED
    BY <2>3, <2>4
<1>2. D \in SUBSET D /\ On(D) = f
  OBVIOUS
<1> QED
  BY <1>1, <1>2

\* A sum may be built up in any order.
LEMMA SumUnique ==
    ASSUME NEW f, IsFiniteSet(DOMAIN f), NEW h, AddsUp(f, h), NEW g, BuildsUp(f, g)
    PROVE  \A s \in SUBSET DOMAIN f : g[s] = h[s]
<1> DEFINE D == DOMAIN f
<1> DEFINE W == {s \in SUBSET D : g[s] # h[s]}
<1> SUFFICES ASSUME W # {} PROVE FALSE
  OBVIOUS
<1>1. PICK s \in W : \A x \in s : s \ {x} \notin W
  <2>1. W \in SUBSET SUBSET D
    OBVIOUS
  <2> HIDE DEF W
  <2> QED
    BY <2>1, LeastPart
<1>2. s # {}
  BY <1>1 DEF AddsUp, BuildsUp
<1>3. PICK x \in s : g[s] = f[x] + g[s \ {x}]
  BY <1>2 DEF BuildsUp
<1>4. s \ {x} \in SUBSET D
  OBVIOUS
<1>5. g[s \ {x}] = h[s \ {x}]
  BY <1>1, <1>4
<1>6. h[s] = f[x] + h[s \ {x}]
  BY DEF AddsUp
<1> QED
  BY <1>1, <1>3, <1>5, <1>6

\* Whatever gives the sums of its parts gives its sum.
LEMMA SumIs ==
    ASSUME NEW D, IsFiniteSet(D), NEW f \in [D -> Nat]
    PROVE  /\ SumOf(f) \in Nat
           /\ \A h : AddsUp(f, h) => SumOf(f) = h[D]
<1> DEFINE g == CHOOSE h : AddsUp(f, h)
<1>1. AddsUp(f, g)
  BY SumExists
<1>2. DOMAIN f = D /\ SumOf(f) = g[D] /\ D \in SUBSET D
  BY DEF SumOf
<1> HIDE DEF g
<1>3. SumOf(f) \in Nat
  BY <1>1, <1>2 DEF AddsUp
<1>4. ASSUME NEW h, AddsUp(f, h) PROVE SumOf(f) = h[D]
  <2>1. BuildsUp(f, h)
    BY <1>2, <1>4 DEF AddsUp, BuildsUp
  <2>2. \A s \in SUBSET D : h[s] = g[s]
    BY <1>1, <1>2, <2>1, SumUnique
  <2> QED
    BY <1>2, <2>2
<1> QED
  BY <1>3, <1>4

\* One summand can be taken out.
LEMMA SumTakesOut ==
    ASSUME NEW D, IsFiniteSet(D), NEW f \in [D -> Nat], NEW x \in D
    PROVE  SumOf(Without(f, x)) \in Nat /\ SumOf(f) = f[x] + SumOf(Without(f, x))
<1> DEFINE U == D \ {x}
           e == [y \in U |-> f[y]]
<1>1. PICK h : AddsUp(f, h)
  BY SumExists
<1>2. IsFiniteSet(U) /\ e \in [U -> Nat] /\ DOMAIN e = U /\ DOMAIN f = D
  BY FS_RemoveElement
<1> DEFINE g == [s \in SUBSET U |-> h[s]]
<1>3. \A s \in SUBSET U : s \in SUBSET D /\ g[s] = h[s] /\ \A y \in s : s \ {y} \in SUBSET U /\ e[y] = f[y]
  OBVIOUS
<1>4. /\ h \in [SUBSET D -> Nat] /\ h[{}] = 0
      /\ \A s \in SUBSET D : \A y \in s : h[s] = f[y] + h[s \ {y}]
  BY <1>1, <1>2 DEF AddsUp
<1>5. AddsUp(e, g)
  <2>1. g \in [SUBSET U -> Nat]
    BY <1>3, <1>4
  <2>2. g[{}] = 0
    BY <1>3, <1>4
  <2>3. ASSUME NEW s \in SUBSET U, NEW y \in s PROVE g[s] = e[y] + g[s \ {y}]
    <3>1. g[s] = h[s] /\ g[s \ {y}] = h[s \ {y}] /\ e[y] = f[y] /\ s \in SUBSET D
      BY <1>3
    <3> HIDE DEF g, e, U
    <3> QED
      BY <1>4, <3>1
  <2> HIDE DEF g, e, U
  <2> QED
    BY <1>2, <2>1, <2>2, <2>3 DEF AddsUp
<1>6. SumOf(e) = g[U] /\ SumOf(e) \in Nat
  <2> HIDE DEF g, e, U
  <2> QED
    BY <1>2, <1>5, SumIs
<1>7. SumOf(f) = h[D]
  BY <1>1, SumIs
<1>8. h[D] = f[x] + h[U] /\ g[U] = h[U]
  BY <1>3, <1>4
<1>9. Without(f, x) = e
  BY DEF Without
<1> HIDE DEF e, g, U
<1> QED
  BY <1>6, <1>7, <1>8, <1>9

\* The sums of nothing, and of zeros.
LEMMA SumOfNothing ==
    ASSUME NEW f, DOMAIN f = {}, f \in [{} -> Nat]
    PROVE  SumOf(f) = 0
<1>1. IsFiniteSet({})
  BY FS_EmptySet
<1>2. PICK h : AddsUp(f, h)
  BY <1>1, SumExists
<1>3. SumOf(f) = h[{}]
  BY <1>1, <1>2, SumIs
<1> QED
  BY <1>2, <1>3 DEF AddsUp

LEMMA SumOfZeros ==
    ASSUME NEW D, IsFiniteSet(D), NEW f \in [D -> Nat], \A x \in D : f[x] = 0
    PROVE  SumOf(f) = 0
<1> DEFINE z == [s \in SUBSET D |-> 0]
<1>1. z \in [SUBSET D -> Nat] /\ \A s \in SUBSET D : z[s] = 0 /\ \A x \in s : s \ {x} \in SUBSET D
  OBVIOUS
<1> HIDE DEF z
<1>2. AddsUp(f, z)
  BY <1>1 DEF AddsUp
<1>3. SumOf(f) = z[D] /\ D \in SUBSET D
  BY <1>2, SumIs
<1> QED
  BY <1>1, <1>3

\* One summand that grows makes the sum grow by as much.
LEMMA SumBumps ==
    ASSUME NEW D, IsFiniteSet(D), NEW f \in [D -> Nat], NEW g \in [D -> Nat], NEW x \in D, NEW n \in Nat,
           \A y \in D : g[y] = IF y = x THEN f[y] + n ELSE f[y]
    PROVE  SumOf(g) = SumOf(f) + n
<1>1. Without(g, x) = Without(f, x)
  BY DEF Without
<1>2. SumOf(Without(f, x)) \in Nat /\ SumOf(f) = f[x] + SumOf(Without(f, x))
  BY SumTakesOut
<1>3. SumOf(g) = g[x] + SumOf(Without(g, x))
  BY SumTakesOut
<1>4. f[x] \in Nat /\ g[x] = f[x] + n
  OBVIOUS
<1> QED
  BY <1>1, <1>2, <1>3, <1>4

Part(f, A) == [y \in A |-> f[y]]

\* A function adds up over any part of its domain.
LEMMA PartAddsUp ==
    ASSUME NEW D, IsFiniteSet(D), NEW f \in [D -> Nat], NEW h, AddsUp(f, h), NEW A \in SUBSET D
    PROVE  SumOf(Part(f, A)) = h[A] /\ h[A] \in Nat
<1> DEFINE e == Part(f, A)
           g == [s \in SUBSET A |-> h[s]]
<1>1. IsFiniteSet(A) /\ e \in [A -> Nat] /\ DOMAIN e = A /\ DOMAIN f = D
  BY FS_Subset DEF Part
<1>2. /\ h \in [SUBSET D -> Nat] /\ h[{}] = 0
      /\ \A s \in SUBSET D : \A y \in s : h[s] = f[y] + h[s \ {y}]
  BY <1>1 DEF AddsUp
<1>3. \A s \in SUBSET A : s \in SUBSET D /\ g[s] = h[s] /\ \A y \in s : s \ {y} \in SUBSET A /\ e[y] = f[y]
  BY DEF Part
<1>4. g \in [SUBSET A -> Nat] /\ g[{}] = 0
  BY <1>2, <1>3
<1>5. ASSUME NEW s \in SUBSET A, NEW y \in s PROVE g[s] = e[y] + g[s \ {y}]
  <2>1. g[s] = h[s] /\ g[s \ {y}] = h[s \ {y}] /\ e[y] = f[y] /\ s \in SUBSET D
    BY <1>3
  <2> HIDE DEF g, e
  <2> QED
    BY <1>2, <2>1
<1>6. g[A] = h[A] /\ h[A] \in Nat
  BY <1>2
<1> HIDE DEF g, e
<1>7. AddsUp(e, g)
  BY <1>1, <1>4, <1>5 DEF AddsUp
<1>8. SumOf(e) = g[A]
  BY <1>1, <1>7, SumIs
<1> QED
  BY <1>6, <1>8 DEF e

\* What is added up over two parts that share nothing.
LEMMA PartsAddUp ==
    ASSUME NEW D, IsFiniteSet(D), NEW f \in [D -> Nat], NEW A \in SUBSET D, NEW B \in SUBSET D,
           A \cap B = {}
    PROVE  /\ SumOf(Part(f, A)) \in Nat /\ SumOf(Part(f, B)) \in Nat
           /\ SumOf(Part(f, A \cup B)) = SumOf(Part(f, A)) + SumOf(Part(f, B))
<1>1. PICK h : AddsUp(f, h)
  BY SumExists
<1>2. /\ h \in [SUBSET D -> Nat] /\ h[{}] = 0
      /\ \A s \in SUBSET D : \A y \in s : h[s] = f[y] + h[s \ {y}]
  BY <1>1 DEF AddsUp
<1> DEFINE W == {s \in SUBSET B : h[A \cup s] # h[A] + h[s]}
<1>3. W = {}
  <2> SUFFICES ASSUME W # {} PROVE FALSE
    OBVIOUS
  <2>1. PICK s \in W : \A x \in s : s \ {x} \notin W
    <3>1. W \in SUBSET SUBSET B /\ IsFiniteSet(B)
      BY FS_Subset
    <3> HIDE DEF W
    <3> QED
      BY <3>1, LeastPart
  <2>2. s \in SUBSET B /\ h[A \cup s] # h[A] + h[s]
    OBVIOUS
  <2>3. h[A] \in Nat /\ h[s] \in Nat
    BY <1>2, <2>2
  <2>4. CASE s = {}
    <3>1. A \cup s = A
      BY <2>4
    <3>2. h[s] = 0
      BY <1>2, <2>4
    <3> HIDE DEF W
    <3> QED
      BY <2>2, <2>3, <3>1, <3>2
  <2>5. ASSUME NEW x \in s PROVE FALSE
    <3>1. s \ {x} \in SUBSET B /\ h[A \cup (s \ {x})] = h[A] + h[s \ {x}]
      BY <2>1, <2>2
    <3>2. (A \cup s) \ {x} = A \cup (s \ {x}) /\ x \in A \cup s /\ A \cup s \in SUBSET D
      BY <2>2
    <3>3. h[A \cup s] = f[x] + h[(A \cup s) \ {x}]
      BY <1>2, <3>2
    <3>4. s \in SUBSET D /\ h[s] = f[x] + h[s \ {x}] /\ h[s \ {x}] \in Nat /\ f[x] \in Nat
      BY <1>2, <2>2
    <3> HIDE DEF W
    <3>5. h[A \cup s] = f[x] + (h[A] + h[s \ {x}])
      BY <3>1, <3>2, <3>3
    <3>6. h[A \cup s] = h[A] + h[s]
      BY <2>3, <3>4, <3>5
    <3> QED
      BY <2>2, <3>6
  <2> QED
    BY <2>4, <2>5
<1>4. h[A \cup B] = h[A] + h[B]
  BY <1>3
<1>5. A \cup B \in SUBSET D
  OBVIOUS
<1>6. /\ SumOf(Part(f, A)) = h[A] /\ h[A] \in Nat
      /\ SumOf(Part(f, B)) = h[B] /\ h[B] \in Nat
      /\ SumOf(Part(f, A \cup B)) = h[A \cup B]
  BY <1>1, <1>5, PartAddsUp
<1> QED
  BY <1>4, <1>6

\* The sums of f over the classes of g.
Classes(f, g, S) == [x \in S |-> SumOf(Part(f, {y \in DOMAIN f : g[y] = x}))]

\* Adding up over the classes, and then the classes, is adding up.
LEMMA ClassesAddUp ==
    ASSUME NEW D, IsFiniteSet(D), NEW f \in [D -> Nat], NEW S, IsFiniteSet(S),
           NEW g, \A y \in D : g[y] \in S
    PROVE  Classes(f, g, S) \in [S -> Nat] /\ SumOf(Classes(f, g, S)) = SumOf(f)
<1> DEFINE k == Classes(f, g, S)
           Over(s) == {y \in D : g[y] \in s}
           One(x) == {y \in D : g[y] = x}
           h == [s \in SUBSET S |-> SumOf(Part(f, Over(s)))]
<1>1. \A A \in SUBSET D : SumOf(Part(f, A)) \in Nat
  BY SumExists, PartAddsUp
<1>2. DOMAIN k = S /\ \A x \in S : One(x) \in SUBSET D /\ k[x] = SumOf(Part(f, One(x)))
  BY DEF Classes
<1>3. k \in [S -> Nat]
  BY <1>1 DEF Classes
<1>4. h \in [SUBSET S -> Nat] /\ \A s \in SUBSET S : h[s] = SumOf(Part(f, Over(s)))
  BY <1>1
<1>5. h[{}] = 0
  <2>1. Over({}) = {} /\ DOMAIN Part(f, {}) = {} /\ Part(f, {}) \in [{} -> Nat]
    BY DEF Part
  <2>2. SumOf(Part(f, {})) = 0
    BY <2>1, SumOfNothing
  <2> QED
    BY <1>4, <2>1, <2>2
<1>6. ASSUME NEW s \in SUBSET S, NEW x \in s PROVE h[s] = k[x] + h[s \ {x}]
  <2>1. Over(s) = One(x) \cup Over(s \ {x}) /\ One(x) \cap Over(s \ {x}) = {}
    OBVIOUS
  <2>2. One(x) \in SUBSET D /\ Over(s \ {x}) \in SUBSET D /\ s \ {x} \in SUBSET S
    OBVIOUS
  <2>3. k[x] = SumOf(Part(f, One(x))) /\ h[s] = SumOf(Part(f, Over(s)))
        /\ h[s \ {x}] = SumOf(Part(f, Over(s \ {x})))
    BY <1>2, <1>4, <2>2
  <2> DEFINE A == One(x)
             B == Over(s \ {x})
  <2> HIDE DEF Over, One, h, k
  <2>4. A \in SUBSET D /\ B \in SUBSET D /\ A \cap B = {}
    BY <2>1, <2>2
  <2> HIDE DEF A, B
  <2>5. SumOf(Part(f, A \cup B)) = SumOf(Part(f, A)) + SumOf(Part(f, B))
    BY <2>4, PartsAddUp, SMTT(20)
  <2> QED
    BY <2>1, <2>3, <2>5 DEF A, B
<1>7. h[S] = SumOf(f)
  <2>1. Over(S) = D /\ Part(f, D) = f /\ S \in SUBSET S
    BY DEF Part
  <2> HIDE DEF Over, h
  <2> QED
    BY <1>4, <2>1
<1> HIDE DEF h, k, Over, One
<1>8. AddsUp(k, h)
  BY <1>2, <1>4, <1>5, <1>6 DEF AddsUp
<1>9. SumOf(k) = h[S]
  BY <1>3, <1>8, SumIs
<1> QED
  BY <1>3, <1>7, <1>9 DEF k

-----------------------------------------------------------------------------
(* Sums of buckets.                                                        *)

Pick(s) == CHOOSE x \in s : TRUE

\* h adds up f over D, one argument at a time, as MapThenSumSet does.
Iterates(D, f, h) ==
    h = [s \in SUBSET D |->
            IF s = {} THEN 0
            ELSE f[Pick(s)] + h[s \ {Pick(s)}]]

\* The iteration of the community module ends in the sum.
LEMMA IteratedSum ==
    ASSUME NEW D, IsFiniteSet(D), NEW f \in [D -> Nat]
    PROVE  /\ \E h : Iterates(D, f, h) /\ h \in [SUBSET D -> Nat]
           /\ \A h : Iterates(D, f, h) => h[D] = SumOf(f)
<1>1. PICK g : AddsUp(f, g)
  BY SumExists
<1>2. DOMAIN f = D /\ D \in SUBSET D /\ SumOf(f) = g[D]
  BY <1>1, SumIs
<1>3. /\ g \in [SUBSET D -> Nat] /\ g[{}] = 0
      /\ \A s \in SUBSET D : \A x \in s : g[s] = f[x] + g[s \ {x}]
  BY <1>1, <1>2 DEF AddsUp
<1>4. \A s : s # {} => Pick(s) \in s
  BY DEF Pick
<1>5. Iterates(D, f, g)
  <2>1. ASSUME NEW s \in SUBSET D
        PROVE  g[s] = IF s = {} THEN 0
                      ELSE f[Pick(s)] + g[s \ {Pick(s)}]
    BY <1>3, <1>4
  <2>2. g = [s \in SUBSET D |-> g[s]]
    BY <1>3
  <2> QED
    BY <1>2, <2>1, <2>2 DEF Iterates
<1>6. ASSUME NEW h, Iterates(D, f, h) PROVE h[D] = SumOf(f)
  <2>0. \A s \in SUBSET D :
            h[s] = IF s = {} THEN 0
                   ELSE f[Pick(s)] + h[s \ {Pick(s)}]
    BY <1>2, <1>6 DEF Iterates
  <2>1. BuildsUp(f, h)
    <3>1. h[{}] = 0
      BY <2>0
    <3>2. \A s \in SUBSET D : s # {} => \E x \in s : h[s] = f[x] + h[s \ {x}]
      BY <1>4, <2>0
    <3> QED
      BY <1>2, <3>1, <3>2 DEF BuildsUp
  <2>2. \A s \in SUBSET D : h[s] = g[s]
    BY <1>1, <1>2, <2>1, SumUnique
  <2> QED
    BY <1>2, <2>2
<1> QED
  BY <1>3, <1>5, <1>6

Cache(b)    == [d \in DOMAIN b |-> b[d].cache]
Io(b)       == [d \in DOMAIN b |-> b[d].io]
Messages(b) == [d \in DOMAIN b |-> b[d].messages]

BucketSum(b) ==
    [cache |-> SumOf(Cache(b)), io |-> SumOf(Io(b)), messages |-> SumOf(Messages(b))]

\* The three fields of a sum of buckets.
LEMMA CacheSum ==
    ASSUME NEW D, IsFiniteSet(D), NEW b, \A d \in D : b[d].cache \in Nat
    PROVE  Claude!MapThenSumSet(LAMBDA d : b[d].cache, D) = SumOf([d \in D |-> b[d].cache])
<1> DEFINE f == [d \in D |-> b[d].cache]
           F(h) == h = [s \in SUBSET D |->
                           IF s = {} THEN 0
                           ELSE b[Pick(s)].cache + h[s \ {Pick(s)}]]
           iter == CHOOSE h : F(h)
<1>1. Claude!MapThenSumSet(LAMBDA d : b[d].cache, D) = iter[D]
  BY DEF Claude!MapThenSumSet, Claude!MapThenFoldSet, Pick
<1>2. f \in [D -> Nat] /\ DOMAIN f = D /\ \A d \in D : f[d] = b[d].cache
  OBVIOUS
<1>3. ASSUME NEW h PROVE Iterates(D, f, h) <=> F(h)
  <2>1. \A s \in SUBSET D : s # {} => Pick(s) \in D
    BY DEF Pick
  <2>2. \A s \in SUBSET D : s # {} => f[Pick(s)] = b[Pick(s)].cache
    BY <2>1
  <2>3. [s \in SUBSET D |-> IF s = {} THEN 0 ELSE f[Pick(s)] + h[s \ {Pick(s)}]]
        = [s \in SUBSET D |-> IF s = {} THEN 0 ELSE b[Pick(s)].cache + h[s \ {Pick(s)}]]
    BY <2>2
  <2> HIDE DEF f
  <2> QED
    BY <2>3 DEF Iterates
<1> HIDE DEF f, F
<1>4. \E h : F(h)
  BY <1>2, <1>3, IteratedSum
<1>5. F(iter)
  BY <1>4
<1> HIDE DEF iter
<1>6. iter[D] = SumOf(f)
  BY <1>2, <1>3, <1>5, IteratedSum
<1> QED
  BY <1>1, <1>6 DEF f

LEMMA IoSum ==
    ASSUME NEW D, IsFiniteSet(D), NEW b, \A d \in D : b[d].io \in Nat
    PROVE  Claude!MapThenSumSet(LAMBDA d : b[d].io, D) = SumOf([d \in D |-> b[d].io])
<1> DEFINE f == [d \in D |-> b[d].io]
           F(h) == h = [s \in SUBSET D |->
                           IF s = {} THEN 0
                           ELSE b[Pick(s)].io + h[s \ {Pick(s)}]]
           iter == CHOOSE h : F(h)
<1>1. Claude!MapThenSumSet(LAMBDA d : b[d].io, D) = iter[D]
  BY DEF Claude!MapThenSumSet, Claude!MapThenFoldSet, Pick
<1>2. f \in [D -> Nat] /\ DOMAIN f = D /\ \A d \in D : f[d] = b[d].io
  OBVIOUS
<1>3. ASSUME NEW h PROVE Iterates(D, f, h) <=> F(h)
  <2>1. \A s \in SUBSET D : s # {} => Pick(s) \in D
    BY DEF Pick
  <2>2. \A s \in SUBSET D : s # {} => f[Pick(s)] = b[Pick(s)].io
    BY <2>1
  <2>3. [s \in SUBSET D |-> IF s = {} THEN 0 ELSE f[Pick(s)] + h[s \ {Pick(s)}]]
        = [s \in SUBSET D |-> IF s = {} THEN 0 ELSE b[Pick(s)].io + h[s \ {Pick(s)}]]
    BY <2>2
  <2> HIDE DEF f
  <2> QED
    BY <2>3 DEF Iterates
<1> HIDE DEF f, F
<1>4. \E h : F(h)
  BY <1>2, <1>3, IteratedSum
<1>5. F(iter)
  BY <1>4
<1> HIDE DEF iter
<1>6. iter[D] = SumOf(f)
  BY <1>2, <1>3, <1>5, IteratedSum
<1> QED
  BY <1>1, <1>6 DEF f

LEMMA MessagesSum ==
    ASSUME NEW D, IsFiniteSet(D), NEW b, \A d \in D : b[d].messages \in Nat
    PROVE  Claude!MapThenSumSet(LAMBDA d : b[d].messages, D) = SumOf([d \in D |-> b[d].messages])
<1> DEFINE f == [d \in D |-> b[d].messages]
           F(h) == h = [s \in SUBSET D |->
                           IF s = {} THEN 0
                           ELSE b[Pick(s)].messages + h[s \ {Pick(s)}]]
           iter == CHOOSE h : F(h)
<1>1. Claude!MapThenSumSet(LAMBDA d : b[d].messages, D) = iter[D]
  BY DEF Claude!MapThenSumSet, Claude!MapThenFoldSet, Pick
<1>2. f \in [D -> Nat] /\ DOMAIN f = D /\ \A d \in D : f[d] = b[d].messages
  OBVIOUS
<1>3. ASSUME NEW h PROVE Iterates(D, f, h) <=> F(h)
  <2>1. \A s \in SUBSET D : s # {} => Pick(s) \in D
    BY DEF Pick
  <2>2. \A s \in SUBSET D : s # {} => f[Pick(s)] = b[Pick(s)].messages
    BY <2>1
  <2>3. [s \in SUBSET D |-> IF s = {} THEN 0 ELSE f[Pick(s)] + h[s \ {Pick(s)}]]
        = [s \in SUBSET D |-> IF s = {} THEN 0 ELSE b[Pick(s)].messages + h[s \ {Pick(s)}]]
    BY <2>2
  <2> HIDE DEF f
  <2> QED
    BY <2>3 DEF Iterates
<1> HIDE DEF f, F
<1>4. \E h : F(h)
  BY <1>2, <1>3, IteratedSum
<1>5. F(iter)
  BY <1>4
<1> HIDE DEF iter
<1>6. iter[D] = SumOf(f)
  BY <1>2, <1>3, <1>5, IteratedSum
<1> QED
  BY <1>1, <1>6 DEF f

\* A bucket is summed field by field.
LEMMA BucketParts ==
    ASSUME NEW b, NEW A \in SUBSET DOMAIN b
    PROVE  /\ Cache(Part(b, A)) = Part(Cache(b), A)
           /\ Io(Part(b, A)) = Part(Io(b), A)
           /\ Messages(Part(b, A)) = Part(Messages(b), A)
BY DEF Cache, Io, Messages, Part

LEMMA BucketFields ==
    ASSUME NEW D, NEW b \in [D -> Claude!Bucket]
    PROVE  /\ Cache(b) \in [D -> Nat] /\ Io(b) \in [D -> Nat] /\ Messages(b) \in [D -> Nat]
           /\ DOMAIN b = D
           /\ \A d \in D : /\ b[d] \in Claude!Bucket
                           /\ b[d].cache \in Nat /\ b[d].io \in Nat /\ b[d].messages \in Nat
                           /\ Cache(b)[d] = b[d].cache /\ Io(b)[d] = b[d].io
                           /\ Messages(b)[d] = b[d].messages
BY DEF Cache, Io, Messages, Claude!Bucket

\* Sum, over any part of the buckets.
LEMMA BucketSumIs ==
    ASSUME NEW E, NEW b \in [E -> Claude!Bucket], NEW D \in SUBSET E, IsFiniteSet(D)
    PROVE  /\ Claude!Sum(b, D) = BucketSum(Part(b, D))
           /\ BucketSum(Part(b, D)) \in Claude!Bucket
<1>1. /\ \A d \in D : b[d].cache \in Nat /\ b[d].io \in Nat /\ b[d].messages \in Nat
      /\ DOMAIN b = E
  BY BucketFields
<1>2. /\ Claude!MapThenSumSet(LAMBDA d : b[d].cache, D) = SumOf([d \in D |-> b[d].cache])
      /\ Claude!MapThenSumSet(LAMBDA d : b[d].io, D) = SumOf([d \in D |-> b[d].io])
      /\ Claude!MapThenSumSet(LAMBDA d : b[d].messages, D) = SumOf([d \in D |-> b[d].messages])
  BY <1>1, CacheSum, IoSum, MessagesSum
<1>3. /\ Cache(Part(b, D)) = [d \in D |-> b[d].cache]
      /\ Io(Part(b, D)) = [d \in D |-> b[d].io]
      /\ Messages(Part(b, D)) = [d \in D |-> b[d].messages]
  BY DEF Cache, Io, Messages, Part
<1>4. /\ [d \in D |-> b[d].cache] \in [D -> Nat] /\ [d \in D |-> b[d].io] \in [D -> Nat]
      /\ [d \in D |-> b[d].messages] \in [D -> Nat]
  BY <1>1
<1>5. /\ SumOf(Cache(Part(b, D))) \in Nat /\ SumOf(Io(Part(b, D))) \in Nat
      /\ SumOf(Messages(Part(b, D))) \in Nat
  <2> DEFINE c == [d \in D |-> b[d].cache]
             i == [d \in D |-> b[d].io]
             m == [d \in D |-> b[d].messages]
  <2>1. c \in [D -> Nat] /\ i \in [D -> Nat] /\ m \in [D -> Nat]
    BY <1>4
  <2> HIDE DEF c, i, m
  <2>2. SumOf(c) \in Nat /\ SumOf(i) \in Nat /\ SumOf(m) \in Nat
    BY <2>1, SumIs
  <2> QED
    BY <1>3, <2>2 DEF c, i, m
<1>6. Claude!Sum(b, D) = BucketSum(Part(b, D))
  BY <1>2, <1>3 DEF Claude!Sum, BucketSum
<1> QED
  BY <1>5, <1>6 DEF BucketSum, Claude!Bucket

\* Two parts that share nothing.
LEMMA BucketsAddUp ==
    ASSUME NEW D, IsFiniteSet(D), NEW b \in [D -> Claude!Bucket],
           NEW A \in SUBSET D, NEW B \in SUBSET D, A \cap B = {}
    PROVE  BucketSum(Part(b, A \cup B)) =
               Claude!Plus(BucketSum(Part(b, A)), BucketSum(Part(b, B)))
<1>1. /\ Cache(b) \in [D -> Nat] /\ Io(b) \in [D -> Nat] /\ Messages(b) \in [D -> Nat]
      /\ DOMAIN b = D
  BY BucketFields
<1>2. /\ SumOf(Part(Cache(b), A \cup B)) = SumOf(Part(Cache(b), A)) + SumOf(Part(Cache(b), B))
      /\ SumOf(Part(Io(b), A \cup B)) = SumOf(Part(Io(b), A)) + SumOf(Part(Io(b), B))
      /\ SumOf(Part(Messages(b), A \cup B)) =
             SumOf(Part(Messages(b), A)) + SumOf(Part(Messages(b), B))
  BY <1>1, PartsAddUp
<1>3. A \cup B \in SUBSET DOMAIN b /\ A \in SUBSET DOMAIN b /\ B \in SUBSET DOMAIN b
  BY <1>1
<1>4. /\ BucketSum(Part(b, A)) = [cache |-> SumOf(Part(Cache(b), A)), io |-> SumOf(Part(Io(b), A)),
                                  messages |-> SumOf(Part(Messages(b), A))]
      /\ BucketSum(Part(b, B)) = [cache |-> SumOf(Part(Cache(b), B)), io |-> SumOf(Part(Io(b), B)),
                                  messages |-> SumOf(Part(Messages(b), B))]
      /\ BucketSum(Part(b, A \cup B)) =
             [cache |-> SumOf(Part(Cache(b), A \cup B)), io |-> SumOf(Part(Io(b), A \cup B)),
              messages |-> SumOf(Part(Messages(b), A \cup B))]
  BY <1>3, BucketParts DEF BucketSum
<1> QED
  BY <1>2, <1>4 DEF Claude!Plus

\* The sums of no bucket, of one number, and of one bucket.
LEMMA NoBuckets ==
    ASSUME NEW b
    PROVE  BucketSum(Part(b, {})) = Claude!Empty
<1>1. /\ DOMAIN Cache(Part(b, {})) = {} /\ Cache(Part(b, {})) \in [{} -> Nat]
      /\ DOMAIN Io(Part(b, {})) = {} /\ Io(Part(b, {})) \in [{} -> Nat]
      /\ DOMAIN Messages(Part(b, {})) = {} /\ Messages(Part(b, {})) \in [{} -> Nat]
  BY DEF Cache, Io, Messages, Part
<1> QED
  BY <1>1, SumOfNothing DEF BucketSum, Claude!Empty

LEMMA SumOfOne ==
    ASSUME NEW f, NEW x, f \in [{x} -> Nat]
    PROVE  SumOf(f) = f[x]
<1>1. IsFiniteSet({x})
  BY FS_Singleton
<1>2. PICK h : AddsUp(f, h)
  BY <1>1, SumExists
<1>3. SumOf(f) = h[{x}] /\ DOMAIN f = {x}
  BY <1>1, <1>2, SumIs
<1>4. h[{x}] = f[x] + h[{x} \ {x}] /\ h[{}] = 0 /\ {x} \ {x} = {} /\ f[x] \in Nat
  BY <1>2, <1>3 DEF AddsUp
<1> QED
  BY <1>3, <1>4

LEMMA OneBucket ==
    ASSUME NEW D, NEW b \in [D -> Claude!Bucket], NEW x \in D
    PROVE  BucketSum(Part(b, {x})) = b[x]
<1>1. /\ Cache(Part(b, {x})) \in [{x} -> Nat] /\ Cache(Part(b, {x}))[x] = b[x].cache
      /\ Io(Part(b, {x})) \in [{x} -> Nat] /\ Io(Part(b, {x}))[x] = b[x].io
      /\ Messages(Part(b, {x})) \in [{x} -> Nat] /\ Messages(Part(b, {x}))[x] = b[x].messages
  BY DEF Cache, Io, Messages, Part, Claude!Bucket
<1>2. b[x] = [cache |-> b[x].cache, io |-> b[x].io, messages |-> b[x].messages]
  BY DEF Claude!Bucket
<1> QED
  BY <1>1, <1>2, SumOfOne DEF BucketSum

\* The sums over the classes of g, and then the classes.
BucketClasses(b, g, S) == [x \in S |-> BucketSum(Part(b, {y \in DOMAIN b : g[y] = x}))]

\* The sums of the classes of a partition add up to the sum.
LEMMA BucketClassesAddUp ==
    ASSUME NEW D, IsFiniteSet(D), NEW b \in [D -> Claude!Bucket], NEW S, IsFiniteSet(S),
           NEW g, \A y \in D : g[y] \in S
    PROVE  /\ BucketClasses(b, g, S) \in [S -> Claude!Bucket]
           /\ BucketSum(BucketClasses(b, g, S)) = BucketSum(b)
<1> DEFINE k == BucketClasses(b, g, S)
           One(x) == {y \in D : g[y] = x}
<1>1. /\ Cache(b) \in [D -> Nat] /\ Io(b) \in [D -> Nat] /\ Messages(b) \in [D -> Nat]
      /\ DOMAIN b = D
  BY BucketFields
<1>2. ASSUME NEW x \in S
      PROVE  /\ k[x] \in Claude!Bucket
             /\ k[x].cache = SumOf(Part(Cache(b), One(x)))
             /\ k[x].io = SumOf(Part(Io(b), One(x)))
             /\ k[x].messages = SumOf(Part(Messages(b), One(x)))
  <2>1. One(x) \in SUBSET DOMAIN b /\ k[x] = BucketSum(Part(b, One(x)))
    BY <1>1 DEF BucketClasses
  <2>2. IsFiniteSet(One(x)) /\ One(x) \in SUBSET D
    BY FS_Subset
  <2> HIDE DEF k, One
  <2>3. k[x] \in Claude!Bucket
    BY <2>1, <2>2, BucketSumIs
  <2> QED
    BY <2>1, <2>3, BucketParts DEF BucketSum
<1>3. DOMAIN k = S /\ k = [x \in S |-> k[x]]
  BY DEF BucketClasses
<1>4. k \in [S -> Claude!Bucket]
  <2> HIDE DEF k
  <2> QED
    BY <1>2, <1>3
<1>5. /\ Cache(k) = Classes(Cache(b), g, S) /\ Io(k) = Classes(Io(b), g, S)
      /\ Messages(k) = Classes(Messages(b), g, S)
  <2>1. DOMAIN Cache(b) = D /\ DOMAIN Io(b) = D /\ DOMAIN Messages(b) = D
    BY <1>1
  <2> HIDE DEF k
  <2>2. Cache(k) = Classes(Cache(b), g, S)
    BY <1>2, <1>3, <2>1 DEF Cache, Classes
  <2>3. Io(k) = Classes(Io(b), g, S)
    BY <1>2, <1>3, <2>1 DEF Io, Classes
  <2>4. Messages(k) = Classes(Messages(b), g, S)
    BY <1>2, <1>3, <2>1 DEF Messages, Classes
  <2> QED
    BY <2>2, <2>3, <2>4
<1>6. /\ SumOf(Classes(Cache(b), g, S)) = SumOf(Cache(b))
      /\ SumOf(Classes(Io(b), g, S)) = SumOf(Io(b))
      /\ SumOf(Classes(Messages(b), g, S)) = SumOf(Messages(b))
  BY <1>1, ClassesAddUp
<1> HIDE DEF k
<1>7. BucketSum(k) = BucketSum(b)
  BY <1>5, <1>6 DEF BucketSum
<1> QED
  BY <1>4, <1>7 DEF k

-----------------------------------------------------------------------------
(* What a claude stream charges.                                           *)

EntrySet == {l.entry : l \in Lines}

\* e is b with one more position.
Grows(b, D, x, e) ==
    /\ IsFiniteSet(D) /\ b \in [D -> Claude!Bucket]
    /\ x \notin D /\ e \in [D \cup {x} -> Claude!Bucket] /\ \A y \in D : e[y] = b[y]

\* The sums grow by what it brings.
LEMMA BucketGrows ==
    ASSUME NEW b, NEW D, NEW x, NEW e, Grows(b, D, x, e), NEW A, A \subseteq D
    PROVE  /\ Part(e, A) = Part(b, A)
           /\ BucketSum(Part(e, A \cup {x})) = Claude!Plus(BucketSum(Part(b, A)), e[x])
<1>0. /\ IsFiniteSet(D) /\ b \in [D -> Claude!Bucket]
      /\ x \notin D /\ e \in [D \cup {x} -> Claude!Bucket] /\ \A y \in D : e[y] = b[y]
  BY DEF Grows
<1>1. Part(e, A) = Part(b, A)
  BY <1>0 DEF Part
<1>2. IsFiniteSet(D \cup {x})
  BY <1>0, FS_AddElement
<1>3. A \in SUBSET (D \cup {x}) /\ {x} \in SUBSET (D \cup {x}) /\ A \cap {x} = {} /\ x \in D \cup {x}
  BY <1>0
<1> DEFINE E == D \cup {x}
           X == {x}
<1>4. IsFiniteSet(E) /\ e \in [E -> Claude!Bucket] /\ A \in SUBSET E /\ X \in SUBSET E
      /\ A \cap X = {} /\ x \in E
  BY <1>0, <1>2, <1>3
<1> HIDE DEF E, X
<1>5. BucketSum(Part(e, A \cup X)) = Claude!Plus(BucketSum(Part(e, A)), BucketSum(Part(e, X)))
  BY <1>4, BucketsAddUp
<1>6. BucketSum(Part(e, {x})) = e[x]
  BY <1>4, OneBucket
<1> QED
  BY <1>1, <1>5, <1>6 DEF X

\* What each response of R that a reader of the whole of it charges spent.
SpentIn(R) == [i \in Claude!FirstCopies(R) |-> Claude!Spent(R[i])]

WithUsage(R) == {i \in 1 .. Len(R) : Claude!HasUsage(R[i])}
KeysOf(R)    == {Claude!BillingKey(R[i]) : i \in WithUsage(R)}

OnBranch(R, b) == {i \in Claude!FirstCopies(R) : R[i].branch = b}
InCwd(R, c)    == {i \in Claude!FirstCopies(R) : R[i].branch = Claude!Detached /\ R[i].cwd = c}

UsageInv(R, keys, sum, branches, cwds) ==
    /\ keys = KeysOf(R) \ {Claude!None}
    /\ sum = BucketSum(SpentIn(R))
    /\ branches = [b \in Claude!Branches |-> BucketSum(Part(SpentIn(R), OnBranch(R, b)))]
    /\ cwds = [c \in Claude!Cwds |-> BucketSum(Part(SpentIn(R), InCwd(R, c)))]

\* What a record has in the places that the parser reads.
LEMMA EntryShape ==
    ASSUME NEW r \in EntrySet
    PROVE  /\ Claude!IsWellFormed(r)
           /\ Claude!HasUsage(r) => Claude!Spent(r) \in Claude!Bucket
           /\ Claude!IsEntry(r) => /\ r.branch \in Claude!Branches /\ r.cwd \in Claude!Cwds
                                   /\ r.request \in Claude!Keys /\ r.message \in Claude!Keys
<1>1. Claude!IsWellFormed(r)
  BY LinesAssumption DEF EntrySet
<1>2. Claude!HasUsage(r) => Claude!Spent(r) \in Claude!Bucket
  BY <1>1 DEF Claude!IsWellFormed, Claude!HasUsage, Claude!Spent, Claude!Bucket
<1>3. Claude!IsEntry(r) => r \in Claude!AllEntries
  BY DEF EntrySet, Claude!AllEntries
<1> QED
  BY <1>1, <1>2, <1>3 DEF Claude!Branches, Claude!Cwds, Claude!Keys

\* The image of a finite set, and the branches and cwds of the records.
LEMMA ImageIsFinite ==
    ASSUME NEW S, IsFiniteSet(S), NEW f, DOMAIN f = S
    PROVE  IsFiniteSet({f[x] : x \in S})
<1> DEFINE T == {f[x] : x \in S}
           g == [x \in S |-> f[x]]
<1>1. g \in Surjection(S, T)
  BY DEF Surjection
<1> QED
  BY <1>1, FS_Surjection

LEMMA BranchesAreFinite == IsFiniteSet(Claude!Branches) /\ IsFiniteSet(Claude!Cwds)
<1> DEFINE entry == [l \in Lines |-> l.entry]
           branch == [r \in EntrySet |-> r.branch]
           cwd == [r \in EntrySet |-> r.cwd]
           B == {branch[r] : r \in EntrySet}
           C == {cwd[r] : r \in EntrySet}
<1>1. IsFiniteSet(EntrySet)
  <2>1. IsFiniteSet({entry[l] : l \in Lines})
    BY LinesAssumption, ImageIsFinite
  <2> QED
    BY <2>1 DEF EntrySet
<1>2. IsFiniteSet(B) /\ IsFiniteSet(C)
  BY <1>1, ImageIsFinite
<1>3. Claude!AllEntries \subseteq EntrySet
  BY DEF Claude!AllEntries, EntrySet
<1>4. IsFiniteSet({Claude!Unstated, Claude!Detached})
  <2>1. IsFiniteSet({Claude!Unstated}) /\ IsFiniteSet({Claude!Unstated} \cup {Claude!Detached})
    BY FS_Singleton, FS_AddElement
  <2>2. {Claude!Unstated, Claude!Detached} = {Claude!Unstated} \cup {Claude!Detached}
    OBVIOUS
  <2> QED
    BY <2>1, <2>2
<1>5. /\ Claude!Branches \subseteq B \cup {Claude!Unstated, Claude!Detached}
      /\ Claude!Cwds \subseteq C \cup {Claude!Unstated, Claude!Detached}
  BY <1>3 DEF Claude!Branches, Claude!Cwds
<1> HIDE DEF B, C
<1>6. /\ IsFiniteSet(B \cup {Claude!Unstated, Claude!Detached})
      /\ IsFiniteSet(C \cup {Claude!Unstated, Claude!Detached})
  BY <1>2, <1>4, FS_Union
<1> QED
  BY <1>5, <1>6, FS_Subset

\* The copies that are charged are finitely many, each with what it spent.
LEMMA CopiesAre ==
    ASSUME NEW R \in Seq(EntrySet)
    PROVE  /\ Claude!FirstCopies(R) \subseteq 1 .. Len(R) /\ IsFiniteSet(Claude!FirstCopies(R))
           /\ Len(R) \in Nat /\ \A i \in 1 .. Len(R) : R[i] \in EntrySet
           /\ SpentIn(R) \in [Claude!FirstCopies(R) -> Claude!Bucket]
           /\ \A i \in Claude!FirstCopies(R) : Claude!HasUsage(R[i]) /\ Claude!IsEntry(R[i])
<1>1. /\ Len(R) \in Nat /\ \A i \in 1 .. Len(R) : R[i] \in EntrySet
      /\ DOMAIN R = 1 .. Len(R)
  OBVIOUS
<1>2. Claude!FirstCopies(R) \subseteq 1 .. Len(R)
  BY <1>1 DEF Claude!FirstCopies
<1>3. IsFiniteSet(Claude!FirstCopies(R))
  <2>1. IsFiniteSet(1 .. Len(R))
    BY <1>1, FS_Interval
  <2> QED
    BY <1>2, <2>1, FS_Subset
<1>4. \A i \in Claude!FirstCopies(R) : Claude!HasUsage(R[i]) /\ Claude!IsEntry(R[i])
  BY DEF Claude!FirstCopies, Claude!HasUsage
<1>5. \A i \in Claude!FirstCopies(R) : Claude!Spent(R[i]) \in Claude!Bucket
  BY <1>1, <1>2, <1>4, EntryShape
<1> QED
  BY <1>1, <1>2, <1>3, <1>4, <1>5 DEF SpentIn

\* A record brings a first copy if and only if its key was not seen.
LEMMA CopiesOfAppend ==
    ASSUME NEW R \in Seq(EntrySet), NEW r \in EntrySet
    PROVE  /\ WithUsage(Append(R, r)) =
                  IF Claude!HasUsage(r) THEN WithUsage(R) \cup {Len(R) + 1} ELSE WithUsage(R)
           /\ Claude!FirstCopies(Append(R, r)) =
                  IF Claude!HasUsage(r) /\ Claude!BillingKey(r) \notin KeysOf(R) \ {Claude!None}
                  THEN Claude!FirstCopies(R) \cup {Len(R) + 1} ELSE Claude!FirstCopies(R)
<1> DEFINE Q == Append(R, r)
           n == Len(R)
           First(i) == /\ Claude!HasUsage(Q[i])
                       /\ \/ Claude!BillingKey(Q[i]) = Claude!None
                          \/ \A j \in 1 .. i - 1 :
                                Claude!HasUsage(Q[j]) =>
                                    Claude!BillingKey(Q[j]) # Claude!BillingKey(Q[i])
<1>1. /\ n \in Nat /\ Len(Q) = n + 1 /\ Q[n + 1] = r /\ \A i \in 1 .. n : Q[i] = R[i]
      /\ DOMAIN R = 1 .. n /\ DOMAIN Q = 1 .. n + 1
  OBVIOUS
<1> HIDE DEF Q
<1>2. 1 .. n + 1 = (1 .. n) \cup {n + 1} /\ n + 1 \notin 1 .. n /\ (n + 1) - 1 = n
  BY <1>1
<1>3. WithUsage(Q) = IF Claude!HasUsage(r) THEN WithUsage(R) \cup {n + 1} ELSE WithUsage(R)
  BY <1>1, <1>2 DEF WithUsage
<1>4. \A i \in 1 .. n : 1 .. i - 1 \subseteq 1 .. n
  BY <1>1
<1>5. \A i \in 1 .. n : First(i) <=> i \in Claude!FirstCopies(R)
  BY <1>1, <1>4 DEF Claude!FirstCopies
<1>6. First(n + 1) <=> Claude!HasUsage(r) /\ Claude!BillingKey(r) \notin KeysOf(R) \ {Claude!None}
  BY <1>1, <1>2 DEF KeysOf, WithUsage
<1>7. Claude!FirstCopies(Q) = {i \in 1 .. n + 1 : First(i)}
  BY <1>1 DEF Claude!FirstCopies
<1>8. Claude!FirstCopies(R) \subseteq 1 .. n
  BY <1>1 DEF Claude!FirstCopies
<1> HIDE DEF First
<1>9. Claude!FirstCopies(Q) =
          IF First(n + 1) THEN Claude!FirstCopies(R) \cup {n + 1} ELSE Claude!FirstCopies(R)
  BY <1>2, <1>5, <1>7, <1>8
<1> QED
  BY <1>3, <1>6, <1>9 DEF Q

\* A record that charges nothing leaves the books as they are.
LEMMA NothingCharged ==
    ASSUME NEW R \in Seq(EntrySet), NEW r \in EntrySet,
           ~Claude!HasUsage(r) \/ Claude!BillingKey(r) \in KeysOf(R) \ {Claude!None},
           NEW keys, NEW sum, NEW branches, NEW cwds, UsageInv(R, keys, sum, branches, cwds)
    PROVE  UsageInv(Append(R, r), keys, sum, branches, cwds)
<1> DEFINE Q == Append(R, r)
           F == Claude!FirstCopies(R)
<1>1. /\ Len(R) \in Nat /\ \A i \in 1 .. Len(R) : Q[i] = R[i]
      /\ F \subseteq 1 .. Len(R) /\ Q[Len(R) + 1] = r
  BY CopiesAre
<1>2. Claude!FirstCopies(Q) = F
  BY CopiesOfAppend
<1>3. KeysOf(Q) \ {Claude!None} = KeysOf(R) \ {Claude!None}
  <2>1. WithUsage(Q) = IF Claude!HasUsage(r) THEN WithUsage(R) \cup {Len(R) + 1} ELSE WithUsage(R)
    BY CopiesOfAppend
  <2>2. WithUsage(R) \subseteq 1 .. Len(R)
    BY DEF WithUsage
  <2> QED
    BY <1>1, <2>1, <2>2 DEF KeysOf
<1> HIDE DEF Q
<1>4. SpentIn(Q) = SpentIn(R)
  BY <1>1, <1>2 DEF SpentIn
<1>5. \A b : OnBranch(Q, b) = OnBranch(R, b)
  BY <1>1, <1>2 DEF OnBranch
<1>6. \A c : InCwd(Q, c) = InCwd(R, c)
  BY <1>1, <1>2 DEF InCwd
<1> QED
  BY <1>3, <1>4, <1>5, <1>6 DEF UsageInv, Q

\* A record that charges is booked in the total and where it belongs.
LEMMA RecordCharged ==
    ASSUME NEW R \in Seq(EntrySet), NEW r \in EntrySet,
           Claude!HasUsage(r), Claude!BillingKey(r) \notin KeysOf(R) \ {Claude!None},
           NEW keys, NEW sum, NEW branches, NEW cwds, UsageInv(R, keys, sum, branches, cwds)
    PROVE  UsageInv(Append(R, r),
                    IF Claude!BillingKey(r) # Claude!None THEN keys \cup {Claude!BillingKey(r)} ELSE keys,
                    Claude!Plus(sum, Claude!Spent(r)),
                    [branches EXCEPT ![r.branch] = Claude!Plus(@, Claude!Spent(r))],
                    IF r.branch = Claude!Detached
                    THEN [cwds EXCEPT ![r.cwd] = Claude!Plus(@, Claude!Spent(r))] ELSE cwds)
<1> DEFINE Q == Append(R, r)
           F == Claude!FirstCopies(R)
           x == Len(R) + 1
           v == Claude!Spent(r)
           b == SpentIn(R)
           e == SpentIn(Q)
<1>1. /\ Len(R) \in Nat /\ \A i \in 1 .. Len(R) : Q[i] = R[i]
      /\ F \subseteq 1 .. Len(R) /\ Q[x] = r /\ x \notin 1 .. Len(R) /\ x \notin F
      /\ IsFiniteSet(F) /\ b \in [F -> Claude!Bucket]
  BY CopiesAre
<1>2. Claude!FirstCopies(Q) = F \cup {x}
  BY CopiesOfAppend
<1>3. KeysOf(Q) = KeysOf(R) \cup {Claude!BillingKey(r)}
  <2>1. WithUsage(Q) = WithUsage(R) \cup {x}
    BY CopiesOfAppend
  <2>2. WithUsage(R) \subseteq 1 .. Len(R)
    BY DEF WithUsage
  <2> HIDE DEF Q, x
  <2> QED
    BY <1>1, <2>1, <2>2 DEF KeysOf
<1>4. e \in [F \cup {x} -> Claude!Bucket]
  <2>1. Q \in Seq(EntrySet)
    OBVIOUS
  <2> QED
    BY <1>2, <2>1, CopiesAre
<1> HIDE DEF Q, x, F
<1>5. e[x] = v /\ \A i \in F : e[i] = b[i]
  BY <1>1, <1>2 DEF SpentIn, F
<1> HIDE DEF b, e, v
<1>6. \A A \in SUBSET F : /\ Part(e, A) = Part(b, A)
                          /\ BucketSum(Part(e, A \cup {x})) = Claude!Plus(BucketSum(Part(b, A)), v)
  <2> SUFFICES ASSUME NEW A \in SUBSET F
               PROVE  /\ Part(e, A) = Part(b, A)
                      /\ BucketSum(Part(e, A \cup {x})) = Claude!Plus(BucketSum(Part(b, A)), v)
    OBVIOUS
  <2>1. IsFiniteSet(F) /\ b \in [F -> Claude!Bucket] /\ x \notin F
    BY <1>1
  <2>2. Part(e, A) = Part(b, A) /\ BucketSum(Part(e, A \cup {x})) = Claude!Plus(BucketSum(Part(b, A)), e[x])
    <3>1. Grows(b, F, x, e)
      BY <2>1, <1>4, <1>5 DEF Grows
    <3> QED
      BY <3>1, BucketGrows
  <2> QED
    BY <1>5, <2>2
<1>7. BucketSum(e) = Claude!Plus(sum, v)
  <2>1. Part(e, F \cup {x}) = e /\ Part(b, F) = b
    BY <1>1, <1>4 DEF Part
  <2>2. sum = BucketSum(b)
    BY DEF UsageInv, b
  <2> QED
    BY <1>6, <2>1, <2>2
<1>8. Claude!IsEntry(r) /\ r.branch \in Claude!Branches /\ r.cwd \in Claude!Cwds
  BY EntryShape DEF Claude!HasUsage
<1>9. \A y : /\ OnBranch(R, y) \in SUBSET F
             /\ OnBranch(Q, y) = IF y = r.branch THEN OnBranch(R, y) \cup {x} ELSE OnBranch(R, y)
  BY <1>1, <1>2 DEF OnBranch, F
<1>10. \A y : /\ InCwd(R, y) \in SUBSET F
              /\ InCwd(Q, y) = IF r.branch = Claude!Detached /\ y = r.cwd
                               THEN InCwd(R, y) \cup {x} ELSE InCwd(R, y)
  BY <1>1, <1>2 DEF InCwd, F
<1>11. \A y : BucketSum(Part(e, OnBranch(Q, y))) =
                  IF y = r.branch THEN Claude!Plus(BucketSum(Part(b, OnBranch(R, y))), v)
                  ELSE BucketSum(Part(b, OnBranch(R, y)))
  BY <1>6, <1>9
<1>12. \A y : BucketSum(Part(e, InCwd(Q, y))) =
                  IF r.branch = Claude!Detached /\ y = r.cwd
                  THEN Claude!Plus(BucketSum(Part(b, InCwd(R, y))), v)
                  ELSE BucketSum(Part(b, InCwd(R, y)))
  BY <1>6, <1>10
<1>13. [y \in Claude!Branches |-> BucketSum(Part(e, OnBranch(Q, y)))] =
           [branches EXCEPT ![r.branch] = Claude!Plus(@, v)]
  <2>1. branches = [y \in Claude!Branches |-> BucketSum(Part(b, OnBranch(R, y)))]
    BY DEF UsageInv, b
  <2> QED
    BY <1>8, <1>11, <2>1
<1>14. [y \in Claude!Cwds |-> BucketSum(Part(e, InCwd(Q, y)))] =
           IF r.branch = Claude!Detached THEN [cwds EXCEPT ![r.cwd] = Claude!Plus(@, v)] ELSE cwds
  <2>1. cwds = [y \in Claude!Cwds |-> BucketSum(Part(b, InCwd(R, y)))]
    BY DEF UsageInv, b
  <2> QED
    BY <1>8, <1>12, <2>1
<1>15. keys = KeysOf(R) \ {Claude!None}
  BY DEF UsageInv
<1>16. KeysOf(Q) \ {Claude!None} =
           IF Claude!BillingKey(r) # Claude!None THEN keys \cup {Claude!BillingKey(r)} ELSE keys
  BY <1>3, <1>15
<1> QED
  BY <1>7, <1>13, <1>14, <1>16 DEF UsageInv, Q, e, v

\* One record.
LEMMA UsageStep ==
    ASSUME NEW R \in Seq(EntrySet), NEW r \in EntrySet, Claude!IsEntry(r),
           UsageInv(R, charged, total, byBranch, byCwd), Claude!Account(r)
    PROVE  UsageInv(Append(R, r), charged', total', byBranch', byCwd')
<1>1. charged = KeysOf(R) \ {Claude!None}
  BY DEF UsageInv
<1>2. CASE Claude!Charges(r)
  <2>1. Claude!HasUsage(r) /\ Claude!BillingKey(r) \notin KeysOf(R) \ {Claude!None}
    BY <1>1, <1>2 DEF Claude!Charges
  <2> QED
    BY <1>2, <2>1, RecordCharged DEF Claude!Account, Claude!BooksCwd
<1>3. CASE ~Claude!Charges(r)
  <2>1. ~Claude!HasUsage(r) \/ Claude!BillingKey(r) \in KeysOf(R) \ {Claude!None}
    BY <1>1, <1>3 DEF Claude!Charges
  <2>2. UNCHANGED <<charged, total, byBranch, byCwd>>
    BY <1>3 DEF Claude!Account, Claude!BooksCwd
  <2> QED
    BY <2>1, <2>2, NothingCharged
<1> QED
  BY <1>2, <1>3

\* A malformed line spends nothing.
LEMMA MalformedCharges ==
    ASSUME NEW R \in Seq(EntrySet), NEW r \in EntrySet, ~Claude!IsEntry(r),
           UsageInv(R, charged, total, byBranch, byCwd)
    PROVE  UsageInv(Append(R, r), charged, total, byBranch, byCwd)
<1>1. ~Claude!HasUsage(r)
  BY DEF Claude!HasUsage
<1> QED
  BY <1>1, NothingCharged

\* The books are the sums over the classes of the first copies.
LEMMA BooksAre ==
    ASSUME NEW R \in Seq(EntrySet), UsageInv(R, charged, total, byBranch, byCwd)
    PROVE  LET F == Claude!FirstCopies(R)
               D == OnBranch(R, Claude!Detached)
           IN  /\ byBranch = BucketClasses(SpentIn(R), [i \in F |-> R[i].branch], Claude!Branches)
               /\ byCwd = BucketClasses(Part(SpentIn(R), D), [i \in F |-> R[i].cwd], Claude!Cwds)
<1> DEFINE b == SpentIn(R)
           F == Claude!FirstCopies(R)
           branch == [i \in F |-> R[i].branch]
           cwd == [i \in F |-> R[i].cwd]
           D == OnBranch(R, Claude!Detached)
           d == Part(b, D)
<1>1. b \in [F -> Claude!Bucket]
  BY CopiesAre
<1>2. D \in SUBSET F
  BY DEF OnBranch
<1>3. byBranch = BucketClasses(b, branch, Claude!Branches)
  <2>1. DOMAIN b = F
    BY <1>1
  <2>2. \A y : {i \in F : branch[i] = y} = OnBranch(R, y)
    BY DEF OnBranch
  <2> HIDE DEF branch, F
  <2> QED
    BY <2>1, <2>2 DEF UsageInv, BucketClasses
<1>4. byCwd = BucketClasses(d, cwd, Claude!Cwds)
  <2>1. DOMAIN d = D
    BY DEF Part
  <2>2. \A y : {i \in D : cwd[i] = y} = InCwd(R, y) /\ InCwd(R, y) \subseteq D
    BY DEF InCwd, OnBranch
  <2> HIDE DEF cwd, F, D
  <2>3. \A y : Part(d, InCwd(R, y)) = Part(b, InCwd(R, y))
    BY <2>2 DEF Part
  <2> HIDE DEF d
  <2> QED
    BY <2>1, <2>2, <2>3 DEF UsageInv, BucketClasses
<1> QED
  BY <1>3, <1>4

\* The books split what was charged.
LEMMA BooksSplit ==
    ASSUME NEW R \in Seq(EntrySet), UsageInv(R, charged, total, byBranch, byCwd)
    PROVE  Claude!BucketsPartition
<1> DEFINE b == SpentIn(R)
           F == Claude!FirstCopies(R)
           branch == [i \in F |-> R[i].branch]
           cwd == [i \in F |-> R[i].cwd]
           D == OnBranch(R, Claude!Detached)
           d == Part(b, D)
<1>1. /\ IsFiniteSet(F) /\ b \in [F -> Claude!Bucket]
      /\ \A i \in F : R[i].branch \in Claude!Branches /\ R[i].cwd \in Claude!Cwds
  BY CopiesAre, EntryShape
<1>2. D \in SUBSET F /\ d \in [D -> Claude!Bucket] /\ IsFiniteSet(D)
  BY <1>1, FS_Subset DEF OnBranch, Part
<1>3. byBranch = BucketClasses(b, branch, Claude!Branches) /\ byCwd = BucketClasses(d, cwd, Claude!Cwds)
  BY BooksAre
<1>5. total = BucketSum(b) /\ byBranch[Claude!Detached] = BucketSum(d)
  BY DEF UsageInv, Claude!Branches
<1>6. \A i \in F : branch[i] \in Claude!Branches
  BY <1>1
<1>7. \A i \in D : cwd[i] \in Claude!Cwds
  BY <1>1, <1>2
<1> HIDE DEF b, F, branch, cwd, D, d
<1>8. byBranch \in [Claude!Branches -> Claude!Bucket] /\ BucketSum(byBranch) = total
  BY <1>1, <1>3, <1>5, <1>6, BranchesAreFinite, BucketClassesAddUp
<1>9. byCwd \in [Claude!Cwds -> Claude!Bucket] /\ BucketSum(byCwd) = byBranch[Claude!Detached]
  BY <1>2, <1>3, <1>5, <1>7, BranchesAreFinite, BucketClassesAddUp
<1>10. /\ Part(byBranch, Claude!Branches) = byBranch /\ DOMAIN byBranch = Claude!Branches
       /\ Part(byCwd, Claude!Cwds) = byCwd /\ DOMAIN byCwd = Claude!Cwds
  BY <1>8, <1>9 DEF Part
<1>11. /\ Claude!Sum(byBranch, Claude!Branches) = BucketSum(byBranch)
       /\ Claude!Sum(byCwd, Claude!Cwds) = BucketSum(byCwd)
  BY <1>8, <1>9, <1>10, BranchesAreFinite, BucketSumIs
<1> QED
  BY <1>8, <1>9, <1>10, <1>11 DEF Claude!BucketsPartition

\* The total is what the reader of the whole charges.
LEMMA TotalIsCharged ==
    ASSUME NEW R \in Seq(EntrySet), NEW keys, NEW sum, NEW branches, NEW cwds,
           UsageInv(R, keys, sum, branches, cwds)
    PROVE  LET copies == Claude!FirstCopies(R)
           IN  sum = Claude!Sum([i \in copies |-> Claude!Spent(R[i])], copies)
<1> DEFINE F == Claude!FirstCopies(R)
           b == SpentIn(R)
<1>1. IsFiniteSet(F) /\ b \in [F -> Claude!Bucket] /\ sum = BucketSum(b)
  BY CopiesAre DEF UsageInv
<1>2. Part(b, F) = b
  BY <1>1 DEF Part
<1> HIDE DEF b, F
<1>3. Claude!Sum(b, F) = sum
  BY <1>1, <1>2, BucketSumIs
<1> QED
  BY <1>3 DEF b, F, SpentIn

-----------------------------------------------------------------------------
(* Folding a sequence from the left.                                       *)

Top(s) == CHOOSE x \in s : \A y \in s : x >= y

\* A segment of the naturals has a greatest member in each part.
LEMMA TopIs ==
    ASSUME NEW n \in Nat, NEW s \in SUBSET (1 .. n), s # {}
    PROVE  Top(s) \in s /\ \A y \in s : Top(s) >= y
<1> DEFINE D == 1 .. n
           W == {T \in SUBSET D : T # {} /\ ~\E x \in T : \A y \in T : x >= y}
<1>1. IsFiniteSet(D)
  BY FS_Interval
<1>2. W = {}
  <2> SUFFICES ASSUME W # {} PROVE FALSE
    OBVIOUS
  <2>1. W \in SUBSET SUBSET D
    OBVIOUS
  <2> HIDE DEF D, W
  <2>2. PICK T \in W : \A x \in T : T \ {x} \notin W
    BY <1>1, <2>1, LeastPart
  <2> USE DEF D, W
  <2>3. PICK x \in T : TRUE
    BY <2>2
  <2>4. CASE T \ {x} = {}
    BY <2>2, <2>3, <2>4
  <2>5. CASE T \ {x} # {}
    <3>1. PICK z \in T \ {x} : \A y \in T \ {x} : z >= y
      BY <2>2, <2>3, <2>5
    <3>2. CASE z >= x
      BY <2>2, <3>1, <3>2
    <3>3. CASE ~(z >= x)
      BY <2>2, <3>1, <3>3
    <3> QED
      BY <3>2, <3>3
  <2> QED
    BY <2>4, <2>5
<1>3. \E x \in s : \A y \in s : x >= y
  BY <1>2
<1> QED
  BY <1>3 DEF Top

LEMMA TopOfSegment ==
    ASSUME NEW i \in Nat \ {0}
    PROVE  Top(1 .. i) = i /\ (1 .. i) \ {i} = 1 .. i - 1
<1>0. i \in Nat /\ 1 .. i \in SUBSET (1 .. i) /\ i \in 1 .. i
  OBVIOUS
<1> DEFINE I == 1 .. i
<1>1. Top(I) \in I /\ \A y \in I : Top(I) >= y
  <2>1. I \in SUBSET (1 .. i) /\ I # {}
    BY <1>0
  <2> HIDE DEF I
  <2> QED
    BY <1>0, <2>1, TopIs
<1>2. i \in 1 .. i
  OBVIOUS
<1>3. \A x \in 1 .. i : x >= i => x = i
  OBVIOUS
<1> QED
  BY <1>1, <1>2, <1>3

\* What fails somewhere fails first somewhere.
LEMMA FirstFailure ==
    ASSUME NEW n \in Nat, NEW W \in SUBSET (0 .. n), W # {}
    PROVE  \E i \in W : i - 1 \notin W
<1> DEFINE S == {n + 1 - i : i \in W}
<1>1. S \in SUBSET (1 .. n + 1) /\ S # {}
  <2>1. \A i \in W : n + 1 - i \in 1 .. n + 1
    OBVIOUS
  <2> QED
    BY <2>1
<1>2. PICK x \in S : \A y \in S : x >= y
  <2> HIDE DEF S
  <2> QED
    <3>1. n + 1 \in Nat
      OBVIOUS
    <3> QED
      BY <1>1, <3>1, TopIs
<1>3. PICK i \in W : x = n + 1 - i
  BY <1>2
<1>4. i - 1 \notin W
  <2> SUFFICES ASSUME i - 1 \in W PROVE FALSE
    OBVIOUS
  <2>1. n + 1 - (i - 1) \in S
    OBVIOUS
  <2>2. x >= n + 1 - (i - 1)
    BY <1>2, <2>1
  <2> QED
    BY <1>3, <2>2
<1> QED
  BY <1>4

\* h folds f over 1 .. n from the left, as MapThenFoldSet does.
FoldsAt(s, v, f, h) == h[s] = IF s = {} THEN v ELSE f[<<h[s \ {Top(s)}], Top(s)>>]

\* A fold over a segment gives a value for each of its parts.
LEMMA FoldExists ==
    ASSUME NEW n \in Nat, NEW V, NEW v \in V, NEW f \in [V \X (1 .. n) -> V]
    PROVE  \E h \in [SUBSET (1 .. n) -> V] : \A s \in SUBSET (1 .. n) : FoldsAt(s, v, f, h)
<1> DEFINE D == 1 .. n
           Folded(T, h) == h \in [SUBSET T -> V] /\ \A s \in SUBSET T : FoldsAt(s, v, f, h)
           W == {T \in SUBSET D : ~\E h : Folded(T, h)}
<1>1. IsFiniteSet(D)
  BY FS_Interval
<1>2. W = {}
  <2> SUFFICES ASSUME W # {} PROVE FALSE
    OBVIOUS
  <2>1. W \in SUBSET SUBSET D
    OBVIOUS
  <2> HIDE DEF D, W
  <2>2. PICK T \in W : \A x \in T : T \ {x} \notin W
    BY <1>1, <2>1, LeastPart
  <2>3. T \in SUBSET D /\ ~\E h : Folded(T, h)
    BY <2>2 DEF W
  <2>4. CASE T = {}
    <3> DEFINE h == [s \in SUBSET T |-> v]
    <3>1. Folded(T, h)
      BY <2>4 DEF FoldsAt
    <3> QED
      BY <2>3, <3>1
  <2>5. CASE T # {}
    <3> DEFINE m == Top(T)
               U == T \ {m}
    <3>1. m \in T /\ \A y \in T : m >= y
      BY <2>3, <2>5, TopIs DEF D
    <3>2. PICK g : Folded(U, g)
      BY <2>2, <2>3, <3>1 DEF W
    <3> DEFINE h == [s \in SUBSET T |-> IF m \in s THEN f[<<g[s \ {m}], m>>] ELSE g[s]]
    <3>3. g \in [SUBSET U -> V] /\ \A s \in SUBSET U : g[s] \in V /\ FoldsAt(s, v, f, g)
      BY <3>2
    <3> HIDE DEF m, Folded
    <3>4. ASSUME NEW s \in SUBSET T PROVE h[s] \in V /\ FoldsAt(s, v, f, h)
      <4>1. CASE m \in s
        <5>1. s \ {m} \in SUBSET U /\ s \ {m} \in SUBSET T
          OBVIOUS
        <5>2. h[s] = f[<<g[s \ {m}], m>>] /\ h[s \ {m}] = g[s \ {m}]
          BY <4>1, <5>1
        <5>3. g[s \ {m}] \in V /\ m \in 1 .. n
          BY <2>3, <3>1, <3>3, <5>1 DEF D
        <5>4. Top(s) = m
          <6>1. Top(s) \in s /\ \A y \in s : Top(s) >= y
            BY <2>3, <4>1, TopIs DEF D
          <6>2. Top(s) \in 1 .. n /\ m >= Top(s) /\ Top(s) >= m
            BY <2>3, <3>1, <4>1, <6>1 DEF D
          <6> QED
            BY <5>3, <6>2
        <5> HIDE DEF h, U
        <5>5. f[<<g[s \ {m}], m>>] \in V
          BY <5>3
        <5> QED
          BY <4>1, <5>2, <5>4, <5>5 DEF FoldsAt
      <4>2. CASE m \notin s
        <5>1. s \in SUBSET U /\ s \ {Top(s)} \in SUBSET U /\ m \notin s \ {Top(s)}
              /\ s \ {Top(s)} \in SUBSET T
          BY <4>2
        <5>2. h[s] = g[s] /\ h[s \ {Top(s)}] = g[s \ {Top(s)}]
          BY <4>2, <5>1
        <5> HIDE DEF h, U
        <5> QED
          BY <3>3, <5>1, <5>2 DEF FoldsAt
      <4> QED
        BY <4>1, <4>2
    <3>5. DOMAIN h = SUBSET T /\ h = [s \in SUBSET T |-> h[s]]
      OBVIOUS
    <3> HIDE DEF h
    <3>6. h \in [SUBSET T -> V]
      BY <3>4, <3>5
    <3> QED
      BY <2>3, <3>4, <3>6 DEF Folded
  <2> QED
    BY <2>4, <2>5
<1>3. \E h : Folded(D, h)
  BY <1>2
<1> QED
  BY <1>3

-----------------------------------------------------------------------------
(* The calls of a claude stream.                                           *)

\* The uses of a record, and of a sequence of records, that open calls when
\* turns are tracked (t) or not.
OpensOf(t, r) == {k \in DOMAIN r.uses : r.uses[k].valid /\ (t => r.assistant)}
UsesIn(t, Q) ==
    UNION {{<<i, k>> : k \in OpensOf(t, Q[i])} : i \in {i \in DOMAIN Q : Claude!IsEntry(Q[i])}}
UseAt(Q, u)  == Q[u[1]].uses[u[2]]

\* The call of the use u, with the outcome o.
CallAt(t, Q, u, o) ==
    [id |-> UseAt(Q, u).id, name |-> UseAt(Q, u).name, says |-> UseAt(Q, u).says, at |-> u,
     turn |-> IF t /\ Q[u[1]].assistant THEN Q[u[1]].request ELSE Claude!None,
     measured |-> Claude!HasUsage(Q[u[1]]), outcome |-> o]

Outcomes == {"pending", "ok", "error", "no_result"}
CallsOf(t, Q) == UNION {{CallAt(t, Q, u, o) : o \in Outcomes} : u \in UsesIn(t, Q)}

\* A are the answers so far, <<record, id>>; those to u stand with it or later.
AnswersTo(Q, A, u) == {i \in Nat : i >= u[1] /\ <<i, UseAt(Q, u).id>> \in A}

Later(u, v)     == u[1] < v[1] \/ (u[1] = v[1] /\ u[2] < v[2])
Repeats(Q, v, u) == UseAt(Q, v).id = UseAt(Q, u).id /\ Later(u, v)

StillOpen(Q, U, A, u) == AnswersTo(Q, A, u) = {} /\ \A v \in U : ~Repeats(Q, v, u)
InTime(Q, U, A, u) ==
    /\ AnswersTo(Q, A, u) # {}
    /\ \A v \in U : Repeats(Q, v, u) => \E i \in AnswersTo(Q, A, u) : i < v[1]
Replaced(Q, U, A, u) ==
    \E v \in U : Repeats(Q, v, u) /\ \A i \in AnswersTo(Q, A, u) : i >= v[1]

\* P and C are the calls that await their result and those that had it, when
\* the uses U and the answers A were read.
CallsInv(t, Q, U, A, P, C) ==
    /\ P \subseteq CallsOf(t, Q) /\ C \subseteq CallsOf(t, Q) /\ U \subseteq UsesIn(t, Q)
    /\ \A x \in P : x.outcome = "pending"
    /\ \A x \in C : x.outcome \in {"ok", "error"}
    /\ \A x \in P \cup C : x.at \in U
    /\ \A x, y \in P : x.id = y.id => x = y
    /\ \A x, y \in P \cup C : x.at = y.at => x = y
    /\ \A x \in P : StillOpen(Q, U, A, x.at)
    /\ \A x \in C : InTime(Q, U, A, x.at)
    /\ \A u \in U : (\E x \in P \cup C : x.at = u) \/ Replaced(Q, U, A, u)

\* A use stands in a record, at a place that opens a call.
LEMMA UsesAre ==
    ASSUME NEW t, NEW Q \in Seq(EntrySet), NEW u \in UsesIn(t, Q)
    PROVE  /\ u = <<u[1], u[2]>> /\ u[1] \in 1 .. Len(Q) /\ u[1] \in Nat /\ u[2] \in Nat /\ u[2] >= 1
           /\ Claude!IsEntry(Q[u[1]]) /\ u[2] \in OpensOf(t, Q[u[1]])
           /\ Q[u[1]] \in EntrySet
<1>0. PICK i \in DOMAIN Q : Claude!IsEntry(Q[i]) /\ \E k \in OpensOf(t, Q[i]) : u = <<i, k>>
  BY DEF UsesIn
<1>1. PICK k \in OpensOf(t, Q[i]) : u = <<i, k>> /\ Claude!IsEntry(Q[i])
  BY <1>0
<1>2. /\ i \in 1 .. Len(Q) /\ i \in Nat /\ Q[i] \in EntrySet
  OBVIOUS
<1>3. Q[i].uses \in Seq(ToSet(Q[i].uses))
  BY <1>1, <1>2, EntryShape DEF Claude!IsWellFormed, Claude!ToSet, ToSet
<1>4. k \in Nat /\ k >= 1
  BY <1>3 DEF OpensOf
<1> QED
  BY <1>1, <1>2, <1>4

Ending(x, o) == [x EXCEPT !.outcome = o]
Others(P, id) == {x \in P : x.id # id}

\* A call is that of its use, whatever its outcome.
LEMMA CallShape ==
    ASSUME NEW t, NEW Q \in Seq(EntrySet), NEW x \in CallsOf(t, Q)
    PROVE  /\ x.at \in UsesIn(t, Q) /\ x.outcome \in Outcomes
           /\ x = CallAt(t, Q, x.at, x.outcome)
           /\ x.id = UseAt(Q, x.at).id
           /\ \A o \in Outcomes : /\ Ending(x, o) = CallAt(t, Q, x.at, o)
                                  /\ Ending(x, o) \in CallsOf(t, Q)
<1>1. PICK u \in UsesIn(t, Q), o \in Outcomes : x = CallAt(t, Q, u, o)
  BY DEF CallsOf
<1>2. x.at = u /\ x.outcome = o /\ x.id = UseAt(Q, u).id
  BY <1>1 DEF CallAt
<1>3. \A w \in Outcomes : Ending(x, w) = CallAt(t, Q, u, w)
  BY <1>1 DEF CallAt, Ending
<1> QED
  BY <1>1, <1>2, <1>3 DEF CallsOf

LEMMA CallOfUse ==
    ASSUME NEW t, NEW Q, NEW u \in UsesIn(t, Q), NEW o \in Outcomes
    PROVE  CallAt(t, Q, u, o) \in CallsOf(t, Q)
BY DEF CallsOf

\* A use that comes after all others.
LEMMA PutKeeps ==
    ASSUME NEW t, NEW Q \in Seq(EntrySet), NEW U, NEW A, NEW P, NEW C, CallsInv(t, Q, U, A, P, C),
           NEW w \in UsesIn(t, Q), \A u \in U : Later(u, w),
           \A i, d : <<i, d>> \in A => i < w[1],
           NEW c, c = CallAt(t, Q, w, "pending")
    PROVE  CallsInv(t, Q, U \cup {w}, A, Others(P, c.id) \cup {c}, C)
<1> DEFINE V == U \cup {w}
           N == Others(P, c.id) \cup {c}
<1>1. /\ c \in CallsOf(t, Q) /\ c.at = w /\ c.id = UseAt(Q, w).id /\ c.outcome = "pending"
  <2>1. "pending" \in Outcomes
    BY DEF Outcomes
  <2>2. c \in CallsOf(t, Q)
    BY <2>1 DEF CallsOf
  <2> QED
    BY <2>2 DEF CallAt
<1>2. /\ P \subseteq CallsOf(t, Q) /\ C \subseteq CallsOf(t, Q) /\ U \subseteq UsesIn(t, Q)
      /\ \A x \in P : x.outcome = "pending"
      /\ \A x \in C : x.outcome \in {"ok", "error"}
      /\ \A x \in P \cup C : x.at \in U
      /\ \A x, y \in P : x.id = y.id => x = y
      /\ \A x, y \in P \cup C : x.at = y.at => x = y
      /\ \A x \in P : StillOpen(Q, U, A, x.at)
      /\ \A x \in C : InTime(Q, U, A, x.at)
      /\ \A u \in U : (\E x \in P \cup C : x.at = u) \/ Replaced(Q, U, A, u)
  BY DEF CallsInv
<1>a. \A x : x \in N <=> x = c \/ (x \in P /\ x.id # c.id)
  BY DEF Others
<1>3. /\ \A u \in V : u[1] \in Nat /\ u[2] \in Nat
      /\ \A x \in P \cup C : x.id = UseAt(Q, x.at).id
  BY <1>2, UsesAre, CallShape
<1>4. \A u \in U : ~Later(w, u) /\ u # w
  BY <1>3 DEF Later
<1>5. ~Later(w, w)
  BY <1>3 DEF Later
<1>6. AnswersTo(Q, A, w) = {}
  BY <1>3 DEF AnswersTo
<1>7. \A u \in U : \A i \in AnswersTo(Q, A, u) : i < w[1]
  BY DEF AnswersTo
<1>8. /\ N \subseteq CallsOf(t, Q) /\ V \subseteq UsesIn(t, Q)
      /\ \A x \in N : x.outcome = "pending"
      /\ \A x \in N \cup C : x.at \in V
      /\ \A x, y \in N : x.id = y.id => x = y
      /\ \A x, y \in N \cup C : x.at = y.at => x = y
  <2> HIDE DEF N
  <2> QED
    BY <1>a, <1>1, <1>2, <1>4
<1>9. ASSUME NEW x \in N PROVE StillOpen(Q, V, A, x.at)
  <2>1. CASE x = c
    BY <1>1, <1>4, <1>5, <1>6, <2>1 DEF StillOpen, Repeats
  <2>2. CASE x # c
    <3>1. x \in P /\ x.id # c.id /\ StillOpen(Q, U, A, x.at)
      BY <1>a, <1>2, <2>2
    <3>2. ~Repeats(Q, w, x.at)
      BY <1>1, <1>3, <3>1 DEF Repeats
    <3> QED
      BY <3>1, <3>2 DEF StillOpen
  <2> QED
    BY <2>1, <2>2
<1>10. ASSUME NEW x \in C PROVE InTime(Q, V, A, x.at)
  BY <1>2, <1>7 DEF InTime
<1>11. ASSUME NEW u \in V PROVE (\E x \in N \cup C : x.at = u) \/ Replaced(Q, V, A, u)
  <2>1. CASE u = w
    BY <1>a, <1>1, <2>1
  <2>2. CASE u # w /\ Replaced(Q, U, A, u)
    BY <2>2 DEF Replaced
  <2>3. CASE u # w /\ ~Replaced(Q, U, A, u)
    <3>1. PICK x \in P \cup C : x.at = u
      BY <1>2, <2>3
    <3>2. CASE x \in N \cup C
      BY <3>1, <3>2
    <3>3. CASE x \notin N \cup C
      <4>1. x \in P /\ x.id = c.id
        BY <1>a, <3>1, <3>3
      <4>2. Repeats(Q, w, u)
        BY <1>1, <1>3, <2>3, <3>1, <4>1 DEF Repeats
      <4>3. AnswersTo(Q, A, u) = {}
        BY <1>2, <3>1, <4>1 DEF StillOpen
      <4> QED
        BY <4>2, <4>3 DEF Replaced
    <3> QED
      BY <3>2, <3>3
  <2> QED
    BY <2>1, <2>2, <2>3
<1> HIDE DEF V, N
<1> QED
  BY <1>2, <1>8, <1>9, <1>10, <1>11 DEF CallsInv, V, N

\* An answer in a record that no use follows.
ReadUpTo(U, A, m) ==
    m \in Nat /\ (\A u \in U : u[1] <= m) /\ (\A i, d : <<i, d>> \in A => i <= m)

Ends(o) == o \in {"ok", "error"}

\* An answer ends the waiting call of its id, if there is one.
LEMMA JoinKeeps ==
    ASSUME NEW t, NEW Q, Q \in Seq(EntrySet), NEW U, NEW A, NEW P, NEW C, CallsInv(t, Q, U, A, P, C),
           NEW m, ReadUpTo(U, A, m), NEW d, NEW o, Ends(o)
    PROVE  /\ (\A x \in P : x.id # d) => CallsInv(t, Q, U, A \cup {<<m, d>>}, P, C)
           /\ \A x \in P : x.id = d =>
                 CallsInv(t, Q, U, A \cup {<<m, d>>}, Others(P, d), C \cup {Ending(x, o)})
<1> DEFINE B == A \cup {<<m, d>>}
<1>0. /\ m \in Nat /\ (\A u \in U : u[1] <= m) /\ (\A i, e : <<i, e>> \in A => i <= m)
      /\ o \in {"ok", "error"}
  BY DEF ReadUpTo, Ends
<1>1. /\ P \subseteq CallsOf(t, Q) /\ C \subseteq CallsOf(t, Q) /\ U \subseteq UsesIn(t, Q)
      /\ \A x \in P : x.outcome = "pending"
      /\ \A x \in C : x.outcome \in {"ok", "error"}
      /\ \A x \in P \cup C : x.at \in U
      /\ \A x, y \in P : x.id = y.id => x = y
      /\ \A x, y \in P \cup C : x.at = y.at => x = y
      /\ \A x \in P : StillOpen(Q, U, A, x.at)
      /\ \A x \in C : InTime(Q, U, A, x.at)
      /\ \A u \in U : (\E x \in P \cup C : x.at = u) \/ Replaced(Q, U, A, u)
  BY DEF CallsInv
<1>2. /\ \A u \in U : u[1] \in Nat /\ u[2] \in Nat /\ m >= u[1]
      /\ \A x \in P \cup C : x.id = UseAt(Q, x.at).id
  BY <1>0, <1>1, UsesAre, CallShape
<1>3. \A u \in U : AnswersTo(Q, B, u) = IF d = UseAt(Q, u).id
                                        THEN AnswersTo(Q, A, u) \cup {m} ELSE AnswersTo(Q, A, u)
  BY <1>0, <1>2 DEF AnswersTo
<1> HIDE DEF B
<1>4. \A x \in P : x.id # d => StillOpen(Q, U, B, x.at)
  BY <1>0, <1>1, <1>2, <1>3 DEF StillOpen
<1>5. \A x \in C : InTime(Q, U, B, x.at)
  BY <1>0, <1>1, <1>3 DEF InTime
<1>6. \A u \in U : Replaced(Q, U, A, u) => Replaced(Q, U, B, u)
  BY <1>0, <1>2, <1>3 DEF Replaced
<1>7. ASSUME \A x \in P : x.id # d PROVE CallsInv(t, Q, U, B, P, C)
  BY <1>1, <1>4, <1>5, <1>6, <1>7 DEF CallsInv
<1>8. ASSUME NEW x \in P, x.id = d
      PROVE  CallsInv(t, Q, U, B, Others(P, d), C \cup {Ending(x, o)})
  <2> DEFINE N == Others(P, d)
             z == Ending(x, o)
             D == C \cup {z}
  <2>a. \A y : y \in N <=> y \in P /\ y.id # d
    BY DEF Others
  <2>1. z \in CallsOf(t, Q) /\ z = CallAt(t, Q, x.at, o)
    <3>1. o \in Outcomes /\ x \in CallsOf(t, Q)
      BY <1>0, <1>1 DEF Outcomes
    <3> QED
      BY <3>1, CallShape
  <2>2. z.at = x.at /\ z.outcome = o
    BY <2>1 DEF CallAt
  <2>3. InTime(Q, U, B, z.at)
    BY <1>0, <1>1, <1>2, <1>3, <1>8, <2>2 DEF InTime, StillOpen
  <2> HIDE DEF z
  <2>4. \A y \in P : y \notin N => y = x
    BY <2>a, <1>1, <1>8
  <2>5. \A y \in N : y \in P /\ y # x
    BY <2>a, <1>8
  <2>6. \A y \in C : y # x
    BY <1>1
  <2>7. \A a, b \in N \cup D : a.at = b.at => a = b
    BY <1>1, <2>2, <2>5, <2>6
  <2>8. \A u \in U : (\E a \in N \cup D : a.at = u) \/ Replaced(Q, U, B, u)
    BY <1>1, <1>6, <2>2, <2>4
  <2>9. /\ N \subseteq CallsOf(t, Q) /\ D \subseteq CallsOf(t, Q)
        /\ \A y \in N : y.outcome = "pending"
        /\ \A y \in D : y.outcome \in {"ok", "error"}
        /\ \A y \in N \cup D : y.at \in U
        /\ \A a, b \in N : a.id = b.id => a = b
        /\ \A y \in N : StillOpen(Q, U, B, y.at)
        /\ \A y \in D : InTime(Q, U, B, y.at)
    BY <2>a, <1>0, <1>1, <1>4, <1>5, <2>1, <2>2, <2>3
  <2> QED
    BY <1>1, <2>7, <2>8, <2>9 DEF CallsInv, z
<1> QED
  BY <1>7, <1>8 DEF B

-----------------------------------------------------------------------------
(* The dict of the calls that await their result.                          *)

\* A call that is put takes the place of the one that had its id.
LEMMA DictPut ==
    ASSUME NEW T, NEW p \in Seq(T), OneCallPerId(p), NEW c \in T,
           NEW q, q = Claude!Put(p, c)
    PROVE  /\ q \in Seq(T) /\ OneCallPerId(q)
           /\ ToSet(q) = Others(ToSet(p), c.id) \cup {c}
<1> DEFINE k == Codex!Awaiting(p, c.id)
<1>1. q = IF k = 0 THEN Append(p, c) ELSE [p EXCEPT ![k] = c]
  BY DEF Claude!Put, Codex!Awaiting, Claude!SelectInSeq, Codex!SelectInSeq, Claude!Min, Codex!Min
<1>2. \/ k = 0 /\ \A i \in 1 .. Len(p) : p[i].id # c.id
      \/ k \in 1 .. Len(p) /\ p[k].id = c.id
  BY AwaitingFinds
<1>3. /\ Len(p) \in Nat /\ DOMAIN p = 1 .. Len(p) /\ ToSet(p) = {p[i] : i \in 1 .. Len(p)}
  BY DEF ToSet
<1> HIDE DEF k
<1>4. CASE k = 0
  <2>1. q = Append(p, c) /\ \A i \in 1 .. Len(p) : p[i].id # c.id
    BY <1>1, <1>2, <1>3, <1>4
  <2>2. /\ q \in Seq(T) /\ Len(q) = Len(p) + 1 /\ q[Len(p) + 1] = c
        /\ \A i \in 1 .. Len(p) : q[i] = p[i]
    BY <2>1
  <2>3. 1 .. Len(p) + 1 = (1 .. Len(p)) \cup {Len(p) + 1} /\ DOMAIN q = 1 .. Len(p) + 1
    BY <1>3, <2>2
  <2>4. ToSet(q) = ToSet(p) \cup {c}
    BY <1>3, <2>2, <2>3 DEF ToSet
  <2>5. OneCallPerId(q)
    BY <2>1, <2>2, <2>3 DEF OneCallPerId
  <2> QED
    <3>1. Others(ToSet(p), c.id) = ToSet(p)
      BY <1>3, <2>1 DEF Others
    <3> QED
      BY <2>2, <2>4, <2>5, <3>1
<1>5. CASE k # 0
  <2>1. q = [p EXCEPT ![k] = c] /\ k \in 1 .. Len(p) /\ p[k].id = c.id
    BY <1>1, <1>2, <1>5
  <2>2. /\ q \in Seq(T) /\ Len(q) = Len(p) /\ DOMAIN q = 1 .. Len(p)
        /\ \A i \in 1 .. Len(p) : q[i] = IF i = k THEN c ELSE p[i]
    BY <1>3, <2>1
  <2>3. \A i \in 1 .. Len(p) : p[i].id = c.id <=> i = k
    BY <2>1 DEF OneCallPerId
  <2>4. ToSet(q) = {x \in ToSet(p) : x.id # c.id} \cup {c}
    BY <1>3, <2>1, <2>2, <2>3 DEF ToSet
  <2>5. OneCallPerId(q)
    BY <2>2, <2>3 DEF OneCallPerId
  <2> QED
    BY <2>2, <2>4, <2>5 DEF Others
<1> QED
  BY <1>4, <1>5

IsDistinct(s) == \A i, j \in 1 .. Len(s) : s[i] = s[j] => i = j

\* A state of the dict and the list of the joined calls.
Books(T) == {s \in [pending : Seq(T), calls : Seq(T)] : OneCallPerId(s.pending)}

TakesOutcome(T, o) == \A x \in T : Ending(x, o) \in T

\* A result takes the call with its id out of the dict.
LEMMA DictJoin ==
    ASSUME NEW T, NEW s, s \in Books(T), NEW id, NEW o, TakesOutcome(T, o),
           NEW z, z = Claude!Join(s, id, o)
    PROVE  /\ z \in Books(T)
           /\ \/ z = s /\ \A x \in ToSet(s.pending) : x.id # id
              \/ \E x \in ToSet(s.pending) :
                    /\ x.id = id
                    /\ ToSet(z.pending) = Others(ToSet(s.pending), id)
                    /\ z.calls = Append(s.calls, Ending(x, o))
<1> DEFINE p == s.pending
           k == Codex!Awaiting(p, id)
           q == Codex!RemoveAt(p, k)
<1>0. /\ p \in Seq(T) /\ s.calls \in Seq(T) /\ OneCallPerId(p)
      /\ \A x \in T : Ending(x, o) \in T
  <2>1. p \in Seq(T) /\ s.calls \in Seq(T) /\ OneCallPerId(p)
    BY Zenon DEF Books
  <2>2. \A x \in T : Ending(x, o) \in T
    BY DEF TakesOutcome
  <2> QED
    BY <2>1, <2>2
<1>1. z = IF k = 0 THEN s
          ELSE [pending |-> q, calls |-> Append(s.calls, Ending(p[k], o))]
  BY Zenon
     DEF Claude!Join, Claude!Awaiting, Codex!Awaiting, Claude!SelectInSeq, Codex!SelectInSeq, Claude!Min,
         Codex!Min, Claude!RemoveAt, Codex!RemoveAt, Ending
<1>2. \/ k = 0 /\ \A i \in 1 .. Len(p) : p[i].id # id
      \/ k \in 1 .. Len(p) /\ p[k].id = id
  BY <1>0, AwaitingFinds
<1>3. /\ Len(p) \in Nat /\ DOMAIN p = 1 .. Len(p) /\ ToSet(p) = {p[i] : i \in 1 .. Len(p)}
  BY <1>0 DEF ToSet
<1> HIDE DEF p, k, q
<1>4. CASE k = 0
  <2>1. z = s /\ \A x \in ToSet(p) : x.id # id
    BY <1>1, <1>2, <1>3, <1>4
  <2> QED
    BY <2>1 DEF p
<1>5. CASE k # 0
  <2>1. /\ k \in 1 .. Len(p) /\ p[k].id = id
        /\ z = [pending |-> q, calls |-> Append(s.calls, Ending(p[k], o))]
    BY <1>1, <1>2, <1>5
  <2>2. /\ q \in Seq(T) /\ Len(q) = Len(p) - 1
        /\ \A i \in 1 .. Len(p) - 1 : q[i] = IF i < k THEN p[i] ELSE p[i + 1]
    BY <1>0, <2>1, RemovedAt DEF q
  <2>3. \A i \in 1 .. Len(p) : p[i].id = id <=> i = k
    BY <2>1, <1>0 DEF OneCallPerId
  <2>4. DOMAIN q = 1 .. Len(p) - 1
    BY <2>2
  <2>5. ToSet(q) = {q[i] : i \in 1 .. Len(p) - 1}
    BY <2>4 DEF ToSet
  <2>6. \A y \in ToSet(q) : y \in ToSet(p) /\ y.id # id
    <3> SUFFICES ASSUME NEW i \in 1 .. Len(p) - 1 PROVE q[i] \in ToSet(p) /\ q[i].id # id
      BY <2>5
    <3>1. i \in 1 .. Len(p) /\ i + 1 \in 1 .. Len(p)
      BY <1>3
    <3>2. CASE i < k
      BY <1>3, <2>1, <2>2, <2>3, <3>1, <3>2
    <3>3. CASE ~(i < k)
      <4>1. q[i] = p[i + 1] /\ i + 1 # k
        BY <2>1, <2>2, <3>3
      <4> QED
        BY <1>3, <2>3, <3>1, <4>1
    <3> QED
      BY <3>2, <3>3
  <2>7. \A y \in ToSet(p) : y.id # id => y \in ToSet(q)
    <3> SUFFICES ASSUME NEW i \in 1 .. Len(p), i # k PROVE p[i] \in ToSet(q)
      BY <1>3, <2>3
    <3>1. CASE i < k
      <4>1. i \in 1 .. Len(p) - 1 /\ q[i] = p[i]
        BY <1>3, <2>1, <2>2, <3>1
      <4> QED
        BY <2>5, <4>1
    <3>2. CASE ~(i < k)
      <4>1. i - 1 \in 1 .. Len(p) - 1 /\ ~(i - 1 < k) /\ i - 1 + 1 = i
        BY <1>3, <2>1, <3>2
      <4>2. q[i - 1] = p[i]
        BY <2>2, <4>1
      <4> QED
        BY <2>5, <4>1, <4>2
    <3> QED
      BY <3>1, <3>2
  <2>8. ToSet(q) = Others(ToSet(p), id)
    BY <2>6, <2>7 DEF Others
  <2>9. OneCallPerId(q)
    <3> SUFFICES ASSUME NEW i \in 1 .. Len(q), NEW j \in 1 .. Len(q), q[i].id = q[j].id PROVE i = j
      BY DEF OneCallPerId
    <3> DEFINE a == IF i < k THEN i ELSE i + 1
               b == IF j < k THEN j ELSE j + 1
    <3>1. a \in 1 .. Len(p) /\ b \in 1 .. Len(p)
      BY <1>3, <2>1, <2>2
    <3>2. q[i] = p[a] /\ q[j] = p[b]
      BY <1>3, <2>1, <2>2
    <3>3. a = b
      BY <1>0, <3>1, <3>2 DEF OneCallPerId
    <3> QED
      BY <1>3, <2>1, <2>2, <3>3
  <2>10. p[k] \in T /\ p[k] \in ToSet(p)
    BY <1>0, <1>3, <2>1
  <2>11. Append(s.calls, Ending(p[k], o)) \in Seq(T)
    BY <1>0, <2>10
  <2>12. z \in Books(T)
    BY <2>1, <2>2, <2>9, <2>11 DEF Books
  <2>13. z.pending = q /\ z.calls = Append(s.calls, Ending(p[k], o))
    BY <2>1
  <2> QED
    BY <2>1, <2>8, <2>10, <2>12, <2>13 DEF p
<1> QED
  BY <1>4, <1>5

\* The dict after each of the uses of a record was put.
LEMMA EnqueueChain ==
    ASSUME NEW r \in EntrySet, Claude!IsEntry(r), NEW at, NEW T,
           pending \in Seq(T), OneCallPerId(pending),
           \A k \in Claude!Opens(r) : Claude!Opened(r, at, k) \in T
    PROVE  /\ Len(r.uses) \in Nat /\ DOMAIN r.uses = 1 .. Len(r.uses)
           /\ \E h : /\ h[0] = pending /\ h[Len(r.uses)] = Claude!Enqueued(r, at)
                     /\ \A k \in 1 .. Len(r.uses) :
                           h[k] = IF k \in Claude!Opens(r)
                                  THEN Claude!Put(h[k - 1], Claude!Opened(r, at, k)) ELSE h[k - 1]
<1> DEFINE n == Len(r.uses)
           V == {p \in Seq(T) : OneCallPerId(p)}
           Grow(p, k) == IF k \in Claude!Opens(r) THEN Claude!Put(p, Claude!Opened(r, at, k)) ELSE p
           ks == [k \in DOMAIN r.uses |-> k]
           D == DOMAIN ks
           F(h) == h = [s \in SUBSET D |->
                           IF s = {} THEN pending ELSE Grow(h[s \ {Top(s)}], ks[Top(s)])]
           iter == CHOOSE h : F(h)
           f == [z \in V \X (1 .. n) |-> Grow(z[1], z[2])]
<1>1. Claude!Enqueued(r, at) = iter[D]
  BY DEF Claude!Enqueued, Claude!FoldLeft, Claude!MapThenFoldSet, Claude!Max, Top
<1>2. n \in Nat /\ DOMAIN r.uses = 1 .. n
  BY EntryShape DEF Claude!IsWellFormed
<1>3. D = 1 .. n /\ \A k \in 1 .. n : ks[k] = k
  BY <1>2
<1>4. \A p \in V, k \in 1 .. n : Grow(p, k) \in V
  BY DictPut
<1>5. pending \in V
  OBVIOUS
<1> HIDE DEF V, Grow, ks, D, n
<1>6. f \in [V \X (1 .. n) -> V]
  BY <1>4
<1>7. PICK h \in [SUBSET (1 .. n) -> V] : \A s \in SUBSET (1 .. n) : FoldsAt(s, pending, f, h)
  <2> HIDE DEF f
  <2> QED
    BY <1>2, <1>5, <1>6, FoldExists
<1>8. \A s \in SUBSET (1 .. n) : s # {} => Top(s) \in 1 .. n /\ s \ {Top(s)} \in SUBSET (1 .. n)
  BY <1>2, TopIs
<1>9. F(h)
  <2>1. ASSUME NEW s \in SUBSET D
        PROVE  h[s] = IF s = {} THEN pending ELSE Grow(h[s \ {Top(s)}], ks[Top(s)])
    <3>1. FoldsAt(s, pending, f, h)
      BY <1>3, <1>7
    <3>2. CASE s = {}
      BY <3>1, <3>2 DEF FoldsAt
    <3>3. CASE s # {}
      <4>1. Top(s) \in 1 .. n /\ h[s \ {Top(s)}] \in V
        BY <1>3, <1>7, <1>8, <3>3
      <4>2. f[<<h[s \ {Top(s)}], Top(s)>>] = Grow(h[s \ {Top(s)}], Top(s))
        BY <4>1
      <4> QED
        BY <1>3, <3>1, <3>3, <4>1, <4>2 DEF FoldsAt
    <3> QED
      BY <3>2, <3>3
  <2>2. h = [s \in SUBSET D |-> h[s]]
    BY <1>3, <1>7
  <2> QED
    BY <2>1, <2>2
<1>10. F(iter)
  BY <1>9
<1> HIDE DEF iter
<1>11. \A s \in SUBSET (1 .. n) :
           iter[s] = IF s = {} THEN pending ELSE Grow(iter[s \ {Top(s)}], ks[Top(s)])
  BY <1>3, <1>10
<1> HIDE DEF F, f
<1>12. iter[1 .. 0] = pending
  <2>1. 1 .. 0 = {} /\ {} \in SUBSET (1 .. n)
    OBVIOUS
  <2> QED
    BY <1>11, <2>1
<1>13. ASSUME NEW k \in 1 .. n PROVE iter[1 .. k] = Grow(iter[1 .. k - 1], k)
  <2>1. 1 .. k \in SUBSET (1 .. n) /\ k \in 1 .. k /\ k \in Nat \ {0}
    BY <1>2
  <2>2. 1 .. k # {}
    BY <2>1
  <2>3. Top(1 .. k) = k /\ (1 .. k) \ {k} = 1 .. k - 1
    BY <2>1, TopOfSegment
  <2> QED
    BY <1>3, <1>11, <2>1, <2>2, <2>3
<1> DEFINE g == [k \in 0 .. n |-> iter[1 .. k]]
<1>14. /\ 0 \in 0 .. n /\ n \in 0 .. n
       /\ \A k \in 1 .. n : k \in 0 .. n /\ k - 1 \in 0 .. n
  BY <1>2
<1>15. g[0] = pending /\ g[n] = Claude!Enqueued(r, at) /\ \A k \in 1 .. n : g[k] = Grow(g[k - 1], k)
  BY <1>1, <1>3, <1>12, <1>13, <1>14
<1> HIDE DEF g
<1> QED
  BY <1>2, <1>15 DEF Grow, n

\* The books after each of the results of a record was joined.
LEMMA JoinChain ==
    ASSUME NEW r \in EntrySet, Claude!IsEntry(r), NEW at, NEW T,
           [pending |-> Claude!Enqueued(r, at), calls |-> calls] \in Books(T),
           TakesOutcome(T, "ok"), TakesOutcome(T, "error")
    PROVE  /\ Len(r.results) \in Nat /\ DOMAIN r.results = 1 .. Len(r.results)
           /\ \E h : /\ h[0] = [pending |-> Claude!Enqueued(r, at), calls |-> calls]
                     /\ h[Len(r.results)] = Claude!Joined(r, at)
                     /\ \A k \in 1 .. Len(r.results) :
                           h[k] = Claude!JoinResult(h[k - 1], r.results[k])
<1> DEFINE n == Len(r.results)
           V == Books(T)
           v == [pending |-> Claude!Enqueued(r, at), calls |-> calls]
           ks == r.results
           D == DOMAIN ks
           F(h) == h = [s \in SUBSET D |->
                           IF s = {} THEN v ELSE Claude!JoinResult(h[s \ {Top(s)}], ks[Top(s)])]
           iter == CHOOSE h : F(h)
           f == [z \in V \X (1 .. n) |-> Claude!JoinResult(z[1], ks[z[2]])]
<1>1. Claude!Joined(r, at) = iter[D]
  BY DEF Claude!Joined, Claude!FoldLeft, Claude!MapThenFoldSet, Claude!Max, Top
<1>2. n \in Nat /\ D = 1 .. n
  BY EntryShape DEF Claude!IsWellFormed
<1>3. \A s \in V : \A x : Claude!JoinResult(s, x) \in V
  <2> SUFFICES ASSUME NEW s \in V, NEW x PROVE Claude!JoinResult(s, x) \in V
    OBVIOUS
  <2>1. TakesOutcome(T, IF x.bad THEN "error" ELSE "ok")
    OBVIOUS
  <2> QED
    BY <2>1, DictJoin DEF Claude!JoinResult
<1>4. v \in V
  OBVIOUS
<1> HIDE DEF V, v, ks, D, n
<1>5. f \in [V \X (1 .. n) -> V]
  BY <1>3
<1>6. PICK h \in [SUBSET (1 .. n) -> V] : \A s \in SUBSET (1 .. n) : FoldsAt(s, v, f, h)
  <2> HIDE DEF f
  <2> QED
    BY <1>2, <1>4, <1>5, FoldExists
<1>7. \A s \in SUBSET (1 .. n) : s # {} => Top(s) \in 1 .. n /\ s \ {Top(s)} \in SUBSET (1 .. n)
  BY <1>2, TopIs
<1>8. F(h)
  <2>1. ASSUME NEW s \in SUBSET D
        PROVE  h[s] = IF s = {} THEN v ELSE Claude!JoinResult(h[s \ {Top(s)}], ks[Top(s)])
    <3>1. FoldsAt(s, v, f, h)
      BY <1>2, <1>6
    <3>2. CASE s = {}
      BY <3>1, <3>2 DEF FoldsAt
    <3>3. CASE s # {}
      <4>1. Top(s) \in 1 .. n /\ h[s \ {Top(s)}] \in V
        BY <1>2, <1>6, <1>7, <3>3
      <4>2. f[<<h[s \ {Top(s)}], Top(s)>>] = Claude!JoinResult(h[s \ {Top(s)}], ks[Top(s)])
        BY <4>1
      <4> QED
        BY <3>1, <3>3, <4>2 DEF FoldsAt
    <3> QED
      BY <3>2, <3>3
  <2>2. h = [s \in SUBSET D |-> h[s]]
    BY <1>2, <1>6
  <2> QED
    BY <2>1, <2>2
<1>9. F(iter)
  BY <1>8
<1> HIDE DEF iter
<1>10. \A s \in SUBSET (1 .. n) :
           iter[s] = IF s = {} THEN v ELSE Claude!JoinResult(iter[s \ {Top(s)}], ks[Top(s)])
  BY <1>2, <1>9
<1> HIDE DEF F, f
<1>11. iter[1 .. 0] = v
  <2>1. 1 .. 0 = {} /\ {} \in SUBSET (1 .. n)
    OBVIOUS
  <2> QED
    BY <1>10, <2>1
<1>12. ASSUME NEW k \in 1 .. n PROVE iter[1 .. k] = Claude!JoinResult(iter[1 .. k - 1], ks[k])
  <2>1. 1 .. k \in SUBSET (1 .. n) /\ k \in 1 .. k /\ k \in Nat \ {0}
    BY <1>2
  <2>2. 1 .. k # {}
    BY <2>1
  <2>3. Top(1 .. k) = k /\ (1 .. k) \ {k} = 1 .. k - 1
    BY <2>1, TopOfSegment
  <2> QED
    BY <1>10, <2>1, <2>2, <2>3
<1> DEFINE g == [k \in 0 .. n |-> iter[1 .. k]]
<1>13. /\ 0 \in 0 .. n /\ n \in 0 .. n
       /\ \A k \in 1 .. n : k \in 0 .. n /\ k - 1 \in 0 .. n
  BY <1>2
<1>14. /\ g[0] = v /\ g[n] = Claude!Joined(r, at)
       /\ \A k \in 1 .. n : g[k] = Claude!JoinResult(g[k - 1], ks[k])
  BY <1>1, <1>2, <1>11, <1>12, <1>13
<1> HIDE DEF g
<1> QED
  BY <1>2, <1>14 DEF n, v, ks, D

AnswersIn(Q) ==
    UNION {{<<i, Q[i].results[j].id>> : j \in DOMAIN Q[i].results} :
              i \in {i \in DOMAIN Q : Claude!IsEntry(Q[i])}}

\* What the dict p and the list c hold when the records R were read.
CallsHeld(t, R, p, c) ==
    /\ p \in Seq(CallsOf(t, R)) /\ c \in Seq(CallsOf(t, R))
    /\ OneCallPerId(p) /\ IsDistinct(c)
    /\ CallsInv(t, R, UsesIn(t, R), AnswersIn(R), ToSet(p), ToSet(c))

\* Reading on does not move what was read.
LEMMA ReadsOn ==
    ASSUME NEW t, NEW R \in Seq(EntrySet), NEW r \in EntrySet
    PROVE  LET Q == Append(R, r)
               m == Len(R) + 1
           IN  /\ Q \in Seq(EntrySet) /\ Len(Q) = m /\ Q[m] = r /\ m \in Nat
               /\ UsesIn(t, Q) = UsesIn(t, R) \cup
                      {<<m, k>> : k \in {k \in OpensOf(t, r) : Claude!IsEntry(r)}}
               /\ AnswersIn(Q) = AnswersIn(R) \cup
                      {<<m, r.results[j].id>> : j \in {j \in DOMAIN r.results : Claude!IsEntry(r)}}
               /\ \A u \in UsesIn(t, R) : /\ u[1] \in 1 .. Len(R) /\ u[1] < m
                                          /\ UseAt(Q, u) = UseAt(R, u)
                                          /\ \A o : CallAt(t, Q, u, o) = CallAt(t, R, u, o)
               /\ \A i, d : <<i, d>> \in AnswersIn(R) => i \in 1 .. Len(R) /\ i < m
<1> DEFINE Q == Append(R, r)
           m == Len(R) + 1
           n == Len(R)
<1>1. /\ n \in Nat /\ Q \in Seq(EntrySet) /\ Len(Q) = n + 1 /\ Q[n + 1] = r
      /\ \A i \in 1 .. n : Q[i] = R[i]
      /\ DOMAIN R = 1 .. n /\ DOMAIN Q = 1 .. n + 1
  OBVIOUS
<1> HIDE DEF Q
<1>2. 1 .. n + 1 = (1 .. n) \cup {n + 1} /\ \A i \in 1 .. n : i < n + 1
  BY <1>1
<1>3. UsesIn(t, Q) = UsesIn(t, R) \cup {<<m, k>> : k \in {k \in OpensOf(t, r) : Claude!IsEntry(r)}}
  <2> DEFINE Of(i) == {<<i, k>> : k \in OpensOf(t, Q[i])}
  <2>1. UsesIn(t, Q) = UNION {Of(i) : i \in {i \in 1 .. n + 1 : Claude!IsEntry(Q[i])}}
    BY <1>1 DEF UsesIn
  <2>2. UsesIn(t, R) = UNION {Of(i) : i \in {i \in 1 .. n : Claude!IsEntry(Q[i])}}
    BY <1>1 DEF UsesIn
  <2>3. Of(n + 1) = {<<m, k>> : k \in OpensOf(t, r)}
    BY <1>1
  <2> HIDE DEF Of
  <2>4. CASE Claude!IsEntry(r)
    <3>1. UsesIn(t, Q) = UsesIn(t, R) \cup Of(n + 1)
      BY <1>1, <1>2, <2>1, <2>2, <2>4
    <3> QED
      BY <2>3, <2>4, <3>1
  <2>5. CASE ~Claude!IsEntry(r)
    <3>1. UsesIn(t, Q) = UsesIn(t, R)
      BY <1>1, <1>2, <2>1, <2>2, <2>5
    <3> QED
      BY <2>5, <3>1
  <2> QED
    BY <2>4, <2>5
<1>4. AnswersIn(Q) = AnswersIn(R) \cup
          {<<m, r.results[j].id>> : j \in {j \in DOMAIN r.results : Claude!IsEntry(r)}}
  <2> DEFINE Of(i) == {<<i, Q[i].results[j].id>> : j \in DOMAIN Q[i].results}
  <2>1. AnswersIn(Q) = UNION {Of(i) : i \in {i \in 1 .. n + 1 : Claude!IsEntry(Q[i])}}
    BY <1>1 DEF AnswersIn
  <2>2. AnswersIn(R) = UNION {Of(i) : i \in {i \in 1 .. n : Claude!IsEntry(Q[i])}}
    BY <1>1 DEF AnswersIn
  <2>3. Of(n + 1) = {<<m, r.results[j].id>> : j \in DOMAIN r.results}
    BY <1>1
  <2> HIDE DEF Of
  <2>4. CASE Claude!IsEntry(r)
    <3>1. AnswersIn(Q) = AnswersIn(R) \cup Of(n + 1)
      BY <1>1, <1>2, <2>1, <2>2, <2>4
    <3> QED
      BY <2>3, <2>4, <3>1
  <2>5. CASE ~Claude!IsEntry(r)
    <3>1. AnswersIn(Q) = AnswersIn(R)
      BY <1>1, <1>2, <2>1, <2>2, <2>5
    <3> QED
      BY <2>5, <3>1
  <2> QED
    BY <2>4, <2>5
<1>5. ASSUME NEW u \in UsesIn(t, R)
      PROVE  /\ u[1] \in 1 .. Len(R) /\ u[1] < m /\ UseAt(Q, u) = UseAt(R, u)
             /\ \A o : CallAt(t, Q, u, o) = CallAt(t, R, u, o)
  <2>1. u[1] \in 1 .. n /\ u[1] < m /\ Q[u[1]] = R[u[1]]
    BY <1>1, <1>2, UsesAre
  <2> QED
    BY <2>1 DEF UseAt, CallAt
<1>6. \A i, d : <<i, d>> \in AnswersIn(R) => i \in 1 .. n /\ i < m
  BY <1>1, <1>2 DEF AnswersIn
<1> QED
  BY <1>1, <1>3, <1>4, <1>5, <1>6 DEF Q

\* Neither the calls nor what is held of them change when a record follows.
LEMMA CallsStay ==
    ASSUME NEW t, NEW R \in Seq(EntrySet), NEW r \in EntrySet
    PROVE  CallsOf(t, R) \subseteq CallsOf(t, Append(R, r))
<1> DEFINE Q == Append(R, r)
<1>1. /\ UsesIn(t, R) \subseteq UsesIn(t, Q)
      /\ \A u \in UsesIn(t, R), o \in Outcomes : CallAt(t, Q, u, o) = CallAt(t, R, u, o)
  BY ReadsOn
<1> HIDE DEF Q
<1>2. ASSUME NEW x \in CallsOf(t, R) PROVE x \in CallsOf(t, Q)
  <2>1. PICK u \in UsesIn(t, R), o \in Outcomes : x = CallAt(t, R, u, o)
    BY DEF CallsOf
  <2>2. x = CallAt(t, Q, u, o) /\ u \in UsesIn(t, Q)
    BY <1>1, <2>1
  <2> QED
    BY <2>2 DEF CallsOf
<1> QED
  BY <1>2 DEF Q

LEMMA HeldStays ==
    ASSUME NEW t, NEW R \in Seq(EntrySet), NEW r \in EntrySet, NEW A, NEW P, NEW C,
           CallsInv(t, R, UsesIn(t, R), A, P, C)
    PROVE  CallsInv(t, Append(R, r), UsesIn(t, R), A, P, C)
<1> DEFINE Q == Append(R, r)
           U == UsesIn(t, R)
<1>1. /\ UsesIn(t, R) \subseteq UsesIn(t, Q)
      /\ \A u \in U : UseAt(Q, u) = UseAt(R, u)
  BY ReadsOn
<1>2. CallsOf(t, R) \subseteq CallsOf(t, Q)
  BY CallsStay
<1> HIDE DEF Q, U
<1>3. /\ P \subseteq CallsOf(t, R) /\ C \subseteq CallsOf(t, R)
      /\ \A x \in P : x.outcome = "pending"
      /\ \A x \in C : x.outcome \in {"ok", "error"}
      /\ \A x \in P \cup C : x.at \in U
      /\ \A x, y \in P : x.id = y.id => x = y
      /\ \A x, y \in P \cup C : x.at = y.at => x = y
      /\ \A x \in P : StillOpen(R, U, A, x.at)
      /\ \A x \in C : InTime(R, U, A, x.at)
      /\ \A u \in U : (\E x \in P \cup C : x.at = u) \/ Replaced(R, U, A, u)
  BY DEF CallsInv, U
<1>4. \A u \in U : AnswersTo(Q, A, u) = AnswersTo(R, A, u)
  BY <1>1 DEF AnswersTo
<1>5. \A u, v \in U : Repeats(Q, v, u) <=> Repeats(R, v, u)
  BY <1>1 DEF Repeats
<1>6. \A u \in U : /\ StillOpen(Q, U, A, u) <=> StillOpen(R, U, A, u)
                   /\ InTime(Q, U, A, u) <=> InTime(R, U, A, u)
                   /\ Replaced(Q, U, A, u) <=> Replaced(R, U, A, u)
  BY <1>4, <1>5 DEF StillOpen, InTime, Replaced
<1>7. /\ \A x \in P : StillOpen(Q, U, A, x.at)
      /\ \A x \in C : InTime(Q, U, A, x.at)
      /\ \A u \in U : (\E x \in P \cup C : x.at = u) \/ Replaced(Q, U, A, u)
  BY <1>3, <1>6
<1> QED
  BY <1>1, <1>2, <1>3, <1>7 DEF CallsInv, Q, U

\* The first k uses of the record m, whose uses that open calls are ks.
UsesUpTo(m, ks, k) == {<<m, i>> : i \in {i \in ks : i <= k}}

\* What a record opens, in the terms of the invariant.
LEMMA OpensAs ==
    ASSUME NEW Q, NEW m, NEW r, Q[m] = r, Claude!IsEntry(r)
    PROVE  /\ Claude!Opens(r) = OpensOf(trackTurns, r)
           /\ \A k : Claude!Opened(r, m, k) = CallAt(trackTurns, Q, <<m, k>>, "pending")
<1>1. \A k : <<m, k>>[1] = m /\ <<m, k>>[2] = k
  OBVIOUS
<1> QED
  BY <1>1 DEF Claude!Opens, OpensOf, Claude!Opened, CallAt, UseAt, Claude!TurnOf, Claude!Tracked

\* The uses of a record are put before its results are joined.
LEMMA RecordPuts ==
    ASSUME NEW R \in Seq(EntrySet), NEW r \in EntrySet, Claude!IsEntry(r),
           CallsHeld(trackTurns, R, pending, calls)
    PROVE  LET Q == Append(R, r)
               p == Claude!Enqueued(r, Len(R) + 1)
           IN  /\ p \in Seq(CallsOf(trackTurns, Q)) /\ OneCallPerId(p)
               /\ CallsInv(trackTurns, Q, UsesIn(trackTurns, Q), AnswersIn(R), ToSet(p), ToSet(calls))
<1> DEFINE t == trackTurns
           Q == Append(R, r)
           m == Len(R) + 1
           T == CallsOf(t, Q)
           A == AnswersIn(R)
           ks == OpensOf(t, r)
           n == Len(r.uses)
           U(k) == UsesIn(t, R) \cup UsesUpTo(m, ks, k)
<1>1. /\ Q \in Seq(EntrySet) /\ Q[m] = r /\ m \in Nat
      /\ UsesIn(t, Q) = UsesIn(t, R) \cup {<<m, k>> : k \in ks}
      /\ \A u \in UsesIn(t, R) : u[1] < m
      /\ \A i, d : <<i, d>> \in A => i < m
  BY ReadsOn
<1>2. /\ Claude!Opens(r) = ks
      /\ \A k : Claude!Opened(r, m, k) = CallAt(t, Q, <<m, k>>, "pending")
  BY <1>1, OpensAs
<1>3. \A k \in ks : Claude!Opened(r, m, k) \in T
  <2>1. "pending" \in Outcomes
    BY DEF Outcomes
  <2>2. \A k \in ks : <<m, k>> \in UsesIn(t, Q)
    BY <1>1
  <2> HIDE DEF Q, t, m, ks
  <2> QED
    BY <1>2, <2>1, <2>2, CallOfUse
<1>4. pending \in Seq(T) /\ OneCallPerId(pending)
  BY CallsStay DEF CallsHeld
<1>5. CallsInv(t, Q, UsesIn(t, R), A, ToSet(pending), ToSet(calls))
  BY HeldStays DEF CallsHeld
<1> HIDE DEF Q, T, ks, A, m, t
<1>0. n \in Nat /\ ks \subseteq 1 .. n
  BY EntryShape DEF Claude!IsWellFormed, ks, OpensOf
<1>6. /\ \E h : /\ h[0] = pending /\ h[n] = Claude!Enqueued(r, m)
                /\ \A k \in 1 .. n :
                      h[k] = IF k \in Claude!Opens(r)
                             THEN Claude!Put(h[k - 1], Claude!Opened(r, m, k)) ELSE h[k - 1]
  BY <1>2, <1>3, <1>4, EnqueueChain
<1>7. PICK h : /\ h[0] = pending /\ h[n] = Claude!Enqueued(r, m)
               /\ \A k \in 1 .. n : h[k] = IF k \in ks THEN Claude!Put(h[k - 1], Claude!Opened(r, m, k))
                                           ELSE h[k - 1]
  BY <1>2, <1>6
<1>8. n \in Nat /\ \A i \in ks : i \in Nat /\ 1 <= i /\ i <= n
  <2> HIDE DEF n
  <2> QED
    BY <1>0
<1> HIDE DEF n
<1> DEFINE Good(k) == /\ h[k] \in Seq(T) /\ OneCallPerId(h[k])
                      /\ CallsInv(t, Q, U(k), A, ToSet(h[k]), ToSet(calls))
           W == {k \in 0 .. n : ~Good(k)}
<1>9. Good(0)
  <2>1. U(0) = UsesIn(t, R)
    BY <1>8 DEF UsesUpTo
  <2> QED
    BY <1>4, <1>5, <1>7, <2>1
<1>10. ASSUME NEW k \in 1 .. n, Good(k - 1) PROVE Good(k)
  <2>1. CASE k \in ks
    <3> DEFINE w == <<m, k>>
               c == Claude!Opened(r, m, k)
    <3>1. h[k] = Claude!Put(h[k - 1], c) /\ c = CallAt(t, Q, w, "pending") /\ c \in T
      BY <1>2, <1>3, <1>7, <2>1
    <3>2. /\ h[k] \in Seq(T) /\ OneCallPerId(h[k])
          /\ ToSet(h[k]) = Others(ToSet(h[k - 1]), c.id) \cup {c}
      <4>1. h[k - 1] \in Seq(T) /\ OneCallPerId(h[k - 1])
        BY <1>10
      <4> DEFINE p == h[k - 1]
      <4>2. p \in Seq(T) /\ OneCallPerId(p) /\ c \in T /\ h[k] = Claude!Put(p, c)
        BY <3>1, <4>1
      <4> HIDE DEF c, Good, p
      <4>3. /\ h[k] \in Seq(T) /\ OneCallPerId(h[k])
            /\ ToSet(h[k]) = Others(ToSet(p), c.id) \cup {c}
        BY <4>2, DictPut
      <4> QED
        BY <4>3 DEF p
    <3>3. U(k) = U(k - 1) \cup {w}
      <4>0. \A i \in ks : i <= k <=> (i <= k - 1 \/ i = k)
        BY <1>8
      <4>1. {i \in ks : i <= k} = {i \in ks : i <= k - 1} \cup {k}
        BY <2>1, <4>0
      <4> QED
        BY <4>1 DEF UsesUpTo
    <3>4. w \in UsesIn(t, Q) /\ w[1] = m
      BY <1>1, <2>1
    <3>5. \A u \in U(k - 1) : Later(u, w)
      <4>1. \A i \in {i \in ks : i <= k - 1} : i < k
        BY <1>8
      <4>2. \A u \in UsesUpTo(m, ks, k - 1) : u[1] = m /\ u[2] < k
        BY <4>1 DEF UsesUpTo
      <4>3. w[1] = m /\ w[2] = k
        OBVIOUS
      <4> QED
        BY <1>1, <4>2, <4>3 DEF Later
    <3>6. CallsInv(t, Q, U(k - 1), A, ToSet(h[k - 1]), ToSet(calls))
      BY <1>10
    <3>7. \A i, d : <<i, d>> \in A => i < w[1]
      BY <1>1
    <3> HIDE DEF w, c, U
    <3>8. CallsInv(t, Q, U(k - 1) \cup {w}, A, Others(ToSet(h[k - 1]), c.id) \cup {c}, ToSet(calls))
      BY <1>1, <3>1, <3>4, <3>5, <3>6, <3>7, PutKeeps
    <3> QED
      BY <3>2, <3>3, <3>8
  <2>2. CASE k \notin ks
    <3>1. h[k] = h[k - 1]
      BY <1>7, <2>2
    <3>2. U(k) = U(k - 1)
      <4>1. {i \in ks : i <= k} = {i \in ks : i <= k - 1}
        BY <1>8, <2>2
      <4> QED
        BY <4>1 DEF UsesUpTo
    <3> QED
      BY <1>10, <3>1, <3>2
  <2> QED
    BY <2>1, <2>2
<1> HIDE DEF Good
<1>11. W = {}
  <2> SUFFICES ASSUME W # {} PROVE FALSE
    OBVIOUS
  <2>1. W \in SUBSET (0 .. n)
    OBVIOUS
  <2>2. PICK k \in W : k - 1 \notin W
    BY <1>8, <2>1, FirstFailure
  <2>3. k \in 0 .. n /\ ~Good(k)
    BY <2>2
  <2>4. k \in 1 .. n /\ k - 1 \in 0 .. n
    BY <1>8, <1>9, <2>3
  <2>5. Good(k - 1)
    BY <2>2, <2>4
  <2> QED
    BY <1>10, <2>3, <2>4, <2>5
<1>12. Good(n)
  BY <1>8, <1>11
<1>13. U(n) = UsesIn(t, Q)
  <2>1. {i \in ks : i <= n} = ks
    BY <1>8
  <2> QED
    BY <1>1, <2>1 DEF UsesUpTo
<1> QED
  BY <1>7, <1>12, <1>13 DEF Good, Q, T, A, m, t

\* The first k answers of the record m, whose results are rs.
AnswersUpTo(m, rs, k) == {<<m, rs[j].id>> : j \in 1 .. k}

\* A sequence of distinct members with one more.
LEMMA AddedToSeq ==
    ASSUME NEW T, NEW s \in Seq(T), NEW x
    PROVE  /\ ToSet(Append(s, x)) = ToSet(s) \cup {x}
           /\ IsDistinct(s) /\ x \notin ToSet(s) => IsDistinct(Append(s, x))
<1> DEFINE q == Append(s, x)
           n == Len(s)
<1>1. /\ n \in Nat /\ DOMAIN s = 1 .. n /\ DOMAIN q = 1 .. n + 1 /\ Len(q) = n + 1
      /\ q[n + 1] = x /\ \A i \in 1 .. n : q[i] = s[i]
  OBVIOUS
<1>2. 1 .. n + 1 = (1 .. n) \cup {n + 1}
  BY <1>1
<1> HIDE DEF q, n
<1>3. ToSet(q) = ToSet(s) \cup {x}
  BY <1>1, <1>2 DEF ToSet
<1>4. ASSUME IsDistinct(s), x \notin ToSet(s) PROVE IsDistinct(q)
  <2>1. \A i, j \in 1 .. n : s[i] = s[j] => i = j
    BY <1>4 DEF IsDistinct, n
  <2>2. \A i \in 1 .. n : s[i] # x
    BY <1>1, <1>4 DEF ToSet
  <2> QED
    BY <1>1, <1>2, <2>1, <2>2 DEF IsDistinct
<1> QED
  BY <1>3, <1>4 DEF q

\* One result.
LEMMA ResultJoins ==
    ASSUME NEW t, NEW Q \in Seq(EntrySet), NEW U, NEW A, NEW s \in Books(CallsOf(t, Q)),
           IsDistinct(s.calls), CallsInv(t, Q, U, A, ToSet(s.pending), ToSet(s.calls)),
           NEW m, ReadUpTo(U, A, m), NEW res
    PROVE  LET z == Claude!JoinResult(s, res)
           IN  /\ z \in Books(CallsOf(t, Q)) /\ IsDistinct(z.calls)
               /\ CallsInv(t, Q, U, A \cup {<<m, res.id>>}, ToSet(z.pending), ToSet(z.calls))
<1> DEFINE T == CallsOf(t, Q)
           o == IF res.bad THEN "error" ELSE "ok"
           z == Claude!JoinResult(s, res)
           d == res.id
           P == ToSet(s.pending)
           C == ToSet(s.calls)
           B == A \cup {<<m, d>>}
<1>1. Ends(o) /\ o \in Outcomes
  BY DEF Ends, Outcomes
<1>2. z = Claude!Join(s, d, o)
  BY DEF Claude!JoinResult
<1>3. TakesOutcome(T, o)
  <2> SUFFICES ASSUME NEW x \in T PROVE Ending(x, o) \in T
    BY DEF TakesOutcome
  <2> HIDE DEF o
  <2> QED
    BY <1>1, CallShape
<1>4. CallsInv(t, Q, U, A, P, C)
  OBVIOUS
<1> HIDE DEF o, z, d
<1>5. /\ z \in Books(T)
      /\ \/ z = s /\ \A x \in P : x.id # d
         \/ \E x \in P : /\ x.id = d /\ ToSet(z.pending) = Others(P, d)
                         /\ z.calls = Append(s.calls, Ending(x, o))
  <2>1. s \in Books(T)
    OBVIOUS
  <2> HIDE DEF T
  <2> QED
    BY <1>2, <1>3, <2>1, DictJoin DEF P
<1> HIDE DEF P, C
<1>6. /\ (\A x \in P : x.id # d) => CallsInv(t, Q, U, B, P, C)
      /\ \A x \in P : x.id = d =>
            CallsInv(t, Q, U, B, Others(P, d), C \cup {Ending(x, o)})
  BY <1>1, <1>4, JoinKeeps
<1>7. CASE z = s /\ \A x \in P : x.id # d
  BY <1>5, <1>6, <1>7 DEF z, d, P, C, T
<1>8. ASSUME NEW x \in P, x.id = d, ToSet(z.pending) = Others(P, d),
             z.calls = Append(s.calls, Ending(x, o))
      PROVE  IsDistinct(z.calls) /\ CallsInv(t, Q, U, B, ToSet(z.pending), ToSet(z.calls))
  <2> DEFINE e == Ending(x, o)
  <2>1. CallsInv(t, Q, U, B, Others(P, d), C \cup {e})
    BY <1>6, <1>8
  <2>2. s.calls \in Seq(T)
    BY DEF Books
  <2>3. x \in T /\ x.outcome = "pending" /\ (\A y \in C : y.at = x.at => y = x)
        /\ \A y \in C : y.outcome # "pending"
    BY <1>4 DEF CallsInv
  <2>4. e = CallAt(t, Q, x.at, o) /\ e.at = x.at
    BY <1>1, <2>3, CallShape DEF CallAt
  <2> HIDE DEF e
  <2>5. e \notin C
    BY <2>3, <2>4
  <2>6. ToSet(z.calls) = C \cup {e} /\ IsDistinct(z.calls)
    BY <1>8, <2>2, <2>5, AddedToSeq DEF C, e
  <2> QED
    BY <1>8, <2>1, <2>6
<1> QED
  BY <1>5, <1>7, <1>8 DEF z, d, B, T

\* One record.
LEMMA RecordHeld ==
    ASSUME NEW R \in Seq(EntrySet), NEW r \in EntrySet, Claude!IsEntry(r),
           CallsHeld(trackTurns, R, pending, calls)
    PROVE  LET joined == Claude!Joined(r, Len(R) + 1)
           IN  CallsHeld(trackTurns, Append(R, r), joined.pending, joined.calls)
<1> DEFINE t == trackTurns
           Q == Append(R, r)
           m == Len(R) + 1
           T == CallsOf(t, Q)
           A == AnswersIn(R)
           U == UsesIn(t, Q)
           rs == r.results
           n == Len(rs)
           p == Claude!Enqueued(r, m)
           v == [pending |-> p, calls |-> calls]
           B(k) == A \cup AnswersUpTo(m, rs, k)
<1>1. /\ Q \in Seq(EntrySet) /\ m \in Nat /\ Len(Q) = m
      /\ AnswersIn(Q) = A \cup {<<m, rs[j].id>> : j \in DOMAIN rs}
      /\ \A i, d : <<i, d>> \in A => i \in 1 .. Len(R) /\ i < m
  BY ReadsOn
<1>2. p \in Seq(T) /\ OneCallPerId(p) /\ CallsInv(t, Q, U, A, ToSet(p), ToSet(calls))
  BY RecordPuts
<1>3. calls \in Seq(T) /\ IsDistinct(calls)
  BY CallsStay DEF CallsHeld
<1>4. n \in Nat /\ DOMAIN rs = 1 .. n
  BY EntryShape DEF Claude!IsWellFormed
<1> HIDE DEF Q, U, A, m, t, rs, n, p
<1>5. v \in Books(T)
  BY <1>2, <1>3 DEF Books
<1>6. TakesOutcome(T, "ok") /\ TakesOutcome(T, "error")
  <2>1. "ok" \in Outcomes /\ "error" \in Outcomes
    BY DEF Outcomes
  <2> QED
    BY <1>1, <2>1, CallShape DEF TakesOutcome
<1> HIDE DEF T
<1>7. \E h : h[0] = v /\ h[n] = Claude!Joined(r, m)
             /\ \A k \in 1 .. n : h[k] = Claude!JoinResult(h[k - 1], rs[k])
  BY <1>5, <1>6, JoinChain DEF p, rs, n
<1>8. PICK h : h[0] = v /\ h[n] = Claude!Joined(r, m)
               /\ \A k \in 1 .. n : h[k] = Claude!JoinResult(h[k - 1], rs[k])
  BY <1>7
<1> DEFINE Good(k) == /\ h[k] \in Books(T) /\ IsDistinct(h[k].calls)
                      /\ CallsInv(t, Q, U, B(k), ToSet(h[k].pending), ToSet(h[k].calls))
           W == {k \in 0 .. n : ~Good(k)}
<1>9. Good(0)
  <2>1. B(0) = A
    BY DEF AnswersUpTo
  <2>2. h[0].pending = p /\ h[0].calls = calls /\ h[0] \in Books(T)
    BY <1>5, <1>8
  <2> QED
    BY <1>2, <1>3, <2>1, <2>2
<1>10. ASSUME NEW k \in 1 .. n, Good(k - 1) PROVE Good(k)
  <2> DEFINE s == h[k - 1]
             E == B(k - 1)
             res == rs[k]
  <2>1. h[k] = Claude!JoinResult(s, res)
    BY <1>8
  <2>2. B(k) = E \cup {<<m, res.id>>}
    <3>1. 1 .. k = (1 .. k - 1) \cup {k}
      BY <1>4
    <3> QED
      BY <3>1 DEF AnswersUpTo
  <2>3. \A u \in U : u[1] <= m
    <3> SUFFICES ASSUME NEW u \in UsesIn(t, Q) PROVE u[1] <= m
      BY DEF U
    <3> QED
      BY <1>1, UsesAre
  <2>4. ReadUpTo(U, E, m)
    <3>0. m \in Nat /\ m <= m /\ \A i \in 1 .. Len(R) : i < m => i <= m
      BY <1>1
    <3>1. \A i, d : <<i, d>> \in E => i <= m
      BY <1>1, <3>0 DEF AnswersUpTo
    <3> QED
      BY <1>1, <2>3, <3>1 DEF ReadUpTo
  <2>5. s \in Books(CallsOf(t, Q)) /\ IsDistinct(s.calls)
        /\ CallsInv(t, Q, U, E, ToSet(s.pending), ToSet(s.calls))
    BY <1>10 DEF T
  <2> HIDE DEF s, E, res, B
  <2>6. LET z == Claude!JoinResult(s, res)
        IN  /\ z \in Books(CallsOf(t, Q)) /\ IsDistinct(z.calls)
            /\ CallsInv(t, Q, U, E \cup {<<m, res.id>>}, ToSet(z.pending), ToSet(z.calls))
    BY <1>1, <2>4, <2>5, ResultJoins
  <2> QED
    BY <2>1, <2>2, <2>6 DEF T
<1> HIDE DEF Good
<1>11. W = {}
  <2> SUFFICES ASSUME W # {} PROVE FALSE
    OBVIOUS
  <2>1. W \in SUBSET (0 .. n)
    OBVIOUS
  <2>2. PICK k \in W : k - 1 \notin W
    BY <1>4, <2>1, FirstFailure
  <2>3. k \in 0 .. n /\ ~Good(k)
    BY <2>2
  <2>4. k \in 1 .. n /\ k - 1 \in 0 .. n
    BY <1>4, <1>9, <2>3
  <2>5. Good(k - 1)
    BY <2>2, <2>4
  <2> QED
    BY <1>10, <2>3, <2>4, <2>5
<1>12. Good(n)
  BY <1>4, <1>11
<1>13. B(n) = AnswersIn(Q)
  BY <1>1, <1>4 DEF AnswersUpTo
<1>14. LET z == Claude!Joined(r, m)
       IN  /\ z \in Books(T) /\ IsDistinct(z.calls)
           /\ CallsInv(t, Q, U, AnswersIn(Q), ToSet(z.pending), ToSet(z.calls))
  BY <1>8, <1>12, <1>13 DEF Good
<1> QED
  BY <1>14 DEF CallsHeld, Books, Q, T, U, m, t

\* A malformed line opens and answers nothing.
LEMMA MalformedHeld ==
    ASSUME NEW R \in Seq(EntrySet), NEW r \in EntrySet, ~Claude!IsEntry(r), NEW t, NEW p, NEW c,
           CallsHeld(t, R, p, c)
    PROVE  CallsHeld(t, Append(R, r), p, c)
<1>1. UsesIn(t, Append(R, r)) = UsesIn(t, R) /\ AnswersIn(Append(R, r)) = AnswersIn(R)
  <2>1. /\ {k \in OpensOf(t, r) : Claude!IsEntry(r)} = {}
        /\ {j \in DOMAIN r.results : Claude!IsEntry(r)} = {}
    OBVIOUS
  <2> DEFINE K == {k \in OpensOf(t, r) : Claude!IsEntry(r)}
             J == {j \in DOMAIN r.results : Claude!IsEntry(r)}
             m == Len(R) + 1
  <2>2. /\ UsesIn(t, Append(R, r)) = UsesIn(t, R) \cup {<<m, k>> : k \in K}
        /\ AnswersIn(Append(R, r)) = AnswersIn(R) \cup {<<m, r.results[j].id>> : j \in J}
    BY ReadsOn
  <2>3. K = {} /\ J = {}
    BY <2>1
  <2> HIDE DEF K, J
  <2> QED
    BY <2>2, <2>3
<1>2. CallsInv(t, Append(R, r), UsesIn(t, R), AnswersIn(R), ToSet(p), ToSet(c))
  BY HeldStays DEF CallsHeld
<1>3. p \in Seq(CallsOf(t, Append(R, r))) /\ c \in Seq(CallsOf(t, Append(R, r)))
  BY CallsStay DEF CallsHeld
<1> QED
  BY <1>1, <1>2, <1>3 DEF CallsHeld

-----------------------------------------------------------------------------
(* The turns of a claude stream.                                           *)

Counted(R, i) == Claude!IsEntry(R[i]) /\ R[i].assistant

\* A turn has at least the uses of any two records of it, and spoke if one did.
TurnsInv(t, R, tn) ==
    /\ tn \in [Claude!Keys -> [uses : Nat, spoken : BOOLEAN]]
    /\ t => \A i \in 1 .. Len(R) : Counted(R, i) =>
                /\ R[i].request # Claude!None
                /\ Len(R[i].uses) <= tn[R[i].request].uses
                /\ R[i].spoken => tn[R[i].request].spoken
                /\ \A j \in 1 .. Len(R) :
                      Counted(R, j) /\ j # i /\ R[j].request = R[i].request =>
                          Len(R[i].uses) + Len(R[j].uses) <= tn[R[i].request].uses

\* Arithmetic of the counts of a turn.
LEMMA Bounds ==
    \A a, b, c, d \in Nat : /\ a <= b /\ b <= c => a <= c
                            /\ a + b <= c /\ c <= d => a + b <= d
                            /\ a <= b => a + c <= b + c
                            /\ a + b = b + a
OBVIOUS

\* A record adds its uses and its prose to its turn.
LEMMA TurnStep ==
    ASSUME NEW R \in Seq(EntrySet), NEW r \in EntrySet, Claude!IsEntry(r),
           Claude!Tracked(r) => r.request # Claude!None,
           TurnsInv(trackTurns, R, turns), Claude!TrackTurn(r)
    PROVE  TurnsInv(trackTurns, Append(R, r), turns')
<1> DEFINE Q == Append(R, r)
           n == Len(R)
           t == trackTurns
<1>1. /\ n \in Nat /\ Len(Q) = n + 1 /\ Q[n + 1] = r /\ \A i \in 1 .. n : Q[i] = R[i]
      /\ \A i \in 1 .. n : R[i] \in EntrySet
  OBVIOUS
<1>2. 1 .. n + 1 = (1 .. n) \cup {n + 1} /\ n + 1 \notin 1 .. n
  BY <1>1
<1>3. r.request \in Claude!Keys /\ Len(r.uses) \in Nat /\ r.spoken \in BOOLEAN
  BY EntryShape DEF Claude!IsWellFormed
<1>4. \A i \in 1 .. n : Counted(R, i) => Len(R[i].uses) \in Nat /\ R[i].request \in Claude!Keys
  BY <1>1, EntryShape DEF Claude!IsWellFormed, Counted
<1>5. turns \in [Claude!Keys -> [uses : Nat, spoken : BOOLEAN]]
  BY DEF TurnsInv
<1>6. /\ turns' \in [Claude!Keys -> [uses : Nat, spoken : BOOLEAN]]
      /\ \A k \in Claude!Keys :
            turns'[k] = IF Claude!Tracked(r) /\ k = r.request
                        THEN [uses |-> turns[k].uses + Len(r.uses), spoken |-> turns[k].spoken \/ r.spoken]
                        ELSE turns[k]
  BY <1>3, <1>5 DEF Claude!TrackTurn, Claude!Turn
<1>7. \A k \in Claude!Keys : turns[k].uses \in Nat /\ turns[k].spoken \in BOOLEAN
  BY <1>5
<1>8. \A i \in 1 .. n : Counted(Q, i) <=> Counted(R, i)
  BY <1>1 DEF Counted
<1>9. t => (Counted(Q, n + 1) <=> Claude!Tracked(r))
  BY <1>1 DEF Counted, Claude!Tracked
<1> HIDE DEF Q
<1>10. ASSUME t, NEW i \in 1 .. n, Counted(R, i)
       PROVE  /\ R[i].request # Claude!None
              /\ Len(R[i].uses) <= turns[R[i].request].uses
              /\ R[i].spoken => turns[R[i].request].spoken
              /\ \A j \in 1 .. n : Counted(R, j) /\ j # i /\ R[j].request = R[i].request =>
                     Len(R[i].uses) + Len(R[j].uses) <= turns[R[i].request].uses
  BY <1>10 DEF TurnsInv
<1>11. ASSUME NEW k \in Claude!Keys
       PROVE  /\ turns[k].uses <= turns'[k].uses /\ turns'[k].uses \in Nat
              /\ turns[k].spoken => turns'[k].spoken
  BY <1>3, <1>6, <1>7
<1>12. Claude!Tracked(r) => /\ turns'[r.request].uses = turns[r.request].uses + Len(r.uses)
                            /\ r.spoken => turns'[r.request].spoken
  BY <1>3, <1>6
<1>13. ASSUME t, NEW i \in 1 .. n, Counted(R, i)
       PROVE  /\ R[i].request # Claude!None
              /\ Len(R[i].uses) <= turns'[R[i].request].uses
              /\ R[i].spoken => turns'[R[i].request].spoken
              /\ \A j \in 1 .. n : Counted(R, j) /\ j # i /\ R[j].request = R[i].request =>
                     Len(R[i].uses) + Len(R[j].uses) <= turns'[R[i].request].uses
              /\ Claude!Tracked(r) /\ r.request = R[i].request =>
                     Len(R[i].uses) + Len(r.uses) <= turns'[R[i].request].uses
  <2>1. R[i].request \in Claude!Keys /\ Len(R[i].uses) \in Nat
    BY <1>4, <1>13
  <2>2. \A j \in 1 .. n : Counted(R, j) => Len(R[j].uses) \in Nat
    BY <1>4
  <2>3. /\ turns[R[i].request].uses <= turns'[R[i].request].uses
        /\ turns'[R[i].request].uses \in Nat /\ turns[R[i].request].uses \in Nat
        /\ turns[R[i].request].spoken => turns'[R[i].request].spoken
    BY <1>7, <1>11, <2>1
  <2>4. /\ R[i].request # Claude!None /\ Len(R[i].uses) <= turns'[R[i].request].uses
        /\ R[i].spoken => turns'[R[i].request].spoken
    <3>1. /\ R[i].request # Claude!None /\ Len(R[i].uses) <= turns[R[i].request].uses
          /\ R[i].spoken => turns[R[i].request].spoken
      BY <1>10, <1>13
    <3>2. Len(R[i].uses) <= turns'[R[i].request].uses
      BY <2>1, <2>3, <3>1, Bounds
    <3> QED
      BY <2>3, <3>1, <3>2
  <2>5. \A j \in 1 .. n : Counted(R, j) /\ j # i /\ R[j].request = R[i].request =>
            Len(R[i].uses) + Len(R[j].uses) <= turns'[R[i].request].uses
    <3> SUFFICES ASSUME NEW j \in 1 .. n, Counted(R, j), j # i, R[j].request = R[i].request
                 PROVE  Len(R[i].uses) + Len(R[j].uses) <= turns'[R[i].request].uses
      OBVIOUS
    <3>1. Len(R[i].uses) + Len(R[j].uses) <= turns[R[i].request].uses
      BY <1>10, <1>13
    <3> QED
      <4> DEFINE a == Len(R[i].uses)
                 b == Len(R[j].uses)
                 c == turns[R[i].request].uses
                 d == turns'[R[i].request].uses
      <4>1. a \in Nat /\ b \in Nat /\ c \in Nat /\ d \in Nat /\ a + b <= c /\ c <= d
        BY <2>1, <2>2, <2>3, <3>1
      <4> HIDE DEF a, b, c, d
      <4>2. a + b <= d
        BY <4>1
      <4> QED
        BY <4>2 DEF a, b, d
  <2>6. Claude!Tracked(r) /\ r.request = R[i].request =>
            Len(R[i].uses) + Len(r.uses) <= turns'[R[i].request].uses
    <3> SUFFICES ASSUME Claude!Tracked(r), r.request = R[i].request
                 PROVE  Len(R[i].uses) + Len(r.uses) <= turns'[R[i].request].uses
      OBVIOUS
    <3>1. Len(R[i].uses) <= turns[R[i].request].uses
      BY <1>10, <1>13
    <3>2. turns'[R[i].request].uses = turns[R[i].request].uses + Len(r.uses)
      BY <1>12
    <3> QED
      <4> DEFINE a == Len(R[i].uses)
                 b == Len(r.uses)
                 c == turns[R[i].request].uses
                 d == turns'[R[i].request].uses
      <4>1. a \in Nat /\ b \in Nat /\ c \in Nat /\ a <= c /\ d = c + b
        BY <1>3, <2>1, <2>3, <3>1, <3>2
      <4> HIDE DEF a, b, c, d
      <4>2. a + b <= d
        BY <4>1
      <4> QED
        BY <4>2 DEF a, b, d
  <2> QED
    BY <2>4, <2>5, <2>6
<1>14. ASSUME t, NEW i \in 1 .. n + 1, Counted(Q, i)
       PROVE  /\ Q[i].request # Claude!None
              /\ Len(Q[i].uses) <= turns'[Q[i].request].uses
              /\ Q[i].spoken => turns'[Q[i].request].spoken
              /\ \A j \in 1 .. n + 1 : Counted(Q, j) /\ j # i /\ Q[j].request = Q[i].request =>
                     Len(Q[i].uses) + Len(Q[j].uses) <= turns'[Q[i].request].uses
  <2>1. CASE i \in 1 .. n
    <3>1. Counted(R, i) /\ Q[i] = R[i]
      BY <1>1, <1>8, <1>14, <2>1
    <3>2. ASSUME NEW j \in 1 .. n + 1, Counted(Q, j), j # i, Q[j].request = Q[i].request
          PROVE  Len(Q[i].uses) + Len(Q[j].uses) <= turns'[Q[i].request].uses
      <4>1. CASE j \in 1 .. n
        BY <1>1, <1>8, <1>13, <1>14, <2>1, <3>1, <3>2, <4>1
      <4>2. CASE j = n + 1
        BY <1>1, <1>9, <1>13, <1>14, <2>1, <3>1, <3>2, <4>2
      <4> QED
        BY <1>2, <4>1, <4>2
    <3> QED
      BY <1>13, <1>14, <2>1, <3>1, <3>2
  <2>2. CASE i = n + 1
    <3>1. Claude!Tracked(r) /\ Q[i] = r
      BY <1>1, <1>9, <1>14, <2>2
    <3>2. Len(r.uses) <= turns'[r.request].uses
      BY <1>3, <1>7, <1>12, <3>1
    <3>3. ASSUME NEW j \in 1 .. n, Counted(R, j), R[j].request = r.request
          PROVE  Len(r.uses) + Len(R[j].uses) <= turns'[r.request].uses
      <4>1. Len(R[j].uses) + Len(r.uses) <= turns'[r.request].uses
        BY <1>13, <1>14, <3>1, <3>3
      <4>2. Len(R[j].uses) \in Nat
        BY <1>4, <3>3
      <4> QED
        BY <1>3, <4>1, <4>2, Bounds
    <3>4. \A j \in 1 .. n + 1 : j # i => j \in 1 .. n
      BY <1>2, <2>2
    <3> QED
      BY <1>1, <1>8, <1>12, <3>1, <3>2, <3>3, <3>4
  <2> QED
    BY <1>2, <2>1, <2>2
<1> QED
  BY <1>1, <1>6, <1>14 DEF TurnsInv, Q

LEMMA MalformedTurns ==
    ASSUME NEW R \in Seq(EntrySet), NEW r \in EntrySet, ~Claude!IsEntry(r), NEW t, NEW tn,
           TurnsInv(t, R, tn)
    PROVE  TurnsInv(t, Append(R, r), tn)
<1> DEFINE Q == Append(R, r)
           n == Len(R)
<1>1. /\ n \in Nat /\ Len(Q) = n + 1 /\ Q[n + 1] = r /\ \A i \in 1 .. n : Q[i] = R[i]
  OBVIOUS
<1>2. 1 .. n + 1 = (1 .. n) \cup {n + 1}
  BY <1>1
<1>3. ~Counted(Q, n + 1) /\ \A i \in 1 .. n : Counted(Q, i) <=> Counted(R, i)
  BY <1>1 DEF Counted
<1> HIDE DEF Q
<1>4. \A i \in 1 .. n + 1 : Counted(Q, i) => i \in 1 .. n /\ Counted(R, i) /\ Q[i] = R[i]
  BY <1>1, <1>2, <1>3
<1> QED
  BY <1>1, <1>4 DEF TurnsInv, Q

-----------------------------------------------------------------------------
(* The invariant of a claude stream's parser.                              *)

Written == EntriesOf(given)

\* At end of file the calls that were left are drained into the list.
AllDrained ==
    \E p, c : CallsHeld(trackTurns, Written, p, c) /\ calls = c \o Claude!Drained(p)

ClaudeInv ==
    /\ Written \in Seq(EntrySet)
    /\ UsageInv(Written, charged, total, byBranch, byCwd)
    /\ parsing # "failed" => TurnsInv(trackTurns, Written, turns)
    /\ parsing = "reading" => CallsHeld(trackTurns, Written, pending, calls)
    /\ parsing = "parsed" => AllDrained

\* One turn of the loop keeps the invariant and ends nothing.
LEMMA ClaudeReads ==
    ASSUME ClaudeInv, NEW r \in EntrySet, Claude!Consume(r)
    PROVE  ClaudeInv' /\ trackTurns' = trackTurns /\ parsing' # "parsed"
<1>1. /\ parsing = "reading" /\ Written \in Seq(EntrySet)
      /\ UsageInv(Written, charged, total, byBranch, byCwd)
      /\ TurnsInv(trackTurns, Written, turns) /\ CallsHeld(trackTurns, Written, pending, calls)
  BY DEF ClaudeInv, Claude!Consume, Claude!ParseEntry, Claude!TurnKeyMissing, Claude!SkipMalformed
<1>2. Append(Written, r) \in Seq(EntrySet) /\ trackTurns' = trackTurns
  BY <1>1, ClaudeKeepsTheReader
<1>3. CASE Claude!IsEntry(r) /\ Claude!ParseEntry(r)
  <2>1. /\ Written' = Append(Written, r) /\ Claude!Account(r) /\ Claude!TrackTurn(r)
        /\ Claude!Tracked(r) => r.request # Claude!None
        /\ parsing' = parsing
        /\ pending' = Claude!Joined(r, Len(Written) + 1).pending
        /\ calls' = Claude!Joined(r, Len(Written) + 1).calls
    BY <1>3 DEF Claude!ParseEntry, Written
  <2>2. UsageInv(Append(Written, r), charged', total', byBranch', byCwd')
    BY <1>1, <1>3, <2>1, UsageStep
  <2>3. TurnsInv(trackTurns, Append(Written, r), turns')
    BY <1>1, <1>3, <2>1, TurnStep
  <2>4. CallsHeld(trackTurns, Append(Written, r), pending', calls')
    BY <1>1, <1>3, <2>1, RecordHeld
  <2> QED
    BY <1>1, <1>2, <2>1, <2>2, <2>3, <2>4 DEF ClaudeInv
<1>4. CASE Claude!IsEntry(r) /\ Claude!TurnKeyMissing(r)
  <2>1. Written' = Append(Written, r) /\ Claude!Account(r) /\ parsing' = "failed"
    BY <1>4 DEF Claude!TurnKeyMissing, Written
  <2>2. UsageInv(Append(Written, r), charged', total', byBranch', byCwd')
    BY <1>1, <1>4, <2>1, UsageStep
  <2> QED
    BY <1>2, <2>1, <2>2 DEF ClaudeInv
<1>5. CASE ~Claude!IsEntry(r) /\ Claude!SkipMalformed
  <2>1. /\ Written' = Append(Written, Claude!Malformed) /\ parsing' = parsing
        /\ UNCHANGED <<pending, calls, turns, charged, total, byBranch, byCwd>>
    BY <1>5 DEF Claude!SkipMalformed, Claude!tally, Written
  <2>2. Claude!Malformed = r
    BY <1>5 DEF Claude!IsEntry
  <2>3. UsageInv(Append(Written, r), charged, total, byBranch, byCwd)
    BY <1>1, <1>5, MalformedCharges
  <2>4. TurnsInv(trackTurns, Append(Written, r), turns)
    BY <1>1, <1>5, MalformedTurns
  <2>5. CallsHeld(trackTurns, Append(Written, r), pending, calls)
    BY <1>1, <1>5, MalformedHeld
  <2> QED
    BY <1>1, <1>2, <2>1, <2>2, <2>3, <2>4, <2>5 DEF ClaudeInv
<1> QED
  BY <1>3, <1>4, <1>5 DEF Claude!Consume

\* So does the end of the file, which drains the calls that wait.
LEMMA ClaudeEnds ==
    ASSUME ClaudeInv, Claude!EndOfFile
    PROVE  ClaudeInv' /\ trackTurns' = trackTurns
<1>1. /\ parsing = "reading" /\ Written \in Seq(EntrySet)
      /\ UsageInv(Written, charged, total, byBranch, byCwd)
      /\ TurnsInv(trackTurns, Written, turns) /\ CallsHeld(trackTurns, Written, pending, calls)
  BY DEF ClaudeInv, Claude!EndOfFile
<1>2. /\ parsing' = "parsed" /\ calls' = calls \o Claude!Drained(pending) /\ Written' = Written
      /\ UNCHANGED <<trackTurns, turns, charged, total, byBranch, byCwd>>
  BY DEF Claude!EndOfFile, Claude!tally, Written
<1>3. AllDrained'
  BY <1>1, <1>2 DEF AllDrained
<1> QED
  BY <1>1, <1>2, <1>3 DEF ClaudeInv

\* Before the first line nothing was charged, and no call is held.
LEMMA NothingRead ==
    ASSUME NEW t
    PROVE  /\ UsageInv(<<>>, {}, Claude!Empty, [b \in Claude!Branches |-> Claude!Empty],
                       [c \in Claude!Cwds |-> Claude!Empty])
           /\ CallsHeld(t, <<>>, <<>>, <<>>)
<1> DEFINE R == <<>>
<1>1. Len(R) = 0 /\ DOMAIN R = {} /\ ToSet(R) = {} /\ \A T : R \in Seq(T)
  BY DEF ToSet
<1> HIDE DEF R
<1>2. Claude!FirstCopies(R) = {} /\ WithUsage(R) = {}
  BY <1>1 DEF Claude!FirstCopies, WithUsage
<1>3. KeysOf(R) = {} /\ SpentIn(R) = Part(SpentIn(R), {})
  BY <1>2 DEF KeysOf, SpentIn, Part
<1>4. \A b : OnBranch(R, b) = {} /\ InCwd(R, b) = {}
  BY <1>2 DEF OnBranch, InCwd
<1>5. BucketSum(Part(SpentIn(R), {})) = Claude!Empty
  BY NoBuckets
<1>6. UsageInv(R, {}, Claude!Empty, [b \in Claude!Branches |-> Claude!Empty],
               [c \in Claude!Cwds |-> Claude!Empty])
  BY <1>3, <1>4, <1>5 DEF UsageInv
<1>7. UsesIn(t, R) = {} /\ OneCallPerId(R) /\ IsDistinct(R)
  BY <1>1 DEF UsesIn, OneCallPerId, IsDistinct
<1>8. CallsHeld(t, R, R, R)
  BY <1>1, <1>7 DEF CallsHeld, CallsInv
<1> QED
  BY <1>6, <1>8 DEF R

\* It holds before the first line.
LEMMA ClaudeStarts ==
    ASSUME IntakeInit
    PROVE  ClaudeInv
<1>1. given = <<>> /\ Claude!Init
  BY DEF IntakeInit, Init
<1>2. /\ parsing = "reading" /\ pending = <<>> /\ calls = <<>> /\ charged = {}
      /\ turns = [k \in Claude!Keys |-> [uses |-> 0, spoken |-> FALSE]]
      /\ total = Claude!Empty
      /\ byBranch = [b \in Claude!Branches |-> Claude!Empty]
      /\ byCwd = [c \in Claude!Cwds |-> Claude!Empty]
  BY <1>1 DEF Claude!Init
<1>3. /\ Written = <<>> /\ Written \in Seq(EntrySet) /\ Len(Written) = 0 /\ DOMAIN Written = {}
  <2>1. DOMAIN given = {} /\ DOMAIN <<>> = {}
    BY <1>1
  <2>2. Written = [i \in {} |-> given[i].entry]
    BY <2>1 DEF Written, EntriesOf
  <2>3. Written = <<>>
    BY <2>2
  <2> QED
    BY <2>3
<1>4. UsageInv(Written, charged, total, byBranch, byCwd)
  BY <1>2, <1>3, NothingRead
<1>5. TurnsInv(trackTurns, Written, turns)
  BY <1>2, <1>3 DEF TurnsInv
<1>6. CallsHeld(trackTurns, Written, pending, calls)
  BY <1>2, <1>3, NothingRead
<1> QED
  BY <1>2, <1>3, <1>4, <1>5, <1>6 DEF ClaudeInv

ClaudeIntakeInv ==
    /\ RunsClaude \/ phase = "sniff" => ClaudeInv
    /\ phase = "sniff" => parsing = "reading"
    /\ parsing = "parsed" => phase = "parsed"
    /\ report # "none" => trackTurns /\ parsing = "parsed"

\* A line goes to one of the two parsers.
LEMMA EntryIsRead ==
    ASSUME ClaudeIntakeInv, NEW l \in Lines, Reads(l), phase = "parse", UNCHANGED <<parser, phase, report>>
    PROVE  ClaudeIntakeInv'
<1>0. parsing # "parsed" /\ report = "none"
  BY DEF ClaudeIntakeInv
<1>1. CASE RunsClaude
  <2>1. l.entry \in EntrySet /\ Claude!Consume(l.entry) /\ ClaudeInv
    BY <1>1 DEF EntrySet, Reads, ClaudeIntakeInv
  <2>2. ClaudeInv' /\ trackTurns' = trackTurns /\ parsing' # "parsed"
    BY <2>1, ClaudeReads
  <2> QED
    BY <1>0, <2>2 DEF ClaudeIntakeInv
<1>2. CASE ~RunsClaude
  <2>1. trackTurns' = trackTurns /\ Codex!Consume(l.record)
    BY <1>2 DEF Reads
  <2>2. parsing' # "parsed"
    BY <1>0, <2>1 DEF Codex!Consume, Codex!Takes, Codex!SkipMalformed, Codex!SessionMeta, Codex!TurnContext, Codex!WebSearch, Codex!OpenCall, Codex!CallOutput, Codex!Ignore
  <2> QED
    BY <1>0, <1>2, <2>1, <2>2 DEF ClaudeIntakeInv, RunsClaude
<1> QED
  BY <1>1, <1>2

\* It holds at all times while a claude stream is read, and after.
LEMMA ClaudeInvariant == IntakeSpec => []ClaudeIntakeInv
<1>1. IntakeInit => ClaudeIntakeInv
  <2> SUFFICES ASSUME IntakeInit PROVE ClaudeIntakeInv
    OBVIOUS
  <2>1. ClaudeInv
    BY ClaudeStarts
  <2>2. parsing = "reading" /\ report = "none"
    BY DEF IntakeInit, Claude!Init
  <2> QED
    BY <2>1, <2>2 DEF ClaudeIntakeInv
<1>2. SourceOk /\ StreamInv /\ ClaudeIntakeInv /\ [IntakeNext]_intakeVars => ClaudeIntakeInv'
  <2> SUFFICES ASSUME SourceOk, StreamInv, ClaudeIntakeInv, [IntakeNext]_intakeVars
               PROVE  ClaudeIntakeInv'
    OBVIOUS
  <2>1. source.lines \subseteq Lines
    BY StreamsAssumption DEF SourceOk
  <2>2. CASE SniffLine
    <3>1. /\ phase = "sniff" /\ UNCHANGED <<given, trackTurns, report>>
          /\ UNCHANGED <<parsing, pending, calls, turns, charged, total, byBranch, byCwd>>
      BY <2>2 DEF SniffLine, NothingClaimed, SniffBlank, GiveUp, SniffOther, SniffClaimed,
                  parserVars, claudeVars
    <3>2. ClaudeInv /\ parsing = "reading" /\ report = "none"
      BY <3>1 DEF ClaudeIntakeInv
    <3>3. ClaudeInv'
      BY <3>1, <3>2 DEF ClaudeInv, Written, AllDrained
    <3> QED
      BY <3>1, <3>2, <3>3 DEF ClaudeIntakeInv
  <2>3. CASE ReplayLine
    <3>1. /\ Head(buffered) \in Lines /\ Reads(Head(buffered)) /\ phase = "parse"
          /\ UNCHANGED <<parser, phase, report>>
      BY <2>3 DEF ReplayLine, ParseReplayed, StreamInv, TypeOK
    <3> QED
      BY <3>1, EntryIsRead
  <2>4. ASSUME NEW l \in source.lines, ReadLine(l) PROVE ClaudeIntakeInv'
    <3>1. l \in Lines /\ Reads(l) /\ phase = "parse" /\ UNCHANGED <<parser, phase, report>>
      BY <2>1, <2>4 DEF ReadLine, ParseNext
    <3> QED
      BY <3>1, EntryIsRead
  <2>5. CASE StreamEnds
    <3>1. phase = "parse" /\ UNCHANGED <<parser, report>> /\ phase' = "parsed" /\ parsing = "reading"
      BY <2>5 DEF StreamEnds, EndOfStream, Stopped
    <3>2. report = "none"
      BY <3>1 DEF ClaudeIntakeInv
    <3>3. CASE RunsClaude
      <4>1. ClaudeInv /\ Claude!EndOfFile
        BY <2>5, <3>3 DEF StreamEnds, ClaudeIntakeInv
      <4>2. ClaudeInv' /\ trackTurns' = trackTurns
        BY <4>1, ClaudeEnds
      <4> QED
        BY <3>1, <3>2, <4>2 DEF ClaudeIntakeInv
    <3>4. CASE ~RunsClaude
      <4>1. trackTurns' = trackTurns
        BY <2>5, <3>4 DEF StreamEnds
      <4> QED
        BY <3>1, <3>2, <3>4, <4>1 DEF ClaudeIntakeInv, RunsClaude
    <3> QED
      BY <3>3, <3>4
  <2>6. CASE LoaderRaises
    <3>1. /\ parsing = "reading" /\ UNCHANGED <<given, trackTurns, parser, report>>
          /\ phase \in {"sniff", "parse"} /\ phase' = "failed"
          /\ UNCHANGED <<parsing, pending, calls, turns, charged, total, byBranch, byCwd>>
      BY <2>6 DEF LoaderRaises, Stopped, StreamFails, parserVars, claudeVars
    <3>2. (RunsClaude' <=> RunsClaude) /\ (ClaudeInv => ClaudeInv')
      BY <3>1 DEF RunsClaude, ClaudeInv, Written, AllDrained
    <3> QED
      BY <3>1, <3>2 DEF ClaudeIntakeInv
  <2>7. CASE ScoreProbe \/ UNCHANGED intakeVars
    <3>1. /\ UNCHANGED <<given, trackTurns, parser, phase>>
          /\ UNCHANGED <<parsing, pending, calls, turns, charged, total, byBranch, byCwd>>
          /\ report' = report \/ (trackTurns /\ parsing = "parsed")
      BY <2>7 DEF ScoreProbe, intakeVars, vars, parserVars, claudeVars
    <3>2. (RunsClaude' <=> RunsClaude) /\ (ClaudeInv => ClaudeInv')
      BY <3>1 DEF RunsClaude, ClaudeInv, Written, AllDrained
    <3> QED
      BY <3>1, <3>2 DEF ClaudeIntakeInv
  <2> QED
    BY <2>2, <2>3, <2>4, <2>5, <2>6, <2>7 DEF IntakeNext
<1> QED
  BY <1>1, <1>2, IntakeReadsAStream, StreamInvariant, PTL DEF IntakeSpec

-----------------------------------------------------------------------------
(* What it says of the whole stream.                                       *)

\* Once a claude stream was parsed all of it was read.
LEMMA WholeTranscript ==
    ASSUME StreamInv, ClaudeIntakeInv, parsing = "parsed"
    PROVE  given = pulled /\ EntriesOf(pulled) = Written
<1>1. /\ given \in Seq(Lines) /\ pulled \in Seq(Lines) /\ given \o buffered = pulled
      /\ buffered = <<>>
  BY DEF StreamInv, StreamIsKept, TypeOK, ClaudeIntakeInv
<1>2. given = pulled
  BY <1>1
<1> QED
  BY <1>2 DEF Written

\* Each response of a claude stream is charged once, and every one is.
THEOREM TokensAreChargedOnce == IntakeSpec => []ChargedOnce
<1>1. StreamInv /\ ClaudeIntakeInv => ChargedOnce
  <2> SUFFICES ASSUME StreamInv, ClaudeIntakeInv, RunsClaude
               PROVE  /\ IsParsed => ClaudeStream!ChargedOnce
                      /\ Claude!BucketsPartition
    BY DEF ChargedOnce
  <2>1. ClaudeInv
    BY DEF ClaudeIntakeInv
  <2>2. Written \in Seq(EntrySet) /\ UsageInv(Written, charged, total, byBranch, byCwd)
    BY <2>1 DEF ClaudeInv
  <2>3. Claude!BucketsPartition
    BY <2>2, BooksSplit
  <2>4. ASSUME IsParsed PROVE ClaudeStream!ChargedOnce
    <3>1. EntriesOf(pulled) = Written
      BY <2>4, WholeTranscript DEF IsParsed
    <3> DEFINE copies == Claude!FirstCopies(Written)
    <3>2. total = Claude!Sum([i \in copies |-> Claude!Spent(Written[i])], copies)
      BY <2>2, TotalIsCharged
    <3>3. /\ ClaudeStream!FirstCopies(Written) = copies
          /\ \A b, D : ClaudeStream!Sum(b, D) = Claude!Sum(b, D)
          /\ \A r : ClaudeStream!Spent(r) = Claude!Spent(r)
      BY DEF ClaudeStream!FirstCopies, Claude!FirstCopies, ClaudeStream!HasUsage, Claude!HasUsage,
             ClaudeStream!IsEntry, Claude!IsEntry, ClaudeStream!Malformed, Claude!Malformed,
             ClaudeStream!NoUsage, Claude!NoUsage, ClaudeStream!BillingKey, Claude!BillingKey,
             ClaudeStream!None, Claude!None, ClaudeStream!Sum, Claude!Sum, ClaudeStream!Spent, Claude!Spent,
             ClaudeStream!MapThenSumSet, Claude!MapThenSumSet, ClaudeStream!MapThenFoldSet, 
             Claude!MapThenFoldSet
    <3> HIDE DEF copies
    <3> QED
      BY <3>1, <3>2, <3>3 DEF ClaudeStream!ChargedOnce
  <2> QED
    BY <2>3, <2>4
<1> QED
  BY <1>1, IntakeReadsAStream, StreamInvariant, ClaudeInvariant, PTL

-----------------------------------------------------------------------------
(* The calls of a parsed transcript.                                       *)

\* z is c, and the calls of p that had no result.
IsDrained(T, p, c, z) ==
    /\ z \in Seq(T) /\ Len(z) = Len(c) + Len(p)
    /\ \A i \in 1 .. Len(c) : z[i] = c[i]
    /\ \A i \in 1 .. Len(p) : z[Len(c) + i] = Ending(p[i], "no_result")

\* What the end of the file makes of the calls that wait.
LEMMA DrainedAre ==
    ASSUME NEW T, NEW p \in Seq(T), NEW c \in Seq(T), TakesOutcome(T, "no_result")
    PROVE  IsDrained(T, p, c, c \o Claude!Drained(p))
<1> SUFFICES ASSUME NEW z, z = c \o Claude!Drained(p)
             PROVE  IsDrained(T, p, c, z)
  OBVIOUS
<1> DEFINE d == Claude!Drained(p)
<1>1. Len(p) \in Nat /\ Len(c) \in Nat /\ p \in [1 .. Len(p) -> T] /\ DOMAIN p = 1 .. Len(p)
  BY LenProperties
<1>2. d = [i \in 1 .. Len(p) |-> Ending(p[i], "no_result")]
  BY <1>1 DEF Claude!Drained, Ending
<1>3. d \in [1 .. Len(p) -> T]
  BY <1>1, <1>2 DEF TakesOutcome
<1>5. \A i \in 1 .. Len(p) : d[i] = Ending(p[i], "no_result")
  BY <1>2
<1>6. z = c \o d
  OBVIOUS
<1> HIDE DEF d
<1>4. d \in Seq(T) /\ Len(d) = Len(p)
  <2> DEFINE n == Len(p)
  <2>1. n \in Nat /\ d \in [1 .. n -> T]
    BY <1>1, <1>3
  <2> HIDE DEF n
  <2>2. d \in Seq(T) /\ Len(d) = n
    BY <2>1, SeqDef
  <2> QED
    BY <2>2 DEF n
<1>7. z \in Seq(T) /\ Len(z) = Len(c) + Len(d) /\ \A i \in 1 .. Len(c) : z[i] = c[i]
  BY <1>1, <1>4, <1>6
<1>8. ASSUME NEW i \in 1 .. Len(p) PROVE z[Len(c) + i] = d[i]
  BY <1>1, <1>4, <1>6
<1> QED
  BY <1>4, <1>5, <1>7, <1>8 DEF IsDrained

\* The uses that were not used again before an answer came.
KeptIn(t, Q) == {u \in UsesIn(t, Q) : ~Replaced(Q, UsesIn(t, Q), AnswersIn(Q), u)}

\* Each use that is kept is the call of one place, which tells whether it was answered.
CallsAre(t, Q, c) ==
    /\ c \in Seq(CallsOf(t, Q))
    /\ \A i \in 1 .. Len(c) :
          /\ c[i].at \in KeptIn(t, Q)
          /\ c[i].outcome = "no_result" <=> AnswersTo(Q, AnswersIn(Q), c[i].at) = {}
    /\ \A i, j \in 1 .. Len(c) : c[i].at = c[j].at => i = j
    /\ \A u \in KeptIn(t, Q) : \E i \in 1 .. Len(c) : c[i].at = u

\* The calls of a parsed transcript are its kept uses.
LEMMA ParsedCalls ==
    ASSUME NEW Q \in Seq(EntrySet), NEW t, NEW p, NEW c, CallsHeld(t, Q, p, c),
           NEW z, z = c \o Claude!Drained(p)
    PROVE  CallsAre(t, Q, z)
<1> DEFINE T == CallsOf(t, Q)
           U == UsesIn(t, Q)
           A == AnswersIn(Q)
<1> DEFINE P == ToSet(p)
           C == ToSet(c)
<1>2. /\ p \in Seq(T) /\ c \in Seq(T) /\ OneCallPerId(p) /\ IsDistinct(c)
      /\ CallsInv(t, Q, U, A, P, C)
  BY DEF CallsHeld
<1>3. \A x \in T : /\ x.at \in U /\ Ending(x, "no_result") \in T
                   /\ Ending(x, "no_result").at = x.at
                   /\ Ending(x, "no_result").outcome = "no_result"
  <2> SUFFICES ASSUME NEW x \in T
               PROVE  /\ x.at \in U /\ Ending(x, "no_result") \in T
                      /\ Ending(x, "no_result").at = x.at
                      /\ Ending(x, "no_result").outcome = "no_result"
    OBVIOUS
  <2>1. "no_result" \in Outcomes
    BY DEF Outcomes
  <2>2. x.at \in U /\ Ending(x, "no_result") \in T /\ Ending(x, "no_result") = CallAt(t, Q, x.at, "no_result")
    BY <2>1, CallShape
  <2> QED
    BY <2>2 DEF CallAt
<1>9. \A v \in U : v[1] \in Nat
  BY UsesAre
<1> HIDE DEF T, U, A
<1>4. /\ z \in Seq(T) /\ Len(z) = Len(c) + Len(p)
      /\ \A i \in 1 .. Len(c) : z[i] = c[i]
      /\ \A i \in 1 .. Len(p) : z[Len(c) + i] = Ending(p[i], "no_result")
  <2>1. TakesOutcome(T, "no_result")
    BY <1>3 DEF TakesOutcome
  <2>2. p \in Seq(T) /\ c \in Seq(T) /\ z = c \o Claude!Drained(p)
    BY <1>2
  <2>3. IsDrained(T, p, c, z)
    BY <2>1, <2>2, DrainedAre
  <2> QED
    BY <2>3 DEF IsDrained
<1>5. /\ Len(c) \in Nat /\ Len(p) \in Nat
      /\ P = {p[i] : i \in 1 .. Len(p)} /\ C = {c[i] : i \in 1 .. Len(c)}
      /\ \A i \in 1 .. Len(p) : p[i] \in T
      /\ \A i \in 1 .. Len(c) : c[i] \in T
  BY <1>2 DEF ToSet
<1>6. /\ \A x \in P : x.outcome = "pending" /\ StillOpen(Q, U, A, x.at)
      /\ \A x \in C : x.outcome \in {"ok", "error"} /\ InTime(Q, U, A, x.at)
      /\ \A x, y \in P \cup C : x.at = y.at => x = y
      /\ \A u \in U : (\E x \in P \cup C : x.at = u) \/ Replaced(Q, U, A, u)
  BY <1>2 DEF CallsInv
<1> HIDE DEF P, C
<1>7. \A i \in 1 .. Len(z) : i \in 1 .. Len(c) \/ \E j \in 1 .. Len(p) : i = Len(c) + j
  <2> SUFFICES ASSUME NEW i \in 1 .. Len(z), i \notin 1 .. Len(c)
               PROVE  \E j \in 1 .. Len(p) : i = Len(c) + j
    OBVIOUS
  <2>1. i - Len(c) \in 1 .. Len(p) /\ i = Len(c) + (i - Len(c))
    BY <1>4, <1>5
  <2> QED
    BY <2>1
<1>8. \A u : /\ StillOpen(Q, U, A, u) => AnswersTo(Q, A, u) = {} /\ ~Replaced(Q, U, A, u)
             /\ InTime(Q, U, A, u) => AnswersTo(Q, A, u) # {} /\ ~Replaced(Q, U, A, u)
  <2>1. ASSUME NEW u, StillOpen(Q, U, A, u) PROVE AnswersTo(Q, A, u) = {} /\ ~Replaced(Q, U, A, u)
    BY <2>1 DEF StillOpen, Replaced
  <2>2. ASSUME NEW u, InTime(Q, U, A, u), Replaced(Q, U, A, u) PROVE FALSE
    <3>1. PICK v \in U : Repeats(Q, v, u) /\ \A i \in AnswersTo(Q, A, u) : i >= v[1]
      BY <2>2 DEF Replaced
    <3>2. PICK i \in AnswersTo(Q, A, u) : i < v[1]
      BY <2>2, <3>1 DEF InTime
    <3>3. v[1] \in Nat /\ i \in Nat
      BY <1>9 DEF AnswersTo
    <3> QED
      BY <3>1, <3>2, <3>3
  <2> QED
    BY <2>1, <2>2 DEF InTime
<1>10. ASSUME NEW i \in 1 .. Len(z)
       PROVE  \/ \E x \in C : z[i] = x /\ x \in T
              \/ \E x \in P : z[i] = Ending(x, "no_result") /\ x \in T
  BY <1>4, <1>5, <1>7
<1>11. ASSUME NEW i \in 1 .. Len(z)
       PROVE  /\ z[i].at \in U /\ ~Replaced(Q, U, A, z[i].at)
              /\ z[i].outcome = "no_result" <=> AnswersTo(Q, A, z[i].at) = {}
  <2>1. ASSUME NEW x \in C, z[i] = x, x \in T
        PROVE  /\ z[i].at \in U /\ ~Replaced(Q, U, A, z[i].at)
               /\ z[i].outcome # "no_result" /\ AnswersTo(Q, A, z[i].at) # {}
    BY <1>3, <1>6, <1>8, <2>1
  <2>2. ASSUME NEW x \in P, z[i] = Ending(x, "no_result"), x \in T
        PROVE  /\ z[i].at \in U /\ ~Replaced(Q, U, A, z[i].at)
               /\ z[i].outcome = "no_result" /\ AnswersTo(Q, A, z[i].at) = {}
    BY <1>3, <1>6, <1>8, <2>2
  <2> QED
    BY <1>10, <2>1, <2>2
<1>12. ASSUME NEW i \in 1 .. Len(z), NEW j \in 1 .. Len(z), z[i].at = z[j].at
       PROVE  i = j
  <2>0. \A x \in C : x \notin P
    BY <1>6
  <2>1. CASE i \in 1 .. Len(c) /\ j \in 1 .. Len(c)
    <3>1. c[i] \in C /\ c[j] \in C /\ c[i].at = c[j].at
      BY <1>4, <1>5, <1>12, <2>1
    <3>2. c[i] = c[j]
      BY <1>6, <3>1
    <3> QED
      BY <1>2, <2>1, <3>2 DEF IsDistinct
  <2>2. ASSUME NEW k \in 1 .. Len(p), NEW n \in 1 .. Len(c), z[Len(c) + k].at = z[n].at PROVE FALSE
    <3>1. /\ p[k] \in P /\ c[n] \in C /\ p[k] \in T
          /\ z[Len(c) + k] = Ending(p[k], "no_result") /\ z[n] = c[n]
      BY <1>4, <1>5
    <3>2. p[k].at = c[n].at
      BY <1>3, <2>2, <3>1
    <3>3. p[k] = c[n]
      BY <1>6, <3>1, <3>2
    <3> QED
      BY <2>0, <3>1, <3>3
  <2>3. ASSUME NEW k \in 1 .. Len(p), NEW n \in 1 .. Len(p), i = Len(c) + k, j = Len(c) + n PROVE i = j
    <3>1. /\ p[k] \in P /\ p[n] \in P /\ p[k] \in T /\ p[n] \in T
          /\ z[i] = Ending(p[k], "no_result") /\ z[j] = Ending(p[n], "no_result")
      BY <1>4, <1>5, <2>3
    <3>2. p[k].at = p[n].at
      BY <1>3, <1>12, <3>1
    <3>3. p[k] = p[n]
      BY <1>6, <3>1, <3>2
    <3>4. k = n
      BY <1>2, <3>3 DEF OneCallPerId
    <3> QED
      BY <2>3, <3>4
  <2> QED
    BY <1>7, <1>12, <2>1, <2>2, <2>3
<1>13. ASSUME NEW u \in U, ~Replaced(Q, U, A, u)
       PROVE  \E i \in 1 .. Len(z) : z[i].at = u
  <2>1. PICK x \in P \cup C : x.at = u
    BY <1>6, <1>13
  <2>2. CASE x \in C
    <3>1. PICK i \in 1 .. Len(c) : c[i] = x
      BY <1>5, <2>2
    <3>2. i \in 1 .. Len(z) /\ z[i] = x
      BY <1>4, <1>5, <3>1
    <3> QED
      BY <2>1, <3>2
  <2>3. CASE x \in P
    <3>1. PICK i \in 1 .. Len(p) : p[i] = x
      BY <1>5, <2>3
    <3>2. Len(c) + i \in 1 .. Len(z) /\ z[Len(c) + i] = Ending(x, "no_result") /\ x \in T
      BY <1>4, <1>5, <3>1
    <3> QED
      BY <1>3, <2>1, <3>2
  <2> QED
    BY <2>2, <2>3
<1> QED
  BY <1>4, <1>11, <1>12, <1>13 DEF CallsAre, KeptIn, T, U, A

\* They are as many as the uses that are kept.
LEMMA CallsCount ==
    ASSUME NEW t, NEW Q, NEW c, CallsAre(t, Q, c)
    PROVE  Len(c) = Cardinality(KeptIn(t, Q))
<1> DEFINE n == Len(c)
           K == KeptIn(t, Q)
           f == [i \in 1 .. n |-> c[i].at]
<1>1. n \in Nat
  BY DEF CallsAre
<1>2. \A i \in 1 .. n : c[i].at \in K
  BY DEF CallsAre
<1>3. \A i, j \in 1 .. n : c[i].at = c[j].at => i = j
  BY DEF CallsAre
<1>4. \A u \in K : \E i \in 1 .. n : c[i].at = u
  BY DEF CallsAre
<1> HIDE DEF n, K
<1>5. f \in Bijection(1 .. n, K)
  BY <1>2, <1>3, <1>4 DEF Bijection, Injection, Surjection, IsInjective
<1>6. Cardinality(K) = n
  BY <1>1, <1>5, FS_CountingElements DEF ExistsBijection
<1> QED
  BY <1>6 DEF n, K

-----------------------------------------------------------------------------
(* A reader of the whole stream sees the same uses and answers.            *)

\* The uses, answers and kept uses of the whole stream are those of the invariant.
LEMMA SameUses ==
    ASSUME NEW Q \in Seq(EntrySet), EntriesOf(pulled) = Q
    PROVE  /\ ClaudeStream!Uses = UsesIn(trackTurns, Q)
           /\ \A u \in UsesIn(trackTurns, Q) : ClaudeStream!Answers(u) = AnswersTo(Q, AnswersIn(Q), u)
           /\ ClaudeStream!Kept = KeptIn(trackTurns, Q)
<1> DEFINE t == trackTurns
           U == UsesIn(t, Q)
           A == AnswersIn(Q)
<1>1. /\ \A r : ClaudeStream!IsEntry(r) <=> Claude!IsEntry(r)
      /\ \A r : ClaudeStream!Opens(r) = OpensOf(t, r)
  BY DEF ClaudeStream!IsEntry, Claude!IsEntry, ClaudeStream!Malformed, Claude!Malformed,
         ClaudeStream!Opens, OpensOf
<1>2. ClaudeStream!Uses = U
  BY <1>1 DEF ClaudeStream!Uses, UsesIn
<1>3. \A u : ClaudeStream!IdOf(u) = UseAt(Q, u).id
  BY DEF ClaudeStream!IdOf, UseAt
<1>4. DOMAIN Q = 1 .. Len(Q) /\ Len(Q) \in Nat
  OBVIOUS
<1>5. ASSUME NEW i, NEW d
      PROVE  <<i, d>> \in A <=> /\ i \in 1 .. Len(Q) /\ Claude!IsEntry(Q[i])
                               /\ \E res \in ClaudeStream!ToSet(Q[i].results) : res.id = d
  <2>1. ClaudeStream!ToSet(Q[i].results) = {Q[i].results[j] : j \in DOMAIN Q[i].results}
    BY DEF ClaudeStream!ToSet
  <2>2. <<i, d>> \in A <=> /\ i \in DOMAIN Q /\ Claude!IsEntry(Q[i])
                          /\ \E j \in DOMAIN Q[i].results : Q[i].results[j].id = d
    BY DEF AnswersIn
  <2> HIDE DEF A
  <2> QED
    BY <1>4, <2>1, <2>2
<1>6. ASSUME NEW u \in U PROVE ClaudeStream!Answers(u) = AnswersTo(Q, A, u)
  <2>1. u[1] \in Nat
    BY UsesAre
  <2>4. u[1] >= 1
    BY UsesAre
  <2>2. ClaudeStream!Answers(u) =
            {i \in u[1] .. Len(Q) : /\ Claude!IsEntry(Q[i])
                                    /\ \E res \in ClaudeStream!ToSet(Q[i].results) : res.id = UseAt(Q, u).id}
    BY <1>1, <1>3 DEF ClaudeStream!Answers
  <2> HIDE DEF A, U
  <2>3. ASSUME NEW i PROVE i \in u[1] .. Len(Q) <=> i \in 1 .. Len(Q) /\ i >= u[1]
    BY <1>4, <2>1, <2>4
  <2> QED
    BY <1>4, <1>5, <2>1, <2>2, <2>3 DEF AnswersTo
<1> HIDE DEF U, A
<1>7. \A u \in U : ClaudeStream!Superseded(u) <=> Replaced(Q, U, A, u)
  BY <1>2, <1>3, <1>6 DEF ClaudeStream!Superseded, Replaced, Repeats, Later
<1>8. ClaudeStream!Kept = KeptIn(t, Q)
  BY <1>2, <1>7 DEF ClaudeStream!Kept, KeptIn, U, A
<1> QED
  BY <1>2, <1>6, <1>8 DEF U, A

\* Every use of a claude stream that is kept is one call, answered if and only
\* if its result follows.
THEOREM UsesAreCalls == IntakeSpec => []EveryUseIsOneCall
<1>1. StreamInv /\ ClaudeIntakeInv => EveryUseIsOneCall
  <2> SUFFICES ASSUME StreamInv, ClaudeIntakeInv, RunsClaude, parsing = "parsed"
               PROVE  /\ Len(calls) = ClaudeStream!Cardinality(ClaudeStream!Kept)
                      /\ \A u \in ClaudeStream!Kept : \E c \in ClaudeStream!ToSet(calls) :
                             /\ c.at = u
                             /\ c.outcome = "no_result" <=> ClaudeStream!Answers(u) = {}
    BY DEF EveryUseIsOneCall, ClaudeStream!EveryUseIsOneCall
  <2>1. Written \in Seq(EntrySet) /\ AllDrained
    BY DEF ClaudeIntakeInv, ClaudeInv
  <2>2. CallsAre(trackTurns, Written, calls)
    BY <2>1, ParsedCalls DEF AllDrained
  <2>3. EntriesOf(pulled) = Written
    BY WholeTranscript
  <2>4. /\ ClaudeStream!Kept = KeptIn(trackTurns, Written)
        /\ \A u \in UsesIn(trackTurns, Written) :
               ClaudeStream!Answers(u) = AnswersTo(Written, AnswersIn(Written), u)
    BY <2>1, <2>3, SameUses
  <2>5. Len(calls) = ClaudeStream!Cardinality(ClaudeStream!Kept)
    <3>1. \A S : ClaudeStream!Cardinality(S) = Cardinality(S)
      BY DEF ClaudeStream!Cardinality, Cardinality
    <3>2. Len(calls) = Cardinality(KeptIn(trackTurns, Written))
      BY <2>2, CallsCount
    <3> QED
      BY <2>4, <3>1, <3>2
  <2>6. ASSUME NEW u \in KeptIn(trackTurns, Written)
        PROVE  \E c \in ClaudeStream!ToSet(calls) :
                   /\ c.at = u
                   /\ c.outcome = "no_result" <=> ClaudeStream!Answers(u) = {}
    <3>1. PICK i \in 1 .. Len(calls) : calls[i].at = u
      BY <2>2 DEF CallsAre
    <3>2. calls[i].outcome = "no_result" <=> AnswersTo(Written, AnswersIn(Written), u) = {}
      BY <2>2, <3>1 DEF CallsAre
    <3>3. u \in UsesIn(trackTurns, Written)
      BY DEF KeptIn
    <3>4. DOMAIN calls = 1 .. Len(calls)
      BY <2>2 DEF CallsAre
    <3>5. calls[i] \in ClaudeStream!ToSet(calls)
      BY <3>4 DEF ClaudeStream!ToSet
    <3> QED
      BY <2>4, <3>1, <3>2, <3>3, <3>5
  <2> QED
    BY <2>4, <2>5, <2>6
<1> QED
  BY <1>1, IntakeReadsAStream, StreamInvariant, ClaudeInvariant, PTL

-----------------------------------------------------------------------------
(* What a probe sees of its session.                                       *)

\* Every call of a probed session has a turn, so that all of them are hits.
LEMMA ProbeSees ==
    ASSUME StreamInv, ClaudeIntakeInv, report = "written"
    PROVE  /\ trackTurns /\ Written \in Seq(EntrySet) /\ EntriesOf(pulled) = Written
           /\ TurnsInv(trackTurns, Written, turns) /\ CallsAre(trackTurns, Written, calls)
           /\ DOMAIN Hits(calls, Claude!None) = 1 .. Len(calls) /\ Len(calls) \in Nat
           /\ \A i \in 1 .. Len(calls) :
                 LET u == calls[i].at
                 IN  /\ Hits(calls, Claude!None)[i] = calls[i]
                     /\ u \in KeptIn(trackTurns, Written) /\ u \in UsesIn(trackTurns, Written)
                     /\ Counted(Written, u[1]) /\ calls[i].turn = Written[u[1]].request
                     /\ calls[i].name = UseAt(Written, u).name
                     /\ calls[i].says = UseAt(Written, u).says
<1>1. trackTurns /\ parsing = "parsed" /\ RunsClaude
  BY DEF ClaudeIntakeInv, RunsClaude
<1>2. Written \in Seq(EntrySet) /\ AllDrained /\ TurnsInv(trackTurns, Written, turns)
  BY <1>1 DEF ClaudeIntakeInv, ClaudeInv
<1>3. CallsAre(trackTurns, Written, calls) /\ EntriesOf(pulled) = Written
  BY <1>1, <1>2, ParsedCalls, WholeTranscript DEF AllDrained
<1>4. /\ calls \in Seq(CallsOf(trackTurns, Written)) /\ DOMAIN calls = 1 .. Len(calls)
      /\ Len(calls) \in Nat
  BY <1>3 DEF CallsAre
<1>5. ASSUME NEW i \in 1 .. Len(calls)
      PROVE  LET u == calls[i].at
             IN  /\ u \in KeptIn(trackTurns, Written) /\ u \in UsesIn(trackTurns, Written)
                 /\ Counted(Written, u[1]) /\ calls[i].turn = Written[u[1]].request
                 /\ calls[i].name = UseAt(Written, u).name
                 /\ calls[i].says = UseAt(Written, u).says
                 /\ calls[i].turn # Claude!None
  <2> DEFINE u == calls[i].at
  <2>1. calls[i] \in CallsOf(trackTurns, Written)
    BY <1>4
  <2>2. /\ u \in UsesIn(trackTurns, Written)
        /\ calls[i] = CallAt(trackTurns, Written, u, calls[i].outcome)
    BY <1>2, <2>1, CallShape
  <2>3. u \in KeptIn(trackTurns, Written)
    BY <1>3 DEF CallsAre
  <2>4. /\ u[1] \in 1 .. Len(Written) /\ Claude!IsEntry(Written[u[1]])
        /\ u[2] \in OpensOf(trackTurns, Written[u[1]])
    BY <1>2, <2>2, UsesAre
  <2>5. Counted(Written, u[1])
    BY <1>1, <2>4 DEF Counted, OpensOf
  <2> HIDE DEF u
  <2>6. /\ CallAt(trackTurns, Written, u, calls[i].outcome).turn = Written[u[1]].request
        /\ CallAt(trackTurns, Written, u, calls[i].outcome).name = UseAt(Written, u).name
        /\ CallAt(trackTurns, Written, u, calls[i].outcome).says = UseAt(Written, u).says
    BY <1>1, <2>5 DEF CallAt, Counted
  <2>7. Written[u[1]].request # Claude!None
    BY <1>1, <1>2, <2>4, <2>5 DEF TurnsInv
  <2> QED
    BY <2>2, <2>3, <2>5, <2>6, <2>7 DEF u
<1>6. Hits(calls, Claude!None) = [i \in 1 .. Len(calls) |-> calls[i]]
  <2>1. {i \in DOMAIN calls : calls[i].turn # Claude!None} = 1 .. Len(calls)
    BY <1>4, <1>5
  <2> QED
    BY <2>1 DEF Hits, Restrict
<1> QED
  BY <1>1, <1>2, <1>3, <1>4, <1>5, <1>6

\* The last of the calls that are an arm.
LEMMA LastArm ==
    ASSUME NEW h, NEW n \in Nat, DOMAIN h = 1 .. n, NEW p, NEW arm, ArmCalls(p, arm, h) # {}
    PROVE  Max(ArmCalls(p, arm, h)) \in 1 .. n
<1> DEFINE own == ArmCalls(p, arm, h)
<1>1. own \in SUBSET (1 .. n) /\ own # {}
  BY DEF ArmCalls
<1> HIDE DEF own
<1>2. Top(own) \in own
  BY <1>1, TopIs
<1>3. Max(own) = Top(own)
  BY DEF Max, Top
<1> QED
  BY <1>1, <1>2, <1>3 DEF own

\* The record of u has no other use and no prose, and no other record of its turn has either.
StandsAlone(R, u) ==
    /\ Len(R[u[1]].uses) = 1 /\ ~R[u[1]].spoken /\ R[u[1]].uses # <<>>
    /\ \A i \in 1 .. Len(R) :
          /\ Counted(R, i) /\ R[i].request = R[u[1]].request
          /\ R[i].uses # <<>> \/ R[i].spoken
          => i = u[1]

\* A turn that has one use and no prose is one record, of one use.
LEMMA LoneTurn ==
    ASSUME NEW R \in Seq(EntrySet), NEW t, t, NEW tn, TurnsInv(t, R, tn), NEW u \in UsesIn(t, R),
           Isolable(tn[R[u[1]].request])
    PROVE  StandsAlone(R, u)
<1> DEFINE j == u[1]
           k == R[j].request
<1>1. /\ j \in 1 .. Len(R) /\ R[j] \in EntrySet /\ Claude!IsEntry(R[j])
      /\ u[2] \in OpensOf(t, R[j])
  BY UsesAre
<1>2. Counted(R, j) /\ u[2] \in DOMAIN R[j].uses
  BY <1>1 DEF OpensOf, Counted
<1>3. tn[k].uses = 1 /\ ~tn[k].spoken
  BY DEF Isolable
<1>4. ASSUME NEW i \in 1 .. Len(R), Counted(R, i), R[i].request = k
      PROVE  /\ Len(R[i].uses) \in Nat /\ Len(R[i].uses) <= 1 /\ ~R[i].spoken
             /\ R[i].uses # <<>> => Len(R[i].uses) >= 1
             /\ DOMAIN R[i].uses = 1 .. Len(R[i].uses)
             /\ i # j => Len(R[j].uses) + Len(R[i].uses) <= 1
  <2>1. R[i] \in EntrySet /\ Claude!IsEntry(R[i])
    BY <1>4 DEF Counted
  <2>2. R[i].uses \in Seq(Claude!ToSet(R[i].uses))
    BY <2>1, EntryShape DEF Claude!IsWellFormed
  <2>3. /\ Len(R[i].uses) \in Nat /\ DOMAIN R[i].uses = 1 .. Len(R[i].uses)
        /\ R[i].uses # <<>> => Len(R[i].uses) >= 1
    <3> DEFINE s == R[i].uses
               S == Claude!ToSet(R[i].uses)
    <3>1. s \in Seq(S)
      BY <2>2
    <3> HIDE DEF s, S
    <3>2. Len(s) \in Nat /\ DOMAIN s = 1 .. Len(s) /\ (s # <<>> => Len(s) >= 1)
      BY <3>1
    <3> QED
      BY <3>2 DEF s
  <2>4. Len(R[i].uses) <= 1 /\ ~R[i].spoken
    BY <1>3, <1>4 DEF TurnsInv
  <2>5. i # j => Len(R[j].uses) + Len(R[i].uses) <= 1
    BY <1>1, <1>2, <1>3, <1>4 DEF TurnsInv
  <2> QED
    BY <2>3, <2>4, <2>5
<1> HIDE DEF j
<1>5. Len(R[j].uses) = 1 /\ ~R[j].spoken /\ R[j].uses # <<>>
  <2>1. /\ Len(R[j].uses) \in Nat /\ Len(R[j].uses) <= 1 /\ ~R[j].spoken
        /\ DOMAIN R[j].uses = 1 .. Len(R[j].uses)
    BY <1>1, <1>2, <1>4
  <2>2. Len(R[j].uses) # 0 /\ R[j].uses # <<>>
    BY <1>2, <2>1
  <2> DEFINE m == Len(R[j].uses)
  <2>3. m \in Nat /\ m <= 1 /\ m # 0
    BY <2>1, <2>2
  <2> HIDE DEF m
  <2>4. m = 1
    BY <2>3
  <2> QED
    BY <2>1, <2>2, <2>4 DEF m
<1>6. ASSUME NEW i \in 1 .. Len(R), Counted(R, i), R[i].request = k,
             R[i].uses # <<>> \/ R[i].spoken, i # j
      PROVE  FALSE
  <2>1. /\ Len(R[i].uses) \in Nat /\ Len(R[i].uses) >= 1
        /\ Len(R[j].uses) + Len(R[i].uses) <= 1
    BY <1>4, <1>6
  <2> QED
    BY <1>5, <2>1
<1> QED
  BY <1>5, <1>6 DEF j, StandsAlone

\* A response is billed to an arm only if it is that call and nothing else.
THEOREM PricedArmsAreAlone == IntakeSpec => []PricedArmIsAlone
<1>1. StreamInv /\ ClaudeIntakeInv => PricedArmIsAlone
  <2> DEFINE hits == Hits(calls, Claude!None)
  <2> SUFFICES ASSUME StreamInv, ClaudeIntakeInv, report = "written",
                      NEW p \in Probes, NEW arm \in Arms, Cell(Match(p, arm, hits, turns)).priced
               PROVE  LET at == Cell(Match(p, arm, hits, turns)).at
                      IN  /\ EmittedWith(at) = {at[1]}
                          /\ Len(pulled[at[1]].entry.uses) = 1
                          /\ ~pulled[at[1]].entry.spoken
    BY DEF PricedArmIsAlone, Scores, Table
  <2> DEFINE own == ArmCalls(p, arm, hits)
             n == Max(own)
             u == calls[n].at
             R == Written
  <2>1. own # {}
    BY DEF Match, Cell, Absent
  <2>2. /\ trackTurns /\ R \in Seq(EntrySet) /\ EntriesOf(pulled) = R
        /\ TurnsInv(trackTurns, R, turns)
        /\ DOMAIN hits = 1 .. Len(calls) /\ Len(calls) \in Nat
    BY ProbeSees
  <2> HIDE DEF hits
  <2>3. n \in 1 .. Len(calls)
    BY <2>1, <2>2, LastArm
  <2> HIDE DEF n, own
  <2>4. /\ hits[n] = calls[n] /\ u \in UsesIn(trackTurns, R)
        /\ Counted(R, u[1]) /\ calls[n].turn = R[u[1]].request
    BY <2>3, ProbeSees DEF hits
  <2>5. Match(p, arm, hits, turns) = [call |-> calls[n], isolable |-> Isolable(turns[calls[n].turn])]
    BY <2>1, <2>4 DEF Match, n, own
  <2>6. Cell(Match(p, arm, hits, turns)).at = u /\ Isolable(turns[R[u[1]].request])
    <3>1. Cell(Match(p, arm, hits, turns)).at = Match(p, arm, hits, turns).call.at
      BY DEF Cell
    <3>2. Match(p, arm, hits, turns).isolable
      BY DEF Cell
    <3>3. /\ Match(p, arm, hits, turns).call = calls[n]
          /\ Match(p, arm, hits, turns).isolable = Isolable(turns[calls[n].turn])
      BY <2>5
    <3> QED
      BY <2>4, <3>1, <3>2, <3>3
  <2> HIDE DEF u, R
  <2>7. /\ Len(R[u[1]].uses) = 1 /\ ~R[u[1]].spoken /\ R[u[1]].uses # <<>>
        /\ \A i \in 1 .. Len(R) :
              /\ Counted(R, i) /\ R[i].request = R[u[1]].request
              /\ R[i].uses # <<>> \/ R[i].spoken
              => i = u[1]
    <3>1. StandsAlone(R, u)
      BY <2>2, <2>4, <2>6, LoneTurn
    <3> QED
      BY <3>1 DEF StandsAlone
  <2>8. DOMAIN pulled = 1 .. Len(R) /\ u[1] \in 1 .. Len(R)
    <3>1. DOMAIN EntriesOf(pulled) = DOMAIN pulled
      BY DEF EntriesOf
    <3>2. DOMAIN R = 1 .. Len(R)
      BY <2>2
    <3>3. u[1] \in 1 .. Len(R)
      BY <2>2, <2>4, UsesAre
    <3> QED
      BY <2>2, <3>1, <3>2, <3>3
  <2>9. \A i \in 1 .. Len(R) : pulled[i].entry = R[i]
    BY <2>2, <2>8 DEF EntriesOf
  <2>10. EmittedWith(u) = {u[1]}
    <3>1. ASSUME NEW i
          PROVE  i \in EmittedWith(u) <=>
                    /\ i \in 1 .. Len(R) /\ Counted(R, i) /\ R[i].request = R[u[1]].request
                    /\ R[i].uses # <<>> \/ R[i].spoken
      BY <2>8, <2>9 DEF EmittedWith, TurnAt, Counted
    <3>2. \A i : i \in EmittedWith(u) <=> i = u[1]
      BY <2>4, <2>7, <2>8, <3>1
    <3> QED
      BY <3>2
  <2> QED
    BY <2>6, <2>7, <2>8, <2>9, <2>10
<1> QED
  BY <1>1, IntakeReadsAStream, StreamInvariant, ClaudeInvariant, PTL

-----------------------------------------------------------------------------
(* The arms of a probe.                                                    *)

\* There are finitely many sentinels.
LEMMA SentinelsAreFinite == IsFiniteSet(Sentinels)
<1> DEFINE pair == [p \in Probes |-> {p.toolSentinel, p.bashSentinel}]
           Pairs == {pair[p] : p \in Probes}
<1>1. IsFiniteSet(Pairs)
  BY ProbesAssumption, ImageIsFinite
<1>2. \A x, y : IsFiniteSet({x, y})
  <2> SUFFICES ASSUME NEW x, NEW y PROVE IsFiniteSet({x, y})
    OBVIOUS
  <2>1. IsFiniteSet({x} \cup {y})
    BY FS_Singleton, FS_AddElement
  <2>2. {x} \cup {y} = {x, y}
    OBVIOUS
  <2> QED
    BY <2>1, <2>2
<1>3. \A T \in Pairs : IsFiniteSet(T)
  <2> SUFFICES ASSUME NEW p \in Probes PROVE IsFiniteSet(pair[p])
    OBVIOUS
  <2> QED
    BY <1>2
<1>4. IsFiniteSet(UNION Pairs)
  BY <1>1, <1>3, FS_UNION
<1>5. UNION Pairs = Sentinels
  BY DEF Sentinels
<1> QED
  BY <1>4, <1>5

\* A finite set with x has one member, x, or more than one.
LEMMA OneOrMore ==
    ASSUME NEW S, IsFiniteSet(S), NEW x \in S
    PROVE  Cardinality(S) > 1 <=> S # {x}
<1>1. CASE S = {x}
  BY <1>1, FS_Singleton
<1>2. ASSUME NEW y \in S, y # x PROVE Cardinality(S) > 1
  <2>1. IsFiniteSet({x}) /\ Cardinality({x}) = 1
    BY FS_Singleton
  <2>2. Cardinality({x} \cup {y}) = 2
    BY <1>2, <2>1, FS_AddElement
  <2>3. ({x} \cup {y}) \in SUBSET S
    BY <1>2
  <2>4. Cardinality({x} \cup {y}) <= Cardinality(S) /\ Cardinality(S) \in Nat
    BY <2>3, FS_Subset, FS_CardinalityType
  <2> QED
    BY <2>2, <2>4
<1> QED
  BY <1>1, <1>2

\* x is the arm, said without the probe's own words.
LEMMA ArmsAre ==
    ASSUME NEW p \in Probes, NEW x
    PROVE  /\ IsArm(p, "tool", x) <=>
                  /\ x.says \cap Markers = {} /\ x.name \in p.tools /\ p.target \in x.says
                  /\ x.says \cap Sentinels \in {{}, {p.toolSentinel}}
           /\ IsArm(p, "bash", x) <=>
                  /\ x.says \cap Markers = {} /\ x.name = Bash
                  /\ x.says \cap Sentinels = {p.bashSentinel}
<1> DEFINE S == x.says \cap Sentinels
           t == p.toolSentinel
           b == p.bashSentinel
<1>1. IsFiniteSet(S) /\ b \in Sentinels /\ b # t /\ (b \in x.says <=> b \in S)
  <2>1. S \in SUBSET Sentinels
    OBVIOUS
  <2>2. IsFiniteSet(S)
    BY <2>1, SentinelsAreFinite, FS_Subset
  <2>3. b \in Sentinels /\ b # t
    BY ProbesAssumption DEF Sentinels
  <2> QED
    BY <2>2, <2>3
<1>2. /\ IsDiscussion(x) <=> x.says \cap Markers # {} \/ Cardinality(S) > 1
      /\ IsToolArm(p, x) <=> x.name \in p.tools /\ p.target \in x.says /\ S \subseteq {t}
      /\ IsBashArm(p, x) <=> ~IsToolArm(p, x) /\ x.name = Bash /\ b \in x.says
  BY DEF IsDiscussion, IsToolArm, IsBashArm
<1>3. /\ IsArm(p, "tool", x) <=> ~IsDiscussion(x) /\ IsToolArm(p, x)
      /\ IsArm(p, "bash", x) <=> ~IsDiscussion(x) /\ IsBashArm(p, x)
  BY DEF IsArm
<1> HIDE DEF S, t, b
<1>4. S \subseteq {t} => ~(Cardinality(S) > 1)
  <2>1. CASE S = {}
    BY <2>1, FS_EmptySet
  <2>2. CASE S = {t}
    BY <2>2, FS_Singleton
  <2> QED
    BY <2>1, <2>2
<1>5. b \in S => (Cardinality(S) > 1 <=> S # {b})
  BY <1>1, OneOrMore
<1>6. IsArm(p, "tool", x) <=>
          /\ x.says \cap Markers = {} /\ x.name \in p.tools /\ p.target \in x.says /\ S \in {{}, {t}}
  <2>1. S \subseteq {t} <=> S \in {{}, {t}}
    OBVIOUS
  <2> QED
    BY <1>2, <1>3, <1>4, <2>1
<1>7. IsArm(p, "bash", x) <=> x.says \cap Markers = {} /\ x.name = Bash /\ S = {b}
  <2>1. S = {b} => ~(S \subseteq {t}) /\ b \in S
    BY <1>1
  <2> QED
    BY <1>1, <1>2, <1>3, <1>5, <2>1
<1> QED
  BY <1>6, <1>7 DEF S, t, b

\* An arm is seeded only when no call of the session is it.
THEOREM SeededArmsAreAbsent == IntakeSpec => []SeededMeansAbsent
<1>1. StreamInv /\ ClaudeIntakeInv => SeededMeansAbsent
  <2> DEFINE hits == Hits(calls, Claude!None)
             uses == {pulled[u[1]].entry.uses[u[2]] : u \in ClaudeStream!Kept}
             R == Written
             t == trackTurns
  <2> SUFFICES ASSUME StreamInv, ClaudeIntakeInv, report = "written", NEW p \in Probes
               PROVE  \A arm \in Arms :
                         Cell(Match(p, arm, hits, turns)).seeded <=> ~\E x \in uses : IsArm(p, arm, x)
    <3> SUFFICES ASSUME StreamInv, ClaudeIntakeInv, report = "written", NEW p \in Probes
                 PROVE  /\ Scores[p]["bash"].seeded <=>
                               ~\E x \in {x \in uses : x.says \cap Markers = {}} :
                                   x.name = Bash /\ x.says \cap Sentinels = {p.bashSentinel}
                        /\ Scores[p]["tool"].seeded <=>
                               ~\E x \in {x \in uses : x.says \cap Markers = {}} :
                                   /\ x.name \in p.tools /\ p.target \in x.says
                                   /\ x.says \cap Sentinels \in {{}, {p.toolSentinel}}
      BY DEF SeededMeansAbsent
    <3> HIDE DEF uses
    <3>1. \A arm \in Arms : Scores[p][arm].seeded <=> ~\E x \in uses : IsArm(p, arm, x)
      BY DEF Scores, Table
    <3>2. "tool" \in Arms /\ "bash" \in Arms
      BY DEF Arms
    <3> QED
      BY <3>1, <3>2, ArmsAre
  <2>1. /\ trackTurns /\ R \in Seq(EntrySet) /\ EntriesOf(pulled) = R
        /\ CallsAre(t, R, calls)
        /\ DOMAIN hits = 1 .. Len(calls) /\ Len(calls) \in Nat
        /\ \A i \in 1 .. Len(calls) :
              LET u == calls[i].at
              IN  /\ hits[i] = calls[i]
                  /\ u \in KeptIn(t, R)
                  /\ calls[i].name = UseAt(R, u).name
                  /\ calls[i].says = UseAt(R, u).says
    BY ProbeSees
  <2>2. \A u \in KeptIn(t, R) : \E i \in 1 .. Len(calls) : calls[i].at = u
    BY <2>1 DEF CallsAre
  <2>3. uses = {UseAt(R, u) : u \in KeptIn(t, R)}
    <3>1. ClaudeStream!Kept = KeptIn(t, R)
      BY <2>1, SameUses
    <3>2. ASSUME NEW u \in KeptIn(t, R) PROVE pulled[u[1]].entry.uses[u[2]] = UseAt(R, u)
      <4>1. u[1] \in 1 .. Len(R)
        BY <2>1, <3>2, UsesAre DEF KeptIn
      <4>2. DOMAIN R = 1 .. Len(R) /\ DOMAIN EntriesOf(pulled) = DOMAIN pulled
        BY <2>1 DEF EntriesOf
      <4>3. R[u[1]] = pulled[u[1]].entry
        BY <2>1, <4>1, <4>2 DEF EntriesOf
      <4> QED
        BY <4>3 DEF UseAt
    <3> HIDE DEF R, t
    <3> QED
      BY <3>1, <3>2
  <2> SUFFICES ASSUME NEW arm \in Arms
               PROVE  Cell(Match(p, arm, hits, turns)).seeded <=> ~\E x \in uses : IsArm(p, arm, x)
    OBVIOUS
  <2> HIDE DEF hits, uses, R, t
  <2>4. \A x, y : x.name = y.name /\ x.says = y.says => (IsArm(p, arm, x) <=> IsArm(p, arm, y))
    BY DEF IsArm, IsDiscussion, IsToolArm, IsBashArm
  <2>5. (\E i \in 1 .. Len(calls) : IsArm(p, arm, calls[i])) <=> \E x \in uses : IsArm(p, arm, x)
    <3>1. ASSUME NEW i \in 1 .. Len(calls), IsArm(p, arm, calls[i]) PROVE \E x \in uses : IsArm(p, arm, x)
      BY <2>1, <2>3, <2>4, <3>1
    <3>2. ASSUME NEW x \in uses, IsArm(p, arm, x)
          PROVE  \E i \in 1 .. Len(calls) : IsArm(p, arm, calls[i])
      BY <2>1, <2>2, <2>3, <2>4, <3>2
    <3> QED
      BY <3>1, <3>2
  <2>6. ArmCalls(p, arm, hits) = {i \in 1 .. Len(calls) : IsArm(p, arm, calls[i])}
    BY <2>1 DEF ArmCalls
  <2>7. Cell(Match(p, arm, hits, turns)).seeded <=> ArmCalls(p, arm, hits) = {}
    <3> DEFINE own == ArmCalls(p, arm, hits)
               n == Max(own)
               m == Match(p, arm, hits, turns)
    <3>1. Cell(m).seeded <=> m = Absent
      BY DEF Cell
    <3>2. own = {} => m = Absent
      BY DEF Match
    <3>3. ASSUME own # {} PROVE m # Absent
      <4>1. n \in 1 .. Len(calls)
        BY <2>1, <3>3, LastArm
      <4>2. m.call = hits[n]
        BY <3>3 DEF Match
      <4>3. m.call = calls[n]
        BY <2>1, <4>1, <4>2
      <4>4. calls[n].at \in UsesIn(t, R)
        BY <2>1, <4>1 DEF KeptIn
      <4>5. calls[n].at[1] \in 1 .. Len(R)
        BY <2>1, <4>4, UsesAre
      <4>6. calls[n].at[1] # 0
        BY <4>5
      <4>7. Absent.call.at[1] = 0
        BY DEF Absent, NoCall
      <4> HIDE DEF m
      <4> QED
        BY <4>3, <4>6, <4>7
    <3> QED
      BY <3>1, <3>2, <3>3
  <2> QED
    BY <2>5, <2>6, <2>7
<1> QED
  BY <1>1, IntakeReadsAStream, StreamInvariant, ClaudeInvariant, PTL

-----------------------------------------------------------------------------
(* More sums: over some of the classes, over pairs, and of ones.           *)

\* Adding up some of the classes.
LEMMA SomeClassesAddUp ==
    ASSUME NEW D, IsFiniteSet(D), NEW b \in [D -> Claude!Bucket], NEW S, IsFiniteSet(S),
           NEW g, \A y \in D : g[y] \in S, NEW T \in SUBSET S
    PROVE  /\ Claude!Sum(BucketClasses(b, g, S), T) = BucketSum(Part(b, {y \in D : g[y] \in T}))
           /\ BucketClasses(b, g, S) \in [S -> Claude!Bucket]
<1> DEFINE A == {y \in D : g[y] \in T}
           c == Part(b, A)
           k == BucketClasses(b, g, S)
<1>1. IsFiniteSet(A) /\ IsFiniteSet(T) /\ A \in SUBSET D
  BY FS_Subset
<1>2. c \in [A -> Claude!Bucket] /\ DOMAIN c = A /\ DOMAIN b = D /\ \A y \in A : g[y] \in T
  BY <1>1 DEF Part
<1>3. k \in [S -> Claude!Bucket] /\ DOMAIN k = S
  <2>1. k \in [S -> Claude!Bucket]
    BY BucketClassesAddUp
  <2> HIDE DEF k
  <2> QED
    BY <2>1
<1>4. Part(k, T) = BucketClasses(c, g, T)
  <2>1. ASSUME NEW x \in T PROVE Part(b, {y \in D : g[y] = x}) = Part(c, {y \in A : g[y] = x})
    <3>1. {y \in D : g[y] = x} = {y \in A : g[y] = x} /\ {y \in A : g[y] = x} \subseteq A
      BY <2>1
    <3> QED
      BY <3>1 DEF Part
  <2> HIDE DEF A, c
  <2>2. Part(k, T) = [x \in T |-> k[x]]
    BY DEF Part
  <2>3. \A x \in T : k[x] = BucketSum(Part(b, {y \in D : g[y] = x}))
    BY <1>2 DEF BucketClasses
  <2> HIDE DEF k
  <2>4. \A x \in T : k[x] = BucketSum(Part(c, {y \in A : g[y] = x}))
    BY <2>1, <2>3
  <2> QED
    BY <1>2, <2>2, <2>4 DEF BucketClasses
<1> HIDE DEF A, c, k
<1>5. BucketSum(BucketClasses(c, g, T)) = BucketSum(c)
  BY <1>1, <1>2, BucketClassesAddUp
<1>6. Claude!Sum(k, T) = BucketSum(Part(k, T))
  BY <1>1, <1>3, BucketSumIs
<1> QED
  BY <1>3, <1>4, <1>5, <1>6 DEF A, c, k

\* Buckets of one message each add up to some messages, if there are any.
LEMMA SomeMessages ==
    ASSUME NEW D, IsFiniteSet(D), NEW b \in [D -> Claude!Bucket], NEW A \in SUBSET D,
           \A y \in A : b[y].messages = 1, A # {}
    PROVE  BucketSum(Part(b, A)).messages > 0
<1>1. PICK x \in A : TRUE
  OBVIOUS
<1> DEFINE m == Messages(Part(b, A))
<1>2. IsFiniteSet(A)
  BY FS_Subset
<1>3. m \in [A -> Nat] /\ m[x] = 1
  BY <1>1 DEF Messages, Part, Claude!Bucket
<1> HIDE DEF m
<1>4. SumOf(Without(m, x)) \in Nat /\ SumOf(m) = m[x] + SumOf(Without(m, x))
  BY <1>2, <1>3, SumTakesOut
<1>5. SumOf(m) > 0
  BY <1>3, <1>4
<1> QED
  BY <1>5 DEF BucketSum, m

\* Buckets at pairs that have the first component in common.
Under(n, A) == {n} \X A

LEMMA SecondsAddUp ==
    ASSUME NEW n, NEW A, IsFiniteSet(A), NEW D, D = Under(n, A), NEW b \in [D -> Claude!Bucket],
           NEW f \in [A -> Claude!Bucket], \A i \in A : b[<<n, i>>] = f[i]
    PROVE  BucketSum(b) = BucketSum(f) /\ IsFiniteSet(D)
<1> DEFINE g == [p \in D |-> p[2]]
           h == [i \in A |-> <<n, i>>]
<1>0. D = {n} \X A
  BY DEF Under
<1>1. IsFiniteSet(D)
  <2>1. D = {h[i] : i \in A}
    BY <1>0
  <2>2. IsFiniteSet({h[i] : i \in A})
    <3>1. DOMAIN h = A
      OBVIOUS
    <3> HIDE DEF h
    <3> QED
      BY <3>1, ImageIsFinite
  <2> QED
    BY <2>1, <2>2
<1>2. \A p \in D : g[p] \in A
  BY <1>0
<1>3. DOMAIN b = D
  OBVIOUS
<1>4. ASSUME NEW i \in A PROVE BucketSum(Part(b, {p \in D : g[p] = i})) = f[i]
  <2>1. {p \in D : g[p] = i} = {<<n, i>>} /\ <<n, i>> \in D
    BY <1>0
  <2> HIDE DEF g
  <2> QED
    BY <2>1, OneBucket
<1> HIDE DEF g
<1>5. BucketClasses(b, g, A) = f
  BY <1>3, <1>4 DEF BucketClasses
<1>6. BucketSum(BucketClasses(b, g, A)) = BucketSum(b)
  BY <1>1, <1>2, BucketClassesAddUp
<1> QED
  BY <1>1, <1>5, <1>6

\* A count is a sum of ones.
Ones(S) == [x \in S |-> 1]

LEMMA CountIsSum ==
    ASSUME NEW S, IsFiniteSet(S)
    PROVE  SumOf(Ones(S)) = Cardinality(S) /\ Ones(S) \in [S -> Nat]
<1> DEFINE f == Ones(S)
           h == [s \in SUBSET S |-> Cardinality(s)]
<1>1. f \in [S -> Nat] /\ DOMAIN f = S
  BY DEF Ones
<1>2. \A s \in SUBSET S : IsFiniteSet(s) /\ Cardinality(s) \in Nat
  BY FS_Subset, FS_CardinalityType
<1>3. h \in [SUBSET S -> Nat]
  BY <1>2
<1>4. h[{}] = 0
  BY FS_EmptySet
<1>5. ASSUME NEW s \in SUBSET S, NEW x \in s PROVE h[s] = f[x] + h[s \ {x}]
  <2>1. s \ {x} \in SUBSET S /\ f[x] = 1
    BY DEF Ones
  <2>2. IsFiniteSet(s)
    BY <1>2
  <2>3. Cardinality(s \ {x}) = Cardinality(s) - 1
    BY <2>2, FS_RemoveElement
  <2> HIDE DEF f
  <2>4. h[s] = Cardinality(s) /\ h[s \ {x}] = Cardinality(s \ {x})
    BY <2>1
  <2> QED
    BY <1>2, <2>1, <2>3, <2>4
<1> HIDE DEF h, f
<1>6. AddsUp(f, h)
  BY <1>1, <1>3, <1>4, <1>5 DEF AddsUp
<1>7. SumOf(f) = h[S]
  BY <1>1, <1>6, SumIs
<1> QED
  BY <1>1, <1>7 DEF h, f

\* The counts of the classes of g add up to the count.
Counts(S, g, N) == [n \in N |-> Cardinality({x \in S : g[x] = n})]

LEMMA CountsAddUp ==
    ASSUME NEW S, IsFiniteSet(S), NEW N, IsFiniteSet(N), NEW g, \A x \in S : g[x] \in N
    PROVE  /\ Counts(S, g, N) \in [N -> Nat]
           /\ SumOf(Counts(S, g, N)) = Cardinality(S)
<1>1. Ones(S) \in [S -> Nat] /\ SumOf(Ones(S)) = Cardinality(S) /\ DOMAIN Ones(S) = S
  BY CountIsSum DEF Ones
<1>2. ASSUME NEW n \in N PROVE SumOf(Part(Ones(S), {x \in S : g[x] = n})) = Cardinality({x \in S : g[x] = n})
  <2> DEFINE s == {x \in S : g[x] = n}
  <2>1. IsFiniteSet(s) /\ s \subseteq S
    BY FS_Subset
  <2> HIDE DEF s
  <2>2. Part(Ones(S), s) = Ones(s)
    BY <2>1 DEF Part, Ones
  <2> QED
    BY <2>1, <2>2, CountIsSum DEF s
<1>3. Classes(Ones(S), g, N) = Counts(S, g, N)
  BY <1>1, <1>2 DEF Classes, Counts
<1>4. Classes(Ones(S), g, N) \in [N -> Nat] /\ SumOf(Classes(Ones(S), g, N)) = SumOf(Ones(S))
  BY <1>1, ClassesAddUp
<1> QED
  BY <1>1, <1>3, <1>4

\* Two functions added up together.
LEMMA SumsAdd ==
    ASSUME NEW D, IsFiniteSet(D), NEW f \in [D -> Nat], NEW g \in [D -> Nat]
    PROVE  SumOf([x \in D |-> f[x] + g[x]]) = SumOf(f) + SumOf(g)
<1> DEFINE e == [x \in D |-> f[x] + g[x]]
<1>1. e \in [D -> Nat] /\ DOMAIN e = D /\ DOMAIN f = D /\ DOMAIN g = D /\ \A x \in D : e[x] = f[x] + g[x]
  OBVIOUS
<1> HIDE DEF e
<1>2. PICK h : AddsUp(f, h)
  BY SumExists
<1>3. PICK k : AddsUp(g, k)
  BY SumExists
<1> DEFINE z == [s \in SUBSET D |-> h[s] + k[s]]
<1>4. /\ h \in [SUBSET D -> Nat] /\ h[{}] = 0 /\ \A s \in SUBSET D : \A x \in s : h[s] = f[x] + h[s \ {x}]
      /\ k \in [SUBSET D -> Nat] /\ k[{}] = 0 /\ \A s \in SUBSET D : \A x \in s : k[s] = g[x] + k[s \ {x}]
  BY <1>1, <1>2, <1>3 DEF AddsUp
<1>5. z \in [SUBSET D -> Nat] /\ z[{}] = 0
  BY <1>4
<1>6. ASSUME NEW s \in SUBSET D, NEW x \in s PROVE z[s] = e[x] + z[s \ {x}]
  <2>1. s \ {x} \in SUBSET D /\ x \in D
    OBVIOUS
  <2>2. h[s] = f[x] + h[s \ {x}] /\ k[s] = g[x] + k[s \ {x}]
    BY <1>4
  <2>3. h[s \ {x}] \in Nat /\ k[s \ {x}] \in Nat /\ f[x] \in Nat /\ g[x] \in Nat
    BY <1>4, <2>1
  <2>4. z[s] = h[s] + k[s] /\ z[s \ {x}] = h[s \ {x}] + k[s \ {x}]
    BY <2>1
  <2> HIDE DEF z
  <2> QED
    BY <1>1, <2>1, <2>2, <2>3, <2>4
<1>7. z[D] = h[D] + k[D]
  OBVIOUS
<1> HIDE DEF z
<1>8. AddsUp(e, z)
  BY <1>1, <1>5, <1>6 DEF AddsUp
<1>9. SumOf(e) = z[D]
  BY <1>1, <1>8, SumIs
<1>10. SumOf(f) = h[D] /\ SumOf(g) = k[D]
  BY <1>2, <1>3, SumIs
<1> QED
  BY <1>7, <1>9, <1>10 DEF e

-----------------------------------------------------------------------------
(* The reducer over the same entries and parser variables, for whatever    *)
(* branches and worktrees a manifest may list.                             *)

CONSTANTS MaxSessions, MaxRecords, Agents, RunBranches, RunTrees, PathOf, InWindow
VARIABLES read, absorbed, skips, agents, tools, churn, run, branchesSeen, treesSeen

Corpus == INSTANCE Reducer WITH Entries <- EntrySet

\* The instance's operators are those of the parser.
LEMMA SameBooks ==
    /\ \A r : Corpus!IsEntry(r) <=> Claude!IsEntry(r)
    /\ Corpus!Malformed = Claude!Malformed /\ Corpus!None = Claude!None
    /\ Corpus!Detached = Claude!Detached
    /\ Corpus!Branches = Claude!Branches /\ Corpus!Cwds = Claude!Cwds
    /\ Corpus!Keys = Claude!Keys /\ Corpus!AllEntries = Claude!AllEntries
    /\ Corpus!Bucket = Claude!Bucket /\ Corpus!Empty = Claude!Empty
    /\ \A r : Corpus!Account(r) <=> Claude!Account(r)
    /\ \A r : Corpus!Spent(r) = Claude!Spent(r)
    /\ \A b, D : Corpus!Sum(b, D) = Claude!Sum(b, D)
    /\ \A b, c : Corpus!Plus(b, c) = Claude!Plus(b, c)
    /\ \A s : Corpus!FirstCopies(s) = Claude!FirstCopies(s)
BY DEF Corpus!Account, Claude!Account, Corpus!Charges, Claude!Charges, Corpus!HasUsage, Claude!HasUsage, 
   Corpus!IsEntry, Claude!IsEntry, Corpus!Malformed, Claude!Malformed, Corpus!NoUsage, Claude!NoUsage,
   Corpus!BillingKey, Claude!BillingKey, Corpus!None, Claude!None, Corpus!Plus, Claude!Plus, Corpus!Spent, Claude!Spent,
   Corpus!BooksCwd, Claude!BooksCwd, Corpus!Detached, Claude!Detached,
   Corpus!Sum, Claude!Sum, Corpus!MapThenSumSet, Claude!MapThenSumSet, Corpus!MapThenFoldSet, Claude!MapThenFoldSet,
   Corpus!FirstCopies, Claude!FirstCopies, Corpus!Branches, Claude!Branches, Corpus!Cwds, Claude!Cwds,
   Corpus!AllEntries, Claude!AllEntries, Corpus!Unstated, Claude!Unstated, Corpus!Bucket, Claude!Bucket,
   Corpus!Empty, Claude!Empty, Corpus!Keys, Claude!Keys, EntrySet

LEMMA SameCalls ==
    /\ \A r, at : Corpus!Joined(r, at) = Claude!Joined(r, at)
    /\ \A p : Corpus!Drained(p) = Claude!Drained(p)
BY DEF Corpus!Joined, Claude!Joined, Corpus!FoldLeft, Claude!FoldLeft, Corpus!MapThenFoldSet, Claude!MapThenFoldSet,
   Corpus!JoinResult, Claude!JoinResult, Corpus!Join, Claude!Join, Corpus!Awaiting, Claude!Awaiting, 
   Corpus!SelectInSeq, Claude!SelectInSeq, Corpus!Min, Claude!Min, Corpus!Max, Claude!Max, Corpus!RemoveAt, Claude!RemoveAt,
   Corpus!Enqueued, Claude!Enqueued, Corpus!Put, Claude!Put, Corpus!Opened, Claude!Opened, Corpus!Opens, Claude!Opens,
   Corpus!TurnOf, Claude!TurnOf, Corpus!Tracked, Claude!Tracked, Corpus!HasUsage, Claude!HasUsage, Corpus!IsEntry, Claude!IsEntry,
   Corpus!Malformed, Claude!Malformed, Corpus!NoUsage, Claude!NoUsage, Corpus!None, Claude!None, Corpus!Drained, Claude!Drained

-----------------------------------------------------------------------------
(* The session that is being parsed.                                       *)

SessionInv ==
    /\ ~trackTurns
    /\ read \in Seq(EntrySet)
    /\ UsageInv(read, charged, total, byBranch, byCwd)
    /\ parsing = "reading" => CallsHeld(trackTurns, read, pending, calls)
    /\ parsing = "parsed" => CallsAre(trackTurns, read, calls)

\* A step of the parser keeps it.
LEMMA SessionParses ==
    ASSUME SessionInv, Corpus!Next
    PROVE  SessionInv'
<1>1. ASSUME NEW r \in EntrySet, Corpus!Consume(r) PROVE SessionInv'
  <2>1. /\ parsing = "reading" /\ UNCHANGED trackTurns /\ parsing' \in {"reading", "failed"}
        /\ read' = Append(read, r) /\ read' \in Seq(EntrySet)
    <3>1. CASE Corpus!IsEntry(r) /\ Corpus!ParseEntry(r)
      BY <3>1 DEF Corpus!ParseEntry, SessionInv
    <3>2. CASE Corpus!IsEntry(r) /\ Corpus!TurnKeyMissing(r)
      BY <3>2 DEF Corpus!TurnKeyMissing, SessionInv
    <3>3. CASE ~Corpus!IsEntry(r) /\ Corpus!SkipMalformed
      BY <3>3 DEF Corpus!SkipMalformed, Corpus!IsEntry, SessionInv
    <3> QED
      BY <1>1, <3>1, <3>2, <3>3 DEF Corpus!Consume
  <2>2. /\ UsageInv(read, charged, total, byBranch, byCwd)
        /\ CallsHeld(trackTurns, read, pending, calls) /\ read \in Seq(EntrySet)
    BY <2>1 DEF SessionInv
  <2>3. CASE Claude!IsEntry(r)
    <3>1. Corpus!ParseEntry(r)
      BY <1>1, <2>3, SameBooks DEF Corpus!Consume, Corpus!TurnKeyMissing, Corpus!Tracked, SessionInv
    <3>2. /\ Claude!Account(r)
          /\ pending' = Claude!Joined(r, Len(read) + 1).pending
          /\ calls' = Claude!Joined(r, Len(read) + 1).calls
      BY <3>1, SameBooks, SameCalls DEF Corpus!ParseEntry
    <3>3. UsageInv(Append(read, r), charged', total', byBranch', byCwd')
      BY <2>2, <2>3, <3>2, UsageStep
    <3>4. CallsHeld(trackTurns, Append(read, r), pending', calls')
      BY <2>2, <2>3, <3>2, RecordHeld
    <3> QED
      BY <2>1, <3>3, <3>4 DEF SessionInv
  <2>4. CASE ~Claude!IsEntry(r)
    <3>1. UNCHANGED <<pending, calls, charged, total, byBranch, byCwd>>
      BY <1>1, <2>4, SameBooks DEF Corpus!Consume, Corpus!SkipMalformed, Corpus!tally
    <3>2. UsageInv(Append(read, r), charged, total, byBranch, byCwd)
      BY <2>2, <2>4, MalformedCharges
    <3>3. CallsHeld(trackTurns, Append(read, r), pending, calls)
      BY <2>2, <2>4, MalformedHeld
    <3> QED
      BY <2>1, <3>1, <3>2, <3>3 DEF SessionInv
  <2> QED
    BY <2>3, <2>4
<1>2. ASSUME Corpus!EndOfFile PROVE SessionInv'
  <2>1. /\ parsing = "reading" /\ parsing' = "parsed" /\ calls' = calls \o Claude!Drained(pending)
        /\ UNCHANGED <<trackTurns, read, charged, total, byBranch, byCwd>>
    BY <1>2, SameCalls DEF Corpus!EndOfFile, Corpus!tally
  <2>2. CallsAre(trackTurns, read, calls')
    BY <2>1, ParsedCalls DEF SessionInv
  <2> QED
    BY <2>1, <2>2 DEF SessionInv
<1> QED
  BY <1>1, <1>2 DEF Corpus!Next

\* A fresh parser has it.
LEMMA SessionStarts ==
    ASSUME SessionInv, Corpus!Fresh
    PROVE  SessionInv'
<1>1. /\ read' = <<>> /\ parsing' = "reading" /\ pending' = <<>> /\ calls' = <<>>
      /\ UNCHANGED trackTurns /\ charged' = {} /\ total' = Claude!Empty
      /\ byBranch' = [b \in Claude!Branches |-> Claude!Empty]
      /\ byCwd' = [c \in Claude!Cwds |-> Claude!Empty]
  BY SameBooks DEF Corpus!Fresh
<1>2. read' \in Seq(EntrySet)
  BY <1>1
<1>3. UsageInv(read', charged', total', byBranch', byCwd') /\ CallsHeld(trackTurns', read', pending', calls')
  BY <1>1, NothingRead
<1> QED
  BY <1>1, <1>2, <1>3 DEF SessionInv

LEMMA FirstSession ==
    ASSUME Corpus!CorpusInit
    PROVE  SessionInv
<1>1. /\ read = <<>> /\ parsing = "reading" /\ pending = <<>> /\ calls = <<>>
      /\ ~trackTurns /\ charged = {} /\ total = Claude!Empty
      /\ byBranch = [b \in Claude!Branches |-> Claude!Empty]
      /\ byCwd = [c \in Claude!Cwds |-> Claude!Empty]
  BY SameBooks DEF Corpus!CorpusInit, Corpus!Init
<1>2. read \in Seq(EntrySet)
  BY <1>1
<1>3. UsageInv(read, charged, total, byBranch, byCwd) /\ CallsHeld(trackTurns, read, pending, calls)
  BY <1>1, NothingRead
<1> QED
  BY <1>1, <1>2, <1>3 DEF SessionInv

-----------------------------------------------------------------------------
(* What a session books to the run.                                        *)

\* The books of branches and cwds over any of them.
LEMMA BooksOver ==
    ASSUME NEW R \in Seq(EntrySet), UsageInv(R, charged, total, byBranch, byCwd)
    PROVE  /\ \A T \in SUBSET Claude!Branches :
                  Claude!Sum(byBranch, T) =
                      BucketSum(Part(SpentIn(R), {i \in Claude!FirstCopies(R) : R[i].branch \in T}))
           /\ \A T \in SUBSET Claude!Cwds :
                  Claude!Sum(byCwd, T) =
                      BucketSum(Part(SpentIn(R), {i \in Claude!FirstCopies(R) :
                                                      R[i].branch = Claude!Detached /\ R[i].cwd \in T}))
<1> DEFINE b == SpentIn(R)
           F == Claude!FirstCopies(R)
           branch == [i \in F |-> R[i].branch]
           cwd == [i \in F |-> R[i].cwd]
           D == OnBranch(R, Claude!Detached)
           d == Part(b, D)
<1>1. /\ IsFiniteSet(F) /\ b \in [F -> Claude!Bucket]
      /\ \A i \in F : R[i].branch \in Claude!Branches /\ R[i].cwd \in Claude!Cwds
  BY CopiesAre, EntryShape
<1>2. D \in SUBSET F /\ d \in [D -> Claude!Bucket] /\ IsFiniteSet(D)
  BY <1>1, FS_Subset DEF OnBranch, Part
<1>3. byBranch = BucketClasses(b, branch, Claude!Branches) /\ byCwd = BucketClasses(d, cwd, Claude!Cwds)
  BY BooksAre
<1>4. ASSUME NEW T \in SUBSET Claude!Branches
      PROVE  Claude!Sum(byBranch, T) = BucketSum(Part(b, {i \in F : R[i].branch \in T}))
  <2>1. \A i \in F : branch[i] = R[i].branch
    OBVIOUS
  <2>2. {i \in F : branch[i] \in T} = {i \in F : R[i].branch \in T}
    BY <2>1
  <2> HIDE DEF b, F, branch
  <2> QED
    BY <1>1, <1>3, <2>1, <2>2, BranchesAreFinite, SomeClassesAddUp
<1>5. ASSUME NEW T \in SUBSET Claude!Cwds
      PROVE  Claude!Sum(byCwd, T) =
                 BucketSum(Part(b, {i \in F : R[i].branch = Claude!Detached /\ R[i].cwd \in T}))
  <2> DEFINE A == {i \in D : cwd[i] \in T}
  <2>1. \A i \in D : cwd[i] \in Claude!Cwds
    BY <1>1, <1>2
  <2>2. A = {i \in F : R[i].branch = Claude!Detached /\ R[i].cwd \in T}
    BY DEF OnBranch
  <2>3. Part(d, A) = Part(b, A)
    BY DEF Part
  <2> HIDE DEF b, F, cwd, D, d
  <2>4. Claude!Sum(byCwd, T) = BucketSum(Part(d, A))
    BY <1>2, <1>3, <2>1, BranchesAreFinite, SomeClassesAddUp
  <2> QED
    BY <2>2, <2>3, <2>4
<1> QED
  BY <1>4, <1>5

\* A first copy is one message; so some of them are some messages.
LEMMA CopiesAreMessages ==
    ASSUME NEW R \in Seq(EntrySet), NEW A \in SUBSET Claude!FirstCopies(R)
    PROVE  /\ BucketSum(Part(SpentIn(R), A)) \in Claude!Bucket
           /\ A # {} => BucketSum(Part(SpentIn(R), A)).messages > 0
           /\ A = {} => BucketSum(Part(SpentIn(R), A)) = Claude!Empty
<1> DEFINE b == SpentIn(R)
           F == Claude!FirstCopies(R)
<1>1. IsFiniteSet(F) /\ b \in [F -> Claude!Bucket] /\ IsFiniteSet(A)
  BY CopiesAre, FS_Subset
<1>2. \A i \in A : b[i].messages = 1
  BY DEF SpentIn, Claude!Spent
<1>3. A \in SUBSET F
  OBVIOUS
<1> HIDE DEF b, F
<1>4. BucketSum(Part(b, A)) \in Claude!Bucket
  BY <1>1, <1>3, BucketSumIs
<1>5. A # {} => BucketSum(Part(b, A)).messages > 0
  BY <1>1, <1>2, <1>3, SomeMessages
<1>6. A = {} => BucketSum(Part(b, A)) = Claude!Empty
  BY NoBuckets
<1> QED
  BY <1>4, <1>5, <1>6 DEF b

\* The first copies of a session on the run, loose, and beside the run.
MineIn(s)   == {i \in Claude!FirstCopies(s) : Corpus!OnRun(s[i])}
LooseIn(s)  == {i \in Claude!FirstCopies(s) : Corpus!Loose(s[i])}
BesideIn(s) == {i \in Claude!FirstCopies(s) : Corpus!Beside(s[i], s)}

Billed(s, A) == BucketSum(Part(SpentIn(s), A))

OnRunBranch(s) == {i \in Claude!FirstCopies(s) : s[i].branch \in RunBranches}
InRunTree(s) ==
    {i \in Claude!FirstCopies(s) : s[i].branch = Claude!Detached /\ Corpus!TreesOf(s[i].cwd) # {}}
OnOtherBranch(s) ==
    {i \in Claude!FirstCopies(s) : s[i].branch \notin RunBranches \cup {Claude!Detached}}

\* The two ways onto a run meet only when the manifest lists HEAD; the rest is
\* loose or elsewhere.
LEMMA HomesAre ==
    ASSUME NEW s
    PROVE  /\ MineIn(s) = OnRunBranch(s) \cup InRunTree(s)
           /\ Corpus!Detached \notin RunBranches => OnRunBranch(s) \cap InRunTree(s) = {}
           /\ OnBranch(s, Claude!Detached) = InRunTree(s) \cup LooseIn(s)
           /\ InRunTree(s) \cap LooseIn(s) = {}
           /\ BesideIn(s) = IF MineIn(s) # {} THEN OnOtherBranch(s) ELSE {}
BY SameBooks DEF MineIn, LooseIn, BesideIn, OnRunBranch, InRunTree, OnOtherBranch, OnBranch,
   Corpus!OnRun, Corpus!OnRunBranch, Corpus!InRunTree, Corpus!Loose, Corpus!Beside

\* What _absorb_run reads off the books.
LEMMA ClaimedIs ==
    ASSUME SessionInv
    PROVE  Corpus!Claimed = Billed(read, InRunTree(read))
<1> DEFINE T == Corpus!ClaimedCwds
           F == Claude!FirstCopies(read)
           A == {i \in F : read[i].branch = Claude!Detached /\ read[i].cwd \in T}
<1>1. read \in Seq(EntrySet) /\ UsageInv(read, charged, total, byBranch, byCwd)
  BY DEF SessionInv
<1>2. T \in SUBSET Claude!Cwds
  BY SameBooks DEF Corpus!ClaimedCwds
<1>3. Corpus!Claimed = Billed(read, A)
  <2> HIDE DEF T
  <2>1. Claude!Sum(byCwd, T) = BucketSum(Part(SpentIn(read), A))
    BY <1>1, <1>2, BooksOver
  <2> QED
    BY <2>1, SameBooks DEF Corpus!Claimed, Billed, T
<1>4. A = InRunTree(read)
  <2>1. ASSUME NEW i \in F, read[i].branch = Claude!Detached, Corpus!TreesOf(read[i].cwd) # {}
        PROVE  read[i].cwd \in T
    <3> DEFINE c == read[i].cwd
               I == InCwd(read, c)
    <3>1. c \in Claude!Cwds
      BY <1>1, CopiesAre, EntryShape
    <3>2. byCwd[c] = BucketSum(Part(SpentIn(read), I))
      BY <1>1, <3>1 DEF UsageInv
    <3>3. i \in I /\ I \in SUBSET F
      BY <2>1 DEF InCwd
    <3> HIDE DEF I
    <3>4. byCwd[c].messages > 0
      BY <1>1, <3>2, <3>3, CopiesAreMessages
    <3> QED
      BY <2>1, <3>1, <3>4, SameBooks DEF Corpus!ClaimedCwds
  <2>2. \A c \in T : Corpus!TreesOf(c) # {}
    BY DEF Corpus!ClaimedCwds
  <2> HIDE DEF T
  <2> QED
    BY <2>1, <2>2 DEF InRunTree
<1> QED
  BY <1>3, <1>4

LEMMA CandidateIs ==
    ASSUME SessionInv
    PROVE  Corpus!Candidate <=> MineIn(read) # {}
<1>1. read \in Seq(EntrySet) /\ UsageInv(read, charged, total, byBranch, byCwd)
  BY DEF SessionInv
<1>2. Corpus!RunBranchesHere # {} <=> OnRunBranch(read) # {}
  <2>1. ASSUME NEW b \in Claude!Branches PROVE byBranch[b].messages > 0 <=> OnBranch(read, b) # {}
    <3>1. byBranch[b] = BucketSum(Part(SpentIn(read), OnBranch(read, b)))
      BY <1>1 DEF UsageInv
    <3>2. OnBranch(read, b) \in SUBSET Claude!FirstCopies(read)
      BY DEF OnBranch
    <3>3. OnBranch(read, b) # {} => byBranch[b].messages > 0
      BY <1>1, <3>1, <3>2, CopiesAreMessages
    <3>4. OnBranch(read, b) = {} => byBranch[b].messages = 0
      <4>1. OnBranch(read, b) = {} => byBranch[b] = Claude!Empty
        BY <1>1, <3>1, <3>2, CopiesAreMessages
      <4> QED
        BY <4>1 DEF Claude!Empty
    <3> QED
      BY <3>3, <3>4
  <2>2. \A i \in Claude!FirstCopies(read) : read[i].branch \in Claude!Branches
    BY <1>1, CopiesAre, EntryShape
  <2> QED
    BY <2>1, <2>2, SameBooks DEF Corpus!RunBranchesHere, OnRunBranch, OnBranch
<1>3. Corpus!Claimed.messages > 0 <=> InRunTree(read) # {}
  <2>1. InRunTree(read) \in SUBSET Claude!FirstCopies(read)
    BY DEF InRunTree
  <2>2. Corpus!Claimed = BucketSum(Part(SpentIn(read), InRunTree(read)))
    BY ClaimedIs DEF Billed
  <2>3. InRunTree(read) # {} => Corpus!Claimed.messages > 0
    BY <1>1, <2>1, <2>2, CopiesAreMessages
  <2>4. InRunTree(read) = {} => Corpus!Claimed = Claude!Empty
    BY <1>1, <2>1, <2>2, CopiesAreMessages
  <2> QED
    BY <2>3, <2>4 DEF Claude!Empty
<1> QED
  BY <1>2, <1>3, HomesAre DEF Corpus!Candidate

\* The three amounts that it adds to the run.
LEMMA RunShares ==
    ASSUME SessionInv
    PROVE  /\ Corpus!Attributed = Claude!Plus(Billed(read, OnRunBranch(read)), Billed(read, InRunTree(read)))
           /\ Corpus!Detached \notin RunBranches => Corpus!Attributed = Billed(read, MineIn(read))
           /\ Corpus!Booked.cache = Billed(read, LooseIn(read)).cache
           /\ Corpus!Booked.io = Billed(read, LooseIn(read)).io
           /\ Corpus!Spillover = Billed(read, BesideIn(read)).cache
<1> DEFINE F == Claude!FirstCopies(read)
           b == SpentIn(read)
<1>1. read \in Seq(EntrySet) /\ UsageInv(read, charged, total, byBranch, byCwd)
  BY DEF SessionInv
<1>2. IsFiniteSet(F) /\ b \in [F -> Claude!Bucket] /\ \A i \in F : read[i].branch \in Claude!Branches
  BY <1>1, CopiesAre, EntryShape
<1>3. \A T \in SUBSET Claude!Branches :
          Corpus!Sum(byBranch, T) = Billed(read, {i \in F : read[i].branch \in T})
  BY <1>1, BooksOver, SameBooks DEF Billed
<1>4. /\ MineIn(read) \in SUBSET F /\ LooseIn(read) \in SUBSET F /\ InRunTree(read) \in SUBSET F
      /\ OnRunBranch(read) \in SUBSET F
  BY DEF MineIn, LooseIn, InRunTree, OnRunBranch
<1>5. \A A \in SUBSET F : Billed(read, A) \in Claude!Bucket /\ (A = {} => Billed(read, A) = Claude!Empty)
  BY <1>1, CopiesAreMessages DEF Billed
<1>6. ASSUME NEW A \in SUBSET F, NEW B \in SUBSET F, A \cap B = {}
      PROVE  Billed(read, A \cup B) = Claude!Plus(Billed(read, A), Billed(read, B))
  <2> HIDE DEF F, b
  <2> QED
    BY <1>2, <1>6, BucketsAddUp DEF Billed, b
<1>7. Corpus!Attributed = Claude!Plus(Billed(read, OnRunBranch(read)), Billed(read, InRunTree(read)))
  <2>1. CASE Corpus!Candidate
    <3> DEFINE T == Claude!Branches \cap RunBranches
    <3>1. {i \in F : read[i].branch \in T} = OnRunBranch(read)
      BY <1>2 DEF OnRunBranch
    <3>2. Corpus!Sum(byBranch, T) = Billed(read, OnRunBranch(read))
      BY <1>3, <3>1
    <3> QED
      BY <2>1, <3>2, ClaimedIs, SameBooks DEF Corpus!Attributed
  <2>2. CASE ~Corpus!Candidate
    <3>1. OnRunBranch(read) = {} /\ InRunTree(read) = {}
      BY <2>2, CandidateIs, HomesAre
    <3>2. Billed(read, OnRunBranch(read)) = Claude!Empty /\ Billed(read, InRunTree(read)) = Claude!Empty
      BY <1>4, <1>5, <3>1
    <3>3. Claude!Plus(Claude!Empty, Claude!Empty) = Claude!Empty
      BY DEF Claude!Plus, Claude!Empty
    <3> QED
      BY <2>2, <3>2, <3>3, SameBooks DEF Corpus!Attributed
  <2> QED
    BY <2>1, <2>2
<1>10. ASSUME Corpus!Detached \notin RunBranches
       PROVE  Billed(read, MineIn(read)) =
                  Claude!Plus(Billed(read, OnRunBranch(read)), Billed(read, InRunTree(read)))
  <2>1. MineIn(read) = OnRunBranch(read) \cup InRunTree(read) /\ OnRunBranch(read) \cap InRunTree(read) = {}
    BY <1>10, HomesAre
  <2> QED
    BY <1>4, <1>6, <2>1
<1>8. Corpus!Booked.cache = Billed(read, LooseIn(read)).cache /\ Corpus!Booked.io = Billed(read, LooseIn(read)).io
  <2> DEFINE l == Billed(read, LooseIn(read))
             c == Billed(read, InRunTree(read))
  <2>1. byBranch[Claude!Detached] = Claude!Plus(c, l)
    <3>1. byBranch[Claude!Detached] = Billed(read, OnBranch(read, Claude!Detached))
      BY <1>1 DEF UsageInv, Claude!Branches, Billed
    <3> QED
      BY <1>4, <1>6, <3>1, HomesAre
  <2>2. c \in Claude!Bucket /\ l \in Claude!Bucket
    BY <1>4, <1>5
  <2>3. Corpus!Unclaimed = Corpus!Minus(Claude!Plus(c, l), c)
    BY <2>1, ClaimedIs, SameBooks DEF Corpus!Unclaimed
  <2> HIDE DEF l, c
  <2>4. Corpus!Unclaimed = l
    BY <2>2, <2>3 DEF Corpus!Minus, Claude!Plus, Claude!Bucket
  <2>5. Corpus!SpentAnything(l) \/ (l.cache = 0 /\ l.io = 0)
    BY <2>2 DEF Corpus!SpentAnything, Claude!Bucket
  <2>6. Corpus!Empty.cache = 0 /\ Corpus!Empty.io = 0
    BY DEF Corpus!Empty
  <2> QED
    BY <2>4, <2>5, <2>6 DEF Corpus!Booked, l
<1>9. Corpus!Spillover = Billed(read, BesideIn(read)).cache
  <2>1. CASE Corpus!Candidate
    <3> DEFINE T == Claude!Branches \ (RunBranches \cup {Claude!Detached})
    <3>1. {i \in F : read[i].branch \in T} = OnOtherBranch(read)
      BY <1>2 DEF OnOtherBranch
    <3>2. Corpus!Sum(byBranch, T) = Billed(read, OnOtherBranch(read))
      BY <1>3, <3>1
    <3>3. BesideIn(read) = OnOtherBranch(read)
      BY <2>1, CandidateIs, HomesAre
    <3> QED
      BY <2>1, <3>2, <3>3, SameBooks DEF Corpus!Spillover
  <2>2. CASE ~Corpus!Candidate
    <3>1. BesideIn(read) = {} /\ {} \in SUBSET F
      BY <2>2, CandidateIs, HomesAre
    <3>2. Billed(read, BesideIn(read)).cache = 0
      BY <1>5, <3>1 DEF Claude!Empty
    <3> QED
      BY <2>2, <3>2 DEF Corpus!Spillover
  <2> QED
    BY <2>1, <2>2
<1> QED
  BY <1>7, <1>8, <1>9, <1>10

-----------------------------------------------------------------------------
(* What all the sessions spent.                                            *)

AllCalls == UNION {CallsOf(trackTurns, s) : s \in Seq(EntrySet)}
Logs     == [read : Seq(EntrySet), calls : Seq(AllCalls)]

\* H[k] are positions of the k-th session.
Spots(H)       == UNION {{k} \X H[k] : k \in DOMAIN H}
SpentAt(A, H)  == [p \in Spots(H) |-> Claude!Spent(A[p[1]].read[p[2]])]
BilledAt(A, H) == BucketSum(SpentAt(A, H))

\* Some first copies of each session of A.
Marks(A, H) ==
    /\ DOMAIN H = 1 .. Len(A)
    /\ \A k \in 1 .. Len(A) : H[k] \in SUBSET Claude!FirstCopies(A[k].read)

\* They are finitely many, and each has spent something.
LEMMA SpotsAre ==
    ASSUME NEW A \in Seq(Logs), NEW H, Marks(A, H)
    PROVE  /\ IsFiniteSet(Spots(H)) /\ SpentAt(A, H) \in [Spots(H) -> Claude!Bucket]
           /\ Claude!Sum(SpentAt(A, H), Spots(H)) = BilledAt(A, H)
           /\ BilledAt(A, H) \in Claude!Bucket
<1> DEFINE n == Len(A)
           D == Spots(H)
           b == SpentAt(A, H)
<1>1. n \in Nat /\ \A k \in 1 .. n : A[k].read \in Seq(EntrySet)
  <2>1. n \in Nat /\ \A k \in 1 .. n : A[k] \in Logs
    OBVIOUS
  <2> QED
    BY <2>1 DEF Logs
<1>2. \A k \in 1 .. n : IsFiniteSet(H[k])
  <2> TAKE k \in 1 .. n
  <2>1. IsFiniteSet(Claude!FirstCopies(A[k].read))
    BY <1>1, CopiesAre
  <2> QED
    BY <2>1, FS_Subset DEF Marks
<1>3. IsFiniteSet(D)
  <2> DEFINE f == [k \in 1 .. n |-> {k} \X H[k]]
             I == {f[k] : k \in 1 .. n}
  <2>1. \A k \in 1 .. n : IsFiniteSet({k} \X H[k])
    <3> TAKE k \in 1 .. n
    <3> DEFINE S == H[k]
               pairs == Under(k, S)
               z == [p \in pairs |-> Claude!Empty]
               none == [i \in S |-> Claude!Empty]
    <3>1. /\ IsFiniteSet(S) /\ z \in [pairs -> Claude!Bucket] /\ none \in [S -> Claude!Bucket]
          /\ \A i \in S : z[<<k, i>>] = none[i]
      BY <1>2 DEF Claude!Empty, Claude!Bucket, Under
    <3>2. pairs = Under(k, S)
      OBVIOUS
    <3> HIDE DEF S, z, none, pairs
    <3>3. IsFiniteSet(pairs)
      BY <3>1, <3>2, SecondsAddUp
    <3> QED
      BY <3>2, <3>3 DEF S, Under
  <2>2. IsFiniteSet(I)
    <3>1. IsFiniteSet(1 .. n) /\ DOMAIN f = 1 .. n
      BY <1>1, FS_Interval
    <3> HIDE DEF f
    <3> QED
      BY <3>1, ImageIsFinite
  <2>3. \A s \in I : IsFiniteSet(s)
    BY <2>1
  <2>4. D = UNION I
    BY DEF Spots, Marks
  <2> HIDE DEF I, D
  <2> QED
    BY <2>2, <2>3, <2>4, FS_UNION
<1>4. \A p \in D : Claude!Spent(A[p[1]].read[p[2]]) \in Claude!Bucket
  <2> TAKE p \in D
  <2>1. p[1] \in 1 .. n /\ p[2] \in Claude!FirstCopies(A[p[1]].read)
    BY DEF Spots, Marks
  <2> DEFINE s == A[p[1]].read
  <2>2. s \in Seq(EntrySet)
    BY <1>1, <2>1
  <2>3. s[p[2]] \in EntrySet /\ Claude!HasUsage(s[p[2]])
    BY <2>1, <2>2, CopiesAre
  <2> QED
    BY <2>3, EntryShape
<1>5. b \in [D -> Claude!Bucket]
  BY <1>4 DEF SpentAt
<1>6. Part(b, D) = b /\ D \in SUBSET D
  BY DEF Part, SpentAt
<1> HIDE DEF D, b
<1>7. Claude!Sum(b, D) = BucketSum(b) /\ BucketSum(b) \in Claude!Bucket
  BY <1>3, <1>5, <1>6, BucketSumIs
<1> QED
  BY <1>3, <1>5, <1>7 DEF D, b, BilledAt

\* One session more adds what it spent.
LEMMA BilledGrows ==
    ASSUME NEW A \in Seq(Logs), NEW x \in Logs, NEW H, Marks(A, H), NEW G, Marks(Append(A, x), G),
           \A k \in 1 .. Len(A) : G[k] = H[k]
    PROVE  BilledAt(Append(A, x), G) =
               Claude!Plus(BilledAt(A, H), Billed(x.read, G[Len(A) + 1]))
<1> DEFINE Q == Append(A, x)
           n == Len(A)
           s == x.read
           g == G[n + 1]
           D == Spots(H)
           N == {n + 1} \X g
           b == SpentAt(A, H)
           e == SpentAt(Q, G)
<1>1. /\ n \in Nat /\ Q \in Seq(Logs) /\ Len(Q) = n + 1 /\ Q[n + 1] = x
      /\ \A k \in 1 .. n : Q[k] = A[k]
      /\ 1 .. n + 1 = (1 .. n) \cup {n + 1} /\ n + 1 \notin 1 .. n
  OBVIOUS
<1> HIDE DEF Q, n
<1>2. s \in Seq(EntrySet) /\ g \in SUBSET Claude!FirstCopies(s)
  BY <1>1 DEF Marks, Logs, Q
<1>3. Spots(G) = D \cup N /\ D \cap N = {}
  BY <1>1 DEF Spots, Marks, Q, n
<1>4. IsFiniteSet(Spots(G)) /\ e \in [Spots(G) -> Claude!Bucket] /\ b \in [D -> Claude!Bucket]
  BY <1>1, SpotsAre DEF Q
<1>5. Part(e, D) = b
  <2>1. \A p \in D : p[1] \in 1 .. n
    BY DEF Spots, Marks, n
  <2>2. \A p \in D : Q[p[1]] = A[p[1]] /\ p \in Spots(G)
    BY <1>1, <1>3, <2>1
  <2>3. \A p \in D : e[p] = b[p]
    BY <2>2 DEF SpentAt
  <2> HIDE DEF D, e, b
  <2> QED
    BY <1>4, <2>3 DEF Part
<1>6. Part(e, N) \in [N -> Claude!Bucket] /\ \A i \in g : Part(e, N)[<<n + 1, i>>] = Claude!Spent(s[i])
  <2>1. \A i \in g : e[<<n + 1, i>>] = Claude!Spent(s[i])
    BY <1>1, <1>3 DEF SpentAt
  <2>2. Part(e, N) \in [N -> Claude!Bucket]
    <3>1. N \subseteq Spots(G)
      BY <1>3
    <3> HIDE DEF N, e
    <3> QED
      BY <1>4, <3>1 DEF Part
  <2> HIDE DEF e
  <2> QED
    BY <2>1, <2>2 DEF Part
<1>7. BucketSum(Part(e, N)) = Billed(s, g)
  <2> DEFINE c == Part(e, N)
  <2>1. \A i \in g : c[<<n + 1, i>>] = Claude!Spent(s[i])
    BY <1>6
  <2>2. IsFiniteSet(g)
    <3>1. IsFiniteSet(Claude!FirstCopies(s))
      BY <1>2, CopiesAre
    <3> QED
      BY <1>2, <3>1, FS_Subset
  <2> HIDE DEF c, g, e
  <2>3. /\ Part(SpentIn(s), g) \in [g -> Claude!Bucket]
        /\ \A i \in g : c[<<n + 1, i>>] = Part(SpentIn(s), g)[i]
    <3>1. SpentIn(s) \in [Claude!FirstCopies(s) -> Claude!Bucket]
      BY <1>2, CopiesAre
    <3> QED
      <4>1. \A i \in g : SpentIn(s)[i] = Claude!Spent(s[i]) /\ i \in Claude!FirstCopies(s)
        BY <1>2 DEF SpentIn
      <4> QED
        BY <1>2, <2>1, <3>1, <4>1 DEF Part
  <2>4. c \in [N -> Claude!Bucket] /\ N = Under(n + 1, g)
    BY <1>6 DEF c, Under
  <2> HIDE DEF N
  <2>5. BucketSum(c) = BucketSum(Part(SpentIn(s), g))
    BY <2>1, <2>2, <2>3, <2>4, SecondsAddUp
  <2> QED
    BY <2>5 DEF c, Billed
<1> DEFINE E == Spots(G)
<1>8. BucketSum(Part(e, D \cup N)) = Claude!Plus(BucketSum(Part(e, D)), BucketSum(Part(e, N)))
  <2>1. D \in SUBSET E /\ N \in SUBSET E /\ IsFiniteSet(E) /\ e \in [E -> Claude!Bucket] /\ D \cap N = {}
    BY <1>3, <1>4
  <2> HIDE DEF D, N, E, e
  <2> QED
    BY <2>1, BucketsAddUp
<1>9. Part(e, D \cup N) = e
  <2> HIDE DEF D, N, e
  <2> QED
    BY <1>3, <1>4 DEF Part
<1> QED
  BY <1>5, <1>7, <1>8, <1>9 DEF BilledAt, Q, n

\* Where the sessions' first copies have their homes.
ByBranch(A) == [k \in DOMAIN A |-> OnRunBranch(A[k].read)]
ByTree(A)   == [k \in DOMAIN A |-> InRunTree(A[k].read)]
Mine(A)   == [k \in DOMAIN A |-> MineIn(A[k].read)]
Loose(A)  == [k \in DOMAIN A |-> LooseIn(A[k].read)]
Beside(A) == [k \in DOMAIN A |-> BesideIn(A[k].read)]

LEMMA HomesMark ==
    ASSUME NEW A \in Seq(Logs)
    PROVE  /\ Marks(A, ByBranch(A)) /\ Marks(A, ByTree(A)) /\ Marks(A, Mine(A))
           /\ Marks(A, Loose(A)) /\ Marks(A, Beside(A))
BY DEF Marks, ByBranch, ByTree, Mine, Loose, Beside, OnRunBranch, InRunTree, MineIn, LooseIn, BesideIn

HomesInv ==
    /\ run.mine = Claude!Plus(BilledAt(absorbed, ByBranch(absorbed)), BilledAt(absorbed, ByTree(absorbed)))
    /\ Corpus!Detached \notin RunBranches => run.mine = BilledAt(absorbed, Mine(absorbed))
    /\ run.detached.cache = BilledAt(absorbed, Loose(absorbed)).cache
    /\ run.detached.io = BilledAt(absorbed, Loose(absorbed)).io
    /\ run.unattributed = BilledAt(absorbed, Beside(absorbed)).cache

\* The run report in these terms.
LEMMA HomesAreOne ==
    ASSUME absorbed \in Seq(Logs), HomesInv
    PROVE  Corpus!EveryTokenHasItsHome
<1> DEFINE A == absorbed
<1>1. /\ Corpus!Sum(SpentAt(A, ByBranch(A)), Spots(ByBranch(A))) = BilledAt(A, ByBranch(A))
      /\ Corpus!Sum(SpentAt(A, ByTree(A)), Spots(ByTree(A))) = BilledAt(A, ByTree(A))
      /\ Corpus!Sum(SpentAt(A, Mine(A)), Spots(Mine(A))) = BilledAt(A, Mine(A))
      /\ Corpus!Sum(SpentAt(A, Loose(A)), Spots(Loose(A))) = BilledAt(A, Loose(A))
      /\ Corpus!Sum(SpentAt(A, Beside(A)), Spots(Beside(A))) = BilledAt(A, Beside(A))
  BY HomesMark, SpotsAre, SameBooks
<1>2. /\ Spots(ByBranch(A)) = UNION {{k} \X {i \in Corpus!FirstCopies(A[k].read) : Corpus!OnRunBranch(A[k].read[i])} : k \in DOMAIN A}
      /\ Spots(ByTree(A)) = UNION {{k} \X {i \in Corpus!FirstCopies(A[k].read) : Corpus!InRunTree(A[k].read[i])} : k \in DOMAIN A}
      /\ Spots(Mine(A)) = UNION {{k} \X {i \in Corpus!FirstCopies(A[k].read) : Corpus!OnRun(A[k].read[i])} : k \in DOMAIN A}
      /\ Spots(Loose(A)) = UNION {{k} \X {i \in Corpus!FirstCopies(A[k].read) : Corpus!Loose(A[k].read[i])} : k \in DOMAIN A}
      /\ Spots(Beside(A)) = UNION {{k} \X {i \in Corpus!FirstCopies(A[k].read) : Corpus!Beside(A[k].read[i], A[k].read)} : k \in DOMAIN A}
  BY SameBooks DEF Spots, ByBranch, ByTree, Mine, Loose, Beside, MineIn, LooseIn, BesideIn,
     OnRunBranch, InRunTree, Corpus!OnRunBranch, Corpus!InRunTree
<1>3. \A H : SpentAt(A, H) = [p \in Spots(H) |-> Corpus!Spent(A[p[1]].read[p[2]])]
  BY SameBooks DEF SpentAt
<1>4. /\ Corpus!Spending(LAMBDA r, s : Corpus!OnRunBranch(r)) = BilledAt(A, ByBranch(A))
      /\ Corpus!Spending(LAMBDA r, s : Corpus!InRunTree(r)) = BilledAt(A, ByTree(A))
      /\ Corpus!Spending(LAMBDA r, s : Corpus!OnRun(r)) = BilledAt(A, Mine(A))
      /\ Corpus!Spending(LAMBDA r, s : Corpus!Loose(r)) = BilledAt(A, Loose(A))
      /\ Corpus!Spending(LAMBDA r, s : Corpus!Beside(r, s)) = BilledAt(A, Beside(A))
  BY <1>1, <1>2, <1>3 DEF Corpus!Spending
<1> QED
  BY <1>4, SameBooks DEF HomesInv, Corpus!EveryTokenHasItsHome

LEMMA NatsTwoByTwo ==
    ASSUME NEW w \in Nat, NEW v \in Nat, NEW y \in Nat, NEW z \in Nat
    PROVE  (w + v) + (y + z) = (w + y) + (v + z)
OBVIOUS

\* Two branches' and two worktrees' buckets, added in either order.
LEMMA PlusTwoByTwo ==
    ASSUME NEW a \in Claude!Bucket, NEW b \in Claude!Bucket, NEW c \in Claude!Bucket, NEW d \in Claude!Bucket
    PROVE  Claude!Plus(Claude!Plus(a, b), Claude!Plus(c, d)) = Claude!Plus(Claude!Plus(a, c), Claude!Plus(b, d))
<1>1. \A e \in Claude!Bucket : e.cache \in Nat /\ e.io \in Nat /\ e.messages \in Nat
  BY DEF Claude!Bucket
<1>2. (a.cache + b.cache) + (c.cache + d.cache) = (a.cache + c.cache) + (b.cache + d.cache)
  BY <1>1, NatsTwoByTwo
<1>3. (a.io + b.io) + (c.io + d.io) = (a.io + c.io) + (b.io + d.io)
  BY <1>1, NatsTwoByTwo
<1>4. (a.messages + b.messages) + (c.messages + d.messages) = (a.messages + c.messages) + (b.messages + d.messages)
  BY <1>1, NatsTwoByTwo
<1> QED
  BY <1>2, <1>3, <1>4 DEF Claude!Plus

\* A session that is folded in brings its tokens home.
LEMMA HomesAbsorb ==
    ASSUME SessionInv, absorbed \in Seq(Logs), NEW x \in Logs, x.read = read,
           absorbed' = Append(absorbed, x), Corpus!AbsorbRun, HomesInv
    PROVE  HomesInv'
<1> DEFINE A == absorbed
           Q == Append(A, x)
           n == Len(A)
<1>1. /\ n \in Nat /\ Q \in Seq(Logs) /\ Len(Q) = n + 1 /\ Q[n + 1] = x /\ DOMAIN Q = 1 .. n + 1
      /\ \A k \in 1 .. n : Q[k] = A[k] /\ k \in 1 .. n + 1
      /\ n + 1 \in 1 .. n + 1 /\ DOMAIN A = 1 .. n
  OBVIOUS
<1> HIDE DEF Q, n
<1>2. /\ \A k \in 1 .. n : ByBranch(Q)[k] = ByBranch(A)[k] /\ ByTree(Q)[k] = ByTree(A)[k]
      /\ ByBranch(Q)[n + 1] = OnRunBranch(read) /\ ByTree(Q)[n + 1] = InRunTree(read)
      /\ \A k \in 1 .. n : Mine(Q)[k] = Mine(A)[k] /\ Loose(Q)[k] = Loose(A)[k] /\ Beside(Q)[k] = Beside(A)[k]
      /\ Mine(Q)[n + 1] = MineIn(read) /\ Loose(Q)[n + 1] = LooseIn(read) /\ Beside(Q)[n + 1] = BesideIn(read)
  BY <1>1 DEF ByBranch, ByTree, Mine, Loose, Beside
<1>3. /\ Marks(A, ByBranch(A)) /\ Marks(A, ByTree(A)) /\ Marks(Q, ByBranch(Q)) /\ Marks(Q, ByTree(Q))
      /\ Marks(A, Mine(A)) /\ Marks(A, Loose(A)) /\ Marks(A, Beside(A))
      /\ Marks(Q, Mine(Q)) /\ Marks(Q, Loose(Q)) /\ Marks(Q, Beside(Q))
  BY <1>1, HomesMark
<1>4. /\ BilledAt(Q, ByBranch(Q)) = Claude!Plus(BilledAt(A, ByBranch(A)), Billed(read, OnRunBranch(read)))
      /\ BilledAt(Q, ByTree(Q)) = Claude!Plus(BilledAt(A, ByTree(A)), Billed(read, InRunTree(read)))
      /\ BilledAt(Q, Mine(Q)) = Claude!Plus(BilledAt(A, Mine(A)), Billed(read, MineIn(read)))
      /\ BilledAt(Q, Loose(Q)) = Claude!Plus(BilledAt(A, Loose(A)), Billed(read, LooseIn(read)))
      /\ BilledAt(Q, Beside(Q)) = Claude!Plus(BilledAt(A, Beside(A)), Billed(read, BesideIn(read)))
  BY <1>2, <1>3, BilledGrows DEF Q, n
<1>5. /\ run'.mine = Claude!Plus(run.mine, Corpus!Attributed)
      /\ run'.unattributed = run.unattributed + Corpus!Spillover
      /\ run'.detached = Claude!Plus(run.detached, Corpus!Booked)
  BY SameBooks DEF Corpus!AbsorbRun
<1>6. run'.detached.cache = run.detached.cache + Corpus!Booked.cache
      /\ run'.detached.io = run.detached.io + Corpus!Booked.io
  BY <1>5 DEF Claude!Plus
<1>7. absorbed' = Q /\ read \in Seq(EntrySet)
  BY DEF Q, SessionInv
<1>8. /\ BilledAt(A, ByBranch(A)) \in Claude!Bucket /\ BilledAt(A, ByTree(A)) \in Claude!Bucket
      /\ Billed(read, OnRunBranch(read)) \in Claude!Bucket /\ Billed(read, InRunTree(read)) \in Claude!Bucket
  <2>1. BilledAt(A, ByBranch(A)) \in Claude!Bucket /\ BilledAt(A, ByTree(A)) \in Claude!Bucket
    BY <1>3, SpotsAre
  <2>2. /\ OnRunBranch(read) \in SUBSET Claude!FirstCopies(read)
        /\ InRunTree(read) \in SUBSET Claude!FirstCopies(read)
    BY DEF OnRunBranch, InRunTree
  <2> QED
    BY <1>7, <2>1, <2>2, CopiesAreMessages DEF Billed
<1>10. run'.mine = Claude!Plus(BilledAt(Q, ByBranch(Q)), BilledAt(Q, ByTree(Q)))
  <2>1. run'.mine =
            Claude!Plus(Claude!Plus(BilledAt(A, ByBranch(A)), BilledAt(A, ByTree(A))),
                        Claude!Plus(Billed(read, OnRunBranch(read)), Billed(read, InRunTree(read))))
    BY <1>5, RunShares DEF HomesInv
  <2> QED
    BY <1>4, <1>8, <2>1, PlusTwoByTwo
<1>11. Corpus!Detached \notin RunBranches => run'.mine = BilledAt(Q, Mine(Q))
  BY <1>4, <1>5, RunShares DEF HomesInv
<1>12. /\ run'.detached.cache = BilledAt(Q, Loose(Q)).cache /\ run'.detached.io = BilledAt(Q, Loose(Q)).io
       /\ run'.unattributed = BilledAt(Q, Beside(Q)).cache
  BY <1>4, <1>5, <1>6, RunShares DEF HomesInv, Claude!Plus
<1> QED
  BY <1>7, <1>10, <1>11, <1>12 DEF HomesInv

-----------------------------------------------------------------------------
(* The calls that a session brings.                                        *)

\* The instance counts as this module does.
LEMMA SameCounts ==
    /\ \A S : Corpus!Cardinality(S) = Cardinality(S)
    /\ \A s : Corpus!ToSet(s) = ToSet(s)
    /\ \A s : Claude!ToSet(s) = ToSet(s)
BY DEF Corpus!Cardinality, Cardinality, Corpus!ToSet, Claude!ToSet, ToSet

LEMMA EntriesAreFinite == IsFiniteSet(EntrySet)
<1> DEFINE entry == [l \in Lines |-> l.entry]
<1>1. DOMAIN entry = Lines /\ {entry[l] : l \in Lines} = EntrySet
  BY DEF EntrySet
<1> HIDE DEF entry
<1> QED
  BY <1>1, LinesAssumption, ImageIsFinite

\* The names of calls are finitely many.
LEMMA NamesAreFinite == IsFiniteSet(Corpus!Names)
<1> DEFINE NamesOf(r) == {u.name : u \in ToSet(r.uses)}
           f == [r \in Claude!AllEntries |-> NamesOf(r)]
           I == {f[r] : r \in Claude!AllEntries}
<1>1. Claude!AllEntries \subseteq EntrySet /\ \A r \in Claude!AllEntries : Claude!IsEntry(r)
  BY DEF Claude!AllEntries, EntrySet
<1>2. ASSUME NEW r \in Claude!AllEntries PROVE IsFiniteSet(NamesOf(r))
  <2> DEFINE s == r.uses
             g == [k \in DOMAIN s |-> s[k].name]
  <2>1. s \in Seq(ToSet(s))
    BY <1>1, EntryShape, SameCounts DEF Claude!IsWellFormed
  <2>2. IsFiniteSet(DOMAIN s)
    <3>1. DOMAIN s = 1 .. Len(s) /\ Len(s) \in Nat
      BY <2>1
    <3> QED
      BY <3>1, FS_Interval
  <2>3. NamesOf(r) = {g[k] : k \in DOMAIN s}
    BY DEF ToSet
  <2>4. DOMAIN g = DOMAIN s
    OBVIOUS
  <2> HIDE DEF s, g
  <2> QED
    BY <2>2, <2>3, <2>4, ImageIsFinite
<1>3. Corpus!Names = UNION I
  BY SameBooks, SameCounts DEF Corpus!Names
<1>4. IsFiniteSet(I)
  <2>1. IsFiniteSet(Claude!AllEntries) /\ DOMAIN f = Claude!AllEntries
    BY <1>1, EntriesAreFinite, FS_Subset
  <2> HIDE DEF f
  <2> QED
    BY <2>1, ImageIsFinite
<1>5. \A s \in I : IsFiniteSet(s)
  BY <1>2
<1> HIDE DEF I
<1> QED
  BY <1>3, <1>4, <1>5, FS_UNION

\* The calls that the window admits are finitely many, each of a known name.
LEMMA AdmittedAre ==
    ASSUME SessionInv, parsing = "parsed"
    PROVE  /\ calls \in Seq(CallsOf(trackTurns, read)) /\ DOMAIN calls = 1 .. Len(calls) /\ Len(calls) \in Nat
           /\ \A i, j \in DOMAIN calls : calls[i] = calls[j] => i = j
           /\ Corpus!Admitted \subseteq DOMAIN calls /\ IsFiniteSet(Corpus!Admitted)
           /\ \A i \in Corpus!Admitted : calls[i].name \in Corpus!Names
           /\ Corpus!Failed \subseteq Corpus!Admitted /\ Corpus!Silent \subseteq Corpus!Admitted
<1>1. CallsAre(trackTurns, read, calls) /\ read \in Seq(EntrySet)
  BY DEF SessionInv
<1>2. /\ calls \in Seq(CallsOf(trackTurns, read)) /\ DOMAIN calls = 1 .. Len(calls) /\ Len(calls) \in Nat
      /\ \A i \in DOMAIN calls : calls[i] \in CallsOf(trackTurns, read)
      /\ \A i, j \in DOMAIN calls : calls[i] = calls[j] => i = j
  BY <1>1 DEF CallsAre
<1>3. Corpus!Admitted \subseteq DOMAIN calls
  BY DEF Corpus!Admitted
<1>4. IsFiniteSet(Corpus!Admitted)
  <2>1. IsFiniteSet(1 .. Len(calls))
    BY <1>2, FS_Interval
  <2> QED
    BY <1>2, <1>3, <2>1, FS_Subset
<1>5. ASSUME NEW i \in Corpus!Admitted PROVE calls[i].name \in Corpus!Names
  <2> DEFINE x == calls[i]
             u == x.at
             r == read[u[1]]
  <2>1. x \in CallsOf(trackTurns, read)
    BY <1>2, <1>3
  <2> HIDE DEF x
  <2>2. u \in UsesIn(trackTurns, read) /\ x = CallAt(trackTurns, read, u, x.outcome)
    BY <1>1, <2>1, CallShape
  <2> HIDE DEF u
  <2>3. x.name = r.uses[u[2]].name
    BY <2>2 DEF CallAt, UseAt
  <2>4. /\ Claude!IsEntry(r) /\ r \in EntrySet /\ u[2] \in OpensOf(trackTurns, r)
    BY <1>1, <2>2, UsesAre
  <2>5. r \in Claude!AllEntries /\ r.uses[u[2]] \in ToSet(r.uses)
    BY <2>4 DEF Claude!AllEntries, EntrySet, OpensOf, ToSet
  <2> HIDE DEF r
  <2> QED
    BY <2>3, <2>5, SameBooks, SameCounts DEF Corpus!Names, x
<1> QED
  BY <1>2, <1>3, <1>4, <1>5 DEF Corpus!Failed, Corpus!Silent

\* Any of the admitted calls, counted by name.
LEMMA CountedByName ==
    ASSUME SessionInv, parsing = "parsed", NEW S \in SUBSET Corpus!Admitted,
           NEW c, c = [n \in Corpus!Names |-> Cardinality(Corpus!Of(n) \cap S)]
    PROVE  c \in [Corpus!Names -> Nat] /\ SumOf(c) = Cardinality(S) /\ Cardinality(S) \in Nat
<1> DEFINE g == [i \in Corpus!Admitted |-> calls[i].name]
           N == Corpus!Names
<1>1. IsFiniteSet(S) /\ IsFiniteSet(N) /\ \A i \in S : g[i] \in N
  BY AdmittedAre, NamesAreFinite, FS_Subset
<1>2. \A n \in N : Corpus!Of(n) \cap S = {i \in S : g[i] = n}
  BY DEF Corpus!Of
<1> HIDE DEF g, N
<1>3. c = Counts(S, g, N)
  BY <1>2 DEF Counts, N
<1>4. Counts(S, g, N) \in [N -> Nat] /\ SumOf(Counts(S, g, N)) = Cardinality(S)
  BY <1>1, CountsAddUp
<1> QED
  BY <1>1, <1>3, <1>4, FS_CardinalityType DEF N

-----------------------------------------------------------------------------
(* The tables of agents and of tools.                                      *)

StatFields == {"calls", "errors", "noResult"}

Column(table, a, f) == [n \in Corpus!Names |-> table[<<a, n>>][f]]

TablesInv ==
    /\ DOMAIN agents = Agents /\ \A a \in Agents : agents[a].of \in Corpus!CallStats
    /\ tools \in [Agents \X Corpus!Names -> Corpus!CallStats]
    /\ \A a \in Agents : \A f \in StatFields : agents[a].of[f] = SumOf(Column(tools, a, f))

\* A session adds as much to an agent as to its tools.
LEMMA TablesAbsorb ==
    ASSUME TablesInv, SessionInv, parsing = "parsed", NEW a \in Agents, Corpus!AbsorbCalls(a)
    PROVE  TablesInv'
<1> DEFINE N == Corpus!Names
           all == Corpus!Admitted
           bad == Corpus!Failed
           none == Corpus!Silent
           byAll == [n \in N |-> Cardinality(Corpus!Of(n) \cap all)]
           byBad == [n \in N |-> Cardinality(Corpus!Of(n) \cap bad)]
           byNone == [n \in N |-> Cardinality(Corpus!Of(n) \cap none)]
<1>0. /\ DOMAIN agents = Agents /\ \A b \in Agents : agents[b].of \in Corpus!CallStats
      /\ tools \in [Agents \X N -> Corpus!CallStats]
      /\ \A b \in Agents : \A f \in StatFields : agents[b].of[f] = SumOf(Column(tools, b, f))
  BY DEF TablesInv
<1>1. all \subseteq all /\ bad \subseteq all /\ none \subseteq all /\ IsFiniteSet(N)
  BY AdmittedAre, NamesAreFinite
<1>2. /\ byAll \in [N -> Nat] /\ SumOf(byAll) = Cardinality(all) /\ Cardinality(all) \in Nat
      /\ byBad \in [N -> Nat] /\ SumOf(byBad) = Cardinality(bad) /\ Cardinality(bad) \in Nat
      /\ byNone \in [N -> Nat] /\ SumOf(byNone) = Cardinality(none) /\ Cardinality(none) \in Nat
  BY <1>1, CountedByName
<1>3. \A n \in N : Corpus!Of(n) \cap all = Corpus!Of(n)
  BY DEF Corpus!Of
<1>4. all \cap bad = bad /\ all \cap none = none
  BY <1>1
<1>5. /\ DOMAIN agents' = Agents
      /\ \A b \in Agents : b # a => agents'[b] = agents[b]
      /\ agents'[a].of.calls = agents[a].of.calls + Cardinality(all)
      /\ agents'[a].of.errors = agents[a].of.errors + Cardinality(bad)
      /\ agents'[a].of.noResult = agents[a].of.noResult + Cardinality(none)
      /\ agents'[a].of \in Corpus!CallStats
  <2>1. agents'[a].of = [calls |-> agents[a].of.calls + Cardinality(all),
                         errors |-> agents[a].of.errors + Cardinality(bad),
                         noResult |-> agents[a].of.noResult + Cardinality(none)]
    BY <1>0, <1>4, SameCounts DEF Corpus!AbsorbCalls, Corpus!Added
  <2>2. DOMAIN agents' = Agents /\ \A b \in Agents : b # a => agents'[b] = agents[b]
    BY <1>0 DEF Corpus!AbsorbCalls
  <2> HIDE DEF all, bad, none
  <2> QED
    BY <1>0, <1>2, <2>1, <2>2 DEF Corpus!CallStats
<1>6. ASSUME NEW n \in N
      PROVE  /\ \A b \in Agents : b # a => tools'[<<b, n>>] = tools[<<b, n>>]
             /\ tools'[<<a, n>>] = [calls |-> tools[<<a, n>>].calls + byAll[n],
                                    errors |-> tools[<<a, n>>].errors + byBad[n],
                                    noResult |-> tools[<<a, n>>].noResult + byNone[n]]
  <2>1. tools' = [k \in Agents \X N |-> IF k[1] = a THEN Corpus!ToolStats(a, k[2]) ELSE tools[k]]
    BY <1>0 DEF Corpus!AbsorbCalls
  <2>2. tools'[<<a, n>>] = Corpus!ToolStats(a, n) /\ \A b \in Agents : b # a => tools'[<<b, n>>] = tools[<<b, n>>]
    BY <2>1
  <2> QED
    BY <1>3, <2>2, SameCounts DEF Corpus!ToolStats, Corpus!Added
<1>7. \A b \in Agents, n \in N : tools[<<b, n>>] \in Corpus!CallStats
  BY <1>0
<1> HIDE DEF N, all, bad, none, byAll, byBad, byNone
<1>8. tools' \in [Agents \X N -> Corpus!CallStats]
  <2> DEFINE next == [k \in Agents \X N |-> IF k[1] = a THEN Corpus!ToolStats(a, k[2]) ELSE tools[k]]
  <2>0. tools' = next
    BY <1>0 DEF Corpus!AbsorbCalls
  <2>1. next = [k \in Agents \X N |-> next[k]]
    OBVIOUS
  <2> HIDE DEF next
  <2>2. ASSUME NEW n \in N PROVE tools'[<<a, n>>] \in Corpus!CallStats
    <3> DEFINE was == tools[<<a, n>>]
    <3>1. was \in Corpus!CallStats
      BY <1>7
    <3>2. byAll[n] \in Nat /\ byBad[n] \in Nat /\ byNone[n] \in Nat
      BY <1>2
    <3>3. tools'[<<a, n>>] = [calls |-> was.calls + byAll[n], errors |-> was.errors + byBad[n],
                             noResult |-> was.noResult + byNone[n]]
      BY <1>6
    <3> HIDE DEF was
    <3> QED
      BY <3>1, <3>2, <3>3 DEF Corpus!CallStats
  <2>3. \A b \in Agents, n \in N : tools'[<<b, n>>] \in Corpus!CallStats
    BY <1>6, <1>7, <2>2
  <2>4. \A k \in Agents \X N : tools'[k] \in Corpus!CallStats
    BY <2>3
  <2> QED
    BY <2>0, <2>1, <2>4
<1>9. ASSUME NEW b \in Agents, b # a, NEW f \in StatFields PROVE agents'[b].of[f] = SumOf(Column(tools', b, f))
  <2>1. Column(tools', b, f) = Column(tools, b, f)
    BY <1>6, <1>9 DEF Column, N
  <2> QED
    BY <1>0, <1>5, <1>9, <2>1
<1>10. ASSUME NEW f \in StatFields, NEW c \in [N -> Nat], \A n \in N : tools'[<<a, n>>][f] = tools[<<a, n>>][f] + c[n]
       PROVE  SumOf(Column(tools', a, f)) = agents[a].of[f] + SumOf(c)
  <2> DEFINE d == Column(tools, a, f)
  <2>1. d \in [N -> Nat] /\ SumOf(d) = agents[a].of[f]
    BY <1>0, <1>7 DEF Column, N, StatFields, Corpus!CallStats
  <2>2. Column(tools', a, f) = [n \in N |-> d[n] + c[n]]
    BY <1>10 DEF Column, N
  <2> HIDE DEF d
  <2>3. SumOf([n \in N |-> d[n] + c[n]]) = SumOf(d) + SumOf(c)
    BY <1>1, <1>10, <2>1, SumsAdd
  <2> QED
    BY <2>1, <2>2, <2>3
<1>11. /\ SumOf(Column(tools', a, "calls")) = agents[a].of.calls + SumOf(byAll)
       /\ SumOf(Column(tools', a, "errors")) = agents[a].of.errors + SumOf(byBad)
       /\ SumOf(Column(tools', a, "noResult")) = agents[a].of.noResult + SumOf(byNone)
  <2>0. ASSUME NEW n \in N
        PROVE  /\ tools'[<<a, n>>]["calls"] = tools[<<a, n>>]["calls"] + byAll[n]
               /\ tools'[<<a, n>>]["errors"] = tools[<<a, n>>]["errors"] + byBad[n]
               /\ tools'[<<a, n>>]["noResult"] = tools[<<a, n>>]["noResult"] + byNone[n]
    <3> DEFINE was == tools[<<a, n>>]
               is == tools'[<<a, n>>]
    <3>1. is = [calls |-> was.calls + byAll[n], errors |-> was.errors + byBad[n],
                noResult |-> was.noResult + byNone[n]]
      BY <1>6
    <3> HIDE DEF was, is
    <3>2. /\ is["calls"] = was["calls"] + byAll[n] /\ is["errors"] = was["errors"] + byBad[n]
          /\ is["noResult"] = was["noResult"] + byNone[n]
      BY <3>1
    <3> QED
      BY <3>2 DEF was, is
  <2>1. /\ \A n \in N : tools'[<<a, n>>]["calls"] = tools[<<a, n>>]["calls"] + byAll[n]
        /\ \A n \in N : tools'[<<a, n>>]["errors"] = tools[<<a, n>>]["errors"] + byBad[n]
        /\ \A n \in N : tools'[<<a, n>>]["noResult"] = tools[<<a, n>>]["noResult"] + byNone[n]
    BY <2>0
  <2>2. "calls" \in StatFields /\ "errors" \in StatFields /\ "noResult" \in StatFields
    BY DEF StatFields
  <2>3. SumOf(Column(tools', a, "calls")) = agents[a].of["calls"] + SumOf(byAll)
    BY <1>2, <1>10, <2>1, <2>2
  <2>4. SumOf(Column(tools', a, "errors")) = agents[a].of["errors"] + SumOf(byBad)
    BY <1>2, <1>10, <2>1, <2>2
  <2>5. SumOf(Column(tools', a, "noResult")) = agents[a].of["noResult"] + SumOf(byNone)
    BY <1>2, <1>10, <2>1, <2>2
  <2> QED
    BY <2>3, <2>4, <2>5
<1>12. \A f \in StatFields : agents'[a].of[f] = SumOf(Column(tools', a, f))
  BY <1>2, <1>5, <1>11 DEF StatFields
<1>13. \A b \in Agents : agents'[b].of \in Corpus!CallStats
  BY <1>0, <1>5
<1> QED
  BY <1>5, <1>8, <1>9, <1>12, <1>13 DEF TablesInv, N

LEMMA TablesStart ==
    ASSUME Corpus!CorpusInit
    PROVE  TablesInv
<1> DEFINE N == Corpus!Names
<1>1. /\ DOMAIN agents = Agents /\ \A a \in Agents : agents[a].of = Corpus!NoCalls
      /\ tools = [k \in Agents \X N |-> Corpus!NoCalls]
  BY DEF Corpus!CorpusInit
<1>2. /\ Corpus!NoCalls \in Corpus!CallStats
      /\ \A f \in StatFields : Corpus!NoCalls[f] = 0
  BY DEF Corpus!NoCalls, Corpus!CallStats, StatFields
<1>3. ASSUME NEW a \in Agents, NEW f \in StatFields PROVE SumOf(Column(tools, a, f)) = 0
  <2> DEFINE c == Column(tools, a, f)
  <2>1. c \in [N -> Nat] /\ \A n \in N : c[n] = 0
    BY <1>1, <1>2 DEF Column
  <2>2. IsFiniteSet(N)
    BY NamesAreFinite
  <2> HIDE DEF c, N
  <2> QED
    BY <2>1, <2>2, SumOfZeros DEF c
<1> QED
  BY <1>1, <1>2, <1>3 DEF TablesInv

LEMMA TablesAreOne ==
    ASSUME TablesInv
    PROVE  Corpus!TablesAgree
<1> SUFFICES ASSUME NEW a \in Agents, NEW f \in DOMAIN Corpus!NoCalls
             PROVE  agents[a].of[f] = Corpus!MapThenSumSet(LAMBDA n : tools[<<a, n>>][f], Corpus!Names)
  BY DEF Corpus!TablesAgree
<1>1. f \in StatFields
  BY DEF StatFields, Corpus!NoCalls
<1>2. \A n \in Corpus!Names : tools[<<a, n>>][f] \in Nat
  BY <1>1 DEF TablesInv, Corpus!CallStats, StatFields
<1> DEFINE N == Corpus!Names
           c == Column(tools, a, f)
           F(h) == h = [s \in SUBSET N |->
                           IF s = {} THEN 0
                           ELSE tools[<<a, Pick(s)>>][f] + h[s \ {Pick(s)}]]
           iter == CHOOSE h : F(h)
<1>3. Corpus!MapThenSumSet(LAMBDA n : tools[<<a, n>>][f], N) = iter[N]
  BY DEF Corpus!MapThenSumSet, Corpus!MapThenFoldSet, Pick
<1>4. c \in [N -> Nat] /\ IsFiniteSet(N) /\ \A n \in N : c[n] = tools[<<a, n>>][f]
  BY <1>2, NamesAreFinite DEF Column
<1>5. ASSUME NEW h PROVE Iterates(N, c, h) <=> F(h)
  <2>1. \A s \in SUBSET N : s # {} => Pick(s) \in N
    BY DEF Pick
  <2>2. \A s \in SUBSET N : s # {} => c[Pick(s)] = tools[<<a, Pick(s)>>][f]
    BY <1>4, <2>1
  <2>3. [s \in SUBSET N |-> IF s = {} THEN 0 ELSE c[Pick(s)] + h[s \ {Pick(s)}]]
        = [s \in SUBSET N |-> IF s = {} THEN 0 ELSE tools[<<a, Pick(s)>>][f] + h[s \ {Pick(s)}]]
    BY <2>2
  <2> HIDE DEF c
  <2> QED
    BY <2>3 DEF Iterates
<1> HIDE DEF c, F, N
<1>6. \E h : F(h)
  BY <1>4, <1>5, IteratedSum
<1>7. F(iter)
  BY <1>6
<1> HIDE DEF iter
<1>8. Iterates(N, c, iter)
  BY <1>5, <1>7
<1>9. iter[N] = SumOf(c)
  BY <1>4, <1>8, IteratedSum
<1> QED
  BY <1>1, <1>3, <1>9 DEF TablesInv, c, N

-----------------------------------------------------------------------------
(* Churn.                                                                  *)

IsBad(c)    == c.id \in InWindow /\ c.outcome \in {"error", "no_result"}
BadCalls(s) == {c \in ToSet(s) : IsBad(c)}
Spoiled(A)  == {k \in DOMAIN A : BadCalls(A[k].calls) # {}}
BadOf(A)    == [k \in Spoiled(A) |-> Cardinality(BadCalls(A[k].calls))]

BadHere == Corpus!Failed \cup Corpus!Silent

RetriesHere == [n \in Corpus!Names |-> Corpus!Retries(n)]

ChurnInv ==
    /\ churn \in [Corpus!Names -> Nat]
    /\ SumOf(churn) + Cardinality(Spoiled(absorbed)) <= SumOf(BadOf(absorbed))

\* The sessions with a bad call, and how many each has.
LEMMA SpoiledAre ==
    ASSUME NEW A \in Seq(Logs)
    PROVE  /\ IsFiniteSet(Spoiled(A)) /\ Cardinality(Spoiled(A)) \in Nat
           /\ BadOf(A) \in [Spoiled(A) -> Nat] /\ DOMAIN BadOf(A) = Spoiled(A)
           /\ SumOf(BadOf(A)) \in Nat
<1>1. DOMAIN A = 1 .. Len(A) /\ Len(A) \in Nat /\ \A k \in DOMAIN A : A[k].calls \in Seq(AllCalls)
  <2>1. DOMAIN A = 1 .. Len(A) /\ Len(A) \in Nat /\ \A k \in DOMAIN A : A[k] \in Logs
    OBVIOUS
  <2> QED
    BY <2>1 DEF Logs
<1>2. IsFiniteSet(Spoiled(A)) /\ Cardinality(Spoiled(A)) \in Nat
  <2>1. IsFiniteSet(1 .. Len(A)) /\ Spoiled(A) \subseteq 1 .. Len(A)
    BY <1>1, FS_Interval DEF Spoiled
  <2> QED
    BY <2>1, FS_Subset, FS_CardinalityType
<1>3. ASSUME NEW k \in Spoiled(A) PROVE Cardinality(BadCalls(A[k].calls)) \in Nat
  <2> DEFINE s == A[k].calls
             I == {s[i] : i \in DOMAIN s}
  <2>1. DOMAIN s = 1 .. Len(s) /\ Len(s) \in Nat
    <3>1. s \in Seq(AllCalls)
      BY <1>1 DEF Spoiled
    <3> HIDE DEF s
    <3> QED
      BY <3>1
  <2> HIDE DEF s
  <2>2. IsFiniteSet(DOMAIN s)
    BY <2>1, FS_Interval
  <2>3. IsFiniteSet(I)
    BY <2>2, ImageIsFinite
  <2>4. BadCalls(s) \subseteq I
    BY DEF BadCalls, ToSet
  <2> HIDE DEF I
  <2> QED
    BY <2>3, <2>4, FS_Subset, FS_CardinalityType DEF s
<1>4. BadOf(A) \in [Spoiled(A) -> Nat] /\ DOMAIN BadOf(A) = Spoiled(A)
  BY <1>3 DEF BadOf
<1> DEFINE S == Spoiled(A)
           b == BadOf(A)
<1>5. b \in [S -> Nat] /\ IsFiniteSet(S)
  BY <1>2, <1>4
<1> HIDE DEF S, b
<1>6. SumOf(b) \in Nat
  BY <1>5, SumIs
<1> QED
  BY <1>2, <1>4, <1>6 DEF b

\* The bad calls of the session are at as many places.
LEMMA BadAre ==
    ASSUME SessionInv, parsing = "parsed"
    PROVE  /\ BadHere \subseteq DOMAIN calls /\ BadHere \subseteq Corpus!Admitted
           /\ IsFiniteSet(BadHere) /\ Cardinality(BadHere) \in Nat
           /\ Cardinality(BadCalls(calls)) = Cardinality(BadHere)
           /\ BadCalls(calls) = {} <=> BadHere = {}
<1> DEFINE B == BadHere
           C == BadCalls(calls)
           f == [i \in B |-> calls[i]]
<1>1. B \subseteq Corpus!Admitted /\ B \subseteq DOMAIN calls /\ IsFiniteSet(B)
  <2>1. BadHere \subseteq Corpus!Admitted
    BY AdmittedAre DEF BadHere
  <2> QED
    BY <2>1, AdmittedAre, FS_Subset
<1>2. \A i, j \in B : calls[i] = calls[j] => i = j
  BY <1>1, AdmittedAre
<1>3. \A i \in DOMAIN calls : IsBad(calls[i]) <=> i \in B
  BY DEF IsBad, BadHere, Corpus!Failed, Corpus!Silent, Corpus!Admitted
<1>4. \A i \in B : calls[i] \in C
  BY <1>1, <1>3 DEF BadCalls, ToSet
<1>5. \A c \in C : \E i \in B : calls[i] = c
  BY <1>3 DEF BadCalls, ToSet
<1> HIDE DEF B, C
<1>6. f \in Bijection(B, C)
  BY <1>2, <1>4, <1>5 DEF Bijection, Injection, Surjection, IsInjective
<1>7. Cardinality(C) = Cardinality(B)
  BY <1>1, <1>6, FS_Bijection DEF ExistsBijection
<1> QED
  BY <1>1, <1>4, <1>5, <1>7, FS_CardinalityType DEF B, C

\* The first bad call of a session is no retry.
LEMMA RetriesAre ==
    ASSUME SessionInv, parsing = "parsed"
    PROVE  /\ RetriesHere \in [Corpus!Names -> Nat] /\ SumOf(RetriesHere) \in Nat
           /\ BadHere = {} => SumOf(RetriesHere) = 0
           /\ BadHere # {} => SumOf(RetriesHere) + 1 <= Cardinality(BadHere)
<1> DEFINE N == Corpus!Names
           B == BadHere
           g == [i \in Corpus!Admitted |-> calls[i].name]
           R == {i \in B : \E j \in B : g[j] = g[i] /\ Corpus!RightBefore(j, i)}
           n == Len(calls)
<1>1. /\ B \subseteq Corpus!Admitted /\ B \subseteq 1 .. n /\ n \in Nat /\ IsFiniteSet(B)
      /\ Cardinality(B) \in Nat /\ IsFiniteSet(N)
  BY AdmittedAre, BadAre, NamesAreFinite
<1>2. R \subseteq B /\ IsFiniteSet(R) /\ Cardinality(R) \in Nat
  BY <1>1, FS_Subset, FS_CardinalityType
<1>3. \A i \in R : g[i] \in N
  BY <1>1, <1>2, AdmittedAre
<1>4. RetriesHere = Counts(R, g, N)
  <2>1. ASSUME NEW m \in N PROVE Corpus!Retries(m) = Cardinality({i \in R : g[i] = m})
    <3>1. \A i \in B : g[i] = calls[i].name
      BY <1>1
    <3>2. \A i : i \in Corpus!Bad(m) <=> i \in B /\ g[i] = m
      BY <1>1, <3>1 DEF Corpus!Bad, Corpus!Of, BadHere
    <3>3. {i \in Corpus!Bad(m) : \E j \in Corpus!Bad(m) : Corpus!RightBefore(j, i)} = {i \in R : g[i] = m}
      BY <3>2
    <3> QED
      BY <3>3, SameCounts DEF Corpus!Retries
  <2> QED
    BY <2>1 DEF RetriesHere, Counts
<1> HIDE DEF g, R, N, B
<1>5. Counts(R, g, N) \in [N -> Nat] /\ SumOf(Counts(R, g, N)) = Cardinality(R)
  BY <1>1, <1>2, <1>3, CountsAddUp
<1>6. ASSUME B # {} PROVE Cardinality(R) + 1 <= Cardinality(B)
  <2> DEFINE W == {i \in 0 .. n : \E b \in B : b <= i}
  <2>1. W \in SUBSET (0 .. n) /\ W # {}
    <3>1. n \in W
      <4>1. PICK b \in B : TRUE
        BY <1>6
      <4>2. b <= n /\ n \in 0 .. n
        BY <1>1
      <4> QED
        BY <4>2
    <3> QED
      BY <3>1
  <2>2. PICK i \in W : i - 1 \notin W
    <3> HIDE DEF W, n
    <3> QED
      BY <1>1, <2>1, FirstFailure
  <2>3. i \in B /\ \A b \in B : i <= b
    BY <1>1, <2>2
  <2>4. R \subseteq B \ {i}
    BY <1>1, <2>3 DEF R, Corpus!RightBefore
  <2>5. IsFiniteSet(B \ {i}) /\ Cardinality(B \ {i}) = Cardinality(B) - 1
    BY <1>1, <2>3, FS_RemoveElement
  <2>6. Cardinality(R) <= Cardinality(B \ {i})
    BY <2>4, <2>5, FS_Subset
  <2> QED
    BY <1>1, <1>2, <2>5, <2>6
<1>7. B = {} => Cardinality(R) = 0
  BY <1>2, FS_EmptySet
<1> QED
  BY <1>2, <1>4, <1>5, <1>6, <1>7 DEF N, B

\* A session adds its retries to churn.
LEMMA ChurnAbsorbs ==
    ASSUME SessionInv, parsing = "parsed", NEW a \in Agents, Corpus!AbsorbCalls(a),
           absorbed \in Seq(Logs), NEW x \in Logs, x.calls = calls, absorbed' = Append(absorbed, x),
           ChurnInv
    PROVE  ChurnInv'
<1> DEFINE A == absorbed
           Q == Append(A, x)
           n == Len(A)
           m == n + 1
           N == Corpus!Names
           S == Spoiled(A)
           b == BadOf(A)
           e == BadOf(Q)
<1>1. /\ n \in Nat /\ Q \in Seq(Logs) /\ Q[m] = x /\ DOMAIN Q = 1 .. m
      /\ \A k \in 1 .. n : Q[k] = A[k]
      /\ DOMAIN A = 1 .. n /\ m \notin 1 .. n /\ 1 .. m = (1 .. n) \cup {m}
  OBVIOUS
<1>2. /\ churn' \in [N -> Nat] /\ SumOf(churn') = SumOf(churn) + SumOf(RetriesHere)
      /\ SumOf(churn) \in Nat
  <2> DEFINE r == RetriesHere
  <2>1. churn' = [k \in N |-> churn[k] + r[k]]
    BY DEF Corpus!AbsorbCalls, RetriesHere
  <2>2. churn \in [N -> Nat] /\ r \in [N -> Nat] /\ IsFiniteSet(N)
    BY RetriesAre, NamesAreFinite DEF ChurnInv
  <2> HIDE DEF r, N
  <2>3. SumOf([k \in N |-> churn[k] + r[k]]) = SumOf(churn) + SumOf(r)
    BY <2>2, SumsAdd
  <2>4. SumOf(churn) \in Nat
    BY <2>2, SumIs
  <2>5. \A k \in N : churn[k] + r[k] \in Nat
    BY <2>2
  <2> QED
    BY <2>1, <2>3, <2>4, <2>5 DEF r
<1> HIDE DEF Q, m
<1>3. /\ IsFiniteSet(S) /\ Cardinality(S) \in Nat /\ SumOf(b) \in Nat /\ b \in [S -> Nat]
      /\ IsFiniteSet(Spoiled(Q)) /\ e \in [Spoiled(Q) -> Nat] /\ DOMAIN e = Spoiled(Q)
  BY <1>1, SpoiledAre
<1>4. SumOf(churn) + Cardinality(S) <= SumOf(b)
  BY DEF ChurnInv
<1>5. \A k \in S : e[k] = b[k] /\ k \in Spoiled(Q)
  BY <1>1 DEF Spoiled, BadOf
<1>6. CASE BadCalls(calls) = {}
  <2>1. Spoiled(Q) = S
    BY <1>1, <1>6 DEF Spoiled
  <2>2. e = b
    BY <1>1, <2>1 DEF BadOf, Spoiled
  <2>3. SumOf(RetriesHere) = 0
    BY <1>6, BadAre, RetriesAre
  <2> HIDE DEF S, b, e
  <2>4. SumOf(churn') + Cardinality(Spoiled(Q)) <= SumOf(e)
    BY <1>2, <1>4, <2>1, <2>2, <2>3
  <2> QED
    BY <1>2, <2>4 DEF ChurnInv, Q, e
<1>7. CASE BadCalls(calls) # {}
  <2>1. Spoiled(Q) = S \cup {m} /\ m \notin S
    BY <1>1, <1>7 DEF Spoiled
  <2>2. Cardinality(Spoiled(Q)) = Cardinality(S) + 1
    BY <1>3, <2>1, FS_AddElement
  <2>3. e[m] = Cardinality(BadHere) /\ Cardinality(BadHere) \in Nat
    <3>1. e[m] = Cardinality(BadCalls(calls))
      BY <1>1, <2>1 DEF BadOf
    <3> QED
      BY <3>1, BadAre
  <2>4. SumOf(RetriesHere) + 1 <= Cardinality(BadHere) /\ SumOf(RetriesHere) \in Nat
    BY <1>7, BadAre, RetriesAre
  <2>5. Without(e, m) = b
    <3>1. Without(e, m) = [k \in S |-> e[k]]
      BY <1>3, <2>1 DEF Without
    <3>2. b = [k \in S |-> b[k]]
      BY <1>3
    <3> HIDE DEF e, b, S
    <3> QED
      BY <1>5, <3>1, <3>2
  <2> DEFINE D == Spoiled(Q)
  <2>6. IsFiniteSet(D) /\ e \in [D -> Nat] /\ m \in D
    BY <1>3, <2>1
  <2> HIDE DEF D, e, b, S
  <2>7. SumOf(e) = e[m] + SumOf(b)
    BY <2>5, <2>6, SumTakesOut
  <2>8. SumOf(churn') + Cardinality(Spoiled(Q)) <= SumOf(e)
    BY <1>2, <1>3, <1>4, <2>2, <2>3, <2>4, <2>7
  <2> QED
    BY <1>2, <2>8 DEF ChurnInv, Q, e
<1> QED
  BY <1>6, <1>7

\* The report of churn in these terms.
LEMMA ChurnIsSum ==
    ASSUME ChurnInv
    PROVE  Corpus!MapThenSumSet(LAMBDA n : churn[n], Corpus!Names) = SumOf(churn)
<1> DEFINE N == Corpus!Names
           F(h) == h = [s \in SUBSET N |->
                           IF s = {} THEN 0 ELSE churn[Pick(s)] + h[s \ {Pick(s)}]]
           iter == CHOOSE h : F(h)
<1>1. Corpus!MapThenSumSet(LAMBDA n : churn[n], N) = iter[N]
  BY DEF Corpus!MapThenSumSet, Corpus!MapThenFoldSet, Pick
<1>2. churn \in [N -> Nat] /\ IsFiniteSet(N)
  BY NamesAreFinite DEF ChurnInv
<1>3. ASSUME NEW h PROVE Iterates(N, churn, h) <=> F(h)
  BY DEF Iterates
<1> HIDE DEF F, N
<1>4. \E h : F(h)
  BY <1>2, <1>3, IteratedSum
<1>5. F(iter)
  BY <1>4
<1> HIDE DEF iter
<1>6. Iterates(N, churn, iter)
  BY <1>3, <1>5
<1>7. iter[N] = SumOf(churn)
  BY <1>2, <1>6, IteratedSum
<1> QED
  BY <1>1, <1>7 DEF N

\* The bad calls that are told apart by the report are those of the invariant.
ReportedBad(k) == {c \in Corpus!ToSet(absorbed[k].calls) :
                     c.id \in InWindow /\ c.outcome \in {"error", "no_result"}}

LEMMA ReportedAre ==
    ASSUME absorbed \in Seq(Logs)
    PROVE  /\ \A k : ReportedBad(k) = BadCalls(absorbed[k].calls)
           /\ {k \in DOMAIN absorbed : ReportedBad(k) # {}} = Spoiled(absorbed)
           /\ \A k \in Spoiled(absorbed) :
                 Corpus!Cardinality(ReportedBad(k)) = BadOf(absorbed)[k]
<1>1. \A k : ReportedBad(k) = BadCalls(absorbed[k].calls)
  BY SameCounts DEF ReportedBad, BadCalls, IsBad
<1> QED
  BY <1>1, SameCounts DEF Spoiled, BadOf

LEMMA BadIsSum ==
    ASSUME absorbed \in Seq(Logs)
    PROVE  Corpus!MapThenSumSet(LAMBDA k : Corpus!Cardinality(ReportedBad(k)), Spoiled(absorbed))
               = SumOf(BadOf(absorbed))
<1> DEFINE S == Spoiled(absorbed)
           b == BadOf(absorbed)
           F(h) == h = [s \in SUBSET S |->
                           IF s = {} THEN 0
                           ELSE Corpus!Cardinality(ReportedBad(Pick(s))) + h[s \ {Pick(s)}]]
           iter == CHOOSE h : F(h)
<1>1. Corpus!MapThenSumSet(LAMBDA k : Corpus!Cardinality(ReportedBad(k)), S) = iter[S]
  BY DEF Corpus!MapThenSumSet, Corpus!MapThenFoldSet, Pick
<1>2. b \in [S -> Nat] /\ IsFiniteSet(S) /\ \A k \in S : b[k] = Corpus!Cardinality(ReportedBad(k))
  BY SpoiledAre, ReportedAre
<1> HIDE DEF S, b
<1>3. ASSUME NEW h PROVE Iterates(S, b, h) <=> F(h)
  <2>1. \A s \in SUBSET S : s # {} => Pick(s) \in S
    BY DEF Pick
  <2>2. \A s \in SUBSET S : s # {} => b[Pick(s)] = Corpus!Cardinality(ReportedBad(Pick(s)))
    BY <1>2, <2>1
  <2>3. [s \in SUBSET S |-> IF s = {} THEN 0 ELSE b[Pick(s)] + h[s \ {Pick(s)}]]
        = [s \in SUBSET S |-> IF s = {} THEN 0
                              ELSE Corpus!Cardinality(ReportedBad(Pick(s))) + h[s \ {Pick(s)}]]
    BY <2>2
  <2> QED
    BY <2>3 DEF Iterates
<1> HIDE DEF F
<1>4. \E h : F(h)
  BY <1>2, <1>3, IteratedSum
<1>5. F(iter)
  BY <1>4
<1> HIDE DEF iter
<1>6. Iterates(S, b, iter)
  BY <1>3, <1>5
<1>7. iter[S] = SumOf(b)
  BY <1>2, <1>6, IteratedSum
<1> QED
  BY <1>1, <1>7 DEF S, b

LEMMA ChurnIsInside ==
    ASSUME absorbed \in Seq(Logs), ChurnInv
    PROVE  Corpus!ChurnStaysInItsSession
<1>1. SumOf(churn) + Cardinality(Spoiled(absorbed)) <= SumOf(BadOf(absorbed))
  BY DEF ChurnInv
<1>2. /\ SumOf(churn) = Corpus!MapThenSumSet(LAMBDA n : churn[n], Corpus!Names)
      /\ Cardinality(Spoiled(absorbed)) = Corpus!Cardinality({k \in DOMAIN absorbed : ReportedBad(k) # {}})
      /\ SumOf(BadOf(absorbed)) =
             Corpus!MapThenSumSet(LAMBDA k : Corpus!Cardinality(ReportedBad(k)),
                                  {k \in DOMAIN absorbed : ReportedBad(k) # {}})
  BY ChurnIsSum, BadIsSum, ReportedAre, SameCounts
<1> QED
  BY <1>1, <1>2 DEF Corpus!ChurnStaysInItsSession, ReportedBad

-----------------------------------------------------------------------------
(* The invariant of the corpus, step by step.                              *)

CorpusInv ==
    /\ SessionInv
    /\ absorbed \in Seq(Logs)
    /\ HomesInv
    /\ TablesInv
    /\ ChurnInv

LEMMA CorpusStarts ==
    ASSUME Corpus!CorpusInit
    PROVE  CorpusInv
<1>1. /\ absorbed = <<>> /\ run = Corpus!NoRun /\ churn = [n \in Corpus!Names |-> 0]
      /\ absorbed \in Seq(Logs) /\ DOMAIN absorbed = {}
  BY DEF Corpus!CorpusInit
<1>2. HomesInv
  <2>1. ASSUME NEW H, DOMAIN H = {} PROVE BilledAt(absorbed, H) = Claude!Empty
    <3>1. Spots(H) = {}
      BY <2>1 DEF Spots
    <3> DEFINE b == SpentAt(absorbed, H)
    <3>2. b = Part(b, {})
      BY <3>1 DEF SpentAt, Part
    <3> HIDE DEF b
    <3>3. BucketSum(Part(b, {})) = Claude!Empty
      BY NoBuckets
    <3> QED
      BY <3>2, <3>3 DEF BilledAt, b
  <2>2. /\ DOMAIN ByBranch(absorbed) = {} /\ DOMAIN ByTree(absorbed) = {}
        /\ DOMAIN Mine(absorbed) = {} /\ DOMAIN Loose(absorbed) = {} /\ DOMAIN Beside(absorbed) = {}
    BY <1>1 DEF ByBranch, ByTree, Mine, Loose, Beside
  <2>3. /\ BilledAt(absorbed, ByBranch(absorbed)) = Claude!Empty
        /\ BilledAt(absorbed, ByTree(absorbed)) = Claude!Empty
        /\ BilledAt(absorbed, Mine(absorbed)) = Claude!Empty
        /\ BilledAt(absorbed, Loose(absorbed)) = Claude!Empty
        /\ BilledAt(absorbed, Beside(absorbed)) = Claude!Empty
    BY <2>1, <2>2
  <2>4. run.mine = Claude!Empty /\ run.detached = Claude!Empty /\ run.unattributed = 0
    BY <1>1, SameBooks DEF Corpus!NoRun
  <2> QED
    BY <2>3, <2>4 DEF HomesInv, Claude!Empty, Claude!Plus
<1>3. ChurnInv
  <2> DEFINE N == Corpus!Names
             b == BadOf(absorbed)
  <2>1. churn \in [N -> Nat] /\ \A n \in N : churn[n] = 0
    BY <1>1
  <2>2. Spoiled(absorbed) = {}
    BY <1>1 DEF Spoiled
  <2>3. b \in [{} -> Nat] /\ DOMAIN b = {}
    BY <2>2 DEF BadOf
  <2>4. IsFiniteSet(N)
    BY NamesAreFinite
  <2> HIDE DEF N, b
  <2>5. SumOf(churn) = 0
    BY <2>1, <2>4, SumOfZeros
  <2>6. SumOf(b) = 0
    BY <2>3, SumOfNothing
  <2>7. Cardinality(Spoiled(absorbed)) = 0
    BY <2>2, FS_EmptySet
  <2> QED
    BY <2>1, <2>5, <2>6, <2>7 DEF ChurnInv, N, b
<1> QED
  BY <1>1, <1>2, <1>3, FirstSession, TablesStart DEF CorpusInv

\* What the totals have is left alone by a step that leaves them alone.
LEMMA TotalsStay ==
    ASSUME CorpusInv, UNCHANGED <<trackTurns, Corpus!corpus>>
    PROVE  (absorbed \in Seq(Logs) /\ HomesInv /\ TablesInv /\ ChurnInv)'
<1>1. UNCHANGED <<trackTurns, absorbed, skips, agents, tools, churn, run, branchesSeen, treesSeen>>
  BY DEF Corpus!corpus
<1>2. absorbed' \in Seq(Logs)'
  BY <1>1 DEF CorpusInv, Logs, AllCalls
<1>3. HomesInv'
  BY <1>1 DEF CorpusInv, HomesInv
<1>4. TablesInv'
  BY <1>1 DEF CorpusInv, TablesInv
<1>5. ChurnInv'
  BY <1>1 DEF CorpusInv, ChurnInv
<1> QED
  BY <1>2, <1>3, <1>4, <1>5

LEMMA SessionStays ==
    ASSUME SessionInv, UNCHANGED Corpus!session
    PROVE  SessionInv'
<1>1. UNCHANGED <<trackTurns, read, parsing, pending, calls, charged, total, byBranch, byCwd>>
  BY DEF Corpus!session, Corpus!tally
<1> QED
  BY <1>1 DEF SessionInv

\* A step of the corpus keeps its invariant.
LEMMA CorpusSteps ==
    ASSUME CorpusInv, [Corpus!CorpusNext]_(Corpus!allVars)
    PROVE  CorpusInv'
<1>1. CASE Corpus!ParseStep
  <2>1. SessionInv'
    BY <1>1, SessionParses DEF Corpus!ParseStep, CorpusInv
  <2>2. UNCHANGED <<trackTurns, Corpus!corpus>>
    <3>1. UNCHANGED trackTurns
      BY <1>1 DEF Corpus!ParseStep, Corpus!Next, Corpus!Consume, Corpus!ParseEntry, Corpus!TurnKeyMissing,
                  Corpus!SkipMalformed, Corpus!EndOfFile
    <3> QED
      BY <1>1, <3>1 DEF Corpus!ParseStep
  <2> QED
    BY <2>1, <2>2, TotalsStay DEF CorpusInv
<1>2. ASSUME NEW a \in Agents, Corpus!Absorb(a) PROVE CorpusInv'
  <2> DEFINE x == [read |-> read, calls |-> calls]
  <2>1. /\ parsing = "parsed" /\ absorbed' = Append(absorbed, x) /\ Corpus!AbsorbRun
        /\ Corpus!AbsorbCalls(a) /\ Corpus!Fresh
    BY <1>2 DEF Corpus!Absorb
  <2>2. UNCHANGED trackTurns
    BY <2>1 DEF Corpus!Fresh
  <2>3. SessionInv /\ absorbed \in Seq(Logs) /\ HomesInv /\ TablesInv /\ ChurnInv
    BY DEF CorpusInv
  <2>4. x \in Logs /\ x.read = read /\ x.calls = calls
    <3>1. read \in Seq(EntrySet) /\ calls \in Seq(CallsOf(trackTurns, read))
      BY <2>1, <2>3, AdmittedAre DEF SessionInv
    <3>2. CallsOf(trackTurns, read) \subseteq AllCalls
      BY <3>1 DEF AllCalls
    <3>3. calls \in Seq(AllCalls)
      BY <3>1, <3>2
    <3> QED
      BY <3>1, <3>3 DEF Logs
  <2>5. absorbed' \in Seq(Logs)'
    BY <2>1, <2>2, <2>3, <2>4 DEF Logs, AllCalls
  <2> HIDE DEF x
  <2>6. HomesInv'
    BY <2>1, <2>3, <2>4, HomesAbsorb
  <2>7. TablesInv'
    BY <2>1, <2>3, TablesAbsorb
  <2>8. ChurnInv'
    BY <2>1, <2>3, <2>4, ChurnAbsorbs
  <2>9. SessionInv'
    BY <2>1, <2>3, SessionStarts
  <2> QED
    BY <2>5, <2>6, <2>7, <2>8, <2>9 DEF CorpusInv
<1>3. CASE Corpus!SkipSession
  <2>1. SessionInv'
    BY <1>3, SessionStarts DEF Corpus!SkipSession, CorpusInv
  <2>2. /\ UNCHANGED <<trackTurns, absorbed, agents, tools, churn, run>>
    BY <1>3 DEF Corpus!SkipSession, Corpus!Fresh
  <2>3. absorbed' \in Seq(Logs)'
    BY <2>2 DEF CorpusInv, Logs, AllCalls
  <2>4. HomesInv' /\ TablesInv' /\ ChurnInv'
    BY <2>2 DEF CorpusInv, HomesInv, TablesInv, ChurnInv
  <2> QED
    BY <2>1, <2>3, <2>4 DEF CorpusInv
<1>4. CASE UNCHANGED Corpus!allVars
  <2>1. UNCHANGED Corpus!session /\ UNCHANGED Corpus!corpus
    BY <1>4 DEF Corpus!allVars
  <2>2. UNCHANGED trackTurns
    BY <2>1 DEF Corpus!session
  <2> QED
    BY <2>1, <2>2, SessionStays, TotalsStay DEF CorpusInv
<1> QED
  BY <1>1, <1>2, <1>3, <1>4 DEF Corpus!CorpusNext

\* Every token is booked to the home that the run report names, and only
\* there unless the manifest lists HEAD, which no hypothesis excludes; and
\* the tables of agents and of tools agree, whatever the sessions and the
\* loads that fail (Reducer.absorb, _absorb_run, _absorb_calls).
THEOREM BooksAreBalanced == Corpus!CorpusSpec => []Corpus!BooksBalance
<1>1. Corpus!CorpusInit => CorpusInv
  BY CorpusStarts
<1>2. CorpusInv /\ [Corpus!CorpusNext]_(Corpus!allVars) => CorpusInv'
  BY CorpusSteps
<1>3. CorpusInv => Corpus!BooksBalance
  BY HomesAreOne, TablesAreOne DEF CorpusInv, Corpus!BooksBalance
<1> QED
  BY <1>1, <1>2, <1>3, PTL DEF Corpus!CorpusSpec

\* A retry has a bad call before it in its own session: churn never crosses
\* a session boundary (_absorb_calls).
THEOREM ChurnIsLocal == Corpus!CorpusSpec => []Corpus!ChurnStaysInItsSession
<1>1. Corpus!CorpusInit => CorpusInv
  BY CorpusStarts
<1>2. CorpusInv /\ [Corpus!CorpusNext]_(Corpus!allVars) => CorpusInv'
  BY CorpusSteps
<1>3. CorpusInv => Corpus!ChurnStaysInItsSession
  BY ChurnIsInside DEF CorpusInv
<1> QED
  BY <1>1, <1>2, <1>3, PTL DEF Corpus!CorpusSpec

===============================================================================
