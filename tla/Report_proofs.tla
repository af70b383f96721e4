----------------------------- MODULE Report_proofs -----------------------------
(***************************************************************************)
(* Proofs about Discovery and Report for any sessions, agents, command     *)
(* lines, archives and page size.                                          *)
(*                                                                         *)
(* Of a discovery: type correctness; that it answers from one source; and, *)
(* over an archive that holds still, that the sample is the newest part of *)
(* the listing and the census describes it.  Of the report on it: that     *)
(* every session is accounted for, and each gap, spread, zero row and      *)
(* empty answer is blamed on its cause.                                    *)
(***************************************************************************)
EXTENDS Report, FiniteSetTheorems, FunctionTheorems, WellFoundedInduction, TLAPS

-----------------------------------------------------------------------------
(* Ranks                                                                   *)

\* A set of sessions has a newest one: no finite set ascends for ever.
LEMMA NewestExists ==
    ASSUME NEW S \in SUBSET Sessions, S # {}
    PROVE  \E x \in S : \A y \in S : x >= y
<1> DEFINE Ascending == {X \in SUBSET Sessions : X # {} /\ \A x \in X : \E y \in X : y > x}
<1>1. IsFiniteSet(Sessions) /\ Sessions \subseteq Nat
  BY SessionsAssumption
<1>2. IsWellFoundedOn(StrictSubsetOrdering(Sessions), FiniteSubsetsOf(Sessions))
  BY FS_StrictSubsetOrderingWellFounded
<1>3. FiniteSubsetsOf(Sessions) = SUBSET Sessions
  BY <1>1, FS_FiniteSubsetsOfFinite
<1>4. Ascending = {}
  <2> SUFFICES ASSUME Ascending # {} PROVE FALSE
    OBVIOUS
  <2>1. IsWellFoundedOn(StrictSubsetOrdering(Sessions), SUBSET Sessions)
    BY <1>2, <1>3
  <2>2. PICK X \in Ascending :
            \A Y \in Ascending : ~(<<Y, X>> \in StrictSubsetOrdering(Sessions))
    <3>1. Ascending \subseteq SUBSET Sessions
      OBVIOUS
    <3> HIDE DEF Ascending
    <3> QED
      BY <2>1, <3>1, WFMin
  <2>3. PICK x \in X : TRUE
    OBVIOUS
  <2> DEFINE Y == {y \in X : y > x}
  <2>4. Y \in SUBSET Sessions /\ Y # {} /\ Y \subseteq X /\ x \notin Y
    <3>1. x \in Nat /\ X \in SUBSET Sessions
      BY <1>1, <2>3
    <3>2. \E y \in X : y > x
      BY <2>3
    <3>3. ~(x > x)
      BY <3>1
    <3> QED
      BY <3>1, <3>2, <3>3
  <2>5. \A y \in Y : \E z \in Y : z > y
    <3> SUFFICES ASSUME NEW y \in Y PROVE \E z \in Y : z > y
      OBVIOUS
    <3>1. PICK z \in X : z > y
      OBVIOUS
    <3>2. x \in Nat /\ y \in Nat /\ z \in Nat /\ y > x
      BY <1>1, <2>3, <3>1
    <3>3. z > x
      BY <3>1, <3>2
    <3> QED
      BY <3>1, <3>3
  <2>6. <<Y, X>> \in StrictSubsetOrdering(Sessions)
    BY <2>3, <2>4 DEF StrictSubsetOrdering
  <2> QED
    BY <2>2, <2>4, <2>5, <2>6
<1>5. PICK x \in S : ~\E y \in S : y > x
  BY <1>4
<1> QED
  BY <1>1, <1>5

LEMMA NewestOf ==
    ASSUME NEW S \in SUBSET Sessions, S # {}
    PROVE  Max(S) \in S /\ \A y \in S : Max(S) >= y
BY NewestExists DEF Max

\* And an oldest one.
LEMMA OldestOf ==
    ASSUME NEW S \in SUBSET Sessions, S # {}
    PROVE  Min(S) \in S /\ \A y \in S : Min(S) <= y
<1>1. S \subseteq Nat
  BY SessionsAssumption
<1> DEFINE Below == OpToRel(<, Nat)
<1>2. IsWellFoundedOn(Below, Nat)
  BY NatLessThanWellFounded
<1>3. \A x, y \in Nat : <<y, x>> \in Below <=> y < x
  BY DEF OpToRel
<1> HIDE DEF Below
<1>4. PICK x \in S : \A y \in S : ~(<<y, x>> \in Below)
  BY <1>1, <1>2, WFMin
<1>5. \A y \in S : x <= y
  <2> SUFFICES ASSUME NEW y \in S PROVE x <= y
    OBVIOUS
  <2>1. x \in Nat /\ y \in Nat
    BY <1>1, <1>4
  <2>2. ~(y < x)
    BY <1>3, <1>4, <2>1
  <2> QED
    BY <2>1, <2>2
<1> QED
  BY <1>5 DEF Min

LEMMA TopIsAbove == Top \in Nat /\ Top > 0 /\ \A s \in Sessions : s \in Nat /\ 0 < s /\ s < Top
<1> DEFINE m == Max(Sessions)
<1>1. m \in Sessions /\ \A s \in Sessions : m >= s
  BY NewestOf, SessionsAssumption
<1>2. Top = m + 1
  BY DEF Top
<1> HIDE DEF m
<1>3. \A s \in Sessions : s \in Nat /\ 0 < s
  BY SessionsAssumption
<1> QED
  BY <1>1, <1>2, <1>3

LEMMA PageLimitIsPositive ==
    ASSUME args \in CommandLines
    PROVE  PageLimit \in Nat \ {0}
BY CommandLineAssumption, BoundAssumption DEF PageLimit

\* A page of n rows, newest first, is all that is left or the part of it down to
\* the oldest row served.
LEMMA PageOf ==
    ASSUME NEW R \in SUBSET Sessions, NEW n \in Nat \ {0}, NEW page,
           page = {s \in R : Cardinality({t \in R : t > s}) < n}
    PROVE  /\ Cardinality(R) \in Nat
           /\ Cardinality(R) <= n => page = R
           /\ Cardinality(R) > n => /\ page \subseteq R /\ Min(page) \in R
                                   /\ page = {s \in R : Min(page) <= s}
<1>1. R \subseteq Nat /\ IsFiniteSet(Sessions)
  BY SessionsAssumption
<1>3. ASSUME NEW T \in SUBSET Sessions PROVE IsFiniteSet(T) /\ Cardinality(T) \in Nat
  BY <1>1, <1>3, FS_Subset, FS_CardinalityType
<1>4. ASSUME NEW T \in SUBSET Sessions, NEW U \in SUBSET T PROVE Cardinality(U) <= Cardinality(T)
  BY <1>3, <1>4, FS_Subset
<1> DEFINE Newer(s) == {t \in R : t > s}
<1>5. \A s : Newer(s) \in SUBSET Sessions /\ Cardinality(Newer(s)) \in Nat
  BY <1>3
<1>6. ASSUME Cardinality(R) > n
      PROVE  page \subseteq R /\ Min(page) \in R /\ page = {s \in R : Min(page) <= s}
  <2>1. page # {}
    <3>1. R # {}
      BY <1>6, FS_EmptySet
    <3>2. PICK s \in R : \A t \in R : s >= t
      BY <3>1, NewestExists
    <3>3. \A t \in R : ~(t > s)
      BY <1>1, <3>2
    <3>4. Newer(s) = {}
      BY <3>3
    <3>5. Cardinality(Newer(s)) < n
      BY <3>4, FS_EmptySet
    <3> QED
      BY <3>2, <3>5
  <2> DEFINE m == Min(page)
  <2>2. m \in page /\ \A s \in page : m <= s
    <3>1. page \in SUBSET Sessions
      OBVIOUS
    <3> QED
      BY <2>1, <3>1, OldestOf
  <2>4. m \in R /\ Cardinality(Newer(m)) < n
    BY <2>2
  <2> HIDE DEF m
  <2>6. ASSUME NEW s \in R, m <= s PROVE s \in page
    <3>0. s \in Nat /\ m \in Nat /\ R \subseteq Nat
      BY <1>1, <2>4, <2>6
    <3>1. \A t \in R : t > s => t > m
      BY <2>6, <3>0
    <3>2. Cardinality(Newer(s)) <= Cardinality(Newer(m))
      BY <1>4, <1>5, <3>1
    <3>3. Cardinality(Newer(s)) < n
      BY <1>5, <2>4, <3>2
    <3> QED
      BY <3>3
  <2>7. page = {s \in R : m <= s}
    BY <2>2, <2>6
  <2> QED
    BY <2>4, <2>7 DEF m
<1>7. ASSUME Cardinality(R) <= n PROVE page = R
  <2>1. ASSUME NEW s \in R PROVE s \in page
    <3>0. s \in Nat
      BY <1>1, <2>1
    <3>1. s \notin Newer(s) /\ Newer(s) \subseteq R \ {s}
      BY <3>0
    <3>2. Cardinality(R \ {s}) = Cardinality(R) - 1
      BY <1>3, <2>1, FS_RemoveElement
    <3>3. Cardinality(Newer(s)) <= Cardinality(R \ {s})
      BY <1>4, <3>1
    <3>4. Cardinality(R) \in Nat /\ Cardinality(Newer(s)) \in Nat
      BY <1>3, <1>5
    <3>5. Cardinality(Newer(s)) < n
      BY <1>7, <3>2, <3>3, <3>4
    <3> QED
      BY <2>1, <3>5
  <2> QED
    BY <2>1
<1> QED
  BY <1>3, <1>6, <1>7

\* A page is the part of its listing between the next cursor and this one.
LEMMA PageIs ==
    ASSUME args \in CommandLines, cursor \in 0 .. Top, NEW S \in SUBSET Sessions
    PROVE  /\ NextCursor(S) \in 0 .. Top
           /\ NextCursor(S) <= cursor
           /\ Page(S) = {s \in S : NextCursor(S) <= s /\ s < cursor}
<1>1. S \subseteq Nat /\ Sessions \subseteq Nat /\ cursor \in Nat /\ Top \in Nat
  BY SessionsAssumption, TopIsAbove
<1>2. Rest(S) \subseteq S /\ Rest(S) \in SUBSET Sessions
  BY DEF Rest
<1>3. Page(S) = {s \in Rest(S) : Cardinality({t \in Rest(S) : t > s}) < PageLimit}
  BY DEF Page
<1>4. PageLimit \in Nat \ {0}
  BY PageLimitIsPositive
<1> DEFINE m == Min(Page(S))
<1>5. /\ Cardinality(Rest(S)) \in Nat
      /\ Cardinality(Rest(S)) <= PageLimit => Page(S) = Rest(S)
      /\ Cardinality(Rest(S)) > PageLimit =>
             m \in Rest(S) /\ Page(S) = {s \in Rest(S) : m <= s}
  BY <1>2, <1>3, <1>4, PageOf
<1> HIDE DEF m
<1>6. CASE Cardinality(Rest(S)) > PageLimit
  <2>1. NextCursor(S) = m
    BY <1>6 DEF NextCursor, m
  <2>2. m \in Sessions /\ m < cursor /\ m \in Nat
    BY <1>1, <1>2, <1>5, <1>6 DEF Rest
  <2>3. Page(S) = {s \in S : m <= s /\ s < cursor}
    BY <1>5, <1>6 DEF Rest
  <2> QED
    BY <1>1, <2>1, <2>2, <2>3
<1>7. CASE ~(Cardinality(Rest(S)) > PageLimit)
  <2>1. NextCursor(S) = 0 /\ Page(S) = Rest(S)
    BY <1>4, <1>5, <1>7 DEF NextCursor
  <2>2. 0 \in 0 .. Top /\ 0 <= cursor /\ \A s \in S : 0 <= s
    BY <1>1
  <2>3. Page(S) = {s \in S : 0 <= s /\ s < cursor}
    BY <2>1, <2>2 DEF Rest
  <2> QED
    BY <2>1, <2>2, <2>3
<1> QED
  BY <1>6, <1>7

-----------------------------------------------------------------------------
(* Types                                                                   *)

\* TypeOK, and the shape of a census.
TypeInv ==
    /\ TypeOK
    /\ census = [totals |-> census.totals, total |-> census.total, why |-> census.why]
    /\ DOMAIN census.totals \subseteq Agents \cup {RawAgent}

\* A set of sessions is counted by a natural number.
LEMMA SessionsAreCounted ==
    ASSUME NEW S \in SUBSET Sessions
    PROVE  IsFiniteSet(S) /\ Cardinality(S) \in Nat
BY SessionsAssumption, FS_Subset, FS_CardinalityType

\* A listing of an archive of sessions, and its next page, are sessions.
LEMMA ListingsAreSessions ==
    ASSUME TypeInv, NEW b \in BOOLEAN
    PROVE  /\ Listing(b) \in SUBSET Sessions
           /\ Page(Listing(b)) \in SUBSET Sessions
           /\ NextCursor(Listing(b)) \in 0 .. Top
<1>1. Listing(b) \in SUBSET Sessions
  BY DEF TypeInv, TypeOK, Listing
<1>2. args \in CommandLines /\ cursor \in 0 .. Top
  BY DEF TypeInv, TypeOK
<1> QED
  BY <1>1, <1>2, PageIs

LEMMA NextRowIsServed ==
    ASSUME TypeInv, buf # {}
    PROVE  /\ NextRow \in buf /\ NextRow \in Sessions
           /\ Ref(NextRow) \in RefRecord
<1>1. buf \in SUBSET Sessions
  BY DEF TypeInv, TypeOK
<1>2. NextRow \in buf
  BY <1>1, NewestOf, OldestOf DEF NextRow
<1> HIDE DEF NextRow
<1>3. AgentOf[NextRow] \in Agents /\ attempt \in {"raw", "agentsview"}
  BY <1>1, <1>2, SessionsAssumption DEF TypeInv, TypeOK
<1> DEFINE sub == IF attempt = "raw" THEN NextRow \in Children ELSE NextRow \notin parents
<1>4. sub \in BOOLEAN
  <2>1. CASE attempt = "raw"
    BY <2>1
  <2>2. CASE attempt # "raw"
    BY <2>2
  <2> QED
    BY <2>1, <2>2
<1>5. Ref(NextRow) = [id |-> NextRow, src |-> attempt,
                      agent |-> IF attempt = "raw" THEN RawAgent ELSE AgentOf[NextRow],
                      sub |-> sub]
  BY DEF Ref
<1> HIDE DEF sub
<1> QED
  BY <1>1, <1>2, <1>3, <1>4, <1>5 DEF RefRecord

\* Every reason a census may be unavailable for leaves it well formed.
LEMMA UnavailableIsTyped ==
    ASSUME NEW reason
    PROVE  LET c == Unavailable(reason)
           IN  /\ c = [totals |-> c.totals, total |-> c.total, why |-> c.why]
               /\ DOMAIN c.totals = {}
               /\ c.total = 0 /\ c.total \in Nat
               /\ c.why = reason
BY DEF Unavailable

LEMMA TypeInit == Init => TypeInv
<1> SUFFICES ASSUME Init PROVE TypeInv
  OBVIOUS
<1>1. args \in CommandLines /\ args.source \in {"raw", "agentsview", "auto"}
  BY CommandLineAssumption DEF Init
<1>2. archive \subseteq Sessions /\ files \subseteq Sessions
  BY EnvironmentAssumption DEF Init
<1>3. pc \in {"health", "probe", "rawCensus"}
  BY <1>1 DEF Init, FirstCall
<1>4. cursor \in 0 .. Top
  BY TopIsAbove DEF Init
<1>5. churn \in 0 .. MaxChurn
  BY BoundAssumption DEF Init
<1>6. /\ census = [totals |-> census.totals, total |-> census.total, why |-> census.why]
      /\ DOMAIN census.totals = {} /\ census.total \in Nat
  BY UnavailableIsTyped DEF Init
<1>7. attempt \in {"raw", "agentsview"} /\ refs \in Seq(RefRecord)
  BY DEF Init
<1>8. /\ skips \in Seq({"missing_source", "export_failed", "export_timeout"})
      /\ fallback \in {"none", "probeFailed", "midListing"}
      /\ truncated \in {"no", "yes", "unknown"}
  BY DEF Init
<1>9. /\ rootUp \in BOOLEAN /\ fellBack \in BOOLEAN /\ walked \in BOOLEAN
      /\ parents \subseteq Sessions /\ uncounted \subseteq Agents /\ buf \subseteq Sessions
  BY DEF Init
<1>10. TypeOK
  BY <1>1, <1>2, <1>3, <1>4, <1>5, <1>6, <1>7, <1>8, <1>9 DEF TypeOK
<1> QED
  BY <1>6, <1>10 DEF TypeInv

\* The three handlers that several calls share.
LEMMA TypeVanished ==
    ASSUME TypeInv, SourceVanished, UNCHANGED <<args, env>>, walked' \in BOOLEAN
    PROVE  TypeInv'
<1> USE DEF TypeInv, TypeOK
<1>0. skips \in Seq({"missing_source", "export_failed", "export_timeout"})
  BY DEF TypeInv, TypeOK
<1>1. skips' \in Seq({"missing_source", "export_failed", "export_timeout"})
  <2>1. skips' = skips \/ skips' = Append(skips, "missing_source")
    BY DEF SourceVanished, VanishedSkips
  <2> HIDE DEF TypeInv, TypeOK
  <2> QED
    BY <1>0, <2>1
<1>2. refs' \in Seq(RefRecord)
  BY DEF SourceVanished, SurvivingRefs
<1>3. /\ census' = [totals |-> census'.totals, total |-> census'.total, why |-> census'.why]
      /\ DOMAIN census'.totals \subseteq Agents \cup {RawAgent}
      /\ census'.total \in Nat
      /\ \A a \in DOMAIN census'.totals : census'.totals[a] \in Nat
  <2>1. CASE census' = census
    BY <2>1
  <2>2. CASE census' = Unavailable("vanished")
    BY <2>2, UnavailableIsTyped
  <2> QED
    BY <2>1, <2>2 DEF SourceVanished
<1> QED
  BY <1>1, <1>2, <1>3 DEF SourceVanished, env

LEMMA TypeBroke ==
    ASSUME TypeInv, NEW reply, DaemonBroke(reply), UNCHANGED <<args, env>>
    PROVE  TypeInv'
<1> USE DEF TypeInv, TypeOK
<1>0. skips \in Seq({"missing_source", "export_failed", "export_timeout"})
  BY DEF TypeInv, TypeOK
<1>1. skips' \in Seq({"missing_source", "export_failed", "export_timeout"})
  <2>1. \/ skips' = skips
        \/ skips' = Append(skips, "export_timeout")
        \/ skips' = Append(skips, "export_failed")
    BY DEF DaemonBroke, SkipReason
  <2> HIDE DEF TypeInv, TypeOK
  <2> QED
    BY <1>0, <2>1
<1>2. refs' \in Seq(RefRecord) /\ cursor' \in 0 .. Top
  BY TopIsAbove DEF DaemonBroke, SurvivingRefs
<1> QED
  BY <1>1, <1>2 DEF DaemonBroke, DegradedReason, env

LEMMA TypePeekEnds ==
    ASSUME TypeInv, NEW answer \in {"yes", "unknown"}, PeekEnds(answer),
           UNCHANGED <<args, env, walked>>
    PROVE  TypeInv'
BY DEF TypeInv, TypeOK, PeekEnds, env

LEMMA TypeStep == TypeInv /\ [Next]_vars => TypeInv'
<1> SUFFICES ASSUME TypeInv, [Next]_vars PROVE TypeInv'
  OBVIOUS
<1>1. ASSUME NEW reply \in Replies, HealthProbe(reply) PROVE TypeInv'
  BY <1>1 DEF TypeInv, TypeOK, HealthProbe, env
<1>2. ASSUME NEW reply \in Replies, ParentPage(reply) PROVE TypeInv'
  <2>1. CASE reply = "ok"
    <3>1. /\ Page(Listing(FALSE)) \in SUBSET Sessions
          /\ NextCursor(Listing(FALSE)) \in 0 .. Top
      BY ListingsAreSessions
    <3> DEFINE page == Page(Listing(FALSE))
               next == NextCursor(Listing(FALSE))
    <3>4. /\ parents' = parents \cup page
          /\ uncounted' = uncounted \cup {AgentOf[s] : s \in page}
          /\ cursor' = IF next = 0 THEN Top ELSE next
      BY <1>2, <2>1 DEF ParentPage
    <3>5. page \in SUBSET Sessions /\ next \in 0 .. Top
      BY <3>1
    <3> HIDE DEF page, next
    <3>6. \A s \in page : AgentOf[s] \in Agents
      BY <3>5, SessionsAssumption
    <3>2. parents' \subseteq Sessions /\ uncounted' \subseteq Agents
      BY <3>4, <3>5, <3>6 DEF TypeInv, TypeOK
    <3>3. cursor' \in 0 .. Top
      BY <3>4, <3>5, TopIsAbove
    <3> QED
      BY <1>2, <2>1, <3>2, <3>3 DEF ParentPage, TypeInv, TypeOK, env
  <2>2. CASE reply # "ok"
    BY <1>2, <2>2, TypeVanished, TypeBroke DEF ParentPage, TypeInv, TypeOK
  <2> QED
    BY <2>1, <2>2
<1>3. ASSUME NEW reply \in Replies, Census(reply) PROVE TypeInv'
  <2>0. /\ Population \in SUBSET Sessions
        /\ \A a : TotalOf(a) \in Nat
    <3>1. Population \in SUBSET Sessions
      BY DEF TypeInv, TypeOK, Population, Listing
    <3> QED
      BY <3>1, SessionsAreCounted DEF TotalOf
  <2>1. CASE reply = "ok" /\ uncounted # {}
    <3>1. PICK a \in uncounted :
              /\ census' = [census EXCEPT !.totals = Tallied(@, a)]
              /\ uncounted' = uncounted \ {a}
              /\ pc' = pc
      BY <1>3, <2>1 DEF Census
    <3>2. a \in Agents
      BY <3>1 DEF TypeInv, TypeOK
    <3> DEFINE totals == Tallied(census.totals, a)
    <3>3. DOMAIN totals = DOMAIN census.totals \cup {a}
      BY DEF Tallied
    <3>4. \A b \in DOMAIN totals : totals[b] \in Nat
      BY <2>0 DEF Tallied, TypeInv, TypeOK
    <3> HIDE DEF totals
    <3>5. census' = [totals |-> totals, total |-> census.total, why |-> census.why]
      BY <3>1 DEF totals, TypeInv
    <3>6. /\ census' = [totals |-> census'.totals, total |-> census'.total,
                        why |-> census'.why]
          /\ census'.totals = totals /\ census'.total = census.total
      BY <3>5
    <3> QED
      BY <1>3, <2>1, <3>1, <3>2, <3>3, <3>4, <3>6 DEF Census, TypeInv, TypeOK, env
  <2>2. CASE reply = "ok" /\ uncounted = {}
    <3>1. census' = [census EXCEPT !.total = Cardinality(Population), !.why = "counted"]
      BY <1>3, <2>2 DEF Census
    <3>2. Cardinality(Population) \in Nat
      BY <2>0, SessionsAreCounted
    <3>3. census' = [totals |-> census.totals, total |-> Cardinality(Population),
                     why |-> "counted"]
      BY <3>1 DEF TypeInv
    <3>4. /\ census' = [totals |-> census'.totals, total |-> census'.total,
                        why |-> census'.why]
          /\ census'.totals = census.totals /\ census'.total \in Nat
      BY <3>2, <3>3
    <3> QED
      BY <1>3, <2>2, <3>4 DEF Census, TypeInv, TypeOK, env
  <2>3. CASE reply = "gone"
    BY <1>3, <2>3, TypeVanished DEF Census, TypeInv, TypeOK
  <2>4. CASE reply \notin {"ok", "gone"}
    <3>1. census' = Unavailable(reply)
      BY <1>3, <2>4 DEF Census
    <3>2. /\ census' = [totals |-> census'.totals, total |-> census'.total,
                        why |-> census'.why]
          /\ DOMAIN census'.totals = {} /\ census'.total \in Nat
      BY <3>1, UnavailableIsTyped
    <3> QED
      BY <1>3, <2>4, <3>2 DEF Census, TypeInv, TypeOK, env
  <2> QED
    BY <2>1, <2>2, <2>3, <2>4
<1>4. ASSUME NEW reply \in Replies, FetchPage(reply) PROVE TypeInv'
  <2>1. CASE reply = "ok"
    <3>1. /\ Page(Listing(TRUE)) \in SUBSET Sessions
          /\ NextCursor(Listing(TRUE)) \in 0 .. Top
      BY ListingsAreSessions
    <3> QED
      BY <1>4, <2>1, <3>1 DEF FetchPage, TypeInv, TypeOK, env
  <2>2. CASE reply # "ok"
    <3>1. /\ UNCHANGED <<args, env, walked>>
          /\ PeekEnds("unknown") \/ SourceVanished \/ DaemonBroke(reply)
      BY <1>4, <2>2 DEF FetchPage
    <3> QED
      BY <3>1, TypePeekEnds, TypeVanished, TypeBroke DEF TypeInv, TypeOK
  <2> QED
    BY <2>1, <2>2
<1>5. CASE RawCensus
  <2>1. /\ census' = [totals |-> census'.totals, total |-> census'.total,
                      why |-> census'.why]
        /\ DOMAIN census'.totals \subseteq {RawAgent} /\ census'.total \in Nat
        /\ \A a \in DOMAIN census'.totals : census'.totals[a] \in Nat
    <3> DEFINE n == Cardinality({f \in files : ~args.exclude \/ f \notin Children})
    <3>1. n \in Nat
      BY SessionsAreCounted DEF TypeInv, TypeOK
    <3> HIDE DEF n
    <3>2. CASE rootUp
      BY <1>5, <3>1, <3>2 DEF RawCensus, n
    <3>3. CASE ~rootUp
      <4>1. census' = Unavailable("missingRoot")
        BY <1>5, <3>3 DEF RawCensus
      <4> QED
        BY <4>1, UnavailableIsTyped
    <3> QED
      BY <3>2, <3>3
  <2> QED
    BY <1>5, <2>1 DEF RawCensus, TypeInv, TypeOK, env
<1>6. ASSUME NEW f \in Sessions, RawCensusRaced(f) PROVE TypeInv'
  <2>1. /\ census' = [totals |-> census'.totals, total |-> census'.total,
                      why |-> census'.why]
        /\ DOMAIN census'.totals = {} /\ census'.total \in Nat
    BY <1>6, UnavailableIsTyped DEF RawCensusRaced
  <2>2. churn' \in 0 .. MaxChurn
    BY <1>6, BoundAssumption DEF RawCensusRaced, TypeInv, TypeOK
  <2> QED
    BY <1>6, <2>1, <2>2 DEF RawCensusRaced, TypeInv, TypeOK
<1>7. CASE WalkRoot
  <2>1. CASE rootUp
    BY <1>7, <2>1, TopIsAbove DEF WalkRoot, TypeInv, TypeOK, env
  <2>2. CASE ~rootUp
    BY <1>7, <2>2, TypeVanished DEF WalkRoot, TypeInv, TypeOK
  <2> QED
    BY <2>1, <2>2
<1>8. CASE TakeRef
  <2>1. CASE StatFails
    BY <1>8, <2>1, TypeVanished DEF TakeRef, TypeInv, TypeOK
  <2>2. CASE ~StatFails
    <3>1. refs' \in Seq(RefRecord)
      BY <1>8, <2>2, NextRowIsServed DEF TakeRef, TypeInv, TypeOK
    <3> QED
      BY <1>8, <2>2, <3>1 DEF TakeRef, TypeInv, TypeOK, env
  <2> QED
    BY <2>1, <2>2
<1>9. CASE PeekRef
  <2>1. \/ PeekEnds("unknown") /\ UNCHANGED <<args, env, walked>>
        \/ PeekEnds("yes") /\ UNCHANGED <<args, env, walked>>
        \/ /\ buf' = buf \ {NextRow}
           /\ UNCHANGED <<args, env, pc, attempt, fellBack, parents, uncounted,
                          cursor, refs, census, skips, fallback, truncated, walked>>
    BY <1>9 DEF PeekRef
  <2> QED
    BY <2>1, TypePeekEnds DEF TypeInv, TypeOK, env
<1>10. CASE Exhausted
  BY <1>10 DEF Exhausted, TypeInv, TypeOK, env
<1>11. ASSUME NEW s \in Sessions,
              SessionAppears(s) \/ SessionPruned(s) \/ TranscriptDeleted(s)
                  \/ TranscriptAppears(s) \/ RootRemoved
       PROVE  TypeInv'
  <2>1. /\ archive' \subseteq Sessions /\ files' \subseteq Sessions
        /\ rootUp' \in BOOLEAN /\ Churning
    BY <1>11 DEF SessionAppears, SessionPruned, TranscriptDeleted, TranscriptAppears,
                 RootRemoved, TypeInv, TypeOK
  <2>2. churn' \in 0 .. MaxChurn
    BY <2>1, BoundAssumption DEF Churning, TypeInv, TypeOK
  <2> QED
    BY <2>1, <2>2 DEF Churning, run, TypeInv, TypeOK
<1>12. CASE UNCHANGED vars
  BY <1>12 DEF vars, env, run, TypeInv, TypeOK
<1>13. \E s \in Sessions : TRUE
  BY SessionsAssumption
<1> QED
  BY <1>1, <1>2, <1>3, <1>4, <1>5, <1>6, <1>7, <1>8, <1>9, <1>10, <1>11, <1>12, <1>13
     DEF Next, RunStep, DaemonStep, EnvStep, Returned

-----------------------------------------------------------------------------
(* One source                                                              *)

\* The listing being drained is the one the report names; only the health probe
\* and a broken daemon change it, and neither keeps a ref.
SourceInv ==
    /\ pc = "health" => args.source = "auto" /\ fallback = "none" /\ refs = <<>>
    /\ pc = "rawCensus" => attempt = "raw"
    /\ args.source # "auto" => attempt = args.source
    /\ args.source = "auto" => (attempt = "raw" <=> fallback # "none")
    /\ \A i \in DOMAIN refs : refs[i].src = attempt
    /\ walked => RawRootScanned

LEMMA SourceInit == Init => SourceInv
<1> SUFFICES ASSUME Init PROVE SourceInv
  OBVIOUS
<1>1. args.source \in {"raw", "agentsview", "auto"}
  BY CommandLineAssumption DEF Init
<1>2. refs = <<>> /\ DOMAIN refs = {}
  BY DEF Init
<1> QED
  BY <1>1, <1>2 DEF Init, SourceInv, FirstCall

LEMMA SourceVanishes ==
    ASSUME SourceInv, SourceVanished, UNCHANGED args, walked' => RawRootScanned
    PROVE  SourceInv'
<1>1. refs' = <<>> /\ DOMAIN refs' = {}
  BY DEF SourceVanished, SurvivingRefs
<1>2. pc' \in {"resolved", "fatal"} /\ UNCHANGED <<args, attempt, fallback>>
  BY DEF SourceVanished
<1> QED
  BY <1>1, <1>2 DEF SourceInv, RawRootScanned

LEMMA SourceBreaks ==
    ASSUME SourceInv, NEW reply, DaemonBroke(reply), UNCHANGED args
    PROVE  SourceInv'
<1>1. refs' = <<>> /\ DOMAIN refs' = {}
  BY DEF DaemonBroke, SurvivingRefs
<1>2. CASE args.source = "auto"
  BY <1>1, <1>2 DEF DaemonBroke, DegradedReason, SourceInv, RawRootScanned
<1>3. CASE args.source # "auto"
  BY <1>1, <1>3 DEF DaemonBroke, SourceInv, RawRootScanned
<1> QED
  BY <1>2, <1>3

\* A raw listing is read only when the report will name its root.
LEMMA RawIsNamed ==
    ASSUME TypeInv, SourceInv, attempt = "raw"
    PROVE  RawRootScanned
BY DEF TypeInv, TypeOK, SourceInv, RawRootScanned

\* A step that keeps the refs and the source.
LEMMA SourceKept ==
    ASSUME SourceInv, UNCHANGED <<args, attempt, fallback, refs>>,
           walked' => RawRootScanned,
           pc' \notin {"health", "rawCensus"} \/ pc' = pc
    PROVE  SourceInv'
BY DEF SourceInv, RawRootScanned

LEMMA SourceStep == TypeInv /\ SourceInv /\ [Next]_vars => SourceInv'
<1> SUFFICES ASSUME TypeInv, SourceInv, [Next]_vars PROVE SourceInv'
  OBVIOUS
<1>0. walked => RawRootScanned
  BY DEF SourceInv
<1>1. ASSUME NEW reply \in Replies, HealthProbe(reply) PROVE SourceInv'
  BY <1>1 DEF HealthProbe, SourceInv, RawRootScanned
<1>2. ASSUME NEW reply \in Replies, ParentPage(reply) PROVE SourceInv'
  <2>1. CASE reply = "ok"
    BY <1>0, <1>2, <2>1, SourceKept DEF ParentPage
  <2>2. CASE reply # "ok"
    BY <1>0, <1>2, <2>2, SourceVanishes, SourceBreaks DEF ParentPage
  <2> QED
    BY <2>1, <2>2
<1>3. ASSUME NEW reply \in Replies, Census(reply) PROVE SourceInv'
  <2>1. CASE reply = "gone"
    BY <1>0, <1>3, <2>1, SourceVanishes DEF Census
  <2>2. CASE reply # "gone"
    <3>1. /\ UNCHANGED <<args, attempt, fallback, refs, walked>>
          /\ pc' \in {pc, "list"}
      BY <1>3, <2>2 DEF Census
    <3> QED
      BY <1>0, <3>1, SourceKept
  <2> QED
    BY <2>1, <2>2
<1>4. ASSUME NEW reply \in Replies, FetchPage(reply) PROVE SourceInv'
  <2>1. \/ UNCHANGED <<args, attempt, fallback, refs, walked>> /\ pc' \in {pc, "resolved"}
        \/ SourceVanished /\ UNCHANGED <<args, walked>>
        \/ DaemonBroke(reply) /\ UNCHANGED <<args, walked>>
    BY <1>4 DEF FetchPage, PeekEnds
  <2> QED
    BY <1>0, <2>1, SourceKept, SourceVanishes, SourceBreaks
<1>5. CASE RawCensus
  <2>1. attempt = "raw"
    BY <1>5 DEF RawCensus, SourceInv
  <2> QED
    BY <1>5, <2>1, RawIsNamed, SourceKept DEF RawCensus
<1>6. ASSUME NEW f \in Sessions, RawCensusRaced(f) PROVE SourceInv'
  <2>1. attempt = "raw"
    BY <1>6 DEF RawCensusRaced, SourceInv
  <2> QED
    BY <1>6, <2>1, RawIsNamed, SourceKept DEF RawCensusRaced
<1>7. CASE WalkRoot
  <2>1. RawRootScanned
    BY <1>7, RawIsNamed DEF WalkRoot
  <2>2. \/ UNCHANGED <<args, attempt, fallback, refs, pc>>
        \/ SourceVanished /\ UNCHANGED args
    BY <1>7 DEF WalkRoot
  <2> QED
    BY <2>1, <2>2, SourceKept, SourceVanishes
<1>8. CASE TakeRef
  <2>1. CASE StatFails
    BY <1>0, <1>8, <2>1, SourceVanishes DEF TakeRef
  <2>2. CASE ~StatFails
    <3>1. /\ refs' = Append(refs, Ref(NextRow)) /\ pc' \in {"peek", "list"}
          /\ UNCHANGED <<args, attempt, fallback, walked>>
      BY <1>8, <2>2 DEF TakeRef
    <3>2. Ref(NextRow).src = attempt
      BY DEF Ref
    <3>3. \A i \in DOMAIN refs' : refs'[i].src = attempt
      <4>1. refs \in Seq(RefRecord) /\ Ref(NextRow) \in RefRecord
        BY <1>8, NextRowIsServed DEF TakeRef, TypeInv, TypeOK
      <4>2. ASSUME NEW i \in DOMAIN refs' PROVE refs'[i].src = attempt
        <5>1. \/ i \in DOMAIN refs /\ refs'[i] = refs[i]
              \/ refs'[i] = Ref(NextRow)
          BY <3>1, <4>1, <4>2
        <5> QED
          BY <3>2, <5>1 DEF SourceInv
      <4> QED
        BY <4>2
    <3> QED
      BY <3>1, <3>3 DEF SourceInv, RawRootScanned
  <2> QED
    BY <2>1, <2>2
<1>9. CASE PeekRef
  BY <1>0, <1>9, SourceKept DEF PeekRef, PeekEnds
<1>10. CASE Exhausted
  BY <1>0, <1>10, SourceKept DEF Exhausted
<1>11. CASE Churning
  BY <1>0, <1>11, SourceKept DEF Churning, run
<1>12. CASE UNCHANGED vars
  BY <1>0, <1>12, SourceKept DEF vars, run
<1> QED
  BY <1>1, <1>2, <1>3, <1>4, <1>5, <1>6, <1>7, <1>8, <1>9, <1>10, <1>11, <1>12
     DEF Next, RunStep, DaemonStep, EnvStep, Returned, SessionAppears, SessionPruned,
         TranscriptDeleted, TranscriptAppears, RootRemoved

LEMMA NamedSource == TypeInv /\ SourceInv => OneNamedSource
BY DEF TypeInv, TypeOK, SourceInv, OneNamedSource

-----------------------------------------------------------------------------
\* A discovery keeps every variable in its domain: no page, census, skip or
\* fallback of _discover_refs is a value its callers cannot meet.
THEOREM TypeCorrect == Spec => []TypeOK
<1>1. TypeInv => TypeOK
  BY DEF TypeInv
<1> QED
  BY <1>1, TypeInit, TypeStep, PTL DEF Spec

\* Whatever fails and whenever, the refs of one report come from one source, the
\* one its flags or its fallback line name, and a root that was walked is named
\* (TB-22, TB-38, S10, S34).
THEOREM SourceIsNamed == Spec => []OneNamedSource
<1>1. Init => TypeInv /\ SourceInv
  BY TypeInit, SourceInit
<1>2. TypeInv /\ SourceInv /\ [Next]_vars => (TypeInv /\ SourceInv)'
  BY TypeStep, SourceStep
<1> QED
  BY <1>1, <1>2, NamedSource, PTL DEF Spec

-----------------------------------------------------------------------------
(* The sample of an archive that holds still                               *)

\* What a listing holds, whichever it is.
Listed == IF attempt = "raw" THEN files ELSE Listing(TRUE)

\* Before the first ref is asked for: the parents down to the cursor.
ProbeInv ==
    /\ pc \in {"health", "probe", "census", "rawCensus"} =>
           refs = <<>> /\ buf = {} /\ cursor \in 1 .. Top
    /\ pc \in {"health", "census", "rawCensus"} => cursor = Top
    /\ pc \in {"health", "probe", "census"} => attempt = "agentsview"
    /\ pc = "rawCensus" => attempt = "raw"
    /\ pc \in {"health", "probe"} => parents = {s \in Listing(FALSE) : s >= cursor}
    /\ pc = "census" \/ (pc \in {"list", "peek"} /\ attempt = "agentsview") =>
           parents = Listing(FALSE)

\* While refs are collected: those taken and those served are the listing down
\* to the cursor, and what is served comes after what was taken.
Drained ==
    /\ attempt = "raw" => cursor \in {0, Top}
    /\ Ids \cap buf = {}
    /\ Ids \cup buf = {s \in Listed : s >= cursor}
    /\ attempt = "agentsview" => \A s \in Ids : \A t \in buf : t < s
DrainInv == pc = "list" => Drained

\* The refs themselves.
RefsInv ==
    /\ Ids \subseteq Listed
    /\ \A i \in DOMAIN refs : refs[i].sub = (refs[i].id \in Children)
    /\ \A i, j \in DOMAIN refs : refs[i].id = refs[j].id => i = j
    /\ attempt = "agentsview" => \A s \in Ids : \A t \in Listing(TRUE) : t > s => t \in Ids

SampleInv == churn = 0 => ProbeInv /\ DrainInv /\ RefsInv

\* While the environment holds still, so does each listing.
LEMMA ListingIsStill ==
    ASSUME UNCHANGED <<args, env>>
    PROVE  /\ Listing(TRUE)' = Listing(TRUE)
           /\ Listing(FALSE)' = Listing(FALSE)
           /\ UNCHANGED attempt => Listed' = Listed
BY DEF Listing, InScope, Listed, env

LEMMA IdsAreSessions == TypeInv => Ids \in SUBSET Sessions
<1> SUFFICES ASSUME TypeInv PROVE Ids \in SUBSET Sessions
  OBVIOUS
<1>1. refs \in Seq(RefRecord)
  BY DEF TypeInv, TypeOK
<1>2. \A i \in DOMAIN refs : refs[i] \in RefRecord
  BY <1>1
<1>3. \A i \in DOMAIN refs : refs[i].id \in Sessions
  BY <1>2 DEF RefRecord
<1> QED
  BY <1>3 DEF Ids

LEMMA NoRefsNoIds == refs = <<>> => Ids = {}
BY DEF Ids

LEMMA NoRefsNext == refs' = <<>> => Ids' = {} /\ RefsInv'
BY DEF RefsInv, Ids

\* No listing reaches the cursor it starts with.
LEMMA NothingAboveTop ==
    ASSUME TypeInv
    PROVE  /\ Listed \in SUBSET Sessions
           /\ {s \in Listed : s >= Top} = {}
           /\ \A b \in BOOLEAN : {s \in Listing(b) : s >= Top} = {}
<1>1. Listed \in SUBSET Sessions
  BY DEF TypeInv, TypeOK, Listed, Listing
<1>2. \A S \in SUBSET Sessions : {s \in S : s >= Top} = {}
  <2> SUFFICES ASSUME NEW S \in SUBSET Sessions, NEW s \in S PROVE ~(s >= Top)
    OBVIOUS
  <2> QED
    BY TopIsAbove
<1> QED
  BY <1>1, <1>2, ListingsAreSessions

\* The next page of a listing, and how far down it reaches.
LEMMA PageGoesDown ==
    ASSUME TypeInv, NEW b \in BOOLEAN
    PROVE  {s \in Listing(b) : s >= cursor} \cup Page(Listing(b))
               = {s \in Listing(b) : s >= NextCursor(Listing(b))}
<1> DEFINE L == Listing(b)
           next == NextCursor(L)
<1>1. L \in SUBSET Sessions /\ args \in CommandLines /\ cursor \in 0 .. Top
  BY ListingsAreSessions DEF TypeInv, TypeOK
<1>2. /\ next \in 0 .. Top /\ next <= cursor
      /\ Page(L) = {s \in L : next <= s /\ s < cursor}
  BY <1>1, PageIs
<1> HIDE DEF L, next
<1>3. \A s \in L : s \in Nat
  BY <1>1, TopIsAbove
<1>4. cursor \in Int /\ next \in Int
  BY <1>1, <1>2, TopIsAbove
<1>5. \A s \in L : (s >= cursor \/ (next <= s /\ s < cursor)) <=> s >= next
  BY <1>2, <1>3, <1>4
<1>6. {s \in L : s >= cursor} \cup Page(L) = {s \in L : s >= next}
  BY <1>2, <1>5
<1> QED
  BY <1>6 DEF L, next

LEMMA SampleInit == Init => SampleInv
<1> SUFFICES ASSUME Init PROVE SampleInv
  OBVIOUS
<1>1. TypeInv
  BY TypeInit
<1>2. args.source \in {"raw", "agentsview", "auto"}
  BY CommandLineAssumption DEF Init
<1>3. refs = <<>> /\ buf = {} /\ cursor = Top /\ cursor \in 1 .. Top /\ parents = {}
  BY TopIsAbove DEF Init
<1>4. parents = {s \in Listing(FALSE) : s >= cursor}
  BY <1>1, <1>3, NothingAboveTop
<1>5. /\ pc \in {"health", "probe", "rawCensus"}
      /\ pc \in {"health", "probe"} => attempt = "agentsview"
      /\ pc = "rawCensus" => attempt = "raw"
  BY <1>2 DEF Init, FirstCall
<1>6. RefsInv
  BY <1>3 DEF RefsInv, Ids
<1> QED
  BY <1>3, <1>4, <1>5, <1>6 DEF SampleInv, ProbeInv, DrainInv, Drained

LEMMA SampleVanishes ==
    ASSUME SourceVanished
    PROVE  (ProbeInv /\ DrainInv /\ RefsInv)'
<1>1. refs' = <<>> /\ pc' \in {"resolved", "fatal"}
  BY DEF SourceVanished, SurvivingRefs
<1> QED
  BY <1>1, NoRefsNext DEF ProbeInv, DrainInv, Drained

LEMMA SampleBreaks ==
    ASSUME NEW reply, DaemonBroke(reply)
    PROVE  (ProbeInv /\ DrainInv /\ RefsInv)'
<1>1. refs' = <<>> /\ buf' = {}
  BY DEF DaemonBroke, SurvivingRefs
<1>2. \/ pc' = "fatal"
      \/ pc' = "rawCensus" /\ attempt' = "raw" /\ cursor' = Top
  BY DEF DaemonBroke
<1>3. Top \in 1 .. Top /\ Top' = Top
  BY TopIsAbove DEF Top
<1> QED
  BY <1>1, <1>2, <1>3, NoRefsNext DEF ProbeInv, DrainInv, Drained

\* A step that touches neither the refs nor the listing they came from.
LEMMA RefsKept ==
    ASSUME RefsInv, UNCHANGED <<args, env, attempt, refs>>
    PROVE  RefsInv' /\ Ids' = Ids
<1>1. Ids' = Ids
  BY DEF Ids
<1>2. Listed' = Listed /\ Listing(TRUE)' = Listing(TRUE)
  BY ListingIsStill
<1> QED
  BY <1>1, <1>2 DEF RefsInv

LEMMA SamplePeekEnds ==
    ASSUME RefsInv, NEW answer, PeekEnds(answer), UNCHANGED <<args, env>>
    PROVE  (ProbeInv /\ DrainInv /\ RefsInv)'
<1>1. pc' = "resolved" /\ UNCHANGED <<attempt, refs>>
  BY DEF PeekEnds
<1> QED
  BY <1>1, RefsKept DEF ProbeInv, DrainInv, Drained

\* A row of an unchanged listing gets the subagent mark it has there.
LEMMA RefIsMarked ==
    ASSUME ProbeInv, pc \in {"list", "peek"}, attempt \in {"raw", "agentsview"},
           NextRow \in Listed
    PROVE  Ref(NextRow).sub = (NextRow \in Children)
<1>1. CASE attempt = "raw"
  BY <1>1 DEF Ref
<1>2. CASE attempt = "agentsview"
  <2>1. parents = Listing(FALSE)
    BY <1>2 DEF ProbeInv
  <2>2. NextRow \in Listing(TRUE)
    BY <1>2 DEF Listed
  <2>3. NextRow \notin parents <=> NextRow \in Children
    BY <2>1, <2>2 DEF Listing
  <2> QED
    BY <1>2, <2>3 DEF Ref
<1> QED
  BY <1>1, <1>2

\* The listing goes on after a ref was taken: what was taken is above what is left.
LEMMA SampleTakes ==
    ASSUME TypeInv, ProbeInv, DrainInv, RefsInv, TakeRef, ~StatFails
    PROVE  (ProbeInv /\ Drained /\ RefsInv)'
<1> DEFINE r == Ref(NextRow)
<1>1. /\ pc = "list" /\ buf # {} /\ refs' = Append(refs, r) /\ buf' = buf \ {NextRow}
      /\ pc' \in {"peek", "list"}
      /\ UNCHANGED <<args, env, attempt, parents, cursor>>
  BY DEF TakeRef
<1>2. /\ NextRow \in buf /\ NextRow \in Sessions /\ r \in RefRecord /\ r.id = NextRow
      /\ refs \in Seq(RefRecord) /\ buf \in SUBSET Sessions
      /\ Ids \in SUBSET Sessions /\ attempt \in {"raw", "agentsview"}
  <2>1. refs \in Seq(RefRecord)
    BY DEF TypeInv, TypeOK
  <2>2. Ids \in SUBSET Sessions
    BY IdsAreSessions
  <2> QED
    BY <1>1, <2>1, <2>2, NextRowIsServed DEF TypeInv, TypeOK, Ref
<1>3. /\ attempt = "raw" => cursor \in {0, Top}
      /\ Ids \cap buf = {}
      /\ Ids \cup buf = {s \in Listed : s >= cursor}
      /\ attempt = "agentsview" => \A s \in Ids : \A t \in buf : t < s
  BY <1>1 DEF DrainInv, Drained
<1>4. /\ Listing(TRUE)' = Listing(TRUE) /\ Listing(FALSE)' = Listing(FALSE)
      /\ Listed' = Listed
  BY <1>1, ListingIsStill
<1>5. attempt = "agentsview" => \A t \in buf : t <= NextRow
  BY <1>2, NewestOf, TopIsAbove DEF NextRow
<1>6. r.sub = (r.id \in Children)
  BY <1>1, <1>2, <1>3, RefIsMarked
<1>0. \A s \in Sessions : s \in Nat
  BY TopIsAbove
<1> HIDE DEF r, NextRow
<1>7. /\ DOMAIN refs = 1 .. Len(refs) /\ DOMAIN refs' = 1 .. Len(refs) + 1
      /\ Len(refs) \in Nat
      /\ \A i \in DOMAIN refs : refs'[i] = refs[i]
      /\ refs'[Len(refs) + 1] = r
  BY <1>1, <1>2
<1>8. Ids' = Ids \cup {NextRow}
  <2>1. Ids' = {refs'[i].id : i \in DOMAIN refs'}
    BY DEF Ids
  <2>2. DOMAIN refs' = DOMAIN refs \cup {Len(refs) + 1}
    BY <1>7
  <2>3. {refs'[i].id : i \in DOMAIN refs'} = {refs'[i].id : i \in DOMAIN refs} \cup {r.id}
    BY <1>7, <2>2
  <2>4. {refs'[i].id : i \in DOMAIN refs} = Ids
    BY <1>7 DEF Ids
  <2> QED
    BY <1>2, <2>1, <2>3, <2>4
<1>9. Drained'
  <2>1. Ids' \cap buf' = {} /\ Ids' \cup buf' = Ids \cup buf
    BY <1>1, <1>2, <1>3, <1>8
  <2>2. attempt = "agentsview" => \A s \in Ids' : \A t \in buf' : t < s
    <3> SUFFICES ASSUME attempt = "agentsview", NEW s \in Ids', NEW t \in buf' PROVE t < s
      OBVIOUS
    <3>1. t \in buf /\ t # NextRow /\ t <= NextRow /\ t \in Nat /\ NextRow \in Nat
      BY <1>1, <1>2, <1>5, <1>0
    <3>2. CASE s \in Ids
      BY <1>3, <3>1, <3>2
    <3>3. CASE s = NextRow
      BY <3>1, <3>3
    <3> QED
      BY <1>8, <3>2, <3>3
  <2>3. Top' = Top
    BY DEF Top
  <2> QED
    BY <1>1, <1>3, <1>4, <2>1, <2>2, <2>3 DEF Drained
<1>10. RefsInv'
  <2>1. Ids' \subseteq Listed'
    BY <1>2, <1>3, <1>4, <1>8
  <2>2. \A i \in DOMAIN refs' : refs'[i].sub = (refs'[i].id \in Children)
    <3> SUFFICES ASSUME NEW i \in DOMAIN refs'
                 PROVE  refs'[i].sub = (refs'[i].id \in Children)
      OBVIOUS
    <3>1. CASE i \in DOMAIN refs
      BY <1>7, <3>1 DEF RefsInv
    <3>2. CASE i = Len(refs) + 1
      BY <1>6, <1>7, <3>2
    <3> QED
      BY <1>7, <3>1, <3>2
  <2>3. \A i, j \in DOMAIN refs' : refs'[i].id = refs'[j].id => i = j
    <3>1. \A i \in DOMAIN refs : refs'[i].id = refs[i].id /\ refs'[i].id # NextRow
      BY <1>2, <1>3, <1>7 DEF Ids
    <3>2. refs'[Len(refs) + 1].id = NextRow
      BY <1>2, <1>7
    <3>3. \A i \in DOMAIN refs' : i \in DOMAIN refs \/ i = Len(refs) + 1
      BY <1>7
    <3>4. \A i, j \in DOMAIN refs : refs[i].id = refs[j].id => i = j
      BY DEF RefsInv
    <3> QED
      BY <3>1, <3>2, <3>3, <3>4
  <2>4. attempt' = "agentsview" =>
            \A s \in Ids' : \A t \in Listing(TRUE)' : t > s => t \in Ids'
    <3> SUFFICES ASSUME attempt = "agentsview", NEW s \in Ids', NEW t \in Listing(TRUE), t > s
                 PROVE  t \in Ids'
      BY <1>1, <1>4
    <3>1. CASE s \in Ids
      BY <1>8, <3>1 DEF RefsInv
    <3>2. CASE s = NextRow
      <4>0. Listing(TRUE) \in SUBSET Sessions
        BY ListingsAreSessions
      <4>1. s \in Nat /\ t \in Nat /\ cursor \in Nat
        <5>1. s \in Sessions /\ t \in Sessions
          BY <1>2, <3>2, <4>0
        <5>2. cursor \in 0 .. Top
          BY DEF TypeInv, TypeOK
        <5> QED
          BY <1>0, <5>1, <5>2, TopIsAbove
      <4>2. s >= cursor
        BY <1>2, <1>3, <3>2
      <4>3. t >= cursor
        BY <4>1, <4>2
      <4>4. t \in Ids \cup buf
        BY <1>3, <4>3 DEF Listed
      <4>5. t \notin buf
        BY <1>5, <3>2, <4>1
      <4> QED
        BY <1>8, <4>4, <4>5
    <3> QED
      BY <1>8, <3>1, <3>2
  <2> QED
    BY <2>1, <2>2, <2>3, <2>4 DEF RefsInv
<1>11. ProbeInv'
  BY <1>1, <1>4 DEF ProbeInv
<1> QED
  BY <1>9, <1>10, <1>11

\* A listing begins with nothing taken and nothing served.
LEMMA SampleBegins ==
    ASSUME TypeInv, pc' = "list", refs' = <<>>, buf' = {}, cursor' = Top,
           UNCHANGED <<args, env, attempt>>,
           attempt = "agentsview" => parents' = Listing(FALSE)
    PROVE  (ProbeInv /\ DrainInv /\ RefsInv)'
<1>1. Top' = Top
  BY DEF Top
<1>2. Ids' = {} /\ RefsInv'
  BY NoRefsNext
<1>3. Listed' = Listed /\ Listing(FALSE)' = Listing(FALSE)
  BY ListingIsStill
<1>4. {s \in Listed : s >= Top} = {}
  BY NothingAboveTop
<1>5. DrainInv'
  BY <1>1, <1>2, <1>3, <1>4 DEF DrainInv, Drained
<1>6. ProbeInv'
  BY <1>3 DEF ProbeInv
<1> QED
  BY <1>2, <1>5, <1>6

LEMMA SampleStep == TypeInv /\ SampleInv /\ [Next]_vars => SampleInv'
<1> SUFFICES ASSUME TypeInv, SampleInv, [Next]_vars, churn' = 0
             PROVE  (ProbeInv /\ DrainInv /\ RefsInv)'
  BY DEF SampleInv
<1> DEFINE Goal == (ProbeInv /\ DrainInv /\ RefsInv)'
<1>0. churn \in Nat
  BY BoundAssumption DEF TypeInv, TypeOK
<1>still. churn = 0 => ProbeInv /\ DrainInv /\ RefsInv
  BY DEF SampleInv
<1>1. ASSUME NEW reply \in Replies, HealthProbe(reply) PROVE Goal
  <2>1. /\ ProbeInv /\ pc = "health"
        /\ refs' = <<>> /\ buf' = {} /\ cursor' = cursor /\ cursor = Top
        /\ cursor \in 1 .. Top /\ UNCHANGED <<args, env, parents>>
        /\ attempt = "agentsview" /\ parents = {s \in Listing(FALSE) : s >= cursor}
        /\ \/ pc' = "probe" /\ attempt' = attempt
           \/ pc' = "rawCensus" /\ attempt' = "raw"
    BY <1>1, <1>still DEF HealthProbe, env, ProbeInv
  <2>2. Listing(FALSE)' = Listing(FALSE) /\ Top' = Top
    BY <2>1, ListingIsStill DEF Top
  <2> QED
    BY <2>1, <2>2, NoRefsNext DEF ProbeInv, DrainInv, Drained
<1>2. ASSUME NEW reply \in Replies, ParentPage(reply) PROVE Goal
  <2>1. CASE reply = "ok"
    <3> DEFINE next == NextCursor(Listing(FALSE))
               above == {s \in Listing(FALSE) : s >= cursor}
    <3>1. /\ ProbeInv /\ UNCHANGED <<args, env, attempt>> /\ refs' = <<>> /\ buf' = {}
          /\ attempt = "agentsview" /\ parents = above
          /\ parents' = parents \cup Page(Listing(FALSE))
          /\ pc' = IF next = 0 THEN "census" ELSE "probe"
          /\ cursor' = IF next = 0 THEN Top ELSE next
      BY <1>2, <1>still, <2>1 DEF ParentPage, ProbeInv, env
    <3>2. parents' = {s \in Listing(FALSE) : s >= next}
      BY <3>1, PageGoesDown
    <3>3. Listing(FALSE)' = Listing(FALSE) /\ Top' = Top
      BY <3>1, ListingIsStill DEF Top
    <3>4. next \in 0 .. Top /\ Listing(FALSE) \in SUBSET Sessions
      BY ListingsAreSessions
    <3> HIDE DEF next, above
    <3>5. CASE next = 0
      <4>1. parents' = Listing(FALSE)
        <5>1. \A s \in Listing(FALSE) : s >= 0
          <6> DEFINE L == Listing(FALSE)
          <6>1. L \in SUBSET Sessions
            BY <3>4
          <6> HIDE DEF L
          <6>2. \A s \in L : s >= 0
            BY <6>1, TopIsAbove
          <6> QED
            BY <6>2 DEF L
        <5> QED
          BY <3>2, <3>5, <5>1
      <4>2. pc' = "census" /\ cursor' = Top /\ cursor' \in 1 .. Top
        BY <3>1, <3>5, TopIsAbove
      <4> QED
        BY <3>1, <3>3, <4>1, <4>2, NoRefsNext DEF ProbeInv, DrainInv, Drained
    <3>6. CASE next # 0
      <4>1. pc' = "probe" /\ cursor' = next /\ cursor' \in 1 .. Top
        BY <3>1, <3>4, <3>6, TopIsAbove
      <4> QED
        BY <3>1, <3>2, <3>3, <4>1, NoRefsNext DEF ProbeInv, DrainInv, Drained
    <3> QED
      BY <3>5, <3>6
  <2>2. CASE reply # "ok"
    BY <1>2, <2>2, SampleVanishes, SampleBreaks DEF ParentPage
  <2> QED
    BY <2>1, <2>2
<1>3. ASSUME NEW reply \in Replies, Census(reply) PROVE Goal
  <2>1. CASE SourceVanished
    BY <2>1, SampleVanishes
  <2>2. CASE ~SourceVanished
    <3>1. /\ ProbeInv /\ pc = "census" /\ UNCHANGED <<args, env, attempt, parents>>
          /\ refs' = <<>> /\ buf' = {} /\ cursor' = Top /\ cursor' \in 1 .. Top
          /\ attempt = "agentsview" /\ parents = Listing(FALSE)
          /\ pc' = "census" \/ pc' = "list"
      BY <1>3, <1>still, <2>2 DEF Census, ProbeInv, env
    <3>2. CASE pc' = "list"
      BY <3>1, <3>2, SampleBegins
    <3>3. CASE pc' = "census"
      <4>1. Listing(FALSE)' = Listing(FALSE) /\ Top' = Top
        BY <3>1, ListingIsStill DEF Top
      <4> QED
        BY <3>1, <3>3, <4>1, NoRefsNext DEF ProbeInv, DrainInv, Drained
    <3> QED
      BY <3>1, <3>2, <3>3
  <2> QED
    BY <2>1, <2>2
<1>4. ASSUME NEW reply \in Replies, FetchPage(reply) PROVE Goal
  <2>1. CASE reply = "ok"
    <3> DEFINE L == Listing(TRUE)
               next == NextCursor(L)
    <3>1. /\ ProbeInv /\ DrainInv /\ RefsInv /\ pc \in {"list", "peek"}
          /\ attempt = "agentsview" /\ buf = {} /\ cursor # 0
          /\ buf' = Page(L) /\ cursor' = next
          /\ UNCHANGED <<args, env, pc, attempt, parents, refs>>
      BY <1>4, <1>still, <2>1 DEF FetchPage, Draining, env
    <3>2. RefsInv' /\ Ids' = Ids
      BY <3>1, RefsKept
    <3>3. Listing(TRUE)' = L /\ Listing(FALSE)' = Listing(FALSE) /\ Listed' = Listed
      BY <3>1, ListingIsStill
    <3>4. {s \in L : s >= cursor} \cup Page(L) = {s \in L : s >= next}
      BY PageGoesDown
    <3>5. /\ L \in SUBSET Sessions /\ cursor \in 0 .. Top
          /\ Page(L) = {s \in L : next <= s /\ s < cursor}
      BY ListingsAreSessions, PageIs DEF TypeInv, TypeOK
    <3>6. Listed = L
      BY <3>1 DEF Listed
    <3>7. cursor \in Nat /\ \A s \in L : s \in Nat
      <4> HIDE DEF L, next
      <4> QED
        BY <3>5, TopIsAbove
    <3>8. DrainInv'
      <4> SUFFICES ASSUME pc = "list" PROVE DrainInv'
        BY <3>1 DEF DrainInv, Drained
      <4>1. Ids = {s \in L : s >= cursor}
        BY <3>1, <3>6 DEF DrainInv, Drained
      <4> HIDE DEF L, next
      <4>2. \A s \in Ids : \A t \in Page(L) : t < s
        BY <3>5, <3>7, <4>1
      <4>3. Ids \cap Page(L) = {}
        BY <3>5, <3>7, <4>1
      <4>4. Ids \cup Page(L) = {s \in L : s >= next}
        BY <3>4, <4>1
      <4> QED
        BY <3>1, <3>2, <3>3, <3>6, <4>2, <4>3, <4>4 DEF DrainInv, Drained
    <3>9. ProbeInv'
      BY <3>1, <3>3 DEF ProbeInv
    <3> QED
      BY <3>2, <3>8, <3>9
  <2>2. CASE reply # "ok"
    <3>1. \/ SourceVanished \/ DaemonBroke(reply)
          \/ PeekEnds("unknown") /\ UNCHANGED <<args, env>>
      BY <1>4, <2>2 DEF FetchPage
    <3>2. churn = 0 => RefsInv
      BY <1>still
    <3>3. UNCHANGED env
      BY <1>4 DEF FetchPage
    <3> QED
      BY <3>1, <3>2, <3>3, SampleVanishes, SampleBreaks, SamplePeekEnds DEF env
  <2> QED
    BY <2>1, <2>2
<1>5. CASE RawCensus
  <2>1. /\ ProbeInv /\ pc = "rawCensus" /\ pc' = "list"
        /\ UNCHANGED <<args, env, attempt>> /\ attempt = "raw"
        /\ refs' = <<>> /\ buf' = {} /\ cursor' = Top
    BY <1>5, <1>still DEF RawCensus, ProbeInv, env
  <2> QED
    BY <2>1, SampleBegins
<1>6. ASSUME NEW f \in Sessions, RawCensusRaced(f) PROVE Goal
  BY <1>0, <1>6 DEF RawCensusRaced
<1>7. CASE WalkRoot
  <2>1. CASE rootUp
    <3>1. /\ ProbeInv /\ DrainInv /\ RefsInv /\ pc = "list"
          /\ attempt = "raw" /\ buf = {} /\ cursor # 0
          /\ buf' = files /\ cursor' = 0
          /\ UNCHANGED <<args, env, pc, attempt, parents, refs>>
      BY <1>7, <1>still, <2>1 DEF WalkRoot, env
    <3>2. RefsInv' /\ Ids' = Ids
      BY <3>1, RefsKept
    <3>3. Listed' = Listed /\ Listed = files
      BY <3>1, ListingIsStill DEF Listed
    <3>4. Ids = {}
      BY <3>1, NothingAboveTop DEF DrainInv, Drained
    <3>5. {s \in files : s >= 0} = files
      BY TopIsAbove DEF TypeInv, TypeOK
    <3>6. DrainInv'
      BY <3>1, <3>2, <3>3, <3>4, <3>5 DEF DrainInv, Drained
    <3> QED
      BY <3>1, <3>2, <3>6 DEF ProbeInv
  <2>2. CASE ~rootUp
    BY <1>7, <2>2, SampleVanishes DEF WalkRoot
  <2> QED
    BY <2>1, <2>2
<1>8. CASE TakeRef
  <2>1. churn' = churn
    BY <1>8 DEF TakeRef, env
  <2> QED
    BY <1>8, <1>still, <2>1, SampleTakes, SampleVanishes DEF TakeRef, DrainInv
<1>9. CASE PeekRef
  <2>1. ProbeInv /\ RefsInv /\ UNCHANGED <<args, env>> /\ pc = "peek"
    BY <1>9, <1>still DEF PeekRef, env
  <2>2. \/ \E answer \in {"yes", "unknown"} : PeekEnds(answer)
        \/ UNCHANGED <<pc, attempt, parents, refs>>
    BY <1>9 DEF PeekRef
  <2>3. CASE UNCHANGED <<pc, attempt, parents, refs>>
    <3>1. Listing(FALSE)' = Listing(FALSE)
      BY <2>1, ListingIsStill
    <3> QED
      BY <2>1, <2>3, <3>1, RefsKept DEF ProbeInv, DrainInv, Drained
  <2> QED
    BY <2>1, <2>2, <2>3, SamplePeekEnds
<1>10. CASE Exhausted
  <2>1. /\ RefsInv /\ UNCHANGED <<args, env, attempt, refs>> /\ pc' = "resolved"
    BY <1>10, <1>still DEF Exhausted, env
  <2> QED
    BY <2>1, RefsKept DEF ProbeInv, DrainInv, Drained
<1>11. CASE Churning
  BY <1>0, <1>11 DEF Churning
<1>12. CASE UNCHANGED vars
  <2>1. /\ ProbeInv /\ DrainInv /\ RefsInv
        /\ UNCHANGED <<args, env, attempt, pc, parents, cursor, buf, refs>>
    BY <1>12, <1>still DEF vars, env, run
  <2>2. /\ Listing(TRUE)' = Listing(TRUE) /\ Listing(FALSE)' = Listing(FALSE)
        /\ Listed' = Listed /\ Top' = Top /\ RefsInv' /\ Ids' = Ids
    BY <2>1, ListingIsStill, RefsKept DEF Top
  <2> QED
    BY <2>1, <2>2 DEF ProbeInv, DrainInv, Drained
<1> QED
  BY <1>1, <1>2, <1>3, <1>4, <1>5, <1>6, <1>7, <1>8, <1>9, <1>10, <1>11, <1>12
     DEF Next, RunStep, DaemonStep, EnvStep, Returned, SessionAppears, SessionPruned,
         TranscriptDeleted, TranscriptAppears, RootRemoved

\* Distinct refs are as many as their sessions.
LEMMA IdsAreRefs ==
    ASSUME TypeInv, RefsInv
    PROVE  /\ Cardinality(Ids) = Len(refs)
           /\ ExistsBijection(DOMAIN refs, Ids)
<1>1. refs \in Seq(RefRecord) /\ Len(refs) \in Nat /\ DOMAIN refs = 1 .. Len(refs)
  BY DEF TypeInv, TypeOK
<1> DEFINE f == [i \in 1 .. Len(refs) |-> refs[i].id]
<1>2. f \in [1 .. Len(refs) -> Ids]
  BY <1>1 DEF Ids
<1>3. \A x \in Ids : \E i \in 1 .. Len(refs) : f[i] = x
  BY <1>1 DEF Ids
<1>4. \A i, j \in 1 .. Len(refs) : f[i] = f[j] => i = j
  BY <1>1 DEF RefsInv
<1> HIDE DEF f
<1>5. f \in Bijection(1 .. Len(refs), Ids)
  BY <1>2, <1>3, <1>4, Fun_IsBij
<1>6. ExistsBijection(1 .. Len(refs), Ids)
  BY <1>5 DEF ExistsBijection
<1> QED
  BY <1>1, <1>6, FS_CountingElements

LEMMA SampleIsNewest == TypeInv /\ SampleInv => SampleIsTheNewest
BY IdsAreRefs DEF SampleInv, RefsInv, SampleIsTheNewest

-----------------------------------------------------------------------------
\* While the archive holds still, no session is listed twice, every ref carries
\* the subagent mark its listing gives it, and what `--limit` keeps of agentsview
\* is the newest of what it listed, whatever the page size and however many pages
\* that took (TB-31, TB-33).
THEOREM SampleIsNewestFirst == Spec => []SampleIsTheNewest
<1>1. Init => TypeInv /\ SampleInv
  BY TypeInit, SampleInit
<1>2. TypeInv /\ SampleInv /\ [Next]_vars => (TypeInv /\ SampleInv)'
  BY TypeStep, SampleStep
<1> QED
  BY <1>1, <1>2, SampleIsNewest, PTL DEF Spec

-----------------------------------------------------------------------------
(* The census of an archive that holds still                               *)

\* The sum of a finite table of counts is the count of what the table counts.
LEMMA SumOfCounts ==
    ASSUME NEW K, IsFiniteSet(K), NEW P, IsFiniteSet(P), NEW g,
           NEW f, DOMAIN f = K,
           \A a \in K : f[a] = Cardinality({x \in P : g[x] = a})
    PROVE  SumFunction(f) = Cardinality({x \in P : g[x] \in K})
<1> DEFINE Pick(s) == CHOOSE x \in s : TRUE
           Sums(h) == h = [s \in SUBSET K |->
                               IF s = {} THEN 0 ELSE f[Pick(s)] + h[s \ {Pick(s)}]]
           Within(s) == {x \in P : g[x] \in s}
           count == [s \in SUBSET K |-> Cardinality(Within(s))]
           iter == CHOOSE h : Sums(h)
<1>1. SumFunction(f) = iter[K]
  BY DEF SumFunction, SumFunctionOnSet, FoldFunctionOnSet, MapThenFoldSet
<1>2. \A s \in SUBSET K : IsFiniteSet(Within(s)) /\ Cardinality(Within(s)) \in Nat
  BY FS_Subset, FS_CardinalityType
<1>3. ASSUME NEW s \in SUBSET K, s # {}
      PROVE  /\ Pick(s) \in s /\ s \ {Pick(s)} \in SUBSET K
             /\ count[s] = f[Pick(s)] + count[s \ {Pick(s)}]
  <2> DEFINE a == Pick(s)
             One == {x \in P : g[x] = a}
             Others == Within(s \ {a})
  <2>1. a \in s
    BY <1>3
  <2>2. s \ {a} \in SUBSET K
    OBVIOUS
  <2>3. count[s] = Cardinality(Within(s)) /\ count[s \ {a}] = Cardinality(Others)
    BY <2>2
  <2> HIDE DEF a, count
  <2>4. Within(s) = One \cup Others /\ One \cap Others = {}
    BY <2>1
  <2>5. IsFiniteSet(One) /\ IsFiniteSet(Others)
    BY <1>2, <2>2, FS_Subset
  <2>6. f[a] = Cardinality(One)
    BY <2>1
  <2> HIDE DEF One, Others, Within
  <2>7. Cardinality(Within(s)) = Cardinality(One) + Cardinality(Others)
    <3>1. Cardinality(One \cup Others)
            = Cardinality(One) + Cardinality(Others) - Cardinality(One \cap Others)
      BY <2>5, FS_Union
    <3>2. Cardinality(One \cap Others) = 0
      BY <2>4, FS_EmptySet
    <3>3. Cardinality(One) \in Nat /\ Cardinality(Others) \in Nat
      BY <2>5, FS_CardinalityType
    <3> QED
      BY <2>4, <3>1, <3>2, <3>3
  <2> QED
    BY <2>1, <2>2, <2>3, <2>6, <2>7 DEF a
<1>4. count[{}] = 0
  <2>1. Within({}) = {} /\ {} \in SUBSET K
    OBVIOUS
  <2> QED
    BY <2>1, FS_EmptySet
<1>5. Sums(count)
  <2>1. \A s \in SUBSET K :
            count[s] = IF s = {} THEN 0 ELSE f[Pick(s)] + count[s \ {Pick(s)}]
    <3> HIDE DEF count, Pick
    <3> QED
      BY <1>3, <1>4
  <2>2. count = [s \in SUBSET K |-> count[s]]
    OBVIOUS
  <2> HIDE DEF count, Pick
  <2> QED
    BY <2>1, <2>2
<1>6. Sums(iter)
  <2> HIDE DEF Sums, count
  <2> QED
    BY <1>5
<1> HIDE DEF Pick, count, iter
<1>7. iter[{}] = 0 /\ \A s \in SUBSET K : s # {} => iter[s] = f[Pick(s)] + iter[s \ {Pick(s)}]
  BY <1>6
<1> HIDE DEF Sums
<1> DEFINE Wrong == {s \in SUBSET K : iter[s] # count[s]}
<1>8. Wrong = {}
  <2> SUFFICES ASSUME Wrong # {} PROVE FALSE
    OBVIOUS
  <2>1. IsWellFoundedOn(StrictSubsetOrdering(K), SUBSET K)
    <3>1. IsWellFoundedOn(StrictSubsetOrdering(K), FiniteSubsetsOf(K))
      BY FS_StrictSubsetOrderingWellFounded
    <3>2. FiniteSubsetsOf(K) = SUBSET K
      BY FS_FiniteSubsetsOfFinite
    <3> QED
      BY <3>1, <3>2
  <2>2. Wrong \subseteq SUBSET K
    OBVIOUS
  <2>3. PICK s \in Wrong : \A t \in Wrong : ~(<<t, s>> \in StrictSubsetOrdering(K))
    <3> HIDE DEF Wrong
    <3> QED
      BY <2>1, <2>2, WFMin
  <2>4. s # {}
    BY <1>4, <1>7, <2>3
  <2>5. Pick(s) \in s /\ s \ {Pick(s)} \in SUBSET K
    BY <1>3, <2>3, <2>4
  <2>6. <<s \ {Pick(s)}, s>> \in StrictSubsetOrdering(K)
    BY <2>3, <2>5 DEF StrictSubsetOrdering
  <2>7. iter[s \ {Pick(s)}] = count[s \ {Pick(s)}]
    BY <2>3, <2>5, <2>6
  <2> QED
    BY <1>3, <1>7, <2>3, <2>4, <2>7
<1>9. iter[K] = count[K]
  <2>1. K \in SUBSET K
    OBVIOUS
  <2> QED
    BY <1>8, <2>1
<1> QED
  BY <1>1, <1>9 DEF count

\* The population a census counts, of the source that is listed.
Counted == IF attempt = "raw" THEN {f \in files : ~args.exclude \/ f \notin Children}
                              ELSE Population
AgentIn(s) == IF attempt = "raw" THEN RawAgent ELSE AgentOf[s]
OfAgent(a) == {s \in Counted : AgentIn(s) = a}

\* Each total counts the sessions of its agent, and `total` all of them.
TotalsInv ==
    /\ IsFiniteSet(DOMAIN census.totals)
    /\ pc \in {"health", "probe"} => DOMAIN census.totals = {}
    /\ pc \in {"health", "probe", "census"} => census.why = "notTaken"
    /\ pc \in {"census", "list", "peek", "resolved"} =>
           \A a \in DOMAIN census.totals : census.totals[a] = Cardinality(OfAgent(a))
    /\ pc \in {"list", "peek", "resolved"} /\ census.why = "counted" =>
           census.total = Cardinality(Counted)

\* An unlimited sample is the whole listing.
WholeInv ==
    /\ pc = "peek" => args.limit # NoLimit
    /\ pc = "resolved" /\ census.why = "counted" /\ args.limit = NoLimit => Ids = Listed
    /\ \A i \in DOMAIN refs : refs[i].agent = AgentIn(refs[i].id)

CensusInv == churn = 0 => TotalsInv /\ WholeInv

LEMMA CensusIsStill ==
    ASSUME UNCHANGED <<args, env, attempt>>
    PROVE  Counted' = Counted /\ \A a : OfAgent(a)' = OfAgent(a)
<1>1. Counted' = Counted
  BY DEF Counted, Population, Listing, InScope, env
<1>2. \A s : AgentIn(s)' = AgentIn(s)
  BY DEF AgentIn
<1> QED
  BY <1>1, <1>2 DEF OfAgent

LEMMA CountedSessions ==
    ASSUME TypeInv
    PROVE  Counted \in SUBSET Sessions /\ IsFiniteSet(Counted)
<1>1. Counted \in SUBSET Sessions
  BY DEF TypeInv, TypeOK, Counted, Population, Listing
<1> QED
  BY <1>1, SessionsAreCounted

\* A step of the run that leaves the census alone and does not end the drain.
LEMMA TotalsKept ==
    ASSUME TotalsInv, UNCHANGED <<args, env, attempt, census>>,
           (pc \in {"list", "peek"} /\ pc' \in {"list", "peek", "resolved"}) \/ pc' = pc
    PROVE  TotalsInv'
BY CensusIsStill DEF TotalsInv

LEMMA WholeKept ==
    ASSUME WholeInv, UNCHANGED <<args, env, attempt, refs>>,
           pc' = "peek" => pc = "peek",
           pc' = "resolved" => pc = "peek" \/ (pc = "resolved" /\ UNCHANGED census)
    PROVE  WholeInv'
<1>1. Ids' = Ids /\ Listed' = Listed
  BY ListingIsStill DEF Ids
<1>2. \A s : AgentIn(s)' = AgentIn(s)
  BY DEF AgentIn
<1> QED
  BY <1>1, <1>2 DEF WholeInv

\* Without refs and away from the end there is nothing to compare.
LEMMA WholeEmpty ==
    ASSUME refs' = <<>>, pc' # "peek", pc' = "resolved" => census'.why # "counted"
    PROVE  WholeInv'
BY DEF WholeInv

LEMMA CensusInit == Init => CensusInv
<1> SUFFICES ASSUME Init PROVE TotalsInv /\ WholeInv
  BY DEF CensusInv
<1>1. args.source \in {"raw", "agentsview", "auto"}
  BY CommandLineAssumption DEF Init
<1>2. pc \in {"health", "probe", "rawCensus"} /\ refs = <<>>
  BY <1>1 DEF Init, FirstCall
<1>3. DOMAIN census.totals = {} /\ census.why = "notTaken"
  BY UnavailableIsTyped DEF Init
<1> QED
  BY <1>2, <1>3, FS_EmptySet DEF TotalsInv, WholeInv

LEMMA CensusVanishes ==
    ASSUME SourceVanished, churn = 0 => TotalsInv, churn' = churn
    PROVE  CensusInv'
<1>1. refs' = <<>>
  BY DEF SourceVanished, SurvivingRefs
<1>2. CASE census' = Unavailable("vanished") /\ pc' = "resolved"
  <2>1. DOMAIN census'.totals = {} /\ census'.why = "vanished"
    BY <1>2, UnavailableIsTyped
  <2> QED
    BY <1>1, <1>2, <2>1, FS_EmptySet, WholeEmpty DEF CensusInv, TotalsInv
<1>3. CASE pc' = "fatal" /\ census' = census
  BY <1>1, <1>3, WholeEmpty DEF CensusInv, TotalsInv
<1> QED
  BY <1>2, <1>3 DEF SourceVanished

LEMMA CensusBreaks ==
    ASSUME NEW reply, DaemonBroke(reply), churn = 0 => TotalsInv, churn' = churn
    PROVE  CensusInv'
<1>1. refs' = <<>> /\ pc' \in {"fatal", "rawCensus"} /\ census' = census
  BY DEF DaemonBroke, SurvivingRefs
<1> QED
  BY <1>1, WholeEmpty DEF CensusInv, TotalsInv

LEMMA CensusPeekEnds ==
    ASSUME CensusInv, NEW answer, PeekEnds(answer), pc = "peek", UNCHANGED <<args, env>>
    PROVE  CensusInv'
<1>1. pc' = "resolved" /\ UNCHANGED <<attempt, refs, census, churn>>
  BY DEF PeekEnds, env
<1> QED
  BY <1>1, TotalsKept, WholeKept DEF CensusInv

\* The three ends of a census.
LEMMA CensusCounts ==
    ASSUME TypeInv, ProbeInv, TotalsInv, WholeInv, NEW reply \in Replies, Census(reply),
           churn = 0, ~SourceVanished
    PROVE  (TotalsInv /\ WholeInv)'
<1>1. /\ pc = "census" /\ attempt = "agentsview" /\ refs = <<>>
      /\ UNCHANGED <<args, env, attempt, refs>> /\ pc' \in {"census", "list"}
  BY DEF Census, ProbeInv
<1>2. WholeInv'
  BY <1>1, WholeEmpty
<1>3. Counted' = Counted /\ \A a : OfAgent(a)' = OfAgent(a)
  BY <1>1, CensusIsStill
<1>4. Counted = Population /\ \A a : OfAgent(a) = {s \in Population : AgentOf[s] = a}
  BY <1>1 DEF Counted, OfAgent, AgentIn
<1>5. census = [totals |-> census.totals, total |-> census.total, why |-> census.why]
  BY DEF TypeInv
<1>6. CASE reply = "ok" /\ uncounted # {}
  <2>1. PICK a \in uncounted :
            census' = [census EXCEPT !.totals = Tallied(@, a)] /\ pc' = pc
    BY <1>6 DEF Census
  <2> DEFINE totals == Tallied(census.totals, a)
  <2>2. DOMAIN totals = DOMAIN census.totals \cup {a}
    BY DEF Tallied
  <2>3. \A b \in DOMAIN census.totals : census.totals[b] = Cardinality(OfAgent(b))
    BY <1>1 DEF TotalsInv
  <2>4. \A b \in DOMAIN totals : totals[b] = Cardinality(OfAgent(b))
    BY <1>4, <2>3 DEF Tallied, TotalOf
  <2>5. IsFiniteSet(DOMAIN totals)
    BY <2>2, FS_AddElement DEF TotalsInv
  <2> HIDE DEF totals
  <2>6. census' = [totals |-> totals, total |-> census.total, why |-> census.why]
    BY <1>5, <2>1 DEF totals
  <2>7. census'.totals = totals /\ census'.why = census.why
    BY <2>6
  <2>8. pc' = "census" /\ census.why = "notTaken"
    BY <1>1, <2>1 DEF TotalsInv
  <2>9. TotalsInv'
    BY <1>3, <2>4, <2>5, <2>7, <2>8 DEF TotalsInv
  <2> QED
    BY <1>2, <2>9
<1>7. CASE reply = "ok" /\ uncounted = {}
  <2>1. census' = [census EXCEPT !.total = Cardinality(Population), !.why = "counted"]
          /\ pc' = "list"
    BY <1>7 DEF Census
  <2>2. census' = [totals |-> census.totals, total |-> Cardinality(Population),
                   why |-> "counted"]
    BY <1>5, <2>1
  <2>3. census'.totals = census.totals /\ census'.total = Cardinality(Counted)
    BY <1>4, <2>2
  <2>4. /\ IsFiniteSet(DOMAIN census.totals)
        /\ \A b \in DOMAIN census.totals : census.totals[b] = Cardinality(OfAgent(b))
    BY <1>1 DEF TotalsInv
  <2>5. TotalsInv'
    BY <1>3, <2>1, <2>3, <2>4 DEF TotalsInv
  <2> QED
    BY <1>2, <2>5
<1>8. CASE reply # "ok"
  <2>1. census' = Unavailable(reply) /\ pc' = "list" /\ reply # "counted"
    BY <1>8 DEF Census, Replies, Broken
  <2>2. DOMAIN census'.totals = {} /\ census'.why = reply
    BY <2>1, UnavailableIsTyped
  <2>3. TotalsInv'
    BY <2>1, <2>2, FS_EmptySet DEF TotalsInv
  <2> QED
    BY <1>2, <2>3
<1> QED
  BY <1>6, <1>7, <1>8

LEMMA CensusStep ==
    TypeInv /\ SourceInv /\ SampleInv /\ CensusInv /\ [Next]_vars => CensusInv'
<1> SUFFICES ASSUME TypeInv, SourceInv, SampleInv, CensusInv, [Next]_vars PROVE CensusInv'
  OBVIOUS
<1>0. churn \in Nat
  BY BoundAssumption DEF TypeInv, TypeOK
<1>still. churn = 0 => ProbeInv /\ DrainInv /\ RefsInv /\ TotalsInv /\ WholeInv
  BY DEF SampleInv, CensusInv
<1>1. ASSUME NEW reply \in Replies, HealthProbe(reply) PROVE CensusInv'
  <2>1. /\ pc = "health" /\ pc' \in {"probe", "rawCensus"} /\ refs' = refs
        /\ census' = census /\ churn' = churn
    BY <1>1 DEF HealthProbe, env
  <2>2. churn = 0 => refs = <<>>
    BY <1>still, <2>1 DEF ProbeInv
  <2>3. churn = 0 => TotalsInv'
    BY <1>still, <2>1 DEF TotalsInv
  <2> QED
    BY <2>1, <2>2, <2>3, WholeEmpty DEF CensusInv
<1>2. ASSUME NEW reply \in Replies, ParentPage(reply) PROVE CensusInv'
  <2>1. CASE reply = "ok"
    <3>1. /\ pc = "probe" /\ pc' \in {"probe", "census"} /\ refs' = refs
          /\ census' = census /\ churn' = churn
      BY <1>2, <2>1 DEF ParentPage, env
    <3>2. churn = 0 => refs = <<>>
      BY <1>still, <3>1 DEF ProbeInv
    <3>3. churn = 0 => TotalsInv'
      BY <1>still, <3>1 DEF TotalsInv
    <3> QED
      BY <3>1, <3>2, <3>3, WholeEmpty DEF CensusInv
  <2>2. CASE reply # "ok"
    <3>1. churn' = churn
      BY <1>2 DEF ParentPage, env
    <3> QED
      BY <1>2, <1>still, <2>2, <3>1, CensusVanishes, CensusBreaks DEF ParentPage
  <2> QED
    BY <2>1, <2>2
<1>3. ASSUME NEW reply \in Replies, Census(reply) PROVE CensusInv'
  <2>1. churn' = churn
    BY <1>3 DEF Census, env
  <2>2. CASE SourceVanished
    BY <1>still, <2>1, <2>2, CensusVanishes
  <2>3. CASE ~SourceVanished
    BY <1>3, <1>still, <2>1, <2>3, CensusCounts DEF CensusInv
  <2> QED
    BY <2>2, <2>3
<1>4. ASSUME NEW reply \in Replies, FetchPage(reply) PROVE CensusInv'
  <2>1. UNCHANGED <<args, env>> /\ churn' = churn /\ pc \in {"list", "peek"}
    BY <1>4 DEF FetchPage, Draining, env
  <2>2. CASE reply = "ok"
    <3>1. UNCHANGED <<pc, attempt, refs, census>>
      BY <1>4, <2>2 DEF FetchPage
    <3> QED
      BY <1>still, <2>1, <3>1, TotalsKept, WholeKept DEF CensusInv
  <2>3. CASE reply # "ok"
    <3>1. SourceVanished \/ DaemonBroke(reply) \/ (PeekEnds("unknown") /\ pc = "peek")
      BY <1>4, <2>3 DEF FetchPage, Diagnostic
    <3> QED
      BY <1>still, <2>1, <3>1, CensusVanishes, CensusBreaks, CensusPeekEnds
  <2> QED
    BY <2>2, <2>3
<1>5. CASE RawCensus
  <2>1. /\ pc = "rawCensus" /\ pc' = "list" /\ churn' = churn
        /\ UNCHANGED <<args, env, attempt, refs>>
    BY <1>5 DEF RawCensus, env
  <2>2. attempt = "raw"
    BY <2>1 DEF SourceInv
  <2>3. churn = 0 => WholeInv'
    <3>1. churn = 0 => refs = <<>>
      BY <1>still, <2>1 DEF ProbeInv
    <3> QED
      BY <2>1, <3>1, WholeEmpty
  <2>4. Counted' = Counted /\ \A a : OfAgent(a)' = OfAgent(a)
    BY <2>1, CensusIsStill
  <2>5. TotalsInv'
    <3>1. CASE rootUp
      <4>1. OfAgent(RawAgent) = Counted
        BY <2>2 DEF OfAgent, AgentIn
      <4> DEFINE n == Cardinality({f \in files : ~args.exclude \/ f \notin Children})
      <4>2. n = Cardinality(Counted)
        BY <2>2 DEF Counted
      <4>3. census' = [totals |-> [a \in {RawAgent} |-> n], total |-> n, why |-> "counted"]
        BY <1>5, <3>1 DEF RawCensus
      <4> HIDE DEF n
      <4>4. /\ DOMAIN census'.totals = {RawAgent} /\ census'.total = n
            /\ census'.totals[RawAgent] = n
        BY <4>3
      <4>5. IsFiniteSet({RawAgent})
        BY FS_Singleton
      <4> QED
        BY <2>1, <2>4, <4>1, <4>2, <4>4, <4>5 DEF TotalsInv
    <3>2. CASE ~rootUp
      <4>1. DOMAIN census'.totals = {} /\ census'.why = "missingRoot"
        BY <1>5, <3>2, UnavailableIsTyped DEF RawCensus
      <4> QED
        BY <2>1, <4>1, FS_EmptySet DEF TotalsInv
    <3> QED
      BY <3>1, <3>2
  <2> QED
    BY <2>1, <2>3, <2>5 DEF CensusInv
<1>6. ASSUME NEW f \in Sessions, RawCensusRaced(f) PROVE CensusInv'
  BY <1>0, <1>6 DEF RawCensusRaced, CensusInv
<1>7. CASE WalkRoot
  <2>1. UNCHANGED <<args, env>> /\ churn' = churn
    BY <1>7 DEF WalkRoot, env
  <2>2. CASE rootUp
    <3>1. UNCHANGED <<pc, attempt, refs, census>>
      BY <1>7, <2>2 DEF WalkRoot
    <3>2. pc = "list"
      BY <1>7 DEF WalkRoot
    <3> QED
      BY <1>still, <2>1, <3>1, <3>2, TotalsKept, WholeKept DEF CensusInv
  <2>3. CASE ~rootUp
    BY <1>7, <1>still, <2>1, <2>3, CensusVanishes DEF WalkRoot
  <2> QED
    BY <2>2, <2>3
<1>8. CASE TakeRef
  <2>1. UNCHANGED <<args, env>> /\ churn' = churn /\ pc = "list"
    BY <1>8 DEF TakeRef, env
  <2>2. CASE StatFails
    BY <1>8, <1>still, <2>1, <2>2, CensusVanishes DEF TakeRef
  <2>3. CASE ~StatFails
    <3> SUFFICES ASSUME churn = 0 PROVE TotalsInv' /\ WholeInv'
      BY <2>1 DEF CensusInv
    <3> DEFINE r == Ref(NextRow)
    <3>1. /\ refs' = Append(refs, r) /\ UNCHANGED <<attempt, census>>
          /\ pc' = IF LimitReached(Len(refs) + 1) THEN "peek" ELSE "list"
      BY <1>8, <2>3 DEF TakeRef
    <3>2. TotalsInv'
      BY <1>still, <2>1, <3>1, TotalsKept
    <3>3. pc' = "peek" => args.limit # NoLimit
      BY <3>1 DEF LimitReached
    <3>4. refs \in Seq(RefRecord) /\ r \in RefRecord
      BY <1>8, NextRowIsServed DEF TakeRef, TypeInv, TypeOK
    <3>5. r.agent = AgentIn(r.id)
      BY DEF Ref, AgentIn
    <3> HIDE DEF r
    <3>6. \A i \in DOMAIN refs' : (i \in DOMAIN refs /\ refs'[i] = refs[i]) \/ refs'[i] = r
      BY <3>1, <3>4
    <3>7. \A i \in DOMAIN refs : refs[i].agent = AgentIn(refs[i].id)
      BY <1>still DEF WholeInv
    <3>8. \A i \in DOMAIN refs' : refs'[i].agent = AgentIn(refs'[i].id)
      BY <3>5, <3>6, <3>7
    <3>9. (\A i \in DOMAIN refs : refs[i].agent = AgentIn(refs[i].id))'
      BY <3>1, <3>8 DEF AgentIn
    <3> QED
      BY <2>1, <3>1, <3>2, <3>3, <3>9 DEF WholeInv
  <2> QED
    BY <2>2, <2>3
<1>9. CASE PeekRef
  <2>1. UNCHANGED <<args, env>> /\ churn' = churn /\ pc = "peek"
    BY <1>9 DEF PeekRef, env
  <2>2. PeekEnds("unknown") \/ PeekEnds("yes") \/ UNCHANGED <<pc, attempt, refs, census>>
    BY <1>9 DEF PeekRef
  <2>3. CASE UNCHANGED <<pc, attempt, refs, census>>
    BY <1>still, <2>1, <2>3, TotalsKept, WholeKept DEF CensusInv
  <2> QED
    BY <2>1, <2>2, <2>3, CensusPeekEnds
<1>10. CASE Exhausted
  <2> SUFFICES ASSUME churn = 0 PROVE TotalsInv' /\ WholeInv'
    BY <1>10 DEF Exhausted, env, CensusInv
  <2>1. /\ UNCHANGED <<args, env, attempt, refs, census>> /\ pc' = "resolved"
        /\ pc \in {"list", "peek"} /\ buf = {} /\ cursor = 0
    BY <1>10 DEF Exhausted, Draining, env
  <2>2. TotalsInv'
    BY <1>still, <2>1, TotalsKept
  <2>3. CASE pc = "peek"
    BY <1>still, <2>1, <2>2, <2>3, WholeKept
  <2>4. CASE pc = "list"
    <3>1. Ids = {s \in Listed : s >= 0}
      BY <1>still, <2>1, <2>4 DEF DrainInv, Drained
    <3>2. Ids = Listed
      BY <3>1, NothingAboveTop, TopIsAbove
    <3>3. Ids' = Ids /\ Listed' = Listed
      BY <2>1, ListingIsStill DEF Ids
    <3>4. \A s : AgentIn(s)' = AgentIn(s)
      BY <2>1 DEF AgentIn
    <3>5. WholeInv'
      BY <1>still, <2>1, <3>2, <3>3, <3>4 DEF WholeInv
    <3> QED
      BY <2>2, <3>5
  <2> QED
    BY <2>1, <2>3, <2>4
<1>11. CASE Churning
  BY <1>0, <1>11 DEF Churning, CensusInv
<1>12. CASE UNCHANGED vars
  <2>1. UNCHANGED <<args, env, attempt, pc, refs, census, churn>>
    BY <1>12 DEF vars, env, run
  <2> QED
    BY <1>still, <2>1, TotalsKept, WholeKept DEF CensusInv
<1> QED
  BY <1>1, <1>2, <1>3, <1>4, <1>5, <1>6, <1>7, <1>8, <1>9, <1>10, <1>11, <1>12
     DEF Next, RunStep, DaemonStep, EnvStep, Returned, SessionAppears, SessionPruned,
         TranscriptDeleted, TranscriptAppears, RootRemoved

\* Any part of the sample is finite.
LEMMA RefsAreCounted ==
    ASSUME TypeInv, NEW I \in SUBSET DOMAIN refs
    PROVE  IsFiniteSet(I) /\ Cardinality(I) \in Nat
<1>1. DOMAIN refs = 1 .. Len(refs) /\ Len(refs) \in Nat
  BY DEF TypeInv, TypeOK
<1>2. IsFiniteSet(1 .. Len(refs))
  BY <1>1, FS_Interval
<1> QED
  BY <1>1, <1>2, FS_Subset, FS_CardinalityType

\* Refs are counted by their sessions.
LEMMA SessionsOfRefs ==
    ASSUME TypeInv, RefsInv, NEW I \in SUBSET DOMAIN refs
    PROVE  /\ IsFiniteSet(I) /\ Cardinality(I) \in Nat
           /\ Cardinality({refs[i].id : i \in I}) = Cardinality(I)
<1>1. IsFiniteSet(I) /\ Cardinality(I) \in Nat
  BY RefsAreCounted
<1> DEFINE f == [i \in I |-> refs[i].id]
           J == {refs[i].id : i \in I}
<1>2. f \in [I -> J] /\ \A x \in J : \E i \in I : f[i] = x
  OBVIOUS
<1>3. \A i, j \in I : f[i] = f[j] => i = j
  BY DEF RefsInv
<1> HIDE DEF f, J
<1>4. ExistsBijection(I, J)
  BY <1>2, <1>3, Fun_IsBij DEF ExistsBijection
<1>5. Cardinality(J) = Cardinality(I)
  BY <1>1, <1>4, FS_Bijection
<1> QED
  BY <1>1, <1>5 DEF J

\* The sampled sessions are counted ones; of an unlimited sample they are all.
SampledIds == {refs[i].id : i \in Sampled}

LEMMA SampledSessions ==
    ASSUME TypeInv, RefsInv
    PROVE  /\ SampledIds \subseteq Counted
           /\ SampledIds = Ids \cap Counted
           /\ Counted \subseteq Listed
<1>1. Counted = {s \in Listed : ~(args.exclude /\ s \in Children)}
  BY DEF Counted, Listed, Population, Listing
<1>2. \A i \in DOMAIN refs : refs[i].id \in Listed
  BY DEF RefsInv, Ids
<1>3. \A i \in DOMAIN refs : i \in Sampled <=> refs[i].id \in Counted
  BY <1>1, <1>2 DEF Sampled, Counts, RefsInv
<1> QED
  BY <1>1, <1>3 DEF SampledIds, Sampled, Ids

\* The residual is the sessions whose agents have no total.
LEMMA ResidualIs ==
    ASSUME TypeInv, TotalsInv, pc \in {"list", "peek", "resolved"}, census.why = "counted"
    PROVE  LET strange == {s \in Counted : AgentIn(s) \notin DOMAIN census.totals}
           IN  /\ IsFiniteSet(strange)
               /\ census.total - SumFunction(census.totals) = Cardinality(strange)
<1> DEFINE K == DOMAIN census.totals
           g == [s \in Counted |-> AgentIn(s)]
           known == {s \in Counted : AgentIn(s) \in K}
           strange == {s \in Counted : AgentIn(s) \notin K}
<1>1. IsFiniteSet(K) /\ IsFiniteSet(Counted)
  BY CountedSessions DEF TotalsInv
<1>2. \A a : {s \in Counted : g[s] = a} = OfAgent(a)
  BY DEF OfAgent
<1>3. \A a \in K : census.totals[a] = Cardinality({s \in Counted : g[s] = a})
  BY <1>2 DEF TotalsInv
<1>4. {s \in Counted : g[s] \in K} = known
  OBVIOUS
<1>5. SumFunction(census.totals) = Cardinality(known)
  <2> HIDE DEF g, known
  <2>1. DOMAIN census.totals = K
    OBVIOUS
  <2> HIDE DEF K
  <2>2. SumFunction(census.totals) = Cardinality({s \in Counted : g[s] \in K})
    BY <1>1, <1>3, <2>1, SumOfCounts
  <2> QED
    BY <1>4, <2>2
<1>6. known = Counted \ strange /\ strange \subseteq Counted
  OBVIOUS
<1> HIDE DEF known, strange
<1>7. IsFiniteSet(strange) /\ IsFiniteSet(known)
  BY <1>1, <1>6, FS_Subset
<1>8. Cardinality(Counted) = Cardinality(known) + Cardinality(strange)
  <2>1. Counted = known \cup strange /\ known \cap strange = {}
    BY <1>6
  <2>2. Cardinality(known \cup strange)
          = Cardinality(known) + Cardinality(strange) - Cardinality(known \cap strange)
    BY <1>7, FS_Union
  <2>3. Cardinality(known \cap strange) = 0
    BY <2>1, FS_EmptySet
  <2>4. Cardinality(known) \in Nat /\ Cardinality(strange) \in Nat
    BY <1>7, FS_CardinalityType
  <2> QED
    BY <2>1, <2>2, <2>3, <2>4
<1>9. Cardinality(known) \in Nat /\ Cardinality(strange) \in Nat
  BY <1>7, FS_CardinalityType
<1>10. census.total = Cardinality(Counted)
  BY DEF TotalsInv
<1>11. census.total - SumFunction(census.totals) = Cardinality(strange)
  BY <1>5, <1>8, <1>9, <1>10
<1> QED
  BY <1>7, <1>11 DEF strange

LEMMA CensusMatches == TypeInv /\ SampleInv /\ CensusInv => CensusMatchesSample
<1> SUFFICES ASSUME TypeInv, SampleInv, CensusInv, Resolved, churn = 0, census.why = "counted"
             PROVE  CensusMatchesSample
  BY DEF CensusMatchesSample
<1> DEFINE Of(a) == {i \in Sampled : refs[i].agent = a}
           known == DOMAIN census.totals
           strangers == {i \in Sampled : refs[i].agent \notin known}
           strange == {s \in Counted : AgentIn(s) \notin known}
           residual == census.total - SumFunction(census.totals)
<1>1. RefsInv /\ TotalsInv /\ WholeInv /\ pc = "resolved"
  BY DEF SampleInv, CensusInv, Resolved
<1>2. IsFiniteSet(strange) /\ residual = Cardinality(strange)
  BY <1>1, ResidualIs
<1>3. SampledIds \subseteq Counted /\ (args.limit = NoLimit => SampledIds = Counted)
  BY <1>1, SampledSessions DEF WholeInv
<1>4. \A i \in Sampled : i \in DOMAIN refs /\ refs[i].agent = AgentIn(refs[i].id)
  BY <1>1 DEF WholeInv, Sampled
<1>5. ASSUME NEW a \in known
      PROVE  /\ Cardinality(Of(a)) <= census.totals[a]
             /\ args.limit = NoLimit => Cardinality(Of(a)) = census.totals[a]
  <2> DEFINE J == {refs[i].id : i \in Of(a)}
  <2>1. Of(a) \in SUBSET DOMAIN refs
    BY <1>4
  <2>2. Cardinality(J) = Cardinality(Of(a))
    BY <1>1, <2>1, SessionsOfRefs
  <2>3. J = {s \in SampledIds : AgentIn(s) = a}
    BY <1>4 DEF SampledIds
  <2>4. J \subseteq OfAgent(a) /\ (args.limit = NoLimit => J = OfAgent(a))
    BY <1>3, <2>3 DEF OfAgent
  <2>5. census.totals[a] = Cardinality(OfAgent(a))
    BY <1>1 DEF TotalsInv
  <2>6. IsFiniteSet(OfAgent(a))
    BY CountedSessions, FS_Subset DEF OfAgent
  <2> HIDE DEF J
  <2>7. Cardinality(J) <= Cardinality(OfAgent(a))
    BY <2>4, <2>6, FS_Subset
  <2> QED
    BY <2>2, <2>4, <2>5, <2>7
<1>6. /\ Cardinality(strangers) <= residual
      /\ args.limit = NoLimit => Cardinality(strangers) = residual
  <2> DEFINE J == {refs[i].id : i \in strangers}
  <2>1. strangers \in SUBSET DOMAIN refs
    BY <1>4
  <2>2. Cardinality(J) = Cardinality(strangers)
    BY <1>1, <2>1, SessionsOfRefs
  <2>3. J = {s \in SampledIds : AgentIn(s) \notin known}
    BY <1>4 DEF SampledIds
  <2>4. J \subseteq strange /\ (args.limit = NoLimit => J = strange)
    BY <1>3, <2>3
  <2> HIDE DEF J, strange
  <2>5. Cardinality(J) <= Cardinality(strange)
    BY <1>2, <2>4, FS_Subset
  <2> QED
    BY <1>2, <2>2, <2>4, <2>5
<1> QED
  BY <1>5, <1>6 DEF CensusMatchesSample

-----------------------------------------------------------------------------
\* While the archive holds still, what the census counts is what the sample is
\* drawn from: no agent is sampled above its total, an unlimited sample reaches
\* every total exactly, and the sessions of agents the parent probe cannot see
\* are the residual and nothing else (TB-33).
THEOREM CensusDescribesSample == Spec => []CensusMatchesSample
<1> DEFINE Inv == TypeInv /\ SourceInv /\ SampleInv /\ CensusInv
<1>1. Init => Inv
  BY TypeInit, SourceInit, SampleInit, CensusInit
<1>2. Inv /\ [Next]_vars => Inv'
  BY TypeStep, SourceStep, SampleStep, CensusStep
<1>3. Inv => CensusMatchesSample
  BY CensusMatches
<1> QED
  BY <1>1, <1>2, <1>3, PTL DEF Spec

-----------------------------------------------------------------------------
(* The skips of discovery, and what the limit probe found                  *)

\* Only `auto` records a skip, and a skip leaves a raw listing or no census.
SkipInv ==
    /\ args.source # "auto" => skips = <<>>
    /\ skips # <<>> => attempt = "raw" \/ (pc = "resolved" /\ census.why # "counted")
    /\ pc \in {"health", "probe", "census"} => attempt = "agentsview"
    /\ attempt = "raw" /\ pc \in {"list", "peek", "resolved"} =>
           DOMAIN census.totals \subseteq {RawAgent}
    /\ Running => truncated = "no"
    /\ pc = "peek" => refs # <<>>

\* A session the report leaves aside under `--exclude-subagents`.
Dropped(s) == args.exclude /\ s \in Children

\* What the probe has looked at and not stopped on is dropped; it stops on a
\* session that was left out.
PeekInv ==
    churn = 0 =>
        /\ pc = "peek" =>
               /\ \A s \in Ids : s >= cursor
               /\ Ids \cap buf = {} /\ buf \subseteq Listed
               /\ \A s \in Listed : s >= cursor /\ s \notin Ids \cup buf => Dropped(s)
        /\ pc = "resolved" /\ census.why = "counted" /\ truncated = "no" =>
               \A s \in Listed \ Ids : Dropped(s)
        /\ truncated = "yes" => \E s \in Listed \ Ids : ~Dropped(s)
        /\ pc = "resolved" /\ refs = <<>> => skips # <<>> \/ Listed = {}

LEMMA SkipInit == Init => SkipInv /\ PeekInv
<1> SUFFICES ASSUME Init PROVE SkipInv /\ PeekInv
  OBVIOUS
<1>1. args.source \in {"raw", "agentsview", "auto"}
  BY CommandLineAssumption DEF Init
<1>2. /\ pc \in {"health", "probe", "rawCensus"}
      /\ pc \in {"health", "probe"} => attempt = "agentsview"
  BY <1>1 DEF Init, FirstCall
<1> QED
  BY <1>2 DEF Init, SkipInv, PeekInv

LEMMA SkipVanishes ==
    ASSUME SkipInv, Running, SourceVanished, UNCHANGED args
    PROVE  SkipInv'
<1>1. CASE args.source = "auto" /\ ~fellBack
  <2>1. pc' = "resolved" /\ census' = Unavailable("vanished") /\ truncated' = truncated
    BY <1>1 DEF SourceVanished
  <2>2. DOMAIN census'.totals = {} /\ census'.why = "vanished"
    BY <2>1, UnavailableIsTyped
  <2> QED
    BY <1>1, <2>1, <2>2 DEF SkipInv, Running
<1>2. CASE ~(args.source = "auto" /\ ~fellBack)
  <2>1. pc' = "fatal" /\ UNCHANGED <<skips, attempt, truncated>>
    BY <1>2 DEF SourceVanished
  <2> QED
    BY <2>1 DEF SkipInv, Running
<1> QED
  BY <1>1, <1>2

LEMMA SkipBreaks ==
    ASSUME SkipInv, Running, NEW reply, DaemonBroke(reply), UNCHANGED args
    PROVE  SkipInv'
<1>1. CASE args.source = "auto"
  <2>1. pc' = "rawCensus" /\ attempt' = "raw" /\ truncated' = truncated
    BY <1>1 DEF DaemonBroke
  <2> QED
    BY <1>1, <2>1 DEF SkipInv, Running
<1>2. CASE args.source # "auto"
  <2>1. pc' = "fatal" /\ UNCHANGED <<skips, attempt, truncated>>
    BY <1>2 DEF DaemonBroke
  <2> QED
    BY <1>2, <2>1 DEF SkipInv, Running
<1> QED
  BY <1>1, <1>2

\* A step that records no skip.
LEMMA SkipKept ==
    ASSUME SkipInv, Running, UNCHANGED <<args, attempt, skips, truncated>>,
           pc' \in {"health", "probe", "census"} => attempt = "agentsview",
           attempt = "raw" /\ pc' \in {"list", "peek", "resolved"} =>
               DOMAIN census'.totals \subseteq {RawAgent},
           pc' = "peek" => refs' # <<>>
    PROVE  SkipInv'
BY DEF SkipInv, Running

LEMMA SkipPeekEnds ==
    ASSUME SkipInv, pc = "peek", NEW answer, PeekEnds(answer), UNCHANGED args
    PROVE  SkipInv'
BY DEF SkipInv, PeekEnds, Running

LEMMA SkipStep == TypeInv /\ SourceInv /\ SkipInv /\ [Next]_vars => SkipInv'
<1> SUFFICES ASSUME TypeInv, SourceInv, SkipInv, [Next]_vars PROVE SkipInv'
  OBVIOUS
<1>1. ASSUME NEW reply \in Replies, HealthProbe(reply) PROVE SkipInv'
  BY <1>1 DEF HealthProbe, SkipInv, Running
<1>2. ASSUME NEW reply \in Replies, ParentPage(reply) PROVE SkipInv'
  <2>1. Running /\ attempt = "agentsview"
    BY <1>2 DEF ParentPage, SkipInv, Running
  <2>2. CASE reply = "ok"
    BY <1>2, <2>1, <2>2, SkipKept DEF ParentPage
  <2>3. CASE reply # "ok"
    BY <1>2, <2>1, <2>3, SkipVanishes, SkipBreaks DEF ParentPage
  <2> QED
    BY <2>2, <2>3
<1>3. ASSUME NEW reply \in Replies, Census(reply) PROVE SkipInv'
  <2>1. Running /\ attempt = "agentsview"
    BY <1>3 DEF Census, SkipInv, Running
  <2>2. CASE SourceVanished
    BY <1>3, <2>1, <2>2, SkipVanishes DEF Census
  <2>3. CASE ~SourceVanished
    <3>1. UNCHANGED <<args, attempt, skips, truncated>> /\ pc' \in {"census", "list"}
      BY <1>3, <2>3 DEF Census
    <3> QED
      BY <2>1, <3>1, SkipKept
  <2> QED
    BY <2>2, <2>3
<1>4. ASSUME NEW reply \in Replies, FetchPage(reply) PROVE SkipInv'
  <2>1. Running /\ attempt = "agentsview"
    BY <1>4 DEF FetchPage, Draining, Running
  <2>2. CASE reply = "ok"
    <3>1. UNCHANGED <<args, pc, attempt, skips, truncated, refs>>
      BY <1>4, <2>2 DEF FetchPage
    <3> QED
      BY <2>1, <3>1, SkipKept DEF SkipInv
  <2>3. CASE reply # "ok"
    <3>1. UNCHANGED args
            /\ (SourceVanished \/ DaemonBroke(reply) \/ (PeekEnds("unknown") /\ pc = "peek"))
      BY <1>4, <2>3 DEF FetchPage, Diagnostic
    <3> QED
      BY <2>1, <3>1, SkipVanishes, SkipBreaks, SkipPeekEnds
  <2> QED
    BY <2>2, <2>3
<1>5. CASE RawCensus
  <2>1. /\ pc = "rawCensus" /\ pc' = "list" /\ Running
        /\ UNCHANGED <<args, attempt, skips, truncated>>
    BY <1>5 DEF RawCensus, Running
  <2>2. DOMAIN census'.totals \subseteq {RawAgent}
    BY <1>5, UnavailableIsTyped DEF RawCensus
  <2> QED
    BY <2>1, <2>2, SkipKept
<1>6. ASSUME NEW f \in Sessions, RawCensusRaced(f) PROVE SkipInv'
  <2>1. /\ pc = "rawCensus" /\ pc' = "list" /\ Running
        /\ UNCHANGED <<args, attempt, skips, truncated>>
    BY <1>6 DEF RawCensusRaced, Running
  <2>2. DOMAIN census'.totals = {}
    BY <1>6, UnavailableIsTyped DEF RawCensusRaced
  <2> QED
    BY <2>1, <2>2, SkipKept
<1>7. CASE WalkRoot
  <2>1. Running
    BY <1>7 DEF WalkRoot, Running
  <2>2. CASE rootUp
    <3>1. UNCHANGED <<args, pc, attempt, skips, truncated, refs, census>>
      BY <1>7, <2>2 DEF WalkRoot
    <3> QED
      BY <2>1, <3>1, SkipKept DEF SkipInv
  <2>3. CASE ~rootUp
    BY <1>7, <2>1, <2>3, SkipVanishes DEF WalkRoot
  <2> QED
    BY <2>2, <2>3
<1>8. CASE TakeRef
  <2>1. Running /\ pc = "list"
    BY <1>8 DEF TakeRef, Running
  <2>2. CASE StatFails
    BY <1>8, <2>1, <2>2, SkipVanishes DEF TakeRef
  <2>3. CASE ~StatFails
    <3>1. /\ UNCHANGED <<args, attempt, skips, truncated, census>> /\ pc' \in {"peek", "list"}
          /\ refs' = Append(refs, Ref(NextRow))
      BY <1>8, <2>3 DEF TakeRef
    <3>2. refs' # <<>>
      <4>1. refs \in Seq(RefRecord)
        BY DEF TypeInv, TypeOK
      <4> QED
        BY <3>1, <4>1
    <3> QED
      BY <2>1, <3>1, <3>2, SkipKept DEF SkipInv
  <2> QED
    BY <2>2, <2>3
<1>9. CASE PeekRef
  <2>1. pc = "peek" /\ Running /\ UNCHANGED args
    BY <1>9 DEF PeekRef, Running
  <2>2. \/ PeekEnds("unknown") \/ PeekEnds("yes")
        \/ UNCHANGED <<pc, attempt, skips, truncated, refs, census>>
    BY <1>9 DEF PeekRef
  <2>3. CASE UNCHANGED <<pc, attempt, skips, truncated, refs, census>>
    BY <2>1, <2>3, SkipKept DEF SkipInv
  <2> QED
    BY <2>1, <2>2, <2>3, SkipPeekEnds
<1>10. CASE Exhausted
  <2>1. /\ pc \in {"list", "peek"} /\ Running /\ pc' = "resolved"
        /\ UNCHANGED <<args, attempt, skips, truncated, refs, census>>
    BY <1>10 DEF Exhausted, Draining, Running
  <2> QED
    BY <2>1, SkipKept DEF SkipInv
<1>11. CASE Churning
  BY <1>11 DEF Churning, run, SkipInv, Running
<1>12. CASE UNCHANGED vars
  BY <1>12 DEF vars, run, SkipInv, Running
<1> QED
  BY <1>1, <1>2, <1>3, <1>4, <1>5, <1>6, <1>7, <1>8, <1>9, <1>10, <1>11, <1>12
     DEF Next, RunStep, DaemonStep, EnvStep, Returned, SessionAppears, SessionPruned,
         TranscriptDeleted, TranscriptAppears, RootRemoved

\* While refs are still to come the probe has found nothing.
LEMMA PeekIdle ==
    ASSUME pc' \notin {"peek", "resolved"}, truncated' = "no"
    PROVE  PeekInv'
BY DEF PeekInv

LEMMA PeekVanishes ==
    ASSUME TypeInv, SkipInv, Running, SourceVanished
    PROVE  PeekInv'
<1>1. truncated' = "no" /\ refs' = <<>>
  BY DEF SourceVanished, SurvivingRefs, SkipInv
<1>2. CASE args.source = "auto" /\ ~fellBack
  <2>1. /\ skips' = Append(skips, "missing_source")
        /\ census' = Unavailable("vanished") /\ pc' = "resolved"
    BY <1>2 DEF SourceVanished, VanishedSkips
  <2>2. skips \in Seq({"missing_source", "export_failed", "export_timeout"})
    BY DEF TypeInv, TypeOK
  <2>3. skips' # <<>>
    BY <2>1, <2>2
  <2>4. census'.why = "vanished"
    BY <2>1, UnavailableIsTyped
  <2> QED
    BY <1>1, <2>1, <2>3, <2>4 DEF PeekInv
<1>3. CASE ~(args.source = "auto" /\ ~fellBack)
  <2>1. pc' = "fatal"
    BY <1>3 DEF SourceVanished
  <2> QED
    BY <1>1, <2>1, PeekIdle
<1> QED
  BY <1>2, <1>3

LEMMA PeekBreaks ==
    ASSUME SkipInv, Running, NEW reply, DaemonBroke(reply)
    PROVE  PeekInv'
<1>1. truncated' = "no" /\ pc' \in {"fatal", "rawCensus"}
  BY DEF DaemonBroke, SkipInv
<1> QED
  BY <1>1, PeekIdle

LEMMA PeekFails ==
    ASSUME SkipInv, pc = "peek", PeekEnds("unknown")
    PROVE  PeekInv'
BY DEF SkipInv, PeekEnds, PeekInv

\* The probe reads one row, or one page, further down the listing.
LEMMA PeekFetches ==
    ASSUME TypeInv, PeekInv, pc = "peek", churn = 0, attempt = "agentsview", buf = {},
           buf' = Page(Listing(TRUE)), cursor' = NextCursor(Listing(TRUE)),
           UNCHANGED <<args, env, pc, attempt, refs, truncated>>, truncated = "no"
    PROVE  PeekInv'
<1> DEFINE L == Listing(TRUE)
           next == NextCursor(L)
<1>1. /\ L \in SUBSET Sessions /\ cursor \in 0 .. Top
      /\ next \in 0 .. Top /\ next <= cursor
      /\ Page(L) = {s \in L : next <= s /\ s < cursor}
  BY ListingsAreSessions, PageIs DEF TypeInv, TypeOK
<1>2. Listed = L /\ Listed' = Listed /\ Ids' = Ids
  BY ListingIsStill DEF Listed, Ids
<1>3. /\ \A s \in Ids : s >= cursor
      /\ \A s \in L : s >= cursor /\ s \notin Ids => Dropped(s)
  BY <1>2 DEF PeekInv
<1>4. Ids \in SUBSET Sessions
  BY IdsAreSessions
<1>5. buf' = Page(L) /\ cursor' = next
  OBVIOUS
<1> HIDE DEF L, next
<1>6. /\ cursor \in Nat /\ next \in Nat
      /\ \A s \in L : s \in Nat
      /\ \A s \in Ids : s \in Nat
  BY <1>1, <1>4, TopIsAbove
<1>7. \A s \in Ids : s >= next
  BY <1>1, <1>3, <1>6
<1>8. Ids \cap Page(L) = {} /\ Page(L) \subseteq L
  BY <1>1, <1>3, <1>6
<1>9. \A s \in L : s >= next /\ s \notin Ids \cup Page(L) => Dropped(s)
  <2> SUFFICES ASSUME NEW s \in L, s >= next, s \notin Ids, s \notin Page(L)
               PROVE  Dropped(s)
    OBVIOUS
  <2>1. s >= cursor
    BY <1>1, <1>6
  <2> QED
    BY <1>3, <2>1
<1>10. \A s : Dropped(s)' = Dropped(s)
  BY DEF Dropped
<1> QED
  BY <1>2, <1>5, <1>7, <1>8, <1>9, <1>10 DEF PeekInv

LEMMA PeekLooks ==
    ASSUME TypeInv, ProbeInv, RefsInv, SkipInv, PeekInv, PeekRef, churn = 0
    PROVE  PeekInv'
<1>1. /\ pc = "peek" /\ buf # {} /\ UNCHANGED <<args, env>> /\ refs # <<>>
      /\ truncated = "no"
  BY DEF PeekRef, SkipInv, Running
<1>2. NextRow \in buf /\ NextRow \in Listed /\ NextRow \notin Ids
  BY <1>1, NextRowIsServed DEF PeekInv
<1>3. Ref(NextRow).sub = (NextRow \in Children)
  BY <1>1, <1>2, RefIsMarked DEF TypeInv, TypeOK
<1>4. Counts(Ref(NextRow)) <=> ~Dropped(NextRow)
  BY <1>3 DEF Counts, Dropped
<1>5. \A s : Dropped(s)' = Dropped(s)
  BY <1>1 DEF Dropped
<1>6. CASE PeekEnds("unknown")
  BY <1>1, <1>6, PeekFails
<1>7. CASE ~StatFails /\ Counts(Ref(NextRow))
  <2>1. PeekEnds("yes")
    BY <1>7 DEF PeekRef
  <2>2. pc' = "resolved" /\ UNCHANGED <<attempt, refs>> /\ truncated' = "yes"
    BY <2>1 DEF PeekEnds
  <2>3. Listed' = Listed /\ Ids' = Ids
    BY <1>1, <2>2, ListingIsStill DEF Ids
  <2>4. \E s \in Listed \ Ids : ~Dropped(s)
    BY <1>2, <1>4, <1>7
  <2> QED
    BY <1>1, <1>5, <2>2, <2>3, <2>4 DEF PeekInv
<1>8. CASE ~StatFails /\ ~Counts(Ref(NextRow))
  <2>1. /\ buf' = buf \ {NextRow}
        /\ UNCHANGED <<pc, attempt, cursor, refs, truncated>>
    BY <1>8 DEF PeekRef
  <2>2. Listed' = Listed /\ Ids' = Ids
    BY <1>1, <2>1, ListingIsStill DEF Ids
  <2>3. Dropped(NextRow)
    BY <1>4, <1>8
  <2>4. /\ \A s \in Ids : s >= cursor
        /\ Ids \cap buf' = {} /\ buf' \subseteq Listed
        /\ \A s \in Listed : s >= cursor /\ s \notin Ids \cup buf' => Dropped(s)
    BY <1>1, <2>1, <2>3 DEF PeekInv
  <2> QED
    BY <1>1, <1>5, <2>1, <2>2, <2>4 DEF PeekInv
<1> QED
  BY <1>6, <1>7, <1>8 DEF PeekRef

LEMMA PeekExhausted ==
    ASSUME TypeInv, DrainInv, SkipInv, PeekInv, Exhausted, churn = 0
    PROVE  PeekInv'
<1>1. /\ UNCHANGED <<args, env, attempt, refs, truncated>> /\ pc' = "resolved"
      /\ pc \in {"list", "peek"} /\ buf = {} /\ cursor = 0 /\ truncated = "no"
  BY DEF Exhausted, Draining, SkipInv, Running
<1>2. Listed' = Listed /\ Ids' = Ids
  BY <1>1, ListingIsStill DEF Ids
<1>3. \A s : Dropped(s)' = Dropped(s)
  BY <1>1 DEF Dropped
<1>4. \A s \in Listed : s >= 0
  BY NothingAboveTop, TopIsAbove
<1>5. CASE pc = "list"
  <2>1. Ids = Listed
    BY <1>1, <1>4, <1>5 DEF DrainInv, Drained
  <2>2. refs = <<>> => Listed = {}
    BY <2>1, NoRefsNoIds
  <2> QED
    BY <1>1, <1>2, <2>1, <2>2 DEF PeekInv
<1>6. CASE pc = "peek"
  <2>1. \A s \in Listed \ Ids : Dropped(s)
    BY <1>1, <1>4, <1>6 DEF PeekInv
  <2>2. refs # <<>>
    BY <1>6 DEF SkipInv
  <2> QED
    BY <1>1, <1>2, <1>3, <2>1, <2>2 DEF PeekInv
<1> QED
  BY <1>1, <1>5, <1>6

LEMMA PeekStep ==
    TypeInv /\ SampleInv /\ SkipInv /\ PeekInv /\ [Next]_vars => PeekInv'
<1> SUFFICES ASSUME TypeInv, SampleInv, SkipInv, PeekInv, [Next]_vars, churn' = 0
             PROVE  PeekInv'
  BY DEF PeekInv
<1>0. churn \in Nat
  BY BoundAssumption DEF TypeInv, TypeOK
<1>still. churn = 0 => ProbeInv /\ DrainInv /\ RefsInv
  BY DEF SampleInv
<1>1. ASSUME NEW reply \in Replies, HealthProbe(reply) PROVE PeekInv'
  <2>1. Running /\ pc' \in {"probe", "rawCensus"} /\ truncated' = truncated
    BY <1>1 DEF HealthProbe, Running
  <2> QED
    BY <2>1, PeekIdle DEF SkipInv
<1>2. ASSUME NEW reply \in Replies, ParentPage(reply) PROVE PeekInv'
  <2>1. Running
    BY <1>2 DEF ParentPage, Running
  <2>2. CASE reply = "ok"
    <3>1. pc' \in {"probe", "census"} /\ truncated' = truncated
      BY <1>2, <2>2 DEF ParentPage
    <3> QED
      BY <2>1, <3>1, PeekIdle DEF SkipInv
  <2>3. CASE reply # "ok"
    BY <1>2, <2>1, <2>3, PeekVanishes, PeekBreaks DEF ParentPage
  <2> QED
    BY <2>2, <2>3
<1>3. ASSUME NEW reply \in Replies, Census(reply) PROVE PeekInv'
  <2>1. Running
    BY <1>3 DEF Census, Running
  <2>2. CASE SourceVanished
    BY <2>1, <2>2, PeekVanishes
  <2>3. CASE ~SourceVanished
    <3>1. pc' \in {"census", "list"} /\ truncated' = truncated
      BY <1>3, <2>3 DEF Census
    <3> QED
      BY <2>1, <3>1, PeekIdle DEF SkipInv
  <2> QED
    BY <2>2, <2>3
<1>4. ASSUME NEW reply \in Replies, FetchPage(reply) PROVE PeekInv'
  <2>1. /\ Running /\ pc \in {"list", "peek"} /\ churn = 0 /\ attempt = "agentsview"
        /\ buf = {} /\ UNCHANGED <<args, env>>
    BY <1>4 DEF FetchPage, Draining, Running, env
  <2>2. truncated = "no"
    BY <2>1 DEF SkipInv
  <2>3. CASE reply = "ok"
    <3>1. /\ buf' = Page(Listing(TRUE)) /\ cursor' = NextCursor(Listing(TRUE))
          /\ UNCHANGED <<pc, attempt, refs, truncated>>
      BY <1>4, <2>3 DEF FetchPage
    <3> QED
      BY <2>1, <2>2, <3>1, PeekFetches, PeekIdle
  <2>4. CASE reply # "ok"
    <3>1. SourceVanished \/ DaemonBroke(reply) \/ (PeekEnds("unknown") /\ pc = "peek")
      BY <1>4, <2>4 DEF FetchPage, Diagnostic
    <3> QED
      BY <2>1, <3>1, PeekVanishes, PeekBreaks, PeekFails
  <2> QED
    BY <2>3, <2>4
<1>5. CASE RawCensus
  <2>1. Running /\ pc' = "list" /\ truncated' = truncated
    BY <1>5 DEF RawCensus, Running
  <2> QED
    BY <2>1, PeekIdle DEF SkipInv
<1>6. ASSUME NEW f \in Sessions, RawCensusRaced(f) PROVE PeekInv'
  BY <1>0, <1>6 DEF RawCensusRaced
<1>7. CASE WalkRoot
  <2>1. Running /\ pc = "list"
    BY <1>7 DEF WalkRoot, Running
  <2>2. CASE rootUp
    <3>1. pc' = "list" /\ truncated' = truncated
      BY <1>7, <2>1, <2>2 DEF WalkRoot
    <3> QED
      BY <2>1, <3>1, PeekIdle DEF SkipInv
  <2>3. CASE ~rootUp
    BY <1>7, <2>1, <2>3, PeekVanishes DEF WalkRoot
  <2> QED
    BY <2>2, <2>3
<1>8. CASE TakeRef
  <2>1. Running /\ pc = "list" /\ churn = 0 /\ UNCHANGED <<args, env>>
    BY <1>8 DEF TakeRef, Running, env
  <2>2. CASE StatFails
    BY <1>8, <2>1, <2>2, PeekVanishes DEF TakeRef
  <2>3. CASE ~StatFails
    <3>1. /\ UNCHANGED <<attempt, truncated>> /\ pc' \in {"peek", "list"}
          /\ refs' = Append(refs, Ref(NextRow))
      BY <1>8, <2>3 DEF TakeRef
    <3>2. Drained'
      BY <1>8, <1>still, <2>1, <2>3, SampleTakes
    <3>3. truncated' = "no"
      BY <2>1, <3>1 DEF SkipInv
    <3>4. /\ (\A s \in Ids : s >= cursor)'
          /\ (Ids \cap buf = {} /\ buf \subseteq Listed)'
          /\ (\A s \in Listed : s >= cursor /\ s \notin Ids \cup buf => Dropped(s))'
      BY <3>2 DEF Drained
    <3> QED
      BY <3>1, <3>3, <3>4 DEF PeekInv
  <2> QED
    BY <2>2, <2>3
<1>9. CASE PeekRef
  <2>1. churn = 0
    BY <1>9 DEF PeekRef, env
  <2> QED
    BY <1>9, <1>still, <2>1, PeekLooks
<1>10. CASE Exhausted
  <2>1. churn = 0
    BY <1>10 DEF Exhausted, env
  <2> QED
    BY <1>10, <1>still, <2>1, PeekExhausted
<1>11. CASE Churning
  BY <1>0, <1>11 DEF Churning
<1>12. CASE UNCHANGED vars
  <2>1. UNCHANGED <<args, env, churn, attempt, pc, cursor, buf, refs, census, skips, truncated>>
    BY <1>12 DEF vars, env, run
  <2>2. Listed' = Listed /\ Ids' = Ids /\ \A s : Dropped(s)' = Dropped(s)
    BY <2>1, ListingIsStill DEF Ids, Dropped
  <2> QED
    BY <2>1, <2>2 DEF PeekInv
<1> QED
  BY <1>1, <1>2, <1>3, <1>4, <1>5, <1>6, <1>7, <1>8, <1>9, <1>10, <1>11, <1>12
     DEF Next, RunStep, DaemonStep, EnvStep, Returned, SessionAppears, SessionPruned,
         TranscriptDeleted, TranscriptAppears, RootRemoved

-----------------------------------------------------------------------------
(* The scan                                                                *)

\* What a scan with these outcomes leaves.
ScannedAs(outcome) ==
    /\ \A i \in Sampled : outcome[i] \in Outcomes[refs[i].src]
    /\ reached = [a \in RefAgents |->
           Cardinality({i \in Absorbed(outcome) : refs[i].agent = a})]
    /\ lost = DiscoveryRecords \cup SessionRecords(outcome)
    /\ callless = {i \in Sampled : outcome[i] = "callless"}

Scanned ==
    \E outcome \in [Sampled -> Outcomes.agentsview \cup Outcomes.raw] : ScannedAs(outcome)

\* Nothing is told before the sample is scanned, and what it left is kept.
ScanInv ==
    /\ stage \in {"discovering", "scanned", "checking", "reported", "crashed"}
    /\ stage = "discovering" =>
           reached = [a \in RefAgents |-> 0] /\ lost = {} /\ callless = {}
    /\ stage # "discovering" => Resolved /\ Scanned
    /\ callless \subseteq Sampled

\* The lookup has seen the agent of every session that was held all the while
\* and that its pages have passed, and no agent but of sessions it met.
LookupInv ==
    /\ position \in 1..Top /\ seenAgents \subseteq Agents
    /\ held \subseteq archive /\ met \subseteq Sessions
    /\ notice \in {"none", "unknownAgent", "checkUnavailable"}
    /\ stage \in {"discovering", "scanned"} =>
           notice = "none" /\ position = Top /\ seenAgents = {} /\ held = {} /\ met = {}
    /\ stage = "checking" =>
           /\ notice = "none" /\ archive \subseteq met
           /\ \A s \in held : s >= position => AgentOf[s] \in seenAgents
    /\ \A a \in seenAgents : \E s \in met : AgentOf[s] = a
    /\ notice = "unknownAgent" => \A s \in held : AgentOf[s] # args.agent
    /\ (Reported /\ SessionsScanned = 0 /\ NameIsInDoubt /\ notice = "none") =>
           \E s \in met : AgentOf[s] = args.agent

LEMMA ScanInit == ReportInit => Init /\ ScanInv
BY DEF ReportInit, ScanInv

LEMMA LookupInit == ReportInit => LookupInv
BY TopIsAbove DEF ReportInit, LookupInv, Reported

LEMMA ScannedKept ==
    ASSUME NEW outcome, ScannedAs(outcome), UNCHANGED <<args, refs, skips, scan>>,
           outcome \in [Sampled -> Outcomes.agentsview \cup Outcomes.raw]
    PROVE  Scanned'
<1>2. Sampled' = Sampled /\ DiscoveryRecords' = DiscoveryRecords
  BY DEF Sampled, Counts, DiscoveryRecords
<1>3. SessionRecords(outcome)' = SessionRecords(outcome) /\ Absorbed(outcome)' = Absorbed(outcome)
  BY DEF SessionRecords, Lost, Absorbed
<1>4. ScannedAs(outcome)'
  BY <1>2, <1>3 DEF ScannedAs, scan
<1> QED
  BY <1>2, <1>4 DEF Scanned

LEMMA ScanKept ==
    ASSUME ScanInv, stage # "discovering", UNCHANGED <<args, refs, skips, pc, scan>>,
           stage' \in {"scanned", "checking", "reported", "crashed"}
    PROVE  ScanInv'
<1>1. Scanned'
  BY ScannedKept DEF ScanInv, Scanned, scan
<1>2. Sampled' = Sampled
  BY DEF Sampled, Counts
<1> QED
  BY <1>1, <1>2 DEF ScanInv, Resolved, scan

LEMMA ScanStep == ScanInv /\ [ReportNext]_reportVars => ScanInv'
<1> SUFFICES ASSUME ScanInv, [ReportNext]_reportVars PROVE ScanInv'
  OBVIOUS
<1>1. CASE Discovering
  BY <1>1 DEF Discovering, ScanInv, scan
<1>2. CASE Scans
  <2>1. PICK outcome \in [Sampled -> Outcomes.agentsview \cup Outcomes.raw] :
            /\ \A i \in Sampled : outcome[i] \in Outcomes[refs[i].src]
            /\ Scan(outcome)
    BY <1>2 DEF Scans
  <2>2. /\ UNCHANGED vars /\ stage' = "scanned" /\ Resolved
        /\ stage = "discovering" /\ callless' \subseteq Sampled
    BY <2>1 DEF Scan
  <2>3. UNCHANGED <<args, archive, refs, skips, pc>>
    BY <2>2 DEF vars, env, run
  <2>4. Sampled' = Sampled /\ DiscoveryRecords' = DiscoveryRecords
    BY <2>3 DEF Sampled, Counts, DiscoveryRecords
  <2>5. SessionRecords(outcome)' = SessionRecords(outcome) /\ Absorbed(outcome)' = Absorbed(outcome)
    BY <2>3 DEF SessionRecords, Lost, Absorbed
  <2>6. ScannedAs(outcome)'
    BY <2>1, <2>3, <2>4, <2>5 DEF ScannedAs, Scan
  <2>7. Scanned'
    BY <2>4, <2>6 DEF Scanned
  <2> QED
    BY <2>2, <2>3, <2>4, <2>7 DEF ScanInv, Resolved
<1>3. ASSUME \/ RendersReport \/ EmptyWithoutCheck \/ BeginCheck \/ CheckPage
             \/ \E reply \in Replies : CheckFails(reply)
      PROVE  ScanInv'
  <2>1. /\ UNCHANGED <<vars, scan>> /\ stage \in {"scanned", "checking"}
        /\ stage' \in {"scanned", "checking", "reported", "crashed"}
    BY <1>3 DEF RendersReport, EmptyWithoutCheck, BeginCheck, CheckPage, CheckFails
  <2> QED
    BY <2>1, ScanKept DEF vars, run
<1>4. CASE ArchiveMoves
  <2>1. UNCHANGED <<args, run, scan, stage>> /\ stage = "checking"
    BY <1>4 DEF ArchiveMoves, SessionAppears, SessionPruned, Churning
  <2> QED
    BY <2>1, ScanKept DEF run
<1>5. CASE UNCHANGED reportVars
  <2>1. UNCHANGED <<vars, stage, scan>>
    BY <1>5 DEF reportVars
  <2>2. UNCHANGED <<args, refs, skips, pc>>
    BY <2>1 DEF vars, run
  <2>3. CASE stage = "discovering"
    BY <2>1, <2>2, <2>3 DEF ScanInv, scan, Sampled, Counts
  <2>4. CASE stage # "discovering"
    BY <2>1, <2>2, <2>4, ScanKept DEF ScanInv
  <2> QED
    BY <2>3, <2>4
<1> QED
  BY <1>1, <1>2, <1>3, <1>4, <1>5 DEF ReportNext, Ended

\* Whether a name is in doubt is settled by the discovery and its scan.
LEMMA DoubtIsKept ==
    ASSUME UNCHANGED <<args, census, fallback, reached>>
    PROVE  UNCHANGED <<SessionsScanned, NameIsInDoubt>>
BY DEF SessionsScanned, NameIsInDoubt, HasCensus

LEMMA LookupStep ==
    TypeInv /\ ScanInv /\ LookupInv /\ [ReportNext]_reportVars => LookupInv'
<1> SUFFICES ASSUME TypeInv, ScanInv, LookupInv, [ReportNext]_reportVars PROVE LookupInv'
  OBVIOUS
<1>0. archive \in SUBSET Sessions /\ AgentOf \in [Sessions -> Agents] /\ Sessions \subseteq Nat
  BY SessionsAssumption DEF TypeInv, TypeOK
<1>1. CASE Discovering \/ Scans
  <2>1. /\ stage = "discovering" /\ stage' \in {"discovering", "scanned"}
        /\ UNCHANGED <<notice, lookup>>
    BY <1>1 DEF Discovering, Scans, Scan
  <2> QED
    BY <2>1 DEF LookupInv, lookup, Reported
<1>2. CASE RendersReport \/ EmptyWithoutCheck
  <2>1. /\ stage = "scanned" /\ stage' = "reported" /\ UNCHANGED <<vars, scan, notice, lookup>>
        /\ SessionsScanned > 0 \/ ~NameIsInDoubt
    BY <1>2 DEF RendersReport, EmptyWithoutCheck
  <2>2. UNCHANGED <<SessionsScanned, NameIsInDoubt>>
    BY <2>1, DoubtIsKept DEF vars, run, scan
  <2>3. ~(SessionsScanned' = 0 /\ NameIsInDoubt')
    BY <2>1, <2>2
  <2> QED
    BY <2>1, <2>3 DEF LookupInv, lookup
<1>3. CASE BeginCheck
  <2>1. /\ stage = "scanned" /\ stage' = "checking" /\ position' = Top
        /\ held' = archive /\ met' = archive /\ archive' = archive
        /\ UNCHANGED <<notice, seenAgents>>
    BY <1>3 DEF BeginCheck, vars, env
  <2>2. \A s \in archive : ~(s >= Top)
    BY <1>0, TopIsAbove
  <2>3. Top \in 1 .. Top
    BY TopIsAbove
  <2> QED
    BY <1>0, <2>1, <2>2, <2>3 DEF LookupInv, Reported
<1>4. CASE CheckPage
  <2>1. /\ stage = "checking" /\ UNCHANGED <<vars, scan, held, met>>
        /\ seenAgents' = seenAgents \cup {AgentOf[s] : s \in LookupPage}
    BY <1>4 DEF CheckPage
  <2>2. /\ notice = "none" /\ archive \subseteq met /\ held \subseteq archive
        /\ \A s \in held : s >= position => AgentOf[s] \in seenAgents
        /\ \A a \in seenAgents : \E s \in met : AgentOf[s] = a
        /\ position \in 1 .. Top /\ seenAgents \subseteq Agents /\ met \subseteq Sessions
    BY <2>1 DEF LookupInv
  <2>3. /\ UNCHANGED <<args, archive>>
        /\ UNCHANGED <<SessionsScanned, NameIsInDoubt>>
    BY <2>1, DoubtIsKept DEF vars, env, run, scan
  <2>4. /\ Unread \in SUBSET Sessions /\ LookupPage \subseteq archive
        /\ LookupPage = {s \in Unread : Cardinality({t \in Unread : t > s}) < DefaultPage}
    BY <1>0 DEF Unread, LookupPage
  <2> DEFINE m == Min(LookupPage)
  <2>5. /\ Cardinality(Unread) \in Nat
        /\ Cardinality(Unread) <= DefaultPage => LookupPage = Unread
        /\ Cardinality(Unread) > DefaultPage =>
               m \in Unread /\ LookupPage = {s \in Unread : m <= s}
    BY <2>4, BoundAssumption, PageOf
  <2> HIDE DEF m
  <2>6. \A a \in seenAgents' : a \in Agents /\ \E s \in met : AgentOf[s] = a
    BY <1>0, <2>1, <2>2, <2>4
  <2>7. CASE LastPage
    <3>1. /\ stage' = "reported" /\ UNCHANGED position
          /\ notice' = IF args.agent \in seenAgents' THEN "none" ELSE "unknownAgent"
      BY <1>4, <2>7 DEF CheckPage
    <3>2. \A s \in held : AgentOf[s] \in seenAgents'
      <4> SUFFICES ASSUME NEW s \in held PROVE AgentOf[s] \in seenAgents'
        OBVIOUS
      <4>1. CASE s >= position
        BY <2>1, <2>2, <4>1
      <4>2. CASE ~(s >= position)
        <5>1. s \in Nat /\ position \in Nat /\ s \in archive
          BY <1>0, <2>2, TopIsAbove
        <5>2. s \in LookupPage
          BY <2>5, <2>7, <4>2, <5>1 DEF LastPage, Unread
        <5> QED
          BY <2>1, <5>2
      <4> QED
        BY <4>1, <4>2
    <3> QED
      BY <2>1, <2>2, <2>3, <2>6, <3>1, <3>2 DEF LookupInv
  <2>8. CASE ~LastPage
    <3>1. position' = m /\ UNCHANGED <<stage, notice>>
      BY <1>4, <2>8 DEF CheckPage, m
    <3>2. m \in Unread /\ LookupPage = {s \in Unread : m <= s}
      BY <2>5, <2>8, BoundAssumption DEF LastPage
    <3>3. m \in 1 .. Top /\ m \in Nat
      BY <2>4, <3>2, TopIsAbove
    <3>4. \A s \in held : s >= m => AgentOf[s] \in seenAgents'
      <4> SUFFICES ASSUME NEW s \in held, s >= m PROVE AgentOf[s] \in seenAgents'
        OBVIOUS
      <4>1. CASE s >= position
        BY <2>1, <2>2, <4>1
      <4>2. CASE ~(s >= position)
        <5>1. s \in Nat /\ position \in Nat /\ s \in archive
          BY <1>0, <2>2, TopIsAbove
        <5>2. s \in LookupPage
          BY <3>2, <3>3, <4>2, <5>1 DEF Unread
        <5> QED
          BY <2>1, <5>2
      <4> QED
        BY <4>1, <4>2
    <3> QED
      BY <2>1, <2>2, <2>3, <2>6, <3>1, <3>3, <3>4 DEF LookupInv, Reported
  <2> QED
    BY <2>7, <2>8
<1>5. CASE ArchiveMoves
  <2>1. /\ stage = "checking" /\ archive' \subseteq Sessions
        /\ held' = held \cap archive' /\ met' = met \cup archive'
        /\ UNCHANGED <<stage, notice, position, seenAgents>>
    BY <1>0, <1>5 DEF ArchiveMoves, SessionAppears, SessionPruned
  <2> QED
    BY <2>1 DEF LookupInv, Reported
<1>6. ASSUME NEW reply \in Replies, CheckFails(reply) PROVE LookupInv'
  <2>1. /\ stage = "checking" /\ UNCHANGED <<archive, lookup>>
        /\ \/ notice' = "checkUnavailable" /\ stage' = "reported"
           \/ stage' = "crashed" /\ UNCHANGED notice
    BY <1>6 DEF CheckFails, vars, env
  <2> QED
    BY <2>1 DEF LookupInv, lookup, Reported
<1>7. CASE UNCHANGED reportVars
  <2>1. UNCHANGED <<args, archive, stage, notice, lookup>>
    BY <1>7 DEF reportVars, vars, env
  <2>2. UNCHANGED <<SessionsScanned, NameIsInDoubt>>
    BY <1>7, DoubtIsKept DEF reportVars, vars, run, scan
  <2> QED
    BY <2>1, <2>2 DEF LookupInv, lookup, Reported
<1> QED
  BY <1>1, <1>2, <1>3, <1>4, <1>5, <1>6, <1>7 DEF ReportNext, Ended

\* Reporting moves nothing that discovery keeps.
LEMMA ReportStepsDiscover == [ReportNext]_reportVars => [Next]_vars
BY DEF ReportNext, reportVars, Discovering, Scans, Scan, RendersReport, EmptyWithoutCheck,
       BeginCheck, CheckPage, CheckFails, ArchiveMoves, Ended, Next, EnvStep

-----------------------------------------------------------------------------
(* Counting the sample                                                     *)

LEMMA RefAgentsKnown ==
    ASSUME TypeInv
    PROVE  /\ IsFiniteSet(RefAgents)
           /\ \A i \in DOMAIN refs : refs[i].agent \in RefAgents
           /\ DOMAIN census.totals \subseteq RefAgents
<1>1. IsFiniteSet(RefAgents)
  BY SessionsAssumption, FS_AddElement DEF RefAgents
<1>2. \A i \in DOMAIN refs : refs[i].agent \in RefAgents
  <2>1. \A i \in DOMAIN refs : refs[i] \in RefRecord
    BY DEF TypeInv, TypeOK
  <2> QED
    BY <2>1 DEF RefRecord, RefAgents
<1> QED
  BY <1>1, <1>2 DEF TypeInv, RefAgents

\* The refs of an agent.
RefsOf(a) == {i \in Sampled : refs[i].agent = a}

\* The lost refs are counted by their skip records.
LEMMA LostAreRecords ==
    ASSUME TypeInv, NEW outcome \in [Sampled -> Outcomes.agentsview \cup Outcomes.raw],
           ScannedAs(outcome), skips = <<>>, NEW a
    PROVE  LostBy(a) = Cardinality(RefsOf(a) \ Absorbed(outcome))
<1> DEFINE I == RefsOf(a) \ Absorbed(outcome)
           J == {r \in lost : r.agent = a}
           f == [i \in I |-> Record("session", i, refs[i].agent, outcome[i])]
<1>1. lost = SessionRecords(outcome)
  BY DEF ScannedAs, DiscoveryRecords
<1>2. Lost(outcome) = Sampled \ Absorbed(outcome)
  BY DEF Lost, Absorbed
<1>3. J = {Record("session", i, refs[i].agent, outcome[i]) : i \in I}
  BY <1>1, <1>2 DEF SessionRecords, Record, RefsOf
<1>4. f \in [I -> J] /\ \A r \in J : \E i \in I : f[i] = r
  BY <1>3
<1>5. \A i, j \in I : f[i] = f[j] => i = j
  BY DEF Record
<1>6. IsFiniteSet(I)
  BY RefsAreCounted DEF RefsOf, Sampled
<1> HIDE DEF I, J, f
<1>7. ExistsBijection(I, J)
  BY <1>4, <1>5, Fun_IsBij DEF ExistsBijection
<1>8. Cardinality(J) = Cardinality(I)
  BY <1>6, <1>7, FS_Bijection
<1> QED
  BY <1>8 DEF I, J, LostBy

\* A scanned ref reached its agent's row or is one of its agent's skip records.
LEMMA RefsAreAccounted ==
    ASSUME TypeInv, ScanInv, stage # "discovering", NEW a \in RefAgents
    PROVE  /\ reached[a] \in Nat /\ SampledBy(a) \in Nat
           /\ skips = <<>> => LostBy(a) \in Nat /\ SampledBy(a) = reached[a] + LostBy(a)
<1>1. PICK outcome \in [Sampled -> Outcomes.agentsview \cup Outcomes.raw] : ScannedAs(outcome)
  BY DEF ScanInv, Scanned
<1> DEFINE I == RefsOf(a)
           good == I \cap Absorbed(outcome)
           bad == I \ Absorbed(outcome)
<1>2. good = {i \in Absorbed(outcome) : refs[i].agent = a}
  BY DEF RefsOf, Absorbed
<1>3. reached[a] = Cardinality(good) /\ SampledBy(a) = Cardinality(I)
  BY <1>1, <1>2 DEF ScannedAs, SampledBy, RefsOf
<1>4. /\ IsFiniteSet(I) /\ IsFiniteSet(good) /\ IsFiniteSet(bad)
      /\ Cardinality(I) \in Nat /\ Cardinality(good) \in Nat /\ Cardinality(bad) \in Nat
  BY RefsAreCounted DEF RefsOf, Sampled
<1>5. Cardinality(bad) = Cardinality(I) - Cardinality(good)
  BY <1>4, FS_Difference
<1>6. skips = <<>> => LostBy(a) = Cardinality(bad)
  BY <1>1, LostAreRecords
<1> QED
  BY <1>3, <1>4, <1>5, <1>6

\* The rows together hold the parsed refs.
LEMMA ReachedTogether ==
    ASSUME TypeInv, NEW outcome \in [Sampled -> Outcomes.agentsview \cup Outcomes.raw],
           ScannedAs(outcome), NEW K \in SUBSET RefAgents
    PROVE  SumFunction([a \in K |-> reached[a]])
               = Cardinality({i \in Absorbed(outcome) : refs[i].agent \in K})
<1> DEFINE P == Absorbed(outcome)
           g == [i \in P |-> refs[i].agent]
           f == [a \in K |-> reached[a]]
<1>1. IsFiniteSet(K)
  BY RefAgentsKnown, FS_Subset
<1>2. IsFiniteSet(P)
  BY RefsAreCounted DEF Absorbed, Sampled
<1>3. \A a \in K : f[a] = Cardinality({i \in P : g[i] = a})
  <2> SUFFICES ASSUME NEW a \in K PROVE f[a] = Cardinality({i \in P : g[i] = a})
    OBVIOUS
  <2>1. {i \in P : g[i] = a} = {i \in Absorbed(outcome) : refs[i].agent = a}
    BY DEF Absorbed
  <2>2. f[a] = Cardinality({i \in Absorbed(outcome) : refs[i].agent = a})
    BY DEF ScannedAs
  <2> QED
    BY <2>1, <2>2
<1>4. DOMAIN f = K
  OBVIOUS
<1>5. {i \in P : g[i] \in K} = {i \in P : refs[i].agent \in K}
  OBVIOUS
<1> HIDE DEF P, g, f
<1>6. SumFunction(f) = Cardinality({i \in P : g[i] \in K})
  BY <1>1, <1>2, <1>3, <1>4, SumOfCounts
<1>7. SumFunction(f) = Cardinality({i \in P : refs[i].agent \in K})
  BY <1>5, <1>6
<1> QED
  BY <1>7 DEF P, f

-----------------------------------------------------------------------------
(* What the report says                                                    *)

\* The state a report over an archive that held still is rendered from.
LEMMA StillReport ==
    ASSUME SampleInv, CensusInv, ScanInv, StillCensus
    PROVE  /\ pc = "resolved" /\ churn = 0 /\ census.why = "counted"
           /\ stage # "discovering"
           /\ RefsInv /\ TotalsInv /\ WholeInv
BY DEF SampleInv, CensusInv, ScanInv, StillCensus, Reported, HasCensus, Resolved

\* The sessions of an agent are those sampled and those left out.
LEMMA LeftOutIs ==
    ASSUME TypeInv, RefsInv, TotalsInv, WholeInv, pc = "resolved", NEW a
    PROVE  /\ LeftOut(a) = OfAgent(a) \ SampledIds
           /\ IsFiniteSet(LeftOut(a)) /\ Cardinality(LeftOut(a)) \in Nat
           /\ a \in Known => /\ Gap(a) = Cardinality(LeftOut(a))
                             /\ Total(a) \in Nat
<1>1. LeftOut(a) = OfAgent(a) \ SampledIds
  BY DEF LeftOut, OfAgent, Counted, AgentIn, SampledIds
<1>2. IsFiniteSet(OfAgent(a)) /\ Cardinality(OfAgent(a)) \in Nat
  BY CountedSessions, FS_Subset, FS_CardinalityType DEF OfAgent
<1>3. IsFiniteSet(LeftOut(a)) /\ Cardinality(LeftOut(a)) \in Nat
  BY <1>1, <1>2, FS_Subset, FS_CardinalityType
<1>4. ASSUME a \in Known
      PROVE  Gap(a) = Cardinality(LeftOut(a)) /\ Total(a) \in Nat
  <2> DEFINE J == {refs[i].id : i \in RefsOf(a)}
  <2>1. Total(a) = Cardinality(OfAgent(a))
    BY <1>4 DEF Known, Total, TotalsInv
  <2>2. SampledBy(a) = Cardinality(J)
    <3>1. RefsOf(a) \in SUBSET DOMAIN refs
      BY DEF RefsOf, Sampled
    <3>2. Cardinality(J) = Cardinality(RefsOf(a))
      BY <3>1, SessionsOfRefs
    <3> QED
      BY <3>2 DEF SampledBy, RefsOf
  <2>3. J = OfAgent(a) \cap SampledIds
    <3>1. \A i \in Sampled : i \in DOMAIN refs /\ refs[i].agent = AgentIn(refs[i].id)
      BY DEF WholeInv, Sampled
    <3>2. J = {s \in SampledIds : AgentIn(s) = a}
      BY <3>1 DEF SampledIds, RefsOf
    <3> QED
      BY <3>2, SampledSessions DEF OfAgent
  <2> HIDE DEF J
  <2>4. Cardinality(OfAgent(a) \ SampledIds)
          = Cardinality(OfAgent(a)) - Cardinality(OfAgent(a) \cap SampledIds)
    BY <1>2, FS_Difference
  <2> QED
    BY <1>1, <1>2, <2>1, <2>2, <2>3, <2>4 DEF Gap
<1> QED
  BY <1>1, <1>3, <1>4

\* The limit probe says what became of the listing.
LEMMA ProbeTellsTruth ==
    ASSUME TypeInv, SampleInv, CensusInv, PeekInv, ScanInv, StillCensus
    PROVE  /\ truncated = "yes" => \E a \in RefAgents : LeftOut(a) # {}
           /\ truncated = "no"  => \A a \in RefAgents : LeftOut(a) = {}
<1>1. /\ pc = "resolved" /\ churn = 0 /\ census.why = "counted"
      /\ RefsInv /\ TotalsInv /\ WholeInv
  BY StillReport
<1>2. \A a : LeftOut(a) = OfAgent(a) \ SampledIds
  BY <1>1, LeftOutIs
<1>3. SampledIds = Ids \cap Counted
  BY <1>1, SampledSessions
<1>4. Counted = {s \in Listed : ~Dropped(s)}
  BY DEF Counted, Listed, Population, Listing, Dropped
<1>5. ASSUME truncated = "yes" PROVE \E a \in RefAgents : LeftOut(a) # {}
  <2>1. PICK s \in Listed \ Ids : ~Dropped(s)
    BY <1>1, <1>5 DEF PeekInv
  <2>2. s \in Counted /\ s \notin SampledIds /\ s \in OfAgent(AgentIn(s))
    BY <1>3, <1>4, <2>1 DEF OfAgent
  <2>3. AgentIn(s) \in RefAgents
    BY <2>2, CountedSessions, SessionsAssumption DEF AgentIn, RefAgents
  <2> QED
    BY <1>2, <2>2, <2>3
<1>6. ASSUME truncated = "no" PROVE \A a \in RefAgents : LeftOut(a) = {}
  <2>1. \A s \in Listed \ Ids : Dropped(s)
    BY <1>1, <1>6 DEF PeekInv
  <2>2. Counted \subseteq SampledIds
    BY <1>3, <1>4, <2>1
  <2> QED
    BY <1>2, <2>2 DEF OfAgent
<1> QED
  BY <1>5, <1>6

LEMMA GapsTruncation ==
    TypeInv /\ SampleInv /\ CensusInv /\ PeekInv /\ ScanInv => GapsAreTruncation
<1> SUFFICES ASSUME TypeInv, SampleInv, CensusInv, PeekInv, ScanInv, StillCensus
             PROVE  GapsAreTruncation
  BY DEF GapsAreTruncation
<1>1. pc = "resolved" /\ RefsInv /\ TotalsInv /\ WholeInv
  BY StillReport
<1>2. ASSUME NEW a \in Known
      PROVE  GapCause(a) \notin {"drift", "excess"} /\ Gap(a) = Cardinality(LeftOut(a))
  <2>1. Gap(a) = Cardinality(LeftOut(a)) /\ Gap(a) \in Nat
    BY <1>1, LeftOutIs
  <2>2. truncated = "no" => Gap(a) = 0
    <3>1. a \in RefAgents
      BY RefAgentsKnown DEF Known
    <3> QED
      BY <2>1, <3>1, ProbeTellsTruth, FS_EmptySet
  <2>3. truncated \in {"no", "yes", "unknown"}
    BY DEF TypeInv, TypeOK
  <2>4. CASE Gap(a) = 0
    <3>1. GapCause(a) = "none"
      BY <2>4 DEF GapCause
    <3> QED
      BY <2>1, <3>1
  <2>5. CASE Gap(a) > 0 /\ truncated = "yes"
    <3>1. GapCause(a) = "truncation"
      BY <2>1, <2>5 DEF GapCause
    <3> QED
      BY <2>1, <3>1
  <2>6. CASE Gap(a) > 0 /\ truncated = "unknown"
    <3>1. GapCause(a) = "unattributed"
      BY <2>1, <2>6 DEF GapCause
    <3> QED
      BY <2>1, <3>1
  <2> QED
    BY <2>1, <2>2, <2>3, <2>4, <2>5, <2>6
<1> QED
  BY <1>2, ProbeTellsTruth DEF GapsAreTruncation

\* Two rows that reached their whole totals are even.
LEMMA WholeRowsAreEven ==
    ASSUME NEW x \in Nat \ {0}, NEW y \in Nat \ {0}, NEW t \in Nat \ {0, 1}
    PROVE  /\ ~(x * y >= t * y * x)
           /\ ~(x * y >= t * x * y)
<1> DEFINE n == x * y
<1>1. n \in Nat /\ n > 0
  BY Z3
<1>2. t * y * x = t * n /\ t * x * y = t * n
  BY Z3
<1> HIDE DEF n
<1>3. ~(n >= t * n)
  <2>1. t * n = n + (t - 1) * n
    BY <1>1
  <2>2. (t - 1) * n > 0
    BY <1>1
  <2>3. (t - 1) * n \in Int
    BY <1>1
  <2> QED
    BY <1>1, <2>1, <2>2, <2>3
<1> QED
  BY <1>2, <1>3 DEF n

\* An uneven table compares two agents, so it is not of a raw listing, and its
\* discovery skipped nothing.
LEMMA UnevenIsAgentsview ==
    ASSUME TypeInv, SourceInv, SkipInv, SampleInv, CensusInv, ScanInv, StillCensus, Uneven
    PROVE  attempt = "agentsview" /\ skips = <<>>
<1>1. pc = "resolved" /\ census.why = "counted" /\ stage # "discovering" /\ RefsInv /\ TotalsInv
        /\ WholeInv
  BY StillReport
<1>2. PICK a \in Fractions, b \in Fractions :
          reached[a] * Total(b) >= SpreadThreshold * reached[b] * Total(a)
  BY DEF Uneven
<1>3. a # b
  <2> SUFFICES ASSUME a = b PROVE FALSE
    OBVIOUS
  <2>1. a \in Known /\ Total(a) > 0 /\ reached[a] > 0 /\ a \in RefAgents
    BY <1>2, RefAgentsKnown DEF Fractions, Known
  <2>2. Total(a) \in Nat \ {0} /\ reached[a] \in Nat \ {0}
    BY <1>1, <2>1, LeftOutIs, RefsAreAccounted
  <2> QED
    BY <1>2, <2>2, SpreadAssumption, WholeRowsAreEven
<1>4. attempt # "raw"
  <2>1. attempt = "raw" => Known \subseteq {RawAgent}
    BY <1>1 DEF SkipInv, Known
  <2> QED
    BY <1>2, <1>3, <2>1 DEF Fractions
<1> QED
  BY <1>1, <1>4 DEF SkipInv, TypeInv, TypeOK

LEMMA ScannedAreAbsorbed ==
    ASSUME TypeInv, NEW outcome \in [Sampled -> Outcomes.agentsview \cup Outcomes.raw],
           ScannedAs(outcome)
    PROVE  SessionsScanned = Cardinality(Absorbed(outcome))
<1>1. reached = [a \in RefAgents |-> reached[a]]
  BY DEF ScannedAs
<1>2. {i \in Absorbed(outcome) : refs[i].agent \in RefAgents} = Absorbed(outcome)
  BY RefAgentsKnown DEF Absorbed, Sampled
<1>3. SumFunction([a \in RefAgents |-> reached[a]])
        = Cardinality({i \in Absorbed(outcome) : refs[i].agent \in RefAgents})
  BY ReachedTogether
<1> QED
  BY <1>1, <1>2, <1>3 DEF SessionsScanned

\* A report of no session has no session in any row.
LEMMA RowsAreEmpty ==
    ASSUME TypeInv, ScanInv, stage # "discovering", SessionsScanned = 0, NEW a \in RefAgents
    PROVE  reached[a] = 0
<1>1. PICK outcome \in [Sampled -> Outcomes.agentsview \cup Outcomes.raw] : ScannedAs(outcome)
  BY DEF ScanInv, Scanned
<1>2. Absorbed(outcome) = {}
  <2>1. Cardinality(Absorbed(outcome)) = 0
    BY <1>1, ScannedAreAbsorbed
  <2>2. IsFiniteSet(Absorbed(outcome))
    BY RefsAreCounted DEF Absorbed, Sampled
  <2> QED
    BY <2>1, <2>2, FS_EmptySet
<1>3. reached[a] = Cardinality({i \in Absorbed(outcome) : refs[i].agent = a})
  BY <1>1 DEF ScannedAs
<1>4. {i \in Absorbed(outcome) : refs[i].agent = a} = {}
  BY <1>2
<1> QED
  BY <1>3, <1>4, FS_EmptySet

\* A record is lost exactly when some sampled session did not reach the table.
LEMMA LossIsCounted ==
    ASSUME TypeInv, ScanInv, stage # "discovering", skips = <<>>
    PROVE  /\ lost # {} <=> SessionsScanned < Cardinality(Sampled)
           /\ lost = {} => \A a \in RefAgents : reached[a] = SampledBy(a)
<1>1. PICK outcome \in [Sampled -> Outcomes.agentsview \cup Outcomes.raw] : ScannedAs(outcome)
  BY DEF ScanInv, Scanned
<1>2. /\ IsFiniteSet(Sampled) /\ Absorbed(outcome) \in SUBSET Sampled
      /\ Cardinality(Sampled) \in Nat /\ Cardinality(Absorbed(outcome)) \in Nat
  BY RefsAreCounted DEF Sampled, Absorbed
<1>3. SessionsScanned = Cardinality(Absorbed(outcome))
  BY <1>1, ScannedAreAbsorbed
<1>4. lost = {} <=> Absorbed(outcome) = Sampled
  <2>1. lost = SessionRecords(outcome)
    BY <1>1 DEF ScannedAs, DiscoveryRecords
  <2>2. SessionRecords(outcome) = {} <=> Lost(outcome) = {}
    BY DEF SessionRecords
  <2>3. Lost(outcome) = {} <=> Absorbed(outcome) = Sampled
    BY DEF Lost, Absorbed
  <2> QED
    BY <2>1, <2>2, <2>3
<1>5. lost # {} <=> SessionsScanned < Cardinality(Sampled)
  <2>1. Cardinality(Absorbed(outcome)) <= Cardinality(Sampled)
    BY <1>2, FS_Subset
  <2>2. Cardinality(Sampled) = Cardinality(Absorbed(outcome)) => Sampled = Absorbed(outcome)
    BY <1>2, FS_Subset
  <2>3. Absorbed(outcome) = Sampled <=> Cardinality(Absorbed(outcome)) = Cardinality(Sampled)
    BY <2>2
  <2> QED
    BY <1>2, <1>3, <1>4, <2>1, <2>3
<1>6. ASSUME lost = {}, NEW a \in RefAgents PROVE reached[a] = SampledBy(a)
  <2>1. LostBy(a) = 0
    <3>1. {r \in lost : r.agent = a} = {}
      BY <1>6
    <3> QED
      BY <3>1, FS_EmptySet DEF LostBy
  <2>2. reached[a] \in Nat /\ SampledBy(a) = reached[a] + LostBy(a)
    BY RefsAreAccounted
  <2> QED
    BY <2>1, <2>2
<1> QED
  BY <1>5, <1>6

LEMMA SpreadExplained ==
    TypeInv /\ SourceInv /\ SkipInv /\ SampleInv /\ CensusInv /\ PeekInv /\ ScanInv
        => SpreadIsExplained
<1> SUFFICES ASSUME TypeInv, SourceInv, SkipInv, SampleInv, CensusInv, PeekInv, ScanInv,
                    StillCensus, Uneven
             PROVE  SpreadIsExplained
  BY DEF SpreadIsExplained
<1>1. pc = "resolved" /\ stage # "discovering" /\ RefsInv /\ TotalsInv /\ WholeInv
  BY StillReport
<1>2. skips = <<>>
  BY UnevenIsAgentsview
<1>3. truncated \in {"no", "yes", "unknown"}
  BY DEF TypeInv, TypeOK
<1>4. /\ "limit" \in SpreadCauses <=> truncated = "yes"
      /\ "limitUnobserved" \in SpreadCauses <=> truncated = "unknown"
      /\ "attrition" \in SpreadCauses <=> lost # {}
  BY <1>3 DEF SpreadCauses
<1>5. SpreadCauses # {}
  <2> SUFFICES ASSUME truncated = "no", lost = {} PROVE FALSE
    BY <1>3, <1>4
  <2>1. \A a \in Fractions : Total(a) = reached[a] /\ Total(a) \in Nat \ {0}
    <3> SUFFICES ASSUME NEW a \in Fractions
                 PROVE  Total(a) = reached[a] /\ Total(a) \in Nat \ {0}
      OBVIOUS
    <3>1. a \in Known /\ Total(a) > 0 /\ a \in RefAgents
      BY RefAgentsKnown DEF Fractions, Known
    <3>2. Gap(a) = Cardinality(LeftOut(a)) /\ Total(a) \in Nat
      BY <1>1, <3>1, LeftOutIs
    <3>3. LeftOut(a) = {}
      BY <3>1, ProbeTellsTruth
    <3>4. SampledBy(a) \in Nat /\ reached[a] = SampledBy(a)
      BY <1>1, <1>2, <3>1, LossIsCounted, RefsAreAccounted
    <3> QED
      BY <3>1, <3>2, <3>3, <3>4, FS_EmptySet DEF Gap
  <2>2. PICK a \in Fractions, b \in Fractions :
            reached[a] * Total(b) >= SpreadThreshold * reached[b] * Total(a)
    BY DEF Uneven
  <2>3. Total(a) * Total(b) >= SpreadThreshold * Total(b) * Total(a)
    BY <2>1, <2>2
  <2> QED
    BY <2>1, <2>3, SpreadAssumption, WholeRowsAreEven
<1>6. "limit" \in SpreadCauses => \E a \in RefAgents : LeftOut(a) # {}
  BY <1>4, ProbeTellsTruth
<1>7. (\E a \in RefAgents : LeftOut(a) # {}) =>
          SpreadCauses \cap {"limit", "limitUnobserved"} # {}
  BY <1>3, <1>4, ProbeTellsTruth
<1>8. "attrition" \in SpreadCauses <=> SessionsScanned < Cardinality(Sampled)
  BY <1>1, <1>2, <1>4, LossIsCounted
<1> QED
  BY <1>5, <1>6, <1>7, <1>8 DEF SpreadIsExplained

LEMMA ZeroRowsAgree == TypeInv /\ ScanInv => ZeroRowsTellOneStory
<1> SUFFICES ASSUME TypeInv, ScanInv, Reported, SkipsAreSessions, NEW a \in ZeroRows
             PROVE  /\ a \in NeverLooked <=> SampledBy(a) = 0
                    /\ a \in NeverLooked <=> SummaryTail(a) = "notReached"
  BY DEF ZeroRowsTellOneStory
<1>1. stage # "discovering" /\ skips = <<>>
  BY DEF Reported, SkipsAreSessions
<1>2. a \in RefAgents /\ reached[a] = 0
  BY RefAgentsKnown DEF ZeroRows, Known
<1>3. LostBy(a) \in Nat /\ SampledBy(a) = LostBy(a)
  BY <1>1, <1>2, RefsAreAccounted
<1>4. a \in NeverLooked <=> LostBy(a) = 0
  BY DEF NeverLooked
<1>5. SummaryTail(a) = "notReached" <=> LostBy(a) = 0
  BY <1>2, <1>3 DEF SummaryTail
<1> QED
  BY <1>3, <1>4, <1>5

\* What agentsview never served cannot have met its ceiling.
LEMMA RawHasNoCeiling ==
    ASSUME TypeInv, SourceInv, SkipInv, ScanInv, stage # "discovering",
           args.source = "raw", NEW r \in lost
    PROVE  r.reason # "export_timeout"
<1>1. PICK outcome \in [Sampled -> Outcomes.agentsview \cup Outcomes.raw] : ScannedAs(outcome)
  BY DEF ScanInv, Scanned
<1>2. lost = SessionRecords(outcome)
  BY <1>1 DEF ScannedAs, SkipInv, DiscoveryRecords
<1>3. PICK i \in Lost(outcome) : r = Record("session", i, refs[i].agent, outcome[i])
  BY <1>2 DEF SessionRecords
<1>4. i \in Sampled /\ refs[i].src = "raw"
  BY <1>3 DEF Lost, Sampled, SourceInv
<1>5. outcome[i] \in Outcomes.raw
  BY <1>1, <1>4 DEF ScannedAs
<1> QED
  BY <1>3, <1>5, OutcomesAssumption DEF Record

\* The rows without a denominator hold no more than the residual.
LEMMA StrangersAreResidual ==
    ASSUME TypeInv, SampleInv, CensusInv, ScanInv, StillCensus
    PROVE  SumFunction([a \in {b \in Rows : SampledCell(b).of = Unknown} |-> reached[a]])
               <= Residual
<1> DEFINE K == {b \in Rows : SampledCell(b).of = Unknown}
           strange == {s \in Counted : AgentIn(s) \notin DOMAIN census.totals}
<1>1. /\ pc = "resolved" /\ census.why = "counted" /\ stage # "discovering"
      /\ RefsInv /\ TotalsInv /\ WholeInv
  BY StillReport
<1>2. PICK outcome \in [Sampled -> Outcomes.agentsview \cup Outcomes.raw] : ScannedAs(outcome)
  BY <1>1 DEF ScanInv, Scanned
<1>3. K \in SUBSET RefAgents /\ K \cap Known = {}
  <2>1. Rows \subseteq RefAgents
    BY RefAgentsKnown DEF Rows, Known
  <2>2. ASSUME NEW b \in Known PROVE SampledCell(b).of # Unknown
    <3>1. Total(b) \in Nat
      BY <1>1, <2>2, LeftOutIs
    <3>2. SampledCell(b).of = Total(b)
      BY <1>1, <2>2 DEF SampledCell, HasCensus
    <3> QED
      BY <3>1, <3>2, UnknownAssumption
  <2> QED
    BY <2>1, <2>2
<1> DEFINE I == {i \in Absorbed(outcome) : refs[i].agent \in K}
           J == {refs[i].id : i \in I}
<1>4. SumFunction([a \in K |-> reached[a]]) = Cardinality(I)
  <2> HIDE DEF K
  <2> QED
    BY <1>2, <1>3, ReachedTogether
<1>5. Cardinality(J) = Cardinality(I)
  <2>1. I \in SUBSET DOMAIN refs
    BY DEF Absorbed, Sampled
  <2> HIDE DEF I
  <2> QED
    BY <1>1, <2>1, SessionsOfRefs
<1>6. J \subseteq strange
  <2> SUFFICES ASSUME NEW i \in I PROVE refs[i].id \in strange
    OBVIOUS
  <2>1. i \in Sampled /\ i \in DOMAIN refs /\ refs[i].agent \in K
    BY DEF Absorbed, Sampled
  <2>2. refs[i].id \in Counted
    BY <1>1, <2>1, SampledSessions DEF SampledIds
  <2>3. refs[i].agent = AgentIn(refs[i].id)
    BY <1>1, <2>1 DEF WholeInv
  <2> HIDE DEF K
  <2> QED
    BY <1>3, <2>1, <2>2, <2>3 DEF Known
<1>7. IsFiniteSet(strange) /\ Residual = Cardinality(strange)
  BY <1>1, ResidualIs DEF Residual
<1> HIDE DEF I, J, strange
<1>8. Cardinality(J) <= Cardinality(strange)
  BY <1>6, <1>7, FS_Subset
<1> QED
  BY <1>4, <1>5, <1>7, <1>8

\* A session without calls is one of those its agent's row counts.
LEMMA CalllessAreReached ==
    ASSUME TypeInv, ScanInv, stage # "discovering", NEW a \in RefAgents
    PROVE  Cardinality({i \in callless : refs[i].agent = a}) <= reached[a]
<1>1. PICK outcome \in [Sampled -> Outcomes.agentsview \cup Outcomes.raw] : ScannedAs(outcome)
  BY DEF ScanInv, Scanned
<1> DEFINE none == {i \in callless : refs[i].agent = a}
           row == {i \in Absorbed(outcome) : refs[i].agent = a}
<1>2. none \subseteq row
  BY <1>1 DEF ScannedAs, Absorbed
<1>3. IsFiniteSet(row)
  BY RefsAreCounted, FS_Subset DEF Absorbed, Sampled, RefsOf
<1>4. reached[a] = Cardinality(row)
  BY <1>1 DEF ScannedAs
<1> QED
  BY <1>2, <1>3, <1>4, FS_Subset

LEMMA SessionsReported ==
    TypeInv /\ SourceInv /\ SkipInv /\ SampleInv /\ CensusInv /\ ScanInv
        => EverySessionIsReported
<1> SUFFICES ASSUME TypeInv, SourceInv, SkipInv, SampleInv, CensusInv, ScanInv, Reported
             PROVE  EverySessionIsReported
  BY DEF EverySessionIsReported
<1>1. stage # "discovering"
  BY DEF Reported
<1>2. SkipsAreSessions => \A a \in RefAgents : SampledBy(a) = reached[a] + LostBy(a)
  BY <1>1, RefsAreAccounted DEF SkipsAreSessions
<1>3. (\E r \in lost : r.reason = "export_timeout") => TimeoutIsNamed
  BY <1>1, RawHasNoCeiling DEF TimeoutIsNamed
<1>4. StillCensus =>
          SumFunction([a \in {b \in Rows : SampledCell(b).of = Unknown} |-> reached[a]])
              <= Residual
  BY StrangersAreResidual
<1>5. \A a \in RefAgents : Cardinality({i \in callless : refs[i].agent = a}) <= reached[a]
  BY <1>1, CalllessAreReached
<1> QED
  BY <1>2, <1>3, <1>4, <1>5 DEF EverySessionIsReported

LEMMA EmptyIsTruthful ==
    TypeInv /\ SampleInv /\ CensusInv /\ ScanInv /\ LookupInv => EmptyReportIsTruthful
<1> SUFFICES ASSUME TypeInv, SampleInv, CensusInv, ScanInv, LookupInv
             PROVE  EmptyReportIsTruthful
  OBVIOUS
<1>1. ASSUME Reported, SessionsScanned = 0, churn = 0, lost = {}, HasCensus,
             NeverLooked = {}, ~(Residual > 0), NEW a \in RefAgents
      PROVE  LeftOut(a) = {}
  <2>1. /\ pc = "resolved" /\ census.why = "counted" /\ stage # "discovering"
        /\ RefsInv /\ TotalsInv /\ WholeInv
    BY <1>1, StillReport DEF StillCensus
  <2>2. LeftOut(a) = OfAgent(a) \ SampledIds /\ IsFiniteSet(OfAgent(a))
    BY <2>1, LeftOutIs, CountedSessions, FS_Subset DEF OfAgent
  <2>3. reached[a] = 0
    BY <1>1, <2>1, RowsAreEmpty
  <2>4. CASE a \in Known
    <3>1. Total(a) = Cardinality(OfAgent(a))
      BY <2>1, <2>4 DEF Known, Total, TotalsInv
    <3>2. LostBy(a) = 0
      <4>1. {r \in lost : r.agent = a} = {}
        BY <1>1
      <4> QED
        BY <4>1, FS_EmptySet DEF LostBy
    <3>3. ~(Total(a) > 0)
      BY <1>1, <2>3, <2>4, <3>2 DEF NeverLooked, ZeroRows
    <3>4. Cardinality(OfAgent(a)) = 0
      BY <2>2, <3>1, <3>3, FS_CardinalityType
    <3> QED
      BY <2>2, <3>4, FS_EmptySet
  <2>5. CASE a \notin Known
    <3> DEFINE strange == {s \in Counted : AgentIn(s) \notin DOMAIN census.totals}
    <3>1. IsFiniteSet(strange) /\ Residual = Cardinality(strange)
      BY <2>1, ResidualIs DEF Residual
    <3>2. OfAgent(a) \subseteq strange
      BY <2>5 DEF OfAgent, Known
    <3> HIDE DEF strange
    <3>3. strange = {}
      BY <1>1, <3>1, FS_CardinalityType, FS_EmptySet
    <3> QED
      BY <2>2, <3>2, <3>3
  <2> QED
    BY <2>4, <2>5
<1>2. EmptySampleIsExplained
  BY <1>1 DEF EmptySampleIsExplained, CensusNotes
<1> QED
  BY <1>2 DEF EmptyReportIsTruthful, LookupInv

-----------------------------------------------------------------------------
\* A report is a discovery with a scan at its end: whatever holds of every
\* discovery holds of every report.
THEOREM ReportDiscovers == ReportSpec => Spec
BY ScanInit, ReportStepsDiscover, PTL DEF ReportSpec, Spec

\* The state every claim of a report rests on.
ReportInv ==
    /\ TypeInv /\ SourceInv /\ SkipInv
    /\ SampleInv /\ CensusInv /\ PeekInv
    /\ ScanInv /\ LookupInv

LEMMA ReportInductive == ReportSpec => []ReportInv
<1>1. ReportInit => ReportInv
  BY ScanInit, LookupInit, TypeInit, SourceInit, SkipInit, SampleInit, CensusInit
     DEF ReportInv
<1>2. ReportInv /\ [ReportNext]_reportVars => ReportInv'
  <2> SUFFICES ASSUME ReportInv, [ReportNext]_reportVars PROVE ReportInv'
    OBVIOUS
  <2>1. [Next]_vars
    BY ReportStepsDiscover
  <2>2. TypeInv /\ SourceInv /\ SkipInv /\ SampleInv /\ CensusInv /\ PeekInv /\ ScanInv
    BY DEF ReportInv
  <2>3. TypeInv' /\ SourceInv' /\ SkipInv' /\ SampleInv' /\ CensusInv' /\ PeekInv'
    BY <2>1, <2>2, TypeStep, SourceStep, SkipStep, SampleStep, CensusStep, PeekStep
  <2>4. ScanInv' /\ LookupInv'
    BY <2>2, ScanStep, LookupStep DEF ReportInv
  <2> QED
    BY <2>3, <2>4 DEF ReportInv
<1> QED
  BY <1>1, <1>2, PTL DEF ReportSpec

\* The report keeps every variable in its domain as well.
THEOREM ReportTypeCorrect == ReportSpec => []ReportTypeOK
<1>1. ReportInv => ReportTypeOK
  <2> SUFFICES ASSUME ReportInv PROVE ReportTypeOK
    OBVIOUS
  <2>1. TypeInv /\ ScanInv /\ TypeOK /\ LookupInv
    BY DEF ReportInv, TypeInv
  <2>2. CASE stage = "discovering"
    BY <2>1, <2>2 DEF ScanInv, LookupInv, ReportTypeOK
  <2>3. CASE stage # "discovering"
    <3>1. PICK outcome \in [Sampled -> Outcomes.agentsview \cup Outcomes.raw] :
              ScannedAs(outcome)
      BY <2>1, <2>3 DEF ScanInv, Scanned
    <3>2. reached \in [RefAgents -> Nat]
      <4>1. reached = [a \in RefAgents |-> reached[a]]
        BY <3>1 DEF ScannedAs
      <4>2. \A a \in RefAgents : reached[a] \in Nat
        BY <2>1, <2>3, RefsAreAccounted
      <4> QED
        BY <4>1, <4>2
    <3>3. \A r \in lost : r.agent \in RefAgents \cup {AllAgents}
      <4> SUFFICES ASSUME NEW r \in lost PROVE r.agent \in RefAgents \cup {AllAgents}
        OBVIOUS
      <4>1. CASE r \in DiscoveryRecords
        <5>1. r.agent = args.agent
          BY <4>1 DEF DiscoveryRecords, Record
        <5> QED
          BY <2>1, <5>1, CommandLineAssumption DEF TypeOK, RefAgents
      <4>2. CASE r \in SessionRecords(outcome)
        <5>1. PICK i \in Lost(outcome) : r = Record("session", i, refs[i].agent, outcome[i])
          BY <4>2 DEF SessionRecords
        <5>2. r.agent = refs[i].agent /\ i \in DOMAIN refs
          BY <5>1 DEF Record, Lost, Sampled
        <5> QED
          BY <2>1, <5>2, RefAgentsKnown
      <4> QED
        BY <3>1, <4>1, <4>2 DEF ScannedAs
    <3> QED
      BY <2>1, <3>2, <3>3 DEF ScanInv, LookupInv, ReportTypeOK
  <2> QED
    BY <2>2, <2>3
<1> QED
  BY <1>1, ReportInductive, PTL

\* Over an archive that held still, the report never blames an agent's missing
\* sessions on the wrong cause, for any archive, page size and limit.
THEOREM GapsAreBlamedRightly == ReportSpec => []GapsAreTruncation
<1>1. ReportInv => GapsAreTruncation
  BY GapsTruncation DEF ReportInv
<1> QED
  BY <1>1, ReportInductive, PTL

\* The note on an uneven table names every cause that made it uneven and no
\* limit that cut nothing.
THEOREM SpreadHasItsCauses == ReportSpec => []SpreadIsExplained
<1>1. ReportInv => SpreadIsExplained
  BY SpreadExplained DEF ReportInv
<1> QED
  BY <1>1, ReportInductive, PTL

\* Table note and Summary tell the same, true story of a row without sessions.
THEOREM ZeroRowsAreTold == ReportSpec => []ZeroRowsTellOneStory
<1>1. ReportInv => ZeroRowsTellOneStory
  BY ZeroRowsAgree DEF ReportInv
<1> QED
  BY <1>1, ReportInductive, PTL

\* Every sampled session, one without calls too, is in the table or in the skips,
\* once; and what has no denominator fits in the residual.
THEOREM SessionsAreReported == ReportSpec => []EverySessionIsReported
<1>1. ReportInv => EverySessionIsReported
  BY SessionsReported DEF ReportInv
<1> QED
  BY <1>1, ReportInductive, PTL

\* An empty report is never silent about an archive that held still with sessions
\* to count, and what it says of a name, page by page of an archive that moves, is
\* true of sessions held all the while, or met.
THEOREM EmptyReportsAreTrue == ReportSpec => []EmptyReportIsTruthful
<1>1. ReportInv => EmptyReportIsTruthful
  BY EmptyIsTruthful DEF ReportInv
<1> QED
  BY <1>1, ReportInductive, PTL
=============================================================================
