----------------------------- MODULE PinnedCorpus -----------------------------
(***************************************************************************)
(* What `--freeze P` promises: the corpus is pinned at most once, and      *)
(* every run that answers, answers from the pinned corpus.  A corpus is a  *)
(* set of sessions; "at most one corpus" is a set with at most one of them.*)
(***************************************************************************)
CONSTANTS Sessions, Runs

VARIABLES
    corpus,  \* {} before the pin, {S} once the sessions S are pinned
    answer   \* answer[r]: {} before r answers, {S} once it answered from S

vars == <<corpus, answer>>

Init ==
    /\ corpus \in {{}} \cup {{S} : S \in SUBSET Sessions}
    /\ answer = [r \in Runs |-> {}]

Pin ==
    /\ corpus = {}
    /\ \E S \in SUBSET Sessions : corpus' = {S}
    /\ UNCHANGED answer

Answer(r) ==
    /\ corpus # {} /\ answer[r] = {}
    /\ answer' = [answer EXCEPT ![r] = corpus]
    /\ UNCHANGED corpus

Next == Pin \/ \E r \in Runs : Answer(r)

Spec == Init /\ [][Next]_vars
=============================================================================
