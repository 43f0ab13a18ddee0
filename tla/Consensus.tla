----------------------------- MODULE Consensus -----------------------------
(***************************************************************************)
(* How one report is chosen among the valid reports of the miners.  They   *)
(* are a function from the miners' places in the query, in which ties are  *)
(* broken, to records [total, final]: the emissions and the quality score. *)
(***************************************************************************)
EXTENDS Integers, FiniteSets, FiniteSetsExt

CONSTANT MinQuality  \* min_quality, on the scale of the reports' final scores

Total(valid, p) == valid[p].total

\* The k-th smallest total.
Kth(valid, k) ==
    CHOOSE t \in {Total(valid, p) : p \in DOMAIN valid} :
        /\ Cardinality({p \in DOMAIN valid : Total(valid, p) < t}) < k
        /\ Cardinality({p \in DOMAIN valid : Total(valid, p) <= t}) >= k

\* Twice the median, statistics.median: the middle total, or the mean of two.
TwiceMedian(valid) ==
    LET n == Cardinality(DOMAIN valid)
    IN  Kth(valid, (n + 1) \div 2) + Kth(valid, (n + 2) \div 2)

Distance(a, b) == IF a < b THEN b - a ELSE a - b

Candidates(valid) ==
    LET good == {p \in DOMAIN valid : valid[p].final >= MinQuality}
    IN  IF good = {} THEN DOMAIN valid ELSE good

\* Wrong on purpose: the candidate of the best quality.
BestOfCandidates(valid) ==
    Min({p \in Candidates(valid) : \A q \in Candidates(valid) : valid[q].final <= valid[p].final})

\* Python's min and max return the first of several.
ClosestToMedian(valid) ==
    LET far(p)  == Distance(2 * Total(valid, p), TwiceMedian(valid))
        closest == {p \in Candidates(valid) : \A q \in Candidates(valid) : far(p) <= far(q)}
    IN  Min(closest)

BestScore(valid) ==
    Min({p \in DOMAIN valid : \A q \in DOMAIN valid : valid[q].final <= valid[p].final})

Selected(valid) ==
    IF Cardinality(DOMAIN valid) >= 3 THEN ClosestToMedian(valid) ELSE BestScore(valid)

\* The valid reports within 20% of the selected one, or all of them when that
\* is zero or alone.
Agreeing(valid, selected) ==
    LET chosen == Total(valid, selected)
    IN  IF chosen # 0 /\ Cardinality(DOMAIN valid) > 1
        THEN {p \in DOMAIN valid : 5 * Distance(Total(valid, p), chosen) <= chosen}
        ELSE DOMAIN valid
=============================================================================
