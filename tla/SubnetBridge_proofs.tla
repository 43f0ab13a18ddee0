------------------------ MODULE SubnetBridge_proofs ------------------------
(***************************************************************************)
(* Machine-checked proofs about SubnetBridge, for any number of miners and *)
(* any thresholds and recovery times: the breakers spare those who fail,   *)
(* and cannot keep the subnet shut out.                                    *)
(***************************************************************************)
EXTENDS SubnetBridge, FiniteSetTheorems, WellFoundedInduction, TLAPS

\* A miner's breaker opens when the miner fails; the bridge's, then or while a
\* miner's breaker that was open at the last failure is still open.
Timely ==
    /\ lastBad <= now
    /\ \A p \in Places : minerCb[p].opened_at <= lastBad
    /\ globalCb.opened_at <= lastBad + MinerRecovery

\* The bridge's breaker has counted every failure of a burst that can go on,
\* and when it is open it has opened with the last of them.
BurstIsCounted ==
    /\ burst.last <= now
    /\ now - burst.last < GlobalRecovery => burst.size <= globalCb.failures
    /\ globalCb.failures >= GlobalThreshold => globalCb.opened_at = burst.last

\* The breaker at a miner's place is the miner's.
Matches(m) ==
    LET cb == minerCb[Place(m)]
    IN  /\ cb.failures = streak[m]
        /\ restUntil[m] = IF streak[m] >= MinerThreshold THEN cb.opened_at + MinerRecovery ELSE 0

BreakersMatch == changes = 0 => \A m \in active : Matches(m)

IInv == TypeOK /\ Timely /\ BurstIsCounted /\ BreakersMatch

LEMMA Numbers ==
    /\ IsFiniteSet(Miners) /\ Miners \subseteq Nat
    /\ MinerThreshold \in Nat \ {0} /\ MinerRecovery \in Nat \ {0}
    /\ GlobalThreshold \in Nat \ {0} /\ GlobalRecovery \in Nat \ {0}
    /\ Durations \subseteq Nat
    /\ MaxChanges \in Nat /\ Horizon \in Nat
    /\ Failed # Unreadable
BY SubnetBridgeAssumption

----------------------------------------------------------------------------
(* Places *)

\* An active miner has a place in the list, and no two have the same.
LEMMA PlaceIsPlace ==
    ASSUME active \subseteq Miners, NEW m \in active
    PROVE  Place(m) \in Places
<1> DEFINE below == {k \in active : k < m}
<1>2. /\ IsFiniteSet(Miners \ {m})
      /\ Cardinality(Miners \ {m}) = Cardinality(Miners) - 1
    BY Numbers, FS_RemoveElement
<1>3. below \in SUBSET (Miners \ {m})
    <2>1. ASSUME NEW k \in active, k < m
          PROVE  k \in Miners \ {m}
        <3>1. k \in Nat /\ m \in Nat
            BY Numbers
        <3> QED
            BY <2>1, <3>1
    <2> QED
        BY <2>1
<1>4. /\ IsFiniteSet(below)
      /\ Cardinality(below) <= Cardinality(Miners) - 1
    BY <1>2, <1>3, FS_Subset
<1>5. Cardinality(below) \in Nat /\ Cardinality(Miners) \in Nat
    BY <1>4, Numbers, FS_CardinalityType
<1> QED
    BY <1>4, <1>5 DEF Place, Places

LEMMA PlacesDiffer ==
    ASSUME active \subseteq Miners, NEW m \in active, NEW k \in active, m # k
    PROVE  Place(m) # Place(k)
<1> DEFINE below(j) == {i \in active : i < j}
<1>1. \A i, j \in active : i < j => Cardinality(below(i)) # Cardinality(below(j))
    <2> SUFFICES ASSUME NEW i \in active, NEW j \in active, i < j
                 PROVE  Cardinality(below(i)) # Cardinality(below(j))
        OBVIOUS
    <2>1. IsFiniteSet(below(j))
        <3>1. below(j) \in SUBSET Miners
            OBVIOUS
        <3> QED
            BY <3>1, Numbers, FS_Subset
    <2>2. below(i) \in SUBSET below(j)
        <3>1. ASSUME NEW h \in active, h < i
              PROVE  h < j
            <4>1. h \in Nat /\ i \in Nat /\ j \in Nat
                BY Numbers
            <4> QED
                BY <3>1, <4>1
        <3> QED
            BY <3>1
    <2>3. i \in below(j) /\ i \notin below(i)
        BY Numbers
    <2> HIDE DEF below
    <2>4. Cardinality(below(j)) = Cardinality(below(i)) => below(j) = below(i)
        BY <2>1, <2>2, FS_Subset
    <2> QED
        BY <2>3, <2>4
<1>2. m < k \/ k < m
    BY Numbers
<1> QED
    BY <1>1, <1>2 DEF Place

----------------------------------------------------------------------------
(* The choice of a report *)

LEMMA LeastIs ==
    ASSUME NEW S \in SUBSET Nat, S # {}
    PROVE  \E x \in S : \A y \in S : x <= y
<1>1. PICK x \in S : \A y \in S : ~ (<<y, x>> \in OpToRel(<, Nat))
    BY NatLessThanWellFounded, WFMin
<1>2. ASSUME NEW y \in S
      PROVE  ~ (y < x)
    BY <1>1, <1>2, Zenon DEF OpToRel
<1> QED
    BY <1>2

LEMMA MinIs ==
    ASSUME NEW S \in SUBSET Nat, S # {}
    PROVE  Min(S) \in S /\ \A y \in S : Min(S) <= y
BY LeastIs DEF Min

LEMMA LeastValueIs ==
    ASSUME NEW S, S # {}, NEW f \in [S -> Nat]
    PROVE  \E p \in S : \A q \in S : f[p] <= f[q]
<1> DEFINE values == {f[p] : p \in S}
<1>1. values \in SUBSET Nat /\ values # {} /\ \A p \in S : f[p] \in values
    OBVIOUS
<1> HIDE DEF values
<1>2. PICK x \in values : \A y \in values : x <= y
    BY <1>1, LeastIs
<1> QED
    BY <1>1, <1>2 DEF values

\* A finite set of reports has one of the largest total: the one that has the
\* most reports at its total or below.
LEMMA LargestTotal ==
    ASSUME NEW S, IsFiniteSet(S), S # {}, NEW v \in [S -> [total : Nat, final : Nat]]
    PROVE  \E p \in S : \A q \in S : v[q].total <= v[p].total
<1> DEFINE below(p) == {q \in S : v[q].total <= v[p].total}
           above(p) == Cardinality(S) - Cardinality(below(p))
<1>1. ASSUME NEW p \in S
      PROVE  /\ IsFiniteSet(below(p))
             /\ Cardinality(below(p)) \in Nat /\ above(p) \in Nat
    <2>1. below(p) \in SUBSET S
        OBVIOUS
    <2>2. IsFiniteSet(below(p)) /\ Cardinality(below(p)) <= Cardinality(S)
        BY <2>1, FS_Subset
    <2>3. Cardinality(S) \in Nat /\ Cardinality(below(p)) \in Nat
        BY <2>2, FS_CardinalityType
    <2> QED
        BY <2>2, <2>3
<1>2. PICK p \in S : \A q \in S : above(p) <= above(q)
    <2> DEFINE f == [q \in S |-> above(q)]
    <2> HIDE DEF above
    <2>1. f \in [S -> Nat]
        BY <1>1
    <2> HIDE DEF f
    <2>2. PICK p \in S : \A q \in S : f[p] <= f[q]
        BY <2>1, LeastValueIs
    <2> QED
        BY <2>2 DEF f
<1>3. ASSUME NEW q \in S, ~ (v[q].total <= v[p].total)
      PROVE  FALSE
    <2>1. below(p) \in SUBSET below(q) /\ q \in below(q) /\ q \notin below(p)
        BY <1>3
    <2>2. /\ Cardinality(below(p)) <= Cardinality(below(q))
          /\ Cardinality(below(p)) = Cardinality(below(q)) => below(p) = below(q)
        BY <1>1, <2>1, FS_Subset
    <2>3. Cardinality(below(p)) # Cardinality(below(q))
        BY <2>1, <2>2
    <2>4. /\ Cardinality(below(p)) \in Nat /\ Cardinality(below(q)) \in Nat
          /\ Cardinality(S) \in Nat
        BY <1>1, FS_CardinalityType
    <2>5. above(p) <= above(q)
        BY <1>2
    <2> HIDE DEF below
    <2> QED
        BY <2>2, <2>3, <2>4, <2>5
<1> QED
    BY <1>3

\* There is a k-th smallest total.
LEMMA KthIs ==
    ASSUME NEW S, IsFiniteSet(S), NEW v \in [S -> [total : Nat, final : Nat]],
           NEW k \in 1..Cardinality(S)
    PROVE  /\ Kth(v, k) \in Nat
           /\ Cardinality({p \in S : v[p].total < Kth(v, k)}) < k
           /\ Cardinality({p \in S : v[p].total <= Kth(v, k)}) >= k
<1> DEFINE upTo(s) == {p \in S : v[p].total <= s}
           under(s) == {p \in S : v[p].total < s}
           enough == {s \in Nat : Cardinality(upTo(s)) >= k}
<1>1. DOMAIN v = S /\ \A p \in S : v[p].total \in Nat
    OBVIOUS
<1>2. Cardinality(S) \in Nat /\ k \in Nat \ {0}
    BY FS_CardinalityType
<1>3. enough # {}
    <2>1. S # {}
        BY <1>2, FS_EmptySet
    <2>2. PICK p \in S : \A q \in S : v[q].total <= v[p].total
        BY <2>1, LargestTotal
    <2>3. upTo(v[p].total) = S
        BY <2>2
    <2>4. Cardinality(upTo(v[p].total)) >= k
        BY <1>2, <2>3
    <2> QED
        BY <1>1, <2>4
<1>4. PICK s \in enough : \A t \in enough : s <= t
    BY <1>3, LeastIs
<1>5. \A t : IsFiniteSet(upTo(t)) /\ Cardinality(upTo(t)) \in Nat
    <2> SUFFICES ASSUME NEW t
                 PROVE  IsFiniteSet(upTo(t)) /\ Cardinality(upTo(t)) \in Nat
        OBVIOUS
    <2>1. upTo(t) \in SUBSET S
        OBVIOUS
    <2> QED
        BY <2>1, FS_Subset, FS_CardinalityType
<1>6. Cardinality(under(s)) < k
    <2>1. CASE s = 0
        <3>1. under(s) = {}
            BY <1>1, <2>1
        <3>2. Cardinality(under(s)) = 0
            BY <3>1, FS_EmptySet
        <3> HIDE DEF under
        <3> QED
            BY <1>2, <3>2
    <2>2. CASE s # 0
        <3>1. s - 1 \in Nat /\ s - 1 \notin enough
            BY <1>4, <2>2
        <3>2. under(s) = upTo(s - 1)
            BY <1>1, <2>2
        <3>3. ~ (Cardinality(upTo(s - 1)) >= k)
            BY <3>1
        <3> HIDE DEF under, upTo
        <3> QED
            BY <1>2, <1>5, <3>2, <3>3
    <2> QED
        BY <2>1, <2>2
<1>7. Cardinality(upTo(s)) >= k
    OBVIOUS
<1>8. s \in {v[p].total : p \in S}
    <2>1. ASSUME s \notin {v[p].total : p \in S}
          PROVE  FALSE
        <3>1. upTo(s) = under(s)
            BY <1>1, <2>1
        <3> HIDE DEF under, upTo
        <3> QED
            BY <1>2, <1>5, <1>6, <1>7, <3>1
    <2> QED
        BY <2>1
<1>9. /\ Kth(v, k) \in {v[p].total : p \in S}
      /\ Cardinality(under(Kth(v, k))) < k
      /\ Cardinality(upTo(Kth(v, k))) >= k
    BY <1>1, <1>6, <1>7, <1>8 DEF Kth, Total
<1> QED
    BY <1>1, <1>9

\* When more than half of the totals are in lo..hi, so is the middle one.
LEMMA MiddleIsWithin ==
    ASSUME NEW S, IsFiniteSet(S), NEW v \in [S -> [total : Nat, final : Nat]],
           NEW lo \in Nat, NEW hi \in Nat,
           2 * Cardinality({p \in S : v[p].total \in lo..hi}) > Cardinality(S),
           NEW k \in 1..Cardinality(S),
           2 * k >= Cardinality(S), 2 * k <= Cardinality(S) + 2
    PROVE  Kth(v, k) \in lo..hi
<1> DEFINE most == {p \in S : v[p].total \in lo..hi}
           upTo == {p \in S : v[p].total <= Kth(v, k)}
           under == {p \in S : v[p].total < Kth(v, k)}
<1>1. /\ Kth(v, k) \in Nat
      /\ Cardinality(under) < k /\ Cardinality(upTo) >= k
    BY KthIs, ZenonT(60)
<1>2. \A p \in S : v[p].total \in Nat
    OBVIOUS
<1>3. /\ most \in SUBSET S /\ upTo \in SUBSET S /\ under \in SUBSET S
    OBVIOUS
<1>4. /\ IsFiniteSet(most) /\ IsFiniteSet(upTo) /\ IsFiniteSet(under)
      /\ Cardinality(most) \in Nat /\ Cardinality(upTo) \in Nat /\ Cardinality(under) \in Nat
      /\ Cardinality(S) \in Nat
    BY <1>3, FS_Subset, FS_CardinalityType
<1>5. Kth(v, k) <= hi
    <2>1. ASSUME Kth(v, k) > hi
          PROVE  FALSE
        <3>1. most \in SUBSET under
            BY <1>1, <1>2, <2>1
        <3>2. Cardinality(most) <= Cardinality(under)
            BY <1>4, <3>1, FS_Subset
        <3> QED
            BY <1>1, <1>4, <3>2
    <2> QED
        BY <1>1, <2>1
<1>6. lo <= Kth(v, k)
    <2>1. ASSUME Kth(v, k) < lo
          PROVE  FALSE
        <3>1. most \cap upTo = {} /\ (most \cup upTo) \in SUBSET S
            BY <1>1, <1>2, <2>1
        <3>2. Cardinality(most \cup upTo) = Cardinality(most) + Cardinality(upTo)
            <4> HIDE DEF most, upTo
            <4>1. Cardinality(most \cup upTo) = Cardinality(most) + Cardinality(upTo) - Cardinality(most \cap upTo)
                BY <1>4, FS_Union
            <4>2. Cardinality(most \cap upTo) = 0
                BY <3>1, FS_EmptySet
            <4> QED
                BY <1>4, <4>1, <4>2
        <3>3. Cardinality(most \cup upTo) <= Cardinality(S)
            BY <3>1, FS_Subset
        <3> QED
            BY <1>1, <1>4, <3>2, <3>3
    <2> QED
        BY <1>1, <2>1
<1> QED
    BY <1>1, <1>5, <1>6

\* The report chosen among three or more is the closest to the median of those
\* of sufficient quality.
LEMMA ChosenIs ==
    ASSUME NEW S \in SUBSET Nat, IsFiniteSet(S), NEW v \in [S -> [total : Nat, final : Nat]],
           Cardinality(S) >= 3, TwiceMedian(v) \in Nat
    PROVE  /\ Selected(v) \in S
           /\ \A p \in S : v[p].final >= MinQuality =>
                  Distance(2 * v[Selected(v)].total, TwiceMedian(v))
                      <= Distance(2 * v[p].total, TwiceMedian(v))
<1> DEFINE far(p) == Distance(2 * Total(v, p), TwiceMedian(v))
           closest == {p \in Candidates(v) : \A q \in Candidates(v) : far(p) <= far(q)}
<1>1. DOMAIN v = S
    OBVIOUS
<1>2. S # {}
    BY FS_EmptySet
<1>3. /\ Candidates(v) \in SUBSET S /\ Candidates(v) # {}
      /\ \A p \in S : v[p].final >= MinQuality => p \in Candidates(v)
    BY <1>1, <1>2 DEF Candidates
<1>4. \A p \in S : far(p) \in Nat
    <2>1. \A p \in S : 2 * Total(v, p) \in Nat
        BY DEF Total
    <2> QED
        BY <2>1 DEF Distance
<1>5. closest # {}
    <2> HIDE DEF far
    <2> DEFINE f == [p \in Candidates(v) |-> far(p)]
    <2>1. f \in [Candidates(v) -> Nat]
        BY <1>3, <1>4
    <2> HIDE DEF f
    <2>2. PICK p \in Candidates(v) : \A q \in Candidates(v) : f[p] <= f[q]
        BY <1>3, <2>1, LeastValueIs
    <2> QED
        BY <2>2 DEF f
<1>6. closest \in SUBSET Nat
    BY <1>3
<1>7. Selected(v) = Min(closest)
    BY <1>1 DEF Selected, ClosestToMedian
<1>8. Selected(v) \in closest
    BY <1>5, <1>6, <1>7, MinIs
<1> QED
    BY <1>3, <1>8 DEF Total

\* The majority of the reports keeps the choice close to it.
LEMMA MajorityDecides ==
    ASSUME NEW S \in SUBSET Nat, IsFiniteSet(S), NEW v \in [S -> [total : Nat, final : Nat]],
           Cardinality(S) >= 3, NEW lo \in Nat, NEW hi \in Nat,
           2 * Cardinality({p \in S : v[p].total \in lo..hi}) > Cardinality(S),
           NEW good \in {p \in S : v[p].total \in lo..hi}, v[good].final >= MinQuality
    PROVE  /\ v[Selected(v)].total \in (2 * lo - hi)..(2 * hi - lo)
           /\ lo = hi => {p \in S : v[p].total \in lo..hi} \subseteq Agreeing(v, Selected(v))
<1> DEFINE n == Cardinality(S)
           chosen == v[Selected(v)].total
<1>1. n \in Nat /\ DOMAIN v = S /\ \A p \in S : v[p].total \in Nat
    BY FS_CardinalityType
<1>2. TwiceMedian(v) \in 2 * lo .. 2 * hi
    <2>1. /\ (n + 1) \div 2 \in 1..n /\ (n + 2) \div 2 \in 1..n
          /\ 2 * ((n + 1) \div 2) >= n /\ 2 * ((n + 1) \div 2) <= n + 2
          /\ 2 * ((n + 2) \div 2) >= n /\ 2 * ((n + 2) \div 2) <= n + 2
        <3> HIDE DEF n
        <3> QED
            BY <1>1 DEF n
    <2>2. Kth(v, (n + 1) \div 2) \in lo..hi
        BY <2>1, MiddleIsWithin
    <2>3. Kth(v, (n + 2) \div 2) \in lo..hi
        BY <2>1, MiddleIsWithin
    <2>4. TwiceMedian(v) = Kth(v, (n + 1) \div 2) + Kth(v, (n + 2) \div 2)
        BY <1>1 DEF TwiceMedian
    <2> HIDE DEF n
    <2> QED
        BY <2>2, <2>3, <2>4
<1>3. /\ Selected(v) \in S /\ chosen \in Nat
      /\ Distance(2 * chosen, TwiceMedian(v)) <= Distance(2 * v[good].total, TwiceMedian(v))
    <2>1. TwiceMedian(v) \in Nat
        BY <1>2
    <2> QED
        BY <1>1, <2>1, ChosenIs
<1>4. chosen \in (2 * lo - hi)..(2 * hi - lo)
    <2> HIDE DEF chosen
    <2>1. v[good].total \in lo..hi /\ TwiceMedian(v) \in Nat
        BY <1>2
    <2> QED
        BY <1>2, <1>3, <2>1 DEF Distance
<1>5. ASSUME lo = hi, NEW p \in S, v[p].total \in lo..hi
      PROVE  p \in Agreeing(v, Selected(v))
    <2>1. chosen = lo /\ v[p].total = lo
        BY <1>1, <1>3, <1>4, <1>5
    <2>2. 5 * Distance(v[p].total, chosen) <= chosen
        BY <2>1 DEF Distance
    <2> QED
        BY <1>1, <2>2 DEF Agreeing, Total
<1> QED
    BY <1>4, <1>5

----------------------------------------------------------------------------
(* The bridge's breaker *)

\* An estimate that is let through finds the breaker below its threshold, with
\* the whole burst counted if it is to go on.
LEMMA HalfOpenedBreaker ==
    ASSUME TypeOK, BurstIsCounted, ~GlobalIsOpen
    PROVE  /\ HalfOpened \in Breaker
           /\ HalfOpened.failures < GlobalThreshold
           /\ HalfOpened.opened_at \in {0, globalCb.opened_at}
           /\ now - burst.last < GlobalRecovery => burst.size <= HalfOpened.failures
<1>1. /\ burst.size \in Nat /\ burst.last \in Nat /\ now \in Nat
      /\ globalCb \in Breaker
      /\ globalCb.failures \in Nat /\ globalCb.opened_at \in Nat
    BY DEF TypeOK, Breaker
<1>2. CASE globalCb.failures >= GlobalThreshold
    <2>1. now - burst.last >= GlobalRecovery
        BY Numbers, <1>1, <1>2 DEF BurstIsCounted, GlobalIsOpen, IsOpen
    <2>2. HalfOpened = [failures |-> 0, opened_at |-> 0]
        BY <1>2 DEF HalfOpened, Closed
    <2> QED
        BY Numbers, <1>1, <2>1, <2>2 DEF Breaker
<1>3. CASE ~(globalCb.failures >= GlobalThreshold)
    <2>1. HalfOpened = globalCb
        BY <1>3 DEF HalfOpened
    <2> QED
        BY Numbers, <1>1, <1>3, <2>1 DEF BurstIsCounted
<1> QED
    BY <1>2, <1>3

\* A failure at time t or later is counted, and opens the breaker no later.
LEMMA FallBackCounts ==
    ASSUME TypeOK, BurstIsCounted, ~GlobalIsOpen,
           NEW asked, NEW t \in Nat, t >= now, FallBack(asked, t), now' = t
    PROVE  /\ globalCb' \in Breaker /\ globalCb'.failures <= GlobalThreshold
           /\ globalCb'.opened_at \in {0, globalCb.opened_at, t}
           /\ burst' \in [size : 0..GlobalThreshold, last : Nat]
           /\ BurstIsCounted'
<1> DEFINE old == HalfOpened
<1>1. /\ burst.size \in Nat /\ burst.last \in Nat /\ now \in Nat
      /\ burst.size <= GlobalThreshold /\ burst.last <= now
    BY DEF TypeOK, BurstIsCounted
<1>2. /\ old.failures \in Nat /\ old.opened_at \in Nat
      /\ old.failures < GlobalThreshold
      /\ old.opened_at \in {0, globalCb.opened_at}
      /\ now - burst.last < GlobalRecovery => burst.size <= old.failures
    BY HalfOpenedBreaker DEF Breaker
<1> HIDE DEF old
<1>3. globalCb' = [failures  |-> old.failures + 1,
                   opened_at |-> IF old.failures + 1 >= GlobalThreshold THEN t ELSE old.opened_at]
    BY DEF FallBack, RecordFailure, old
<1>4. /\ burst'.last = t
      /\ burst'.size = IF burst.size > 0 /\ t - burst.last < GlobalRecovery
                       THEN burst.size + 1 ELSE 1
      /\ burst' = [size |-> burst'.size, last |-> burst'.last]
    BY DEF FallBack, Continue
<1>5. t - burst.last < GlobalRecovery => burst.size <= old.failures
    BY Numbers, <1>1, <1>2
<1>6. burst'.size \in 1..(old.failures + 1)
    BY Numbers, <1>1, <1>2, <1>4, <1>5
<1>7. burst' \in [size : 0..GlobalThreshold, last : Nat]
    <2>1. burst'.size \in 0..GlobalThreshold
        BY Numbers, <1>2, <1>6
    <2> QED
        BY <1>4, <2>1
<1>8. BurstIsCounted'
    BY Numbers, <1>2, <1>3, <1>4, <1>6 DEF BurstIsCounted
<1>9. globalCb' \in Breaker /\ globalCb'.failures <= GlobalThreshold
    BY Numbers, <1>2, <1>3 DEF Breaker
<1>10. globalCb'.opened_at \in {0, globalCb.opened_at, t}
    BY <1>2, <1>3
<1> QED
    BY <1>7, <1>8, <1>9, <1>10

\* An estimate that ends with another error changes only a half-open breaker.
LEMMA ErrorKeepsCount ==
    ASSUME TypeOK, BurstIsCounted, ~GlobalIsOpen,
           NEW t \in Nat, t >= now, now' = t, globalCb' = HalfOpened, burst' = burst
    PROVE  /\ globalCb' \in Breaker /\ globalCb'.failures <= GlobalThreshold
           /\ globalCb'.opened_at \in {0, globalCb.opened_at}
           /\ BurstIsCounted'
<1>1. /\ burst.size \in Nat /\ burst.last \in Nat /\ now \in Nat
      /\ burst.last <= now
    BY DEF TypeOK, BurstIsCounted
<1>2. /\ globalCb' \in Breaker
      /\ globalCb'.failures \in Nat /\ globalCb'.failures < GlobalThreshold
      /\ globalCb'.opened_at \in {0, globalCb.opened_at}
      /\ now - burst.last < GlobalRecovery => burst.size <= globalCb'.failures
    BY HalfOpenedBreaker DEF Breaker
<1>3. BurstIsCounted'
    BY Numbers, <1>1, <1>2 DEF BurstIsCounted
<1> QED
    BY Numbers, <1>2, <1>3

----------------------------------------------------------------------------
(* The miners' breakers *)

\* A failure or a success of miner m is counted in the breaker at its place,
\* and in that one alone.
LEMMA CountingKeepsMatch ==
    ASSUME IInv, NEW answer, DOMAIN answer = Askable, NEW t \in Nat,
           CountAnswers(answer, t), active' = active, changes' = changes
    PROVE  BreakersMatch'
<1> DEFINE failed == {m \in LookedAt(answer) : answer[m] = Failed}
           fine   == LookedAt(answer) \ failed
           tired  == {m \in failed : streak[m] + 1 >= MinerThreshold}
<1>1. failed \subseteq active /\ fine \subseteq active /\ active \subseteq Miners
      /\ failed \cap fine = {}
    BY DEF LookedAt, Askable, IInv, TypeOK
<1>2. SUFFICES ASSUME changes = 0, NEW m \in active
               PROVE  Matches(m)'
    BY DEF BreakersMatch
<1>3. Place(m) \in Places /\ Place(m)' = Place(m) /\ m \in Miners
    BY <1>1, PlaceIsPlace DEF Place
<1>4. /\ \A k \in failed : Place(k) = Place(m) => k = m
      /\ \A k \in fine : Place(k) = Place(m) => k = m
    BY <1>1, PlacesDiffer
<1>5. Matches(m)
    BY <1>2 DEF IInv, BreakersMatch
<1>6. /\ minerCb' = [p \in Places |->
               IF \E k \in failed : Place(k) = p
               THEN RecordFailure(minerCb[p], MinerThreshold, t)
               ELSE IF \E k \in fine : Place(k) = p THEN Closed ELSE minerCb[p]]
      /\ streak' = [k \in Miners |->
               IF k \in failed THEN streak[k] + 1 ELSE IF k \in fine THEN 0 ELSE streak[k]]
      /\ restUntil' = [k \in Miners |->
               IF k \in tired THEN t + MinerRecovery ELSE IF k \in fine THEN 0 ELSE restUntil[k]]
    BY DEF CountAnswers
<1>7. streak[m] \in Nat
    BY <1>3 DEF IInv, TypeOK
<1> HIDE DEF failed, fine
<1>8. CASE m \in failed
    <2>1. minerCb'[Place(m)] = RecordFailure(minerCb[Place(m)], MinerThreshold, t)
        BY <1>3, <1>6, <1>8
    <2>2. streak'[m] = streak[m] + 1
        BY <1>3, <1>6, <1>8
    <2>3. restUntil'[m] = IF streak[m] + 1 >= MinerThreshold THEN t + MinerRecovery ELSE restUntil[m]
        BY <1>1, <1>3, <1>6, <1>8
    <2> QED
        BY Numbers, <1>3, <1>5, <1>7, <2>1, <2>2, <2>3 DEF Matches, RecordFailure
<1>9. CASE m \in fine
    <2>1. minerCb'[Place(m)] = Closed
        BY <1>1, <1>3, <1>4, <1>6, <1>9
    <2>2. streak'[m] = 0 /\ restUntil'[m] = 0
        BY <1>1, <1>3, <1>6, <1>9
    <2> QED
        BY Numbers, <1>3, <2>1, <2>2 DEF Matches, Closed
<1>10. CASE m \notin failed /\ m \notin fine
    <2>1. minerCb'[Place(m)] = minerCb[Place(m)]
        BY <1>3, <1>4, <1>6, <1>10
    <2>2. streak'[m] = streak[m] /\ restUntil'[m] = restUntil[m]
        BY <1>3, <1>6, <1>10
    <2> QED
        BY <1>3, <1>5, <2>1, <2>2 DEF Matches
<1> QED
    BY <1>8, <1>9, <1>10

\* The breakers keep their types, and open no later than the last failure.
LEMMA CountingIsTimely ==
    ASSUME IInv, NEW answer, NEW t \in Nat, t >= now, CountAnswers(answer, t)
    PROVE  /\ minerCb' \in [Places -> Breaker]
           /\ streak' \in [Miners -> Nat] /\ restUntil' \in [Miners -> Nat]
           /\ lastBad' \in {lastBad, t}
           /\ \A p \in Places : minerCb'[p].opened_at <= lastBad'
<1> DEFINE failed == {m \in LookedAt(answer) : answer[m] = Failed}
           fine   == LookedAt(answer) \ failed
<1>1. /\ minerCb \in [Places -> Breaker] /\ streak \in [Miners -> Nat]
      /\ restUntil \in [Miners -> Nat] /\ lastBad \in Nat /\ now \in Nat
      /\ lastBad <= now
      /\ \A p \in Places : minerCb[p].opened_at <= lastBad
    BY DEF IInv, TypeOK, Timely
<1>2. lastBad' = IF failed = {} THEN lastBad ELSE t
    BY DEF CountAnswers
<1>3. minerCb' = [p \in Places |->
               IF \E k \in failed : Place(k) = p
               THEN RecordFailure(minerCb[p], MinerThreshold, t)
               ELSE IF \E k \in fine : Place(k) = p THEN Closed ELSE minerCb[p]]
    BY DEF CountAnswers
<1> HIDE DEF failed, fine
<1>4. ASSUME NEW p \in Places
      PROVE  minerCb'[p] \in Breaker /\ minerCb'[p].opened_at <= lastBad'
    <2>1. /\ minerCb[p] \in Breaker /\ minerCb[p].opened_at <= lastBad
          /\ minerCb[p].failures \in Nat /\ minerCb[p].opened_at \in Nat
        BY <1>1 DEF Breaker
    <2>2. CASE \E k \in failed : Place(k) = p
        <3>1. minerCb'[p] = RecordFailure(minerCb[p], MinerThreshold, t)
            BY <1>3, <2>2
        <3>2. lastBad' = t
            BY <1>2, <2>2
        <3> QED
            BY Numbers, <1>1, <2>1, <3>1, <3>2 DEF RecordFailure, Breaker
    <2>3. CASE ~\E k \in failed : Place(k) = p
        <3>1. minerCb'[p] \in {Closed, minerCb[p]}
            BY <1>3, <2>3
        <3> QED
            BY <1>1, <1>2, <2>1, <3>1 DEF Closed, Breaker
    <2> QED
        BY <2>2, <2>3
<1>5. minerCb' \in [Places -> Breaker]
    BY <1>3, <1>4
<1>6. streak' \in [Miners -> Nat] /\ restUntil' \in [Miners -> Nat]
    BY Numbers, <1>1 DEF CountAnswers
<1> QED
    BY <1>2, <1>4, <1>5, <1>6

----------------------------------------------------------------------------
(* The invariant *)

\* Refuse and Return change nothing but the result.
LEMMA OnlyResult ==
    ASSUME IInv, UNCHANGED <<now, active, memory, history, changes>>,
           result' = None \/ result'.from \in {"subnet", "local", "error"}
    PROVE  IInv'
<1>1. TypeOK'
    BY DEF IInv, TypeOK, memory, history
<1>2. Timely' /\ BurstIsCounted' /\ BreakersMatch'
    BY DEF IInv, Timely, BurstIsCounted, BreakersMatch, Matches, Place, memory, history
<1> QED
    BY <1>1, <1>2 DEF IInv

\* An estimate that asks nobody and falls back, at a time when a miner's
\* breaker is open or something else has just gone wrong.
LEMMA FallBackKeeps ==
    ASSUME IInv, ~GlobalIsOpen, FallBack({}, now),
           lastBad' = now \/ (lastBad' = lastBad /\ now <= lastBad + MinerRecovery),
           UNCHANGED <<now, active, minerCb, streak, restUntil, changes>>
    PROVE  IInv'
<1>1. TypeOK /\ Timely /\ BurstIsCounted /\ BreakersMatch
    BY DEF IInv
<1>2. now \in Nat /\ lastBad \in Nat /\ globalCb.opened_at \in Nat
    BY <1>1 DEF TypeOK, Breaker
<1>3. /\ globalCb' \in Breaker /\ globalCb'.failures <= GlobalThreshold
      /\ globalCb'.opened_at \in {0, globalCb.opened_at, now}
      /\ burst' \in [size : 0..GlobalThreshold, last : Nat]
      /\ BurstIsCounted'
    BY <1>1, <1>2, FallBackCounts
<1>4. TypeOK'
    BY <1>1, <1>2, <1>3 DEF TypeOK, FallBack, Result
<1>5. Timely'
    <2>1. /\ \A p \in Places : minerCb[p].opened_at \in Nat /\ minerCb[p].opened_at <= lastBad
          /\ lastBad <= now /\ globalCb.opened_at <= lastBad + MinerRecovery
        BY <1>1 DEF Timely, TypeOK, Breaker
    <2> QED
        BY Numbers, <1>2, <1>3, <2>1 DEF Timely
<1>6. BreakersMatch'
    BY <1>1 DEF BreakersMatch, Matches, Place
<1> QED
    BY <1>3, <1>4, <1>5, <1>6 DEF IInv

LEMMA NobodyToAskKeeps ==
    ASSUME IInv, NobodyToAsk
    PROVE  IInv'
<1>1. now \in Nat /\ lastBad \in Nat /\ active \subseteq Miners
    BY DEF IInv, TypeOK
<1>2. lastBad' = now \/ (lastBad' = lastBad /\ now <= lastBad + MinerRecovery)
    <2>1. CASE active = {}
        BY <2>1 DEF NobodyToAsk
    <2>2. CASE active # {}
        <3>1. PICK m \in active : MinerIsOpen(Place(m))
            BY <2>2 DEF NobodyToAsk, Askable
        <3>2. Place(m) \in Places
            BY <1>1, PlaceIsPlace
        <3>3. /\ minerCb[Place(m)].opened_at \in Nat
              /\ minerCb[Place(m)].opened_at <= lastBad
            BY <3>2 DEF IInv, TypeOK, Timely, Breaker
        <3>4. now - minerCb[Place(m)].opened_at < MinerRecovery
            BY <3>1 DEF MinerIsOpen, IsOpen
        <3> QED
            BY Numbers, <1>1, <2>2, <3>3, <3>4 DEF NobodyToAsk
    <2> QED
        BY <2>1, <2>2
<1> QED
    BY <1>2, FallBackKeeps DEF NobodyToAsk

LEMMA QueryKeeps ==
    ASSUME IInv, NEW answer, DOMAIN answer = Askable, NEW t \in Nat, t >= now,
           Query(answer, t)
    PROVE  IInv'
<1>1. TypeOK /\ Timely /\ BurstIsCounted
    BY DEF IInv
<1>2. /\ ~GlobalIsOpen /\ CountAnswers(answer, t) /\ now' = t
      /\ active' = active /\ changes' = changes
    BY DEF Query
<1>3. /\ minerCb' \in [Places -> Breaker]
      /\ streak' \in [Miners -> Nat] /\ restUntil' \in [Miners -> Nat]
      /\ lastBad' \in {lastBad, t}
      /\ \A p \in Places : minerCb'[p].opened_at <= lastBad'
    BY <1>2, CountingIsTimely
<1>4. BreakersMatch'
    BY <1>2, CountingKeepsMatch
<1>5. /\ now \in Nat /\ lastBad \in Nat /\ lastBad <= now
      /\ globalCb.opened_at \in Nat /\ globalCb.opened_at <= lastBad + MinerRecovery
    BY <1>1 DEF TypeOK, Timely, Breaker
<1>6. /\ globalCb' \in Breaker /\ globalCb'.failures <= GlobalThreshold
      /\ burst' \in [size : 0..GlobalThreshold, last : Nat]
      /\ BurstIsCounted'
      /\ globalCb'.opened_at \in {0, globalCb.opened_at} \/ (globalCb'.opened_at = t /\ lastBad' = t)
      /\ result'.from \in {"subnet", "local", "error"}
    <2>1. CASE globalCb' = HalfOpened /\ burst' = burst /\ result' = Result("error", DOMAIN answer)
        <3>1. /\ globalCb' \in Breaker /\ globalCb'.failures <= GlobalThreshold
              /\ globalCb'.opened_at \in {0, globalCb.opened_at}
              /\ BurstIsCounted'
            BY <1>1, <1>2, <2>1, ErrorKeepsCount
        <3> QED
            BY <1>1, <2>1, <3>1 DEF TypeOK, Result
    <2>2. CASE (\A m \in DOMAIN answer : answer[m] = Failed) /\ FallBack(DOMAIN answer, t)
        <3>1. LookedAt(answer) = DOMAIN answer
            BY Numbers, <2>2 DEF LookedAt
        <3>2. lastBad' = t
            BY <1>2, <2>2, <3>1 DEF CountAnswers, Query
        <3>3. /\ globalCb' \in Breaker /\ globalCb'.failures <= GlobalThreshold
              /\ globalCb'.opened_at \in {0, globalCb.opened_at, t}
              /\ burst' \in [size : 0..GlobalThreshold, last : Nat]
              /\ BurstIsCounted'
            BY <1>1, <1>2, <2>2, FallBackCounts
        <3> QED
            BY <2>2, <3>2, <3>3 DEF FallBack, Result
    <2>3. CASE /\ globalCb' = Closed /\ burst' = NoBurst
               /\ result' = Consented(DOMAIN answer, Valid(answer))
        BY Numbers, <1>2, <2>3 DEF Closed, Breaker, NoBurst, BurstIsCounted, Consented
    <2> QED
        BY <2>1, <2>2, <2>3 DEF Query
<1>7. TypeOK'
    BY <1>1, <1>2, <1>3, <1>5, <1>6 DEF TypeOK
<1>8. Timely'
    BY Numbers, <1>2, <1>3, <1>5, <1>6 DEF Timely
<1> QED
    BY <1>4, <1>6, <1>7, <1>8 DEF IInv

LEMMA InitHolds == Init => IInv
<1> SUFFICES ASSUME Init PROVE IInv
    OBVIOUS
<1>1. Closed \in Breaker
    BY DEF Closed, Breaker
<1>2. TypeOK
    BY Numbers, <1>1 DEF Init, TypeOK, Closed, NoBurst
<1>3. Timely /\ BurstIsCounted
    BY Numbers DEF Init, Timely, BurstIsCounted, Closed, NoBurst
<1>4. BreakersMatch
    <2>1. ASSUME NEW m \in active
          PROVE  Matches(m)
        <3>1. Place(m) \in Places /\ m \in Miners
            BY <1>2, PlaceIsPlace DEF TypeOK
        <3> QED
            BY Numbers, <3>1 DEF Init, Matches, Closed
    <2> QED
        BY <2>1 DEF BreakersMatch
<1> QED
    BY <1>2, <1>3, <1>4 DEF IInv

LEMMA StepKeeps == IInv /\ [Next]_vars => IInv'
<1> SUFFICES ASSUME IInv, [Next]_vars PROVE IInv'
    OBVIOUS
<1> USE DEF IInv
<1>1. CASE Refuse
    BY <1>1, OnlyResult DEF Refuse, Result
<1>2. CASE SubnetRaises
    BY <1>2, FallBackKeeps DEF SubnetRaises
<1>3. CASE Unreachable
    <2>1. /\ globalCb' \in Breaker /\ globalCb'.failures <= GlobalThreshold
          /\ globalCb'.opened_at \in {0, globalCb.opened_at}
          /\ BurstIsCounted'
        <3>1. now \in Nat
            BY DEF TypeOK
        <3> QED
            BY <1>3, <3>1, ErrorKeepsCount DEF Unreachable, history
    <2>2. TypeOK'
        BY <1>3, <2>1 DEF Unreachable, TypeOK, history, Result
    <2>3. Timely'
        <3>1. lastBad \in Nat /\ globalCb.opened_at \in Nat
            BY DEF TypeOK, Breaker
        <3> QED
            BY Numbers, <1>3, <2>1, <3>1 DEF Unreachable, Timely, history
    <2>4. BreakersMatch'
        BY <1>3 DEF Unreachable, BreakersMatch, Matches, Place, history
    <2> QED
        BY <2>1, <2>2, <2>3, <2>4
<1>4. CASE NobodyToAsk
    BY <1>4, NobodyToAskKeeps
<1>5. ASSUME NEW d \in Durations, NEW mood \in Moods,
             Query([m \in Askable |-> mood[m]], now + d)
      PROVE  IInv'
    <2>1. now \in Nat /\ now + d \in Nat /\ now + d >= now
        BY Numbers DEF TypeOK
    <2> QED
        BY <1>5, <2>1, QueryKeeps
<1>6. CASE Return
    BY <1>6, OnlyResult DEF Return
<1>7. CASE Tick
    <2>1. now \in Nat /\ lastBad \in Nat /\ burst.last \in Nat
        BY DEF TypeOK
    <2>2. TypeOK'
        BY <1>7, <2>1 DEF Tick, TypeOK, memory, history
    <2>3. Timely' /\ BurstIsCounted'
        BY Numbers, <1>7, <2>1 DEF Tick, Timely, BurstIsCounted, memory, history
    <2>4. BreakersMatch'
        BY <1>7 DEF Tick, BreakersMatch, Matches, Place, memory, history
    <2> QED
        BY <2>2, <2>3, <2>4
<1>8. CASE Change
    <2>1. changes \in Nat /\ changes' = changes + 1 /\ changes' \in 0..MaxChanges
        BY Numbers, <1>8 DEF Change, TypeOK
    <2>2. TypeOK'
        BY <1>8, <2>1 DEF Change, TypeOK, memory, history
    <2>3. Timely' /\ BurstIsCounted'
        BY <1>8 DEF Change, Timely, BurstIsCounted, memory, history
    <2>4. BreakersMatch'
        BY <2>1 DEF BreakersMatch
    <2> QED
        BY <2>2, <2>3, <2>4
<1>9. CASE Restart
    <2>1. Closed \in Breaker /\ Closed.failures = 0 /\ Closed.opened_at = 0
        BY DEF Closed, Breaker
    <2>2. TypeOK'
        BY Numbers, <1>9, <2>1 DEF Restart, TypeOK, NoBurst
    <2>3. Timely' /\ BurstIsCounted'
        BY Numbers, <1>9, <2>1 DEF Restart, Timely, BurstIsCounted, NoBurst, TypeOK
    <2>4. BreakersMatch'
        <3>1. ASSUME NEW m \in active
              PROVE  Matches(m)'
            <4>1. Place(m) \in Places /\ Place(m)' = Place(m) /\ m \in Miners
                BY <1>9, PlaceIsPlace DEF TypeOK, Restart, Place
            <4> QED
                BY Numbers, <1>9, <2>1, <4>1 DEF Restart, Matches
        <3> QED
            BY <1>9, <3>1 DEF Restart, BreakersMatch
    <2> QED
        BY <2>2, <2>3, <2>4
<1>10. CASE UNCHANGED vars
    BY <1>10 DEF vars, TypeOK, Timely, BurstIsCounted, BreakersMatch, Matches, Place, memory, history
<1> QED
    BY <1>1, <1>2, <1>3, <1>4, <1>5, <1>6, <1>7, <1>8, <1>9, <1>10 DEF Next

\* A step that ends an estimate which has asked miners is a query of those that
\* may be asked, and the bridge's breaker is not open.
LEMMA AskingIsQuerying ==
    ASSUME [Next]_vars, Begin, ~Begin', result'.asked # {}
    PROVE  ~GlobalIsOpen /\ result'.asked = Askable
<1>1. CASE Refuse \/ SubnetRaises \/ Unreachable \/ NobodyToAsk
    BY <1>1 DEF Refuse, SubnetRaises, Unreachable, NobodyToAsk, FallBack, Result
<1>2. ASSUME NEW d \in Durations, NEW mood \in Moods,
             Query([m \in Askable |-> mood[m]], now + d)
      PROVE  ~GlobalIsOpen /\ result'.asked = Askable
    BY <1>2 DEF Query, FallBack, Result, Consented
<1>3. CASE Return \/ Tick \/ Change \/ Restart \/ UNCHANGED vars
    BY <1>3 DEF Return, Tick, Change, Restart, Begin, vars
<1> QED
    BY <1>1, <1>2, <1>3 DEF Next

----------------------------------------------------------------------------
(* The theorems *)

\* Every reachable state is well typed; the bridge's breaker never counts beyond
\* its threshold (_global_cb_record_failure).
THEOREM TypeCorrect == Spec => []TypeOK
<1>1. IInv => TypeOK
    BY DEF IInv
<1> QED
    BY <1>1, InitHolds, StepKeeps, PTL DEF Spec

\* The two kinds of breakers cannot keep each other open: once nothing has gone
\* wrong in the subnet for as long as both recovery times together, every
\* estimate asks every active miner (_miner_cb_is_open, _global_cb_is_open).
THEOREM SubnetRecovers == Spec => []Recovers
<1>1. IInv => Recovers
    <2> SUFFICES ASSUME IInv, now >= lastBad + MinerRecovery + GlobalRecovery
                 PROVE  ~GlobalIsOpen /\ \A p \in Places : ~MinerIsOpen(p)
        BY DEF Recovers
    <2>1. /\ now \in Nat /\ lastBad \in Nat
          /\ globalCb.opened_at \in Nat /\ globalCb.opened_at <= lastBad + MinerRecovery
        BY DEF IInv, TypeOK, Timely, Breaker
    <2>2. ~GlobalIsOpen
        BY Numbers, <2>1 DEF GlobalIsOpen, IsOpen
    <2>3. ASSUME NEW p \in Places
          PROVE  ~MinerIsOpen(p)
        <3>1. minerCb[p].opened_at \in Nat /\ minerCb[p].opened_at <= lastBad
            BY DEF IInv, TypeOK, Timely, Breaker
        <3> QED
            BY Numbers, <2>1, <3>1 DEF MinerIsOpen, IsOpen
    <2> QED
        BY <2>2, <2>3
<1> QED
    BY <1>1, InitHolds, StepKeeps, PTL DEF Spec

\* While the network does not change, a query leaves out exactly the miners
\* that have failed too often and too recently (_miner_cb_is_open).
THEOREM FailingMinersAreSpared == Spec => MinersAreSpared
<1>1. ASSUME IInv, [Next]_vars, Begin, ~Begin', result'.asked # {}, changes = 0
      PROVE  result'.asked = {m \in active : restUntil[m] <= now}
    <2>1. result'.asked = Askable
        BY <1>1, AskingIsQuerying
    <2>2. ASSUME NEW m \in active
          PROVE  MinerIsOpen(Place(m)) <=> ~(restUntil[m] <= now)
        <3>1. Place(m) \in Places /\ m \in Miners
            BY <1>1, PlaceIsPlace DEF IInv, TypeOK
        <3>2. Matches(m)
            BY <1>1 DEF IInv, BreakersMatch
        <3>3. /\ minerCb[Place(m)].opened_at \in Nat /\ now \in Nat
              /\ streak[m] \in Nat
            BY <1>1, <3>1 DEF IInv, TypeOK, Breaker
        <3> QED
            BY Numbers, <3>2, <3>3 DEF MinerIsOpen, IsOpen, Matches
    <2> QED
        BY <2>1, <2>2 DEF Askable
<1> QED
    BY <1>1, InitHolds, StepKeeps, PTL DEF Spec, MinersAreSpared

\* After a burst of GlobalThreshold failed estimates no miner is asked for
\* GlobalRecovery (_global_cb_is_open).
THEOREM FailingSubnetIsSpared == Spec => SubnetIsSpared
<1>1. ASSUME IInv, [Next]_vars, Begin, ~Begin', result'.asked # {}, burst.size = GlobalThreshold
      PROVE  now - burst.last >= GlobalRecovery
    <2>1. ~GlobalIsOpen
        BY <1>1, AskingIsQuerying
    <2>2. /\ now \in Nat /\ burst.last \in Nat
          /\ globalCb.failures \in Nat /\ globalCb.opened_at \in Nat
        BY <1>1 DEF IInv, TypeOK, Breaker
    <2> QED
        BY Numbers, <1>1, <2>1, <2>2 DEF IInv, BurstIsCounted, GlobalIsOpen, IsOpen
<1> QED
    BY <1>1, InitHolds, StepKeeps, PTL DEF Spec, SubnetIsSpared
\* What an estimate returns from the subnet is the choice among well-formed
\* reports.
ResultIsChosen ==
    result # None /\ result.from = "subnet" =>
        /\ DOMAIN result.valid \subseteq Places
        /\ result.valid \in [DOMAIN result.valid -> [total : Nat, final : Nat]]
        /\ result.chosen = Selected(result.valid)
        /\ result.agreeing = Agreeing(result.valid, result.chosen)

LEMMA PlacesFinite == IsFiniteSet(Places) /\ Places \subseteq Nat
<1>1. Cardinality(Miners) \in Nat
    BY Numbers, FS_CardinalityType
<1> QED
    BY <1>1, FS_Interval, SMTT(40) DEF Places

\* The valid answers of a query are reports by place.
LEMMA ValidIs ==
    ASSUME active \subseteq Miners, NEW answer, DOMAIN answer \subseteq active
    PROVE  /\ DOMAIN Valid(answer) \subseteq Places
           /\ Valid(answer) \in [DOMAIN Valid(answer) -> [total : Nat, final : Nat]]
<1> DEFINE reporting == {m \in DOMAIN answer : answer[m] \in Reports}
           places == {Place(m) : m \in reporting}
<1>1. Valid(answer) = [p \in places |-> answer[CHOOSE m \in reporting : Place(m) = p]]
    BY DEF Valid
<1>2. places \subseteq Places
    BY PlaceIsPlace
<1>3. \A p \in places : answer[CHOOSE m \in reporting : Place(m) = p] \in [total : Nat, final : Nat]
    BY SubnetBridgeAssumption
<1> QED
    BY <1>1, <1>2, <1>3

LEMMA ResultKeeps == TypeOK /\ ResultIsChosen /\ [Next]_vars => ResultIsChosen'
<1> SUFFICES ASSUME TypeOK, ResultIsChosen, [Next]_vars
             PROVE  ResultIsChosen'
    OBVIOUS
<1>1. CASE Refuse \/ SubnetRaises \/ Unreachable \/ NobodyToAsk
    BY <1>1 DEF Refuse, SubnetRaises, Unreachable, NobodyToAsk, FallBack, Result, ResultIsChosen
<1>2. ASSUME NEW d \in Durations, NEW mood \in Moods,
             Query([m \in Askable |-> mood[m]], now + d)
      PROVE  ResultIsChosen'
    <2> DEFINE answer == [m \in Askable |-> mood[m]]
    <2>1. /\ DOMAIN Valid(answer) \subseteq Places
          /\ Valid(answer) \in [DOMAIN Valid(answer) -> [total : Nat, final : Nat]]
        BY ValidIs DEF Askable, TypeOK
    <2>2. \/ result'.from \in {"error", "local"}
          \/ result' = Consented(DOMAIN answer, Valid(answer))
        BY <1>2 DEF Query, FallBack, Result
    <2> HIDE DEF answer
    <2> QED
        BY <2>1, <2>2 DEF Consented, ResultIsChosen, Places
<1>3. CASE Return
    BY <1>3 DEF Return, ResultIsChosen
<1>4. CASE Tick \/ Change \/ Restart \/ UNCHANGED vars
    BY <1>4 DEF Tick, Change, Restart, vars, ResultIsChosen, Places
<1> QED
    BY <1>1, <1>2, <1>3, <1>4 DEF Next

\* Whatever a minority of the miners reports, the report chosen stays close to
\* the others (_select_by_consensus: "robust against a small number of outlier
\* miners").
THEOREM MinorityDoesNotDecide == Spec => []OutliersDoNotDecide
<1>1. Init => ResultIsChosen
    BY DEF Init, ResultIsChosen
<1>2. ResultIsChosen => OutliersDoNotDecide
    <2> DEFINE v == result.valid
               S == DOMAIN v
    <2> SUFFICES ASSUME ResultIsChosen, result # None, result.from = "subnet", Cardinality(S) >= 3,
                        NEW a \in S, NEW b \in S,
                        2 * Cardinality({p \in S : v[p].total \in v[a].total..v[b].total}) > Cardinality(S),
                        NEW good \in {p \in S : v[p].total \in v[a].total..v[b].total},
                        v[good].final >= MinQuality
                 PROVE  /\ v[result.chosen].total \in
                               (2 * v[a].total - v[b].total)..(2 * v[b].total - v[a].total)
                        /\ v[a].total = v[b].total =>
                               {p \in S : v[p].total \in v[a].total..v[b].total} \subseteq result.agreeing
        BY DEF OutliersDoNotDecide
    <2>1. /\ v \in [S -> [total : Nat, final : Nat]]
          /\ result.chosen = Selected(v) /\ result.agreeing = Agreeing(v, Selected(v))
        BY DEF ResultIsChosen
    <2>2. S \in SUBSET Nat /\ IsFiniteSet(S)
        BY PlacesFinite, FS_Subset DEF ResultIsChosen
    <2>3. v[a].total \in Nat /\ v[b].total \in Nat
        BY <2>1
    <2> HIDE DEF v, S
    <2>4. PICK lo \in Nat, hi \in Nat : lo = v[a].total /\ hi = v[b].total
        BY <2>3
    <2>5. /\ v[Selected(v)].total \in (2 * lo - hi)..(2 * hi - lo)
          /\ lo = hi => {p \in S : v[p].total \in lo..hi} \subseteq Agreeing(v, Selected(v))
        BY <2>1, <2>2, <2>4, MajorityDecides
    <2> QED
        BY <2>1, <2>4, <2>5
<1>3. IInv /\ ResultIsChosen /\ [Next]_vars => (IInv /\ ResultIsChosen)'
    BY StepKeeps, ResultKeeps DEF IInv
<1> QED
    BY <1>1, <1>2, <1>3, InitHolds, PTL DEF Spec
=============================================================================
