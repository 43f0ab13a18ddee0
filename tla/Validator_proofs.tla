-------------------------- MODULE Validator_proofs --------------------------
(***************************************************************************)
(* Machine-checked proofs about Validator, for any miners, thresholds and  *)
(* smoothing factors.                                                      *)
(***************************************************************************)
EXTENDS Validator, TLAPS

\* What is on disk is what is in memory, but for the score that is being
\* saved and after a save that has been cut short.
DiskIsCurrent ==
    /\ pc = "sign" => file = scores
    /\ ~cut =>
          /\ pc \notin {"save", "sign"} => Loaded = scores
          /\ pc = "save" => \E m \in Miners : \A k \in Miners \ {m} : Loaded[k] = scores[k]

\* last_weight_block is not older than the weights on the chain.
AgeIsKnown ==
    ~blind => age <= chainAge /\ (pc = "set" => age = Tempo)

IInv == TypeOK /\ DiskIsCurrent /\ AgeIsKnown

LEMMA Numbers ==
    /\ Miners \subseteq Nat
    /\ Networks \subseteq SUBSET Miners
    /\ Scale \in Nat \ {0}
    /\ Marks \in [Miners -> SUBSET (0..Scale)]
    /\ Alpha \in 0..10
    /\ ColdRounds \in Nat /\ SkipAfter \in Nat
    /\ ProbeEvery \in Nat \ {0} /\ MaxFailures \in Nat \ {0}
    /\ BaseBackoff \in Nat \ {0} /\ MaxBackoff \in Nat \ {0} /\ BaseBackoff <= MaxBackoff
    /\ WeightTries \in Nat \ {0} /\ Tempo \in Nat \ {0}
    /\ MaxChanges \in Nat /\ MaxFaults \in Nat /\ MaxRestarts \in Nat
    /\ None \notin 0..Scale /\ None \notin [Miners -> 0..Scale \cup {None}]
BY ValidatorAssumption

-----------------------------------------------------------------------------
(* Moving averages *)

\* A moving average stays on the scale, whatever the smoothing factor.
LEMMA BlendOnScale ==
    ASSUME NEW s \in 0..Scale, NEW x \in 0..Scale, NEW a \in 0..10
    PROVE  Blend(s, x, a) \in 0..Scale
<1>1. Scale \in Nat
    BY Numbers
<1>2. (10 - a) * s + a * x \in 0..(10 * Scale)
    <2>1. CASE a = 0
        BY <1>1, <2>1
    <2>2. CASE a = 1
        BY <1>1, <2>2
    <2>3. CASE a = 2
        BY <1>1, <2>3
    <2>4. CASE a = 3
        BY <1>1, <2>4
    <2>5. CASE a = 4
        BY <1>1, <2>5
    <2>6. CASE a = 5
        BY <1>1, <2>6
    <2>7. CASE a = 6
        BY <1>1, <2>7
    <2>8. CASE a = 7
        BY <1>1, <2>8
    <2>9. CASE a = 8
        BY <1>1, <2>9
    <2>10. CASE a = 9
        BY <1>1, <2>10
    <2>11. CASE a = 10
        BY <1>1, <2>11
    <2> QED
        BY <2>1, <2>2, <2>3, <2>4, <2>5, <2>6, <2>7, <2>8, <2>9, <2>10, <2>11
<1> DEFINE y == (10 - a) * s + a * x
<1>3. y \in 0..(10 * Scale)
    BY <1>2
<1> HIDE DEF y
<1>4. y \div 10 \in 0..Scale
    BY <1>1, <1>3
<1> QED
    BY <1>4 DEF Blend, y

LEMMA ColdStart ==
    /\ ColdAlpha \in 0..10
    /\ ColdSeed \in 0..Scale
BY Numbers DEF ColdAlpha, ColdSeed, Least

\* What is loaded is a table of scores.
LEMMA LoadedIsTyped ==
    ASSUME TypeOK
    PROVE  Loaded \in [Miners -> 0..Scale \cup {None}]
BY DEF TypeOK, Loaded, NoScores

-----------------------------------------------------------------------------
(* The inductive invariant *)

LEMMA InitHolds == Init => IInv
<1> SUFFICES ASSUME Init
             PROVE  IInv
    OBVIOUS
<1> USE Numbers DEF Init, NoScores
<1>1. TypeOK
    <2>1. /\ scores \in [Miners -> 0..Scale \cup {None}]
          /\ counts \in [Miners -> 0..(ColdRounds + 1)]
          /\ zeros \in [Miners -> 0..SkipAfter]
        OBVIOUS
    <2>2. /\ case \in 0..(ProbeEvery - 1)
          /\ tries \in 0..(WeightTries - 1)
          /\ failures \in 0..MaxFailures /\ backoff \in BaseBackoff..MaxBackoff
          /\ age \in 0..Tempo /\ chainAge \in 0..Tempo
          /\ changes \in 0..MaxChanges /\ faults \in 0..MaxFaults /\ restarts \in 0..MaxRestarts
        OBVIOUS
    <2>3. cut \in BOOLEAN /\ blind \in BOOLEAN
        OBVIOUS
    <2> QED
        BY <2>1, <2>2, <2>3 DEF TypeOK
<1>2. DiskIsCurrent
    <2>1. Loaded = scores
        BY DEF Loaded
    <2>2. pc \notin {"sign", "save"}
        OBVIOUS
    <2> QED
        BY <2>1, <2>2 DEF DiskIsCurrent
<1>3. AgeIsKnown
    BY DEF AgeIsKnown
<1> QED
    BY <1>1, <1>2, <1>3 DEF IInv

\* What an answer makes of the ratings.
LEMMA RatingsStayTyped ==
    ASSUME TypeOK, NEW m \in Miners, NEW mark \in Marks[m], Rate(m, mark)
    PROVE  /\ scores' \in [Miners -> 0..Scale \cup {None}]
           /\ counts' \in [Miners -> 0..(ColdRounds + 1)]
           /\ zeros' \in [Miners -> 0..SkipAfter]
           /\ \A k \in Miners \ {m} : scores'[k] = scores[k]
<1> USE Numbers
<1>1. mark \in 0..Scale
    OBVIOUS
<1>2. zeros' \in [Miners -> 0..SkipAfter]
    BY DEF TypeOK, Rate, Least
<1>3. CASE scores[m] # None
    <2> DEFINE alpha == IF counts[m] + 1 <= ColdRounds THEN ColdAlpha ELSE Alpha
    <2>1. scores[m] \in 0..Scale
        BY <1>3 DEF TypeOK
    <2>2. alpha \in 0..10
        BY ColdStart
    <2>3. Blend(scores[m], mark, alpha) \in 0..Scale
        BY <1>1, <2>1, <2>2, BlendOnScale
    <2>4. /\ scores' = [scores EXCEPT ![m] = Blend(scores[m], mark, alpha)]
          /\ counts' = [counts EXCEPT ![m] = Least(counts[m] + 1, ColdRounds + 1)]
        BY <1>3 DEF Rate
    <2>5. counts' \in [Miners -> 0..(ColdRounds + 1)]
        BY <2>4 DEF TypeOK, Least
    <2> HIDE DEF alpha
    <2> QED
        BY <1>2, <2>3, <2>4, <2>5 DEF TypeOK
<1>4. CASE scores[m] = None
    <2>1. Blend(ColdSeed, mark, ColdAlpha) \in 0..Scale
        BY <1>1, ColdStart, BlendOnScale
    <2>2. /\ scores' = [scores EXCEPT ![m] = Blend(ColdSeed, mark, ColdAlpha)]
          /\ counts' = [counts EXCEPT ![m] = 1]
        BY <1>4 DEF Rate
    <2>3. counts' \in [Miners -> 0..(ColdRounds + 1)]
        BY <2>2 DEF TypeOK
    <2> QED
        BY <1>2, <2>1, <2>2, <2>3 DEF TypeOK
<1> QED
    BY <1>3, <1>4

LEMMA TypesArePreserved ==
    ASSUME TypeOK, Next
    PROVE  TypeOK'
<1> USE Numbers DEF TypeOK, Least
<1>1. CASE Sync
    BY <1>1 DEF Sync, round, ratings, breaker, weights, disk
<1>2. ASSUME NEW curated \in BOOLEAN, NEW probe \in Probes, Choose(probe, curated)
      PROVE  TypeOK'
    <2>1. probe \subseteq Miners
        BY DEF Probes, kSubset, Skipped
    <2>2. case' \in 0..(ProbeEvery - 1)
        BY <1>2 DEF Choose
    <2> QED
        BY <1>2, <2>1, <2>2 DEF Choose, Skipped, ratings, breaker, weights, disk, bounds
<1>3. CASE NobodyToAsk
    BY <1>3 DEF NobodyToAsk, ratings, breaker, weights, disk, bounds
<1>4. CASE QueryAnswered
    BY <1>4 DEF QueryAnswered, ratings, weights, disk, bounds
<1>5. CASE QueryFails
    BY <1>5 DEF QueryFails, ratings, weights, disk, bounds
<1>6. ASSUME NEW m \in Miners, Score(m)
      PROVE  TypeOK'
    <2>1. PICK mark \in Marks[m] : Rate(m, mark)
        BY <1>6 DEF Score
    <2>2. /\ scores' \in [Miners -> 0..Scale \cup {None}]
          /\ counts' \in [Miners -> 0..(ColdRounds + 1)]
          /\ zeros' \in [Miners -> 0..SkipAfter]
        BY <2>1, RatingsStayTyped
    <2> QED
        BY <1>6, <2>2 DEF Score, breaker, weights, disk, bounds
<1>7. CASE ReplaceScores
    BY <1>7 DEF ReplaceScores, ratings, breaker, weights, bounds
<1>8. CASE ReplaceSignature
    BY <1>8 DEF ReplaceSignature, ratings, breaker, weights, bounds
<1>9. CASE SaveFails
    BY <1>9 DEF SaveFails, ratings, breaker, weights
<1>10. CASE Scored
    BY <1>10 DEF Scored, ratings, breaker, weights, disk, bounds
<1>11. CASE ShouldSetWeights
    BY <1>11 DEF ShouldSetWeights, ratings, breaker, disk, bounds
<1>12. CASE SetWeights
    <2>1. tries' \in 0..(WeightTries - 1) /\ age' \in 0..Tempo /\ chainAge' \in 0..Tempo
        BY <1>12 DEF SetWeights
    <2>2. blind' \in BOOLEAN
        BY <1>12 DEF SetWeights
    <2> QED
        BY <1>12, <2>1, <2>2 DEF SetWeights, ratings, breaker, disk, bounds
<1>13. CASE SetWeightsFails
    <2>1. tries' \in 0..(WeightTries - 1)
        BY <1>13 DEF SetWeightsFails
    <2>2. chainAge' \in 0..Tempo
        BY <1>13 DEF SetWeightsFails
    <2>3. blind' \in BOOLEAN
        BY <1>13 DEF SetWeightsFails
    <2>4. pc' \in {"set", "sleep"}
        BY <1>13 DEF SetWeightsFails
    <2> QED
        BY <1>13, <2>1, <2>2, <2>3, <2>4 DEF SetWeightsFails, ratings, breaker, disk, bounds
<1>14. CASE Wake
    BY <1>14 DEF Wake, ratings, breaker, disk, bounds
<1>15. CASE Restart
    <2>1. scores' \in [Miners -> 0..Scale \cup {None}]
        BY <1>15, LoadedIsTyped DEF Restart
    <2>2. counts' \in [Miners -> 0..(ColdRounds + 1)] /\ zeros' \in [Miners -> 0..SkipAfter]
        BY <1>15 DEF Restart
    <2>3. /\ case' \in 0..(ProbeEvery - 1) /\ tries' \in 0..(WeightTries - 1)
          /\ failures' \in 0..MaxFailures /\ backoff' \in BaseBackoff..MaxBackoff
          /\ age' \in 0..Tempo
        BY <1>15 DEF Restart
    <2>4. failures' < MaxFailures => backoff' = BaseBackoff
        BY <1>15 DEF Restart
    <2>5. cut' \in BOOLEAN /\ blind' \in BOOLEAN
        BY <1>15 DEF Restart
    <2>6. restarts' \in 0..MaxRestarts
        BY <1>15 DEF Restart
    <2> QED
        BY <1>15, <2>1, <2>2, <2>3, <2>4, <2>5, <2>6 DEF Restart
<1> QED
    BY <1>1, <1>2, <1>3, <1>4, <1>5, <1>6, <1>7, <1>8, <1>9, <1>10, <1>11, <1>12, <1>13, <1>14, <1>15
    DEF Next, Loop, ChooseAny

LEMMA DiskStaysCurrent ==
    ASSUME IInv, Next
    PROVE  DiskIsCurrent'
<1> USE DEF IInv, DiskIsCurrent
<1>1. CASE UNCHANGED <<scores, file, signed, cut>> /\ pc \notin {"save", "sign"} /\ pc' \notin {"save", "sign"}
    BY <1>1 DEF Loaded
<1>2. ASSUME NEW m \in Miners, Score(m)
      PROVE  DiskIsCurrent'
    <2>1. \A k \in Miners \ {m} : scores'[k] = scores[k]
        BY <1>2, RatingsStayTyped DEF Score
    <2>2. pc = "score" /\ pc' = "save" /\ Loaded' = Loaded /\ cut' = cut
        BY <1>2 DEF Score, disk, Loaded
    <2> QED
        BY <2>1, <2>2
<1>3. CASE ReplaceScores
    BY <1>3 DEF ReplaceScores, ratings
<1>4. CASE ReplaceSignature
    <2>1. file = scores /\ file' = file /\ scores' = scores /\ signed' = file /\ pc' = "score"
        BY <1>4 DEF ReplaceSignature, ratings
    <2>2. file # None
        BY <2>1, Numbers DEF TypeOK
    <2> QED
        BY <2>1, <2>2 DEF Loaded
<1>5. CASE SaveFails
    BY <1>5 DEF SaveFails
<1>6. CASE Restart
    <2>1. scores' = Loaded /\ Loaded' = Loaded /\ pc' = "round"
        BY <1>6 DEF Restart, Loaded
    <2> QED
        BY <2>1
<1> USE <1>1 DEF ratings, disk
<1>7. CASE Sync
    BY <1>7 DEF Sync, round
<1>8. ASSUME NEW curated \in BOOLEAN, NEW probe \in Probes, Choose(probe, curated)
      PROVE  DiskIsCurrent'
    BY <1>8 DEF Choose
<1>9. CASE NobodyToAsk
    BY <1>9 DEF NobodyToAsk
<1>10. CASE QueryAnswered
    BY <1>10 DEF QueryAnswered
<1>11. CASE QueryFails
    BY <1>11 DEF QueryFails
<1>12. CASE Scored
    BY <1>12 DEF Scored
<1>13. CASE ShouldSetWeights
    BY <1>13 DEF ShouldSetWeights
<1>14. CASE SetWeights
    BY <1>14 DEF SetWeights
<1>15. CASE SetWeightsFails
    BY <1>15 DEF SetWeightsFails
<1>16. CASE Wake
    BY <1>16 DEF Wake
<1> QED
    BY <1>2, <1>3, <1>4, <1>5, <1>6, <1>7, <1>8, <1>9, <1>10, <1>11, <1>12, <1>13, <1>14, <1>15, <1>16
    DEF Next, Loop, ChooseAny

LEMMA AgeStaysKnown ==
    ASSUME IInv, Next
    PROVE  AgeIsKnown'
<1> USE Numbers DEF IInv, AgeIsKnown
<1>1. CASE UNCHANGED weights /\ pc' # "set"
    BY <1>1 DEF weights
<1>2. CASE ShouldSetWeights
    BY <1>2 DEF ShouldSetWeights, TypeOK
<1>3. CASE SetWeights
    BY <1>3 DEF SetWeights, TypeOK
<1>4. CASE SetWeightsFails
    BY <1>4 DEF SetWeightsFails
<1>5. CASE Wake
    BY <1>5 DEF Wake, Least, TypeOK
<1>6. CASE Restart
    BY <1>6 DEF Restart
<1> USE <1>1
<1>7. CASE Sync
    BY <1>7 DEF Sync, round
<1>8. ASSUME NEW curated \in BOOLEAN, NEW probe \in Probes, Choose(probe, curated)
      PROVE  AgeIsKnown'
    BY <1>8 DEF Choose
<1>9. CASE NobodyToAsk
    BY <1>9 DEF NobodyToAsk
<1>10. CASE QueryAnswered
    BY <1>10 DEF QueryAnswered
<1>11. CASE QueryFails
    BY <1>11 DEF QueryFails
<1>12. ASSUME NEW m \in Miners, Score(m)
       PROVE  AgeIsKnown'
    BY <1>12 DEF Score
<1>13. CASE ReplaceScores
    BY <1>13 DEF ReplaceScores
<1>14. CASE ReplaceSignature
    BY <1>14 DEF ReplaceSignature
<1>15. CASE SaveFails
    BY <1>15 DEF SaveFails
<1>16. CASE Scored
    BY <1>16 DEF Scored
<1> QED
    BY <1>2, <1>3, <1>4, <1>5, <1>6, <1>7, <1>8, <1>9, <1>10, <1>11, <1>12, <1>13, <1>14, <1>15, <1>16
    DEF Next, Loop, ChooseAny

\* Every step keeps the invariant.
LEMMA StepKeeps ==
    ASSUME IInv, [Next]_vars
    PROVE  IInv'
<1>1. CASE Next
    BY <1>1, TypesArePreserved, DiskStaysCurrent, AgeStaysKnown DEF IInv
<1>2. CASE UNCHANGED vars
    BY <1>2 DEF IInv, TypeOK, DiskIsCurrent, AgeIsKnown, Loaded,
                vars, round, ratings, breaker, weights, disk, bounds
<1> QED
    BY <1>1, <1>2

LEMMA Invariance == Spec => []IInv
BY InitHolds, StepKeeps, PTL DEF Spec

-----------------------------------------------------------------------------
(* The theorems *)

\* Every reachable state of the validator is well typed: averages stay on the
\* scale, and the backoff is as configured until the breaker opens.
THEOREM TypeCorrect == Spec => []TypeOK
<1>1. IInv => TypeOK
    BY DEF IInv
<1> QED
    BY <1>1, Invariance, PTL

\* A restart loses no score but the one that is being saved, unless a save has
\* been cut short between the two files.
THEOREM ScoresOutliveTheProcess == Spec => ScoresSurvive
<1>1. ASSUME IInv, Next, restarts' # restarts, ~cut
      PROVE  /\ pc \notin {"save", "sign"} => scores' = scores
             /\ pc = "save" => \E m \in Miners : \A k \in Miners \ {m} : scores'[k] = scores[k]
    <2>1. Restart
        BY <1>1 DEF Next, Loop, ChooseAny, Choose, Sync, NobodyToAsk, QueryAnswered, QueryFails,
                    Score, ReplaceScores, ReplaceSignature, SaveFails, Scored, ShouldSetWeights,
                    SetWeights, SetWeightsFails, Wake, bounds
    <2>2. scores' = Loaded
        BY <2>1 DEF Restart
    <2> QED
        BY <1>1, <2>2 DEF IInv, DiskIsCurrent
<1>2. IInv /\ [Next]_vars => [restarts' # restarts /\ ~cut =>
            /\ pc \notin {"save", "sign"} => scores' = scores
            /\ pc = "save" => \E m \in Miners : \A k \in Miners \ {m} : scores'[k] = scores[k]]_vars
    BY <1>1
<1> QED
    BY <1>2, Invariance, PTL DEF Spec, ScoresSurvive

\* Weights are set at most once in a tempo, as long as the chain can be read
\* and the process lives.
THEOREM WeightsKeepTheirDistance == Spec => WeightsAreSpaced
<1>1. IInv => [chainAge' = 0 /\ pc = "set" => chainAge >= Tempo \/ blind]_vars
    BY DEF IInv, AgeIsKnown, TypeOK
<1> QED
    BY <1>1, Invariance, PTL DEF Spec, WeightsAreSpaced
=============================================================================
