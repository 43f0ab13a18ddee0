------------------------------ MODULE Validator ------------------------------
(***************************************************************************)
(* The validator of the subnet: rounds of querying all miners, scoring     *)
(* their answers and setting weights on the chain.                         *)
(*                                                                         *)
(* Scores are moving averages, saved in a file after each update together  *)
(* with a signature in a second file; a restart reads them back, and takes *)
(* none when the two do not fit.  Miners that keep scoring zero are left   *)
(* out of the rounds, but for a few that some rounds probe.                *)
(*                                                                         *)
(* Scores are numbers of fixed precision, smoothing factors are in tenths. *)
(* Time is measured in blocks, and passes while the loop sleeps.  Blocks   *)
(* are counted since the last weights, and up to a tempo.                  *)
(***************************************************************************)
EXTENDS Integers, FiniteSets, FiniteSetsExt

CONSTANTS
    Miners,       \* UIDs
    Scale,        \* the score 1.0
    Marks,        \* [Miners -> the scores that its answers may get]
    Alpha,        \* ema_alpha
    ColdRounds,   \* _cold_start_rounds
    SkipAfter,    \* _skip_zero_after, or 0 for never
    ProbeEvery,   \* the probes' period in curated queries
    ProbeSize,    \* how many miners a round probes
    MaxFailures,  \* circuit_breaker_max_failures
    BaseBackoff, MaxBackoff,
    WeightTries,  \* the attempts at setting weights
    Tempo,        \* blocks between two settings of weights
    Networks,     \* the sets of miners that may be active
    MaxChanges,   \* bound on changes of the network
    MaxFaults,    \* bound on failing writes, and
    MaxRestarts,  \* on restarts
    None

ASSUME ValidatorAssumption ==
    /\ IsFiniteSet(Miners) /\ Miners \subseteq Nat
    /\ Networks \subseteq SUBSET Miners
    /\ Scale \in Nat \ {0}
    /\ Marks \in [Miners -> SUBSET (0..Scale)]
    /\ Alpha \in 0..10
    /\ ColdRounds \in Nat /\ SkipAfter \in Nat
    /\ {ProbeEvery, ProbeSize, MaxFailures, BaseBackoff, MaxBackoff, WeightTries, Tempo} \subseteq Nat \ {0}
    /\ BaseBackoff <= MaxBackoff
    /\ {MaxChanges, MaxFaults, MaxRestarts} \subseteq Nat
    /\ None \notin 0..Scale /\ None \notin [Miners -> 0..Scale \cup {None}]

VARIABLES
    active,            \* the miners that are active and have no permit
    pc,                \* where the loop is
    regular, probed,   \* the miners still to be scored in this round
    scores,            \* [Miners -> moving average, or None]
    counts,            \* [Miners -> _query_counts, up to ColdRounds + 1]
    zeros,             \* [Miners -> _consecutive_zeros, up to SkipAfter]
    case,              \* case_index modulo ProbeEvery
    failures, backoff, \* of the circuit breaker; failures up to MaxFailures
    age,               \* blocks since last_weight_block
    tries,             \* failed attempts at setting weights
    file, signed,      \* the scores on disk, and those that are signed, or None
    \* what the properties compare the state with:
    cut,               \* the last save has failed in the middle
    chainAge,          \* blocks since weights were set on the chain
    blind,             \* the chain could not be read, or a restart has forgotten it
    \* bounds:
    changes, faults, restarts

round   == <<pc, regular, probed>>
ratings == <<scores, counts, zeros>>
breaker == <<failures, backoff>>
weights == <<age, tries, chainAge, blind>>
disk    == <<file, signed, cut>>
bounds  == <<changes, faults, restarts>>
vars    == <<active, round, ratings, case, breaker, weights, disk, bounds>>

Least(a, b) == IF a < b THEN a ELSE b

NoScores == [m \in Miners |-> None]

\* (1 - alpha) * score + alpha * mark
Blend(score, mark, alpha) == ((10 - alpha) * score + alpha * mark) \div 10
ColdAlpha == Least(3, 3 * Alpha)
ColdSeed  == (3 * Scale) \div 10

\* _load_scores: nothing when there is no file or the signature is of another.
Loaded == IF file = None \/ (signed # None /\ signed # file) THEN NoScores ELSE file

Init ==
    /\ active \in Networks
    /\ pc = "round" /\ regular = {} /\ probed = {}
    /\ scores = NoScores
    /\ counts = [m \in Miners |-> 0] /\ zeros = [m \in Miners |-> 0]
    /\ case = 0
    /\ failures = 0 /\ backoff = BaseBackoff
    /\ age = Tempo /\ tries = 0 /\ chainAge = Tempo /\ blind = FALSE
    /\ file = None /\ signed = None /\ cut = FALSE
    /\ changes = 0 /\ faults = 0 /\ restarts = 0

-----------------------------------------------------------------------------
\* The metagraph is synchronised.
Sync ==
    /\ pc = "round" /\ changes < MaxChanges
    /\ active' \in Networks \ {active}
    /\ changes' = changes + 1
    /\ UNCHANGED <<round, ratings, case, breaker, weights, disk, faults, restarts>>

Skipped    == {m \in active : SkipAfter > 0 /\ zeros[m] >= SkipAfter}

\* Wrong on purpose: the index is below the period.
ProbeRoundNever == case = ProbeEvery

ProbeRound == case = 0
Probes     == IF ProbeRound THEN kSubset(Least(ProbeSize, Cardinality(Skipped)), Skipped) ELSE {{}}

\* Miners are chosen, and a query: a curated one, which moves case_index, or
\* a synthetic one.
Choose(probe, curated) ==
    /\ pc = "round"
    /\ (active \ Skipped) \cup probe # {}
    /\ regular' = active \ Skipped
    /\ probed' = probe
    /\ case' = IF curated THEN (case + 1) % ProbeEvery ELSE case
    /\ pc' = "query"
    /\ UNCHANGED <<active, ratings, breaker, weights, disk, bounds>>

NobodyToAsk ==
    /\ pc = "round"
    /\ \E probe \in Probes : (active \ Skipped) \cup probe = {}
    /\ pc' = "sleep"
    /\ UNCHANGED <<active, regular, probed, ratings, case, breaker, weights, disk, bounds>>

\* Wrong on purpose: only the failures are forgotten.
QueryAnsweredBackingOff ==
    /\ pc = "query"
    /\ failures' = 0
    /\ pc' = "score"
    /\ UNCHANGED <<active, regular, probed, ratings, case, backoff, weights, disk, bounds>>

\* One of four attempts succeeds,
QueryAnswered ==
    /\ pc = "query"
    /\ failures' = 0 /\ backoff' = BaseBackoff
    /\ pc' = "score"
    /\ UNCHANGED <<active, regular, probed, ratings, case, weights, disk, bounds>>

\* or none, and the round ends after a sleep.
QueryFails ==
    /\ pc = "query"
    /\ failures' = Least(failures + 1, MaxFailures)
    /\ backoff' = IF failures' >= MaxFailures THEN Least(2 * backoff, MaxBackoff) ELSE backoff
    /\ pc' = "sleep" /\ regular' = {} /\ probed' = {}
    /\ UNCHANGED <<active, ratings, case, weights, disk, bounds>>

\* The probed miners come after the others, which are in the order of UIDs.
NextToScore == IF regular # {} THEN {Min(regular)} ELSE probed

\* update_scores: a miner that is new starts from a neutral score, and learns
\* fast for some rounds.
Rate(m, mark) ==
    LET alpha == IF counts[m] + 1 <= ColdRounds THEN ColdAlpha ELSE Alpha
    IN  /\ zeros' = [zeros EXCEPT ![m] = IF mark = 0 THEN Least(@ + 1, SkipAfter) ELSE 0]
        /\ IF scores[m] # None
           THEN /\ counts' = [counts EXCEPT ![m] = Least(@ + 1, ColdRounds + 1)]
                /\ scores' = [scores EXCEPT ![m] = Blend(@, mark, alpha)]
           ELSE /\ counts' = [counts EXCEPT ![m] = 1]
                /\ scores' = [scores EXCEPT ![m] = Blend(ColdSeed, mark, ColdAlpha)]

\* Wrong on purpose: a zero is not saved.
ScoreUnsaved(m) ==
    /\ pc = "score" /\ m \in NextToScore
    /\ \E mark \in Marks[m] : Rate(m, mark) /\ pc' = IF mark = 0 THEN "score" ELSE "save"
    /\ regular' = regular \ {m} /\ probed' = probed \ {m}
    /\ UNCHANGED <<active, case, breaker, weights, disk, bounds>>

Score(m) ==
    /\ pc = "score" /\ m \in NextToScore
    /\ \E mark \in Marks[m] : Rate(m, mark)
    /\ regular' = regular \ {m} /\ probed' = probed \ {m}
    /\ pc' = "save"
    /\ UNCHANGED <<active, case, breaker, weights, disk, bounds>>

\* _save_scores: first the file is replaced, then its signature.
ReplaceScores ==
    /\ pc = "save"
    /\ file' = scores
    /\ pc' = "sign"
    /\ UNCHANGED <<active, regular, probed, ratings, case, breaker, weights, signed, cut, bounds>>

ReplaceSignature ==
    /\ pc = "sign"
    /\ signed' = file
    /\ cut' = FALSE
    /\ pc' = "score"
    /\ UNCHANGED <<active, regular, probed, ratings, case, breaker, weights, file, bounds>>

\* OSError: the rest of the save is left out.
SaveFails ==
    /\ pc \in {"save", "sign"} /\ faults < MaxFaults
    /\ faults' = faults + 1
    /\ cut' = TRUE
    /\ pc' = "score"
    /\ UNCHANGED <<active, regular, probed, ratings, case, breaker, weights, file, signed, changes, restarts>>

Scored ==
    /\ pc = "score" /\ NextToScore = {}
    /\ pc' = "weigh"
    /\ UNCHANGED <<active, regular, probed, ratings, case, breaker, weights, disk, bounds>>

-----------------------------------------------------------------------------
\* should_set_weights: when a tempo has passed, or the chain cannot say.
ShouldSetWeights ==
    /\ pc = "weigh"
    /\ \/ age >= Tempo /\ pc' = "set" /\ blind' = blind
       \/ age < Tempo /\ pc' = "sleep" /\ blind' = blind
       \/ pc' = "set" /\ blind' = TRUE
    /\ UNCHANGED <<active, regular, probed, ratings, case, breaker, age, tries, chainAge, disk, bounds>>

\* Wrong on purpose: last_weight_block is left alone.
SetWeightsUnnoticed ==
    /\ pc = "set"
    /\ chainAge' = 0 /\ tries' = 0 /\ blind' = FALSE
    /\ pc' = "sleep"
    /\ UNCHANGED <<active, regular, probed, ratings, case, breaker, age, disk, bounds>>

\* What the chain answers is ignored: it may have refused the weights.
SetWeights ==
    /\ pc = "set"
    /\ chainAge' \in {0, chainAge}
    /\ age' = 0 /\ tries' = 0 /\ blind' = FALSE
    /\ pc' = "sleep"
    /\ UNCHANGED <<active, regular, probed, ratings, case, breaker, disk, bounds>>

\* The call fails, or the reading of the block after it: then the weights are
\* set without last_weight_block knowing it.
SetWeightsFails ==
    /\ pc = "set"
    /\ \/ chainAge' = chainAge /\ blind' = blind
       \/ chainAge' = 0 /\ blind' = TRUE
    /\ \/ tries + 1 < WeightTries /\ tries' = tries + 1 /\ pc' = pc
       \/ tries + 1 = WeightTries /\ tries' = 0 /\ pc' = "sleep"
    /\ UNCHANGED <<active, regular, probed, ratings, case, breaker, age, disk, bounds>>

Wake ==
    /\ pc = "sleep"
    /\ \E blocks \in 0..Tempo :
          /\ age' = Least(age + blocks, Tempo)
          /\ chainAge' = Least(chainAge + blocks, Tempo)
    /\ pc' = "round"
    /\ UNCHANGED <<active, regular, probed, ratings, case, breaker, tries, blind, disk, bounds>>

\* The process ends, by a signal or an error that the loop does not catch, and
\* is started again.
Restart ==
    /\ restarts < MaxRestarts
    /\ pc' = "round" /\ regular' = {} /\ probed' = {}
    /\ scores' = Loaded
    /\ counts' = [m \in Miners |-> 0] /\ zeros' = [m \in Miners |-> 0]
    /\ case' = 0
    /\ failures' = 0 /\ backoff' = BaseBackoff
    /\ age' = Tempo /\ tries' = 0 /\ blind' = TRUE
    /\ cut' = FALSE
    /\ restarts' = restarts + 1
    /\ UNCHANGED <<active, chainAge, file, signed, changes, faults>>

ChooseAny(curated) == \E probe \in Probes : Choose(probe, curated)

Loop ==
    \/ \E curated \in BOOLEAN : ChooseAny(curated)
    \/ NobodyToAsk \/ QueryAnswered \/ QueryFails
    \/ \E m \in Miners : Score(m)
    \/ ReplaceScores \/ ReplaceSignature \/ Scored
    \/ ShouldSetWeights \/ SetWeights \/ SetWeightsFails \/ Wake

Next == Loop \/ Sync \/ SaveFails \/ Restart

Spec == Init /\ [][Next]_vars

\* The loop goes on; curated queries are drawn again and again (random.random()
\* < 0.7), and so is every skipped miner (random.sample).
FairSpec ==
    /\ Spec
    /\ WF_vars(Loop)
    /\ SF_vars(ChooseAny(TRUE))
    /\ \A m \in Miners : SF_vars(\E probe \in Probes, curated \in BOOLEAN : m \in probe /\ Choose(probe, curated))

-----------------------------------------------------------------------------
\* Types; the backoff is as configured until the breaker opens.
TypeOK ==
    /\ active \subseteq Miners
    /\ pc \in {"round", "query", "score", "save", "sign", "weigh", "set", "sleep"}
    /\ regular \subseteq Miners /\ probed \subseteq Miners
    /\ scores \in [Miners -> 0..Scale \cup {None}]
    /\ counts \in [Miners -> 0..(ColdRounds + 1)]
    /\ zeros \in [Miners -> 0..SkipAfter]
    /\ case \in 0..(ProbeEvery - 1)
    /\ failures \in 0..MaxFailures
    /\ backoff \in BaseBackoff..MaxBackoff
    /\ failures < MaxFailures => backoff = BaseBackoff
    /\ age \in 0..Tempo /\ chainAge \in 0..Tempo
    /\ tries \in 0..(WeightTries - 1)
    /\ file \in [Miners -> 0..Scale \cup {None}] \cup {None}
    /\ signed \in [Miners -> 0..Scale \cup {None}] \cup {None}
    /\ cut \in BOOLEAN /\ blind \in BOOLEAN
    /\ changes \in 0..MaxChanges /\ faults \in 0..MaxFaults /\ restarts \in 0..MaxRestarts

\* A restart loses no scores, or only the one that is being saved, unless it
\* comes between the two replacements or after a save that has failed: then
\* file and signature do not fit, and all are lost (_load_scores: "Starting
\* fresh").  The next complete save makes up for a failed one.
ScoresSurvive ==
    [][ restarts' # restarts /\ ~cut =>
            /\ pc \notin {"save", "sign"} => scores' = scores
            /\ pc = "save" => \E m \in Miners : \A k \in Miners \ {m} : scores'[k] = scores[k] ]_vars

\* Weights are set no more than once in a tempo, as long as the chain can be
\* read and the process lives.
WeightsAreSpaced ==
    [][ chainAge' = 0 /\ (pc = "set") => chainAge >= Tempo \/ blind ]_vars

\* A miner that keeps scoring zero is nevertheless asked again and again, as
\* long as the network has others that are not skipped: they move case_index
\* from probe to probe.
AskedAgain(m) == []<>(m \notin active \/ m \in regular \cup probed)
SkippedAreProbed == []<>(active \ Skipped # {}) => \A m \in Miners : AskedAgain(m)

\* The same without the others (the comment at neurons/validator.py:424 says
\* "Periodically give skipped miners another chance (every 10th round)").
SkippedGetAnotherChance == \A m \in Miners : AskedAgain(m)
=============================================================================
