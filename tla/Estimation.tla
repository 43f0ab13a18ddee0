----------------------------- MODULE Estimation -----------------------------
(***************************************************************************)
(* One query of a validator to one miner: the miner answers, truly or not, *)
(* fails or does not answer in time, and the validator marks the answer.   *)
(***************************************************************************)
EXTENDS TestCases, Scoring

CONSTANTS
    Factors,     \* what a miner may multiply its true scopes by, in tenths
    NoAnswer, Unmarked

ASSUME EstimationAssumption == Factors \subseteq Int /\ \A k \in Factors : k < 0 \/ k >= 20 \/ k = 0

VARIABLES
    query,
    response,  \* an answer, or NoAnswer
    mark       \* per mille, or Unmarked

estimationVars == <<query, response, mark>>

Queries == CURATED_CASES \cup generate_synthetic_query

\* The placeholder for an answer is no true answer.
ASSUME NoAnswerIsNoEstimate == \A q \in Queries : CarbonSynapse(forward(q)) # NoAnswer

EstimationInit == query \in Queries /\ response = NoAnswer /\ mark = Unmarked

Answers(answer) ==
    /\ response = NoAnswer /\ mark = Unmarked
    /\ response' = CarbonSynapse(answer)
    /\ UNCHANGED <<query, mark>>

Truly == Answers(forward(query))

\* The datasets could not be read.
FailsInside == QuestionnaireInput(query) /\ Answers(Failure(-2000))

\* The true answer with some scopes multiplied, breakdown and total too.
Scaled(answer, S, k) ==
    LET Times(v)   == (v * k) \div 10
        Detail(s)  == CASE s = "scope1" -> "scope1_detail"
                        [] s = "scope2" -> "scope2_detail"
                        [] s = "scope3" -> "scope3_detail"
        e == [s \in Scopes |-> IF s \in S THEN Times(answer.emissions[s]) ELSE answer.emissions[s]]
    IN [answer EXCEPT
          !.emissions = [scope1 |-> e.scope1, scope2 |-> e.scope2, scope3 |-> e.scope3,
                         total  |-> e.scope1 + e.scope2 + e.scope3],
          !.breakdown = [d \in DOMAIN @ |->
              IF \E s \in S : Detail(s) = d THEN [c \in DOMAIN @[d] |-> Times(@[d][c])] ELSE @[d]]]

\* What a miner may give in place of its breakdown.
Hidings == {NoBreakdown, EmptyBreakdown}

Untruly ==
    /\ QuestionnaireInput(query)
    /\ LET true == estimate(query)
       IN \/ \E S \in SUBSET Scopes \ {{}}, k \in Factors : Answers(Scaled(true, S, k))
          \/ Answers([true EXCEPT !.confidence = 1500])
          \/ \E hidden \in Hidings : Answers([true EXCEPT !.breakdown = hidden])
          \/ Answers([true EXCEPT !.emissions.total = 0])

\* What an answer is worth: nothing if there is none.
score_miner_response(answer) ==
    IF answer = NoAnswer THEN 0 ELSE score_response(answer, query, compute_ground_truth(query))

Marks ==
    /\ mark = Unmarked
    /\ mark' = score_miner_response(response)
    /\ UNCHANGED <<query, response>>

EstimationNext == Truly \/ FailsInside \/ Untruly \/ Marks

EstimationSpec == EstimationInit /\ [][EstimationNext]_estimationVars

EstimationTypeOK ==
    /\ query \in Queries
    /\ response # NoAnswer =>
          /\ \A k \in DOMAIN response.emissions : response.emissions[k] \in Nat
          /\ response.confidence \in {-2000, -1000} \cup 0..1000
    /\ mark # Unmarked => mark \in 0..1000

-----------------------------------------------------------------------------
\* The miner's estimate and the generator's ground truth, two copies of the
\* same method, agree on every query that has no waste, and such an answer
\* gets full marks for accuracy, compliance and completeness.
TrueAnswersPass ==
    (QuestionnaireInput(query) /\ query.data.waste_kg = 0) =>
        LET true == CarbonSynapse(forward(query))
        IN /\ calc_accuracy_score(true.emissions, compute_ground_truth(query)) = 1000
           /\ check_ghg_compliance(true.emissions, true.breakdown, query) = 1000
           /\ calc_completeness_score(true) = 1000

\* A miner that leaves scopes out, reports them twice as high or more,
\* raises its confidence, hides or empties its breakdown or does not answer never gets a
\* better mark than by its true estimate.
HonestyPays ==
    (QuestionnaireInput(query) /\ mark # Unmarked) =>
        mark <= score_miner_response(CarbonSynapse(forward(query)))
=============================================================================
