------------------------------ MODULE Scoring ------------------------------
(***************************************************************************)
(* The marks that a validator gives to an answer: accuracy, compliance,    *)
(* completeness, sanity and likeness to the industry, and a penalty for    *)
(* too much confidence.  All are per mille.                                *)
(***************************************************************************)
EXTENDS Miner

Scopes == {"scope1", "scope2", "scope3"}

\* a of b per mille, at most 1000.
Share(a, b) ==
    IF a >= b THEN 1000
    ELSE IF b < 1000000 THEN (a * 1000) \div b
    ELSE AtMost(a \div (b \div 1000), 1000)

Apart(a, b) == IF a > b THEN a - b ELSE b - a

\* What is taken off when a check fails.
If(fails, points) == IF fails THEN points ELSE 0

\* Wrong on purpose: an estimate that is too low counts as better than right.
SignedError(est, truth) ==
    IF truth = 0 THEN If(est # 0, 1000)
    ELSE IF est < truth THEN 0 - Share(truth - est, truth)
    ELSE Share(est - truth, truth)

ScopeError(est, truth) ==
    IF truth > 0 THEN Share(Apart(est, truth), truth) ELSE If(est # 0, 1000)

calc_accuracy_score(est, truth) ==
    LET weights == [scope1 |-> 30, scope2 |-> 20, scope3 |-> 50]
    IN 1000 - SumFunction([s \in Scopes |-> weights[s] * ScopeError(est[s], truth[s])]) \div 100

HasDetails(breakdown) == breakdown \notin {NoBreakdown, EmptyBreakdown}

\* A fifth each: emissions with all keys, which every answer here has,
\* breakdown, confidence in range, sources and assumptions.
calc_completeness_score(answer) ==
    200 + If(HasDetails(answer.breakdown), 200) + If(answer.confidence \in 0..1000, 200)
        + If(answer.sources, 200) + If(answer.assumptions, 200)

\* The fields of a query that are given, texts included.
FieldsProvided(q) ==
    Cardinality({f \in Amounts : q.data[f] > 0}) + Cardinality({f \in Texts : q.names[f] # ""})

calc_overconfidence_penalty(confidence, q) ==
    LET fields == FieldsProvided(q)
    IN IF confidence < 700 THEN 0
       ELSE IF fields <= 3 /\ confidence > 850 THEN 250
       ELSE IF fields <= 5 THEN 150
       ELSE If(fields <= 8 /\ confidence >= 800, 80)

\* Two sums that should agree differ by more than 2 %.
Mismatch(sum, scope) == sum > 0 /\ scope > 0 /\ Apart(sum, scope) > Max({sum, scope}) \div 50

\* How far the breakdown disagrees with the scopes.
BreakdownFaults(e, detail) ==
    If(Mismatch(Total(detail.scope1_detail), e.scope1), 100)
      + If(Mismatch(Lookup(detail.scope2_detail, "location_based", 0), e.scope2), 50)
      + If(Mismatch(Total(detail.scope3_detail), e.scope3), 100)

check_ghg_compliance(e, breakdown, q) ==
    LET expected == e.scope1 + e.scope2 + e.scope3
        faults   ==
            If(expected > 0 /\ Apart(e.total, expected) > expected \div 100, 250)
              + 200 * Cardinality({k \in DOMAIN e : e[k] < 0})
              + If(q.data.fuel_use_liters + q.data.natural_gas_m3 > 0 /\ e.scope1 = 0, 150)
              + If(q.data.electricity_kwh > 0 /\ e.scope2 = 0, 150)
              + If(e.total > 0 /\ breakdown = NoBreakdown, 100)
              + IF e.total > 0 /\ HasDetails(breakdown) THEN BreakdownFaults(e, breakdown) ELSE 0
    IN Positive(1000 - faults)

\* The most kg per employee that is believed of an industry.
UPPER_PER_EMPLOYEE ==
    [technology |-> 50000, financial_services |-> 30000, manufacturing |-> 250000,
     transportation |-> 400000, energy |-> 2000000, retail |-> 80000,
     construction |-> 200000, food_beverage |-> 180000, healthcare |-> 100000]

DataFields ==
    {"fuel_use_liters", "natural_gas_m3", "electricity_kwh", "vehicle_km", "employee_count",
     "revenue_usd", "supplier_spend_usd", "shipping_ton_km"}

run_sanity_checks(e, confidence, q) ==
    LET d      == q.data
        filled == {f \in DataFields : d[f] > 0}
        faults ==
            If(\E k \in DOMAIN e : e[k] < 0, 300)
              + If(d.electricity_kwh > 0 /\ e.scope2 > 0
                     /\ e.scope2 \notin d.electricity_kwh * 5 .. d.electricity_kwh * 1350, 200)
              + If(d.employee_count > 0
                     /\ (e.total - 1) \div d.employee_count >= UPPER_PER_EMPLOYEE[q.industry], 200)
              + If(Cardinality(filled) <= 2 /\ confidence > 900, 150)
              + If(filled \cap {"fuel_use_liters", "natural_gas_m3", "electricity_kwh", "vehicle_km"} # {}
                     /\ e.total = 0, 250)
    IN Positive(1000 - faults)

\* Each scope's part of the whole may be 15 points off the industry's.
check_benchmark_alignment(e, industry) ==
    LET scope     == <<e.scope1, e.scope2, e.scope3>>
        total     == e.scope1 + e.scope2 + e.scope3
        expected  == get_industry_profile(industry).split
        Excess(i) == Positive(Apart(Share(scope[i], total), expected[i] * 10) - 150)
        Off(i)    == (AtMost((Excess(i) * 10) \div 4, 1000) * 33) \div 100
    IN IF total <= 0 THEN 500 ELSE Positive(1000 - SumFunction([i \in 1..3 |-> Off(i)]))

\* The validator's queries all have a ground truth.
score_response(answer, q, truth) ==
    LET e == answer.emissions
        weighted ==
            (40 * calc_accuracy_score(e, truth)
              + 25 * check_ghg_compliance(e, answer.breakdown, q)
              + 15 * calc_completeness_score(answer)
              + 15 * run_sanity_checks(e, answer.confidence, q)
              + 5 * check_benchmark_alignment(e, q.industry)) \div 100
    IN Positive(weighted - calc_overconfidence_penalty(answer.confidence, q))
=============================================================================
