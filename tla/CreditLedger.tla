---------------------------- MODULE CreditLedger ----------------------------
(***************************************************************************)
(* The credit ledger of api/services/subscriptions.py as plain operators.  *)
(*                                                                         *)
(* A ledger is the set of a company's rows in table credit_ledger.  A row  *)
(* carries the running balance, and the current balance is the             *)
(* balance_after of the row with the latest created_at: nothing in the     *)
(* program ever adds the amounts up.  The modules that move credits all    *)
(* share these definitions.                                                *)
(***************************************************************************)
EXTENDS Integers

Plans == {"free", "pro", "enterprise"}

\* PLAN_LIMITS[plan]["monthly_credits"]; an unknown plan counts as free.
monthly_credits(plan) == CASE plan = "pro"        -> 1000
                           [] plan = "enterprise" -> 10000
                           [] OTHER               -> 100

\* PLAN_LIMITS[plan][feature] for the gated features.
has_feature(plan) == plan \in {"pro", "enterprise"}

\* CREDIT_COSTS, keyed by the operation.
credit_cost(operation) == CASE operation = "estimate"              -> 10
                            [] operation = "pdf_export"            -> 5
                            [] operation = "questionnaire_extract" -> 5
                            [] operation = "scenario_compute"      -> 3
                            [] OTHER                               -> 0

\* ORDER BY created_at DESC LIMIT 1; only meaningful for a ledger with rows.
LatestRow(rows) == CHOOSE e \in rows : \A f \in rows : f.at <= e.at

\* SELECT balance_after of the latest row, 0 for an empty ledger.
get_credit_balance(rows) ==
    IF rows = {} THEN 0 ELSE LatestRow(rows).balance_after

\* The rows written before row e, by created_at.
Before(rows, e) == {f \in rows : f.at < e.at}

\* Every row continues from the one before it, so that the latest
\* balance_after is the sum of all amounts, and no balance is negative.
Chained(rows) ==
    \A e \in rows :
        /\ e.balance_after = get_credit_balance(Before(rows, e)) + e.amount
        /\ e.balance_after >= 0
=============================================================================
