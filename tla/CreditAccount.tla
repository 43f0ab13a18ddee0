--------------------------- MODULE CreditAccount ---------------------------
(***************************************************************************)
(* What billing promises: a company has one plan and one balance, and each *)
(* request changes them in a single indivisible step.  There are no rows,  *)
(* locks, sessions or concurrent requests here; Credits is shown to        *)
(* implement this module.                                                  *)
(***************************************************************************)
EXTENDS CreditLedger

CONSTANTS Companies,    \* the companies with an account
          None,         \* "no subscription yet"
          Deltas        \* the amounts one request may add or take away

VARIABLES plan,         \* [Companies -> Plans \cup {None}]
          balance       \* [Companies -> Nat]

vars == <<plan, balance>>

Init == /\ plan \in [Companies -> Plans \cup {None}]
        /\ balance \in [Companies -> Nat]
        /\ \A c \in Companies : plan[c] = None => balance[c] = 0

\* The account as it is once opened: a company without a subscription gets
\* the free plan and its credits the first time anything looks at it.
OpenPlan(c)    == IF plan[c] = None THEN "free" ELSE plan[c]
OpenBalance(c) == IF plan[c] = None THEN monthly_credits("free") ELSE balance[c]

\* Open the account if need be, then add or take away d credits.
Transact(c, d) ==
    /\ OpenBalance(c) + d >= 0
    /\ plan' = [plan EXCEPT ![c] = OpenPlan(c)]
    /\ balance' = [balance EXCEPT ![c] = OpenBalance(c) + d]

\* An upgrade adds the difference between the two plans once.
Upgrade(c, p) ==
    LET delta == monthly_credits(p) - monthly_credits(OpenPlan(c)) IN
    /\ delta > 0
    /\ plan' = [plan EXCEPT ![c] = p]
    /\ balance' = [balance EXCEPT ![c] = OpenBalance(c) + delta]

\* A downgrade leaves at most the new plan's monthly credits.
Downgrade(c, p) ==
    LET limit == monthly_credits(p) IN
    /\ limit < monthly_credits(OpenPlan(c))
    /\ plan' = [plan EXCEPT ![c] = p]
    /\ balance' = [balance EXCEPT ![c] =
                      IF OpenBalance(c) > limit THEN limit ELSE OpenBalance(c)]

Next == \E c \in Companies :
            \/ \E d \in Deltas : Transact(c, d)
            \/ \E p \in Plans : Upgrade(c, p) \/ Downgrade(c, p)

Spec == Init /\ [][Next]_vars
=============================================================================
