--------------------------- MODULE MCCreditReset ---------------------------
(* Replicas and faults under which TLC explores CreditReset.                *)
EXTENDS CreditReset

CONSTANTS r1, r2

\* Two days to a month: the first, and all the others.
TwoDays == 2
=============================================================================
