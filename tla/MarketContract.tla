--------------------------- MODULE MarketContract ---------------------------
(***************************************************************************)
(* What the data marketplace promises: a listing is offered, sold at most  *)
(* once to each company for as long as it is offered, and each sale moves  *)
(* its price from the buyer to the seller, all in one step.  Marketplace   *)
(* is shown to implement this module.                                      *)
(***************************************************************************)
EXTENDS Integers

CONSTANTS Companies, Listings,
          Seller,       \* [Listings -> Companies]
          Price         \* [Listings -> Nat]

VARIABLES status,       \* [Listings -> {"absent", "active", "withdrawn"}]
          purchases,    \* set of <<listing, buyer>>
          balance       \* [Companies -> Nat]

vars == <<status, purchases, balance>>

Init == /\ status \in [Listings -> {"absent", "active"}]
        /\ purchases = {}
        /\ balance \in [Companies -> Nat]

Offer(l) ==
    /\ status[l] = "absent"
    /\ status' = [status EXCEPT ![l] = "active"]
    /\ UNCHANGED <<purchases, balance>>

Withdraw(l) ==
    /\ status[l] = "active"
    /\ status' = [status EXCEPT ![l] = "withdrawn"]
    /\ UNCHANGED <<purchases, balance>>

Sell(l, b) ==
    /\ status[l] = "active"
    /\ b # Seller[l]
    /\ <<l, b>> \notin purchases
    /\ balance[b] >= Price[l]
    /\ purchases' = purchases \cup {<<l, b>>}
    /\ balance' = [balance EXCEPT ![b] = @ - Price[l], ![Seller[l]] = @ + Price[l]]
    /\ UNCHANGED status

Next == \E l \in Listings : Offer(l) \/ Withdraw(l) \/ \E b \in Companies : Sell(l, b)

Spec == Init /\ [][Next]_vars
=============================================================================
