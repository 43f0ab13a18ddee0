---------------------------- MODULE MCMarketplace ----------------------------
(* Workloads under which TLC explores Marketplace.                          *)
EXTENDS Marketplace, TLC

CONSTANTS c1, c2, c3, c4, l1, l2, r1, r2, r3

Job(k, l, c) == [kind |-> k, listing |-> l, company |-> c]

\* c1 sells l1 for 4, c2 sells l2 for 3; c3 cannot afford l1, c4 has no plan.
SellerOfTwo == l1 :> c1 @@ l2 :> c2
PriceOfTwo  == l1 :> 4 @@ l2 :> 3
OpeningFew  == c1 :> 3 @@ c2 :> 6 @@ c3 :> 3 @@ c4 :> 4

\* Two purchases that cross, a repeated purchase, a withdrawal and a relisting.
CrossJobs == r1 :> {Job("buy", l1, c2), Job("buy", l1, c1)}
          @@ r2 :> {Job("buy", l2, c1), Job("buy", l1, c2)}
          @@ r3 :> {Job("withdraw", l1, c1), Job("withdraw", l2, c1),
                    Job("list", l1, c1), Job("buy", l1, c3), Job("buy", l1, c4),
                    Job("buy", l2, c1)}

OneSale == r1 :> {Job("buy", l1, c2)} @@ r2 :> {Job("buy", l2, c1)}
=============================================================================
