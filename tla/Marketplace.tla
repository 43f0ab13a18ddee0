---------------------------- MODULE Marketplace ----------------------------
(***************************************************************************)
(* The data marketplace: concurrent listings, purchases and withdrawals.   *)
(*                                                                         *)
(* As in Credits, every request has a database session of its own, sees    *)
(* what is committed plus what it has written itself, and may be cut off   *)
(* at any await.  A credit movement is one action here: Credits shows that *)
(* the lock on the company's subscription row makes it indivisible, and    *)
(* every company in the marketplace has that row, because its plan is      *)
(* kept there.  What is left to the marketplace is the order in which it   *)
(* takes the listing's lock and the two companies' locks, and what the     *)
(* database does when two purchases take them crosswise.                   *)
(***************************************************************************)
EXTENDS Integers, FiniteSetsExt

CONSTANTS
    Companies, Listings,
    Seller,           \* [Listings -> Companies]: whose report the listing shows
    Price,            \* [Listings -> Nat]: price_credits, which nothing changes
    Opening,          \* [Companies -> Nat]: the balances at the start
    Entitled,         \* the companies whose plan includes the marketplace
    Requests,
    Workload,         \* [Requests -> set of jobs the request may turn out to be]
    None

Jobs == [kind : {"list", "withdraw", "buy"}, listing : Listings, company : Companies]

ASSUME MarketplaceAssumption ==
    /\ Seller \in [Listings -> Companies]
    /\ Price \in [Listings -> Nat]
    /\ Opening \in [Companies -> Nat]
    /\ Workload \in [Requests -> SUBSET Jobs]
    /\ None \notin Requests

VARIABLES
    status,       \* [Listings -> "absent", "active" or "withdrawn"]
    purchases,    \* rows of data_purchases, as <<listing, buyer>>
    balance,      \* [Companies -> the committed credit balance]
    auditLog,     \* committed audit rows of purchases
    listingLock,  \* [Listings -> the request that holds the row, or None]
    subLock,      \* [Companies -> the request that holds the subscription row, or None]
    pc, job, resp,
    tx            \* [Requests -> what the session has written and not committed]

store == <<status, purchases, balance, auditLog>>
locks == <<listingLock, subLock>>
vars  == <<store, locks, pc, job, resp, tx>>

Clean == [withdrawn |-> {}, bought |-> {}, audit |-> {},
          delta |-> [c \in Companies |-> 0]]

Init ==
    /\ status \in [Listings -> {"absent", "active"}]
    /\ purchases = {}
    /\ balance = Opening
    /\ auditLog = {}
    /\ listingLock = [l \in Listings |-> None]
    /\ subLock = [c \in Companies |-> None]
    /\ pc = [r \in Requests |-> "idle"]
    /\ job = [r \in Requests |-> None]
    /\ resp = [r \in Requests |-> "none"]
    /\ tx = [r \in Requests |-> Clean]
-----------------------------------------------------------------------------
Listing(r)  == job[r].listing
Company(r)  == job[r].company
SellerOf(r) == Seller[Listing(r)]
PriceOf(r)  == Price[Listing(r)]
Sale(r)     == <<Listing(r), Company(r)>>

Goto(r, label)   == pc' = [pc EXCEPT ![r] = label]
SetSession(r, s) == tx' = [tx EXCEPT ![r] = s]

\* The session adds n credits to company c.
Move(r, c, n) == SetSession(r, [tx[r] EXCEPT !.delta = [tx[r].delta EXCEPT ![c] = n]])

\* Row locks are waited for.
TakeListing(r) == /\ listingLock[Listing(r)] \in {None, r}
                  /\ listingLock' = [listingLock EXCEPT ![Listing(r)] = r]
TakeSub(r, c)  == /\ subLock[c] \in {None, r}
                  /\ subLock' = [subLock EXCEPT ![c] = r]

Unlocked(held, r) == [k \in DOMAIN held |-> IF held[k] = r THEN None ELSE held[k]]
ReleaseAll(r) == /\ listingLock' = Unlocked(listingLock, r)
                 /\ subLock' = Unlocked(subLock, r)

\* COMMIT: everything the session has written, at once.
Publish(r) ==
    /\ status' = [l \in Listings |-> IF l \in tx[r].withdrawn THEN "withdrawn" ELSE status[l]]
    /\ purchases' = purchases \cup tx[r].bought
    /\ balance' = [c \in Companies |-> balance[c] + tx[r].delta[c]]
    /\ auditLog' = auditLog \cup tx[r].audit
    /\ ReleaseAll(r)
    /\ SetSession(r, Clean)

\* Wrong on purpose: a session that is not closed when the handler raises.
CloseHoldingLocks(r, answer) ==
    /\ Goto(r, "done")
    /\ resp' = [resp EXCEPT ![r] = answer]
    /\ UNCHANGED <<store, locks, job, tx>>

\* The session closes without a commit and the request is answered.
Close(r, answer) ==
    /\ ReleaseAll(r)
    /\ SetSession(r, Clean)
    /\ Goto(r, "done")
    /\ resp' = [resp EXCEPT ![r] = answer]
    /\ UNCHANGED <<store, job>>
-----------------------------------------------------------------------------
\* A request arrives.
Start(r) ==
    /\ pc[r] = "idle"
    /\ \E j \in Workload[r] : job' = [job EXCEPT ![r] = j]
    /\ Goto(r, "enter")
    /\ UNCHANGED <<store, locks, resp, tx>>

\* require_plan("marketplace"), which withdrawing a listing does not ask for.
Forbidden(r) ==
    /\ pc[r] = "enter"
    /\ job[r].kind # "withdraw"
    /\ Company(r) \notin Entitled
    /\ Close(r, "forbidden")

Enter(r) ==
    /\ pc[r] = "enter"
    /\ job[r].kind # "withdraw" => Company(r) \in Entitled
    /\ Goto(r, job[r].kind)
    /\ UNCHANGED <<store, locks, job, resp, tx>>

\* create_listing: the report has to be the company's own.  The new row is
\* nobody else's concern, so that its insert and commit are one step.
CreateListing(r) ==
    /\ pc[r] = "list"
    /\ status[Listing(r)] = "absent"
    /\ SellerOf(r) = Company(r)
    /\ status' = [status EXCEPT ![Listing(r)] = "active"]
    /\ Goto(r, "done")
    /\ resp' = [resp EXCEPT ![r] = "ok"]
    /\ UNCHANGED <<purchases, balance, auditLog, locks, job, tx>>

RefuseListing(r) ==
    /\ pc[r] = "list"
    /\ status[Listing(r)] # "absent" \/ SellerOf(r) # Company(r)
    /\ Close(r, "refused")
-----------------------------------------------------------------------------
\* withdraw_listing: the active listing is selected without a lock,
SelectOwn(r) ==
    /\ pc[r] = "withdraw"
    /\ status[Listing(r)] = "active"
    /\ SellerOf(r) = Company(r)
    /\ Goto(r, "update")
    /\ UNCHANGED <<store, locks, job, resp, tx>>

NotFound(r) ==
    /\ pc[r] = "withdraw"
    /\ status[Listing(r)] # "active" \/ SellerOf(r) # Company(r)
    /\ Close(r, "refused")

\* and updated by primary key, which waits for a purchase under way.
UpdateStatus(r) ==
    /\ pc[r] = "update"
    /\ TakeListing(r)
    /\ SetSession(r, [tx[r] EXCEPT !.withdrawn = {Listing(r)}])
    /\ Goto(r, "commit")
    /\ UNCHANGED <<store, subLock, job, resp>>
-----------------------------------------------------------------------------
\* Wrong on purpose: FOR UPDATE left out.
LockListingNot(r) ==
    /\ pc[r] = "buy"
    /\ status[Listing(r)] = "active"
    /\ Goto(r, "check")
    /\ UNCHANGED <<store, locks, job, resp, tx>>

\* purchase_listing: the active listing is selected FOR UPDATE.  A row that
\* stops being active while the statement waits for it is not returned.
LockListing(r) ==
    /\ pc[r] = "buy"
    /\ status[Listing(r)] = "active"
    /\ TakeListing(r)
    /\ Goto(r, "check")
    /\ UNCHANGED <<store, subLock, job, resp, tx>>

Unavailable(r) ==
    /\ pc[r] = "buy"
    /\ status[Listing(r)] # "active"
    /\ Close(r, "refused")

\* Nobody buys a listing of their own or one they already have.
RefusePurchase(r) ==
    /\ pc[r] = "check"
    /\ SellerOf(r) = Company(r) \/ Sale(r) \in purchases
    /\ Close(r, "refused")

CheckPurchase(r) ==
    /\ pc[r] = "check"
    /\ SellerOf(r) # Company(r)
    /\ Sale(r) \notin purchases
    /\ Goto(r, "insert")
    /\ UNCHANGED <<store, locks, job, resp, tx>>

\* The purchase is inserted.  The handler of an IntegrityError is left out:
\* UniqueSale says that there never is one.
InsertPurchase(r) ==
    /\ pc[r] = "insert"
    /\ SetSession(r, [tx[r] EXCEPT !.bought = {Sale(r)}])
    /\ Goto(r, IF PriceOf(r) > 0 THEN "debit" ELSE "commit")
    /\ UNCHANGED <<store, locks, job, resp>>

\* Wrong on purpose: the balance is not compared with the price.
DebitUnchecked(r) ==
    /\ pc[r] = "debit"
    /\ TakeSub(r, Company(r))
    /\ Move(r, Company(r), -PriceOf(r))
    /\ Goto(r, "credit")
    /\ UNCHANGED <<store, listingLock, job, resp>>

\* deduct_credits from the buyer, then grant_credits to the seller.
Debit(r) ==
    /\ pc[r] = "debit"
    /\ TakeSub(r, Company(r))
    /\ balance[Company(r)] >= PriceOf(r)
    /\ Move(r, Company(r), -PriceOf(r))
    /\ Goto(r, "credit")
    /\ UNCHANGED <<store, listingLock, job, resp>>

CannotPay(r) ==
    /\ pc[r] = "debit"
    /\ subLock[Company(r)] \in {None, r}
    /\ balance[Company(r)] < PriceOf(r)
    /\ Close(r, "refused")

Credit(r) ==
    /\ pc[r] = "credit"
    /\ TakeSub(r, SellerOf(r))
    /\ Move(r, SellerOf(r), PriceOf(r))
    /\ Goto(r, "commit")
    /\ UNCHANGED <<store, listingLock, job, resp>>

\* The route commits.  A withdrawal is answered at once; a purchase is
\* first written to the audit log.
Commit(r) ==
    /\ pc[r] = "commit"
    /\ Publish(r)
    /\ \/ /\ job[r].kind = "withdraw"
          /\ Goto(r, "done")
          /\ resp' = [resp EXCEPT ![r] = "ok"]
       \/ /\ job[r].kind = "buy"
          /\ Goto(r, "record")
          /\ UNCHANGED resp
    /\ UNCHANGED job

\* audit.record adds its row to a session that is not committed again.
Record(r) ==
    /\ pc[r] = "record"
    /\ SetSession(r, [tx[r] EXCEPT !.audit = {Sale(r)}])
    /\ Goto(r, "respond")
    /\ UNCHANGED <<store, locks, job, resp>>

Respond(r) ==
    /\ pc[r] = "respond"
    /\ Close(r, "ok")
-----------------------------------------------------------------------------
\* The request whose row lock r is waiting for.
Blockers(r) ==
    {q \in Requests \ {r} :
        \/ pc[r] \in {"buy", "update"} /\ listingLock[Listing(r)] = q
        \/ pc[r] = "debit" /\ subLock[Company(r)] = q
        \/ pc[r] = "credit" /\ subLock[SellerOf(r)] = q}

\* PostgreSQL ends one transaction of a set that wait for each other in a
\* ring.  The error is no ValueError: the client gets a 500.
DeadlockVictim(r) ==
    /\ \E ring \in SUBSET Requests :
          /\ r \in ring
          /\ \A q \in ring : /\ \E p \in ring : p \in Blockers(q)
                             /\ \E p \in ring : q \in Blockers(p)
    /\ Close(r, "error")

\* The worker is killed or the connection drops.
Crash(r) ==
    /\ pc[r] \notin {"idle", "done"}
    /\ Close(r, "lost")

Step(r) ==
    \/ Forbidden(r) \/ Enter(r) \/ CreateListing(r) \/ RefuseListing(r)
    \/ SelectOwn(r) \/ NotFound(r) \/ UpdateStatus(r)
    \/ LockListing(r) \/ Unavailable(r) \/ RefusePurchase(r) \/ CheckPurchase(r)
    \/ InsertPurchase(r) \/ Debit(r) \/ CannotPay(r) \/ Credit(r)
    \/ Commit(r) \/ Record(r) \/ Respond(r) \/ DeadlockVictim(r)

Quiet == /\ \A r \in Requests : pc[r] = "done"
         /\ UNCHANGED vars

Next == \/ \E r \in Requests : Start(r) \/ Step(r) \/ Crash(r)
        \/ Quiet

Spec == Init /\ [][Next]_vars

\* A request that has begun keeps being scheduled, and the database breaks
\* every deadlock.
FairSpec == Spec /\ \A r \in Requests : WF_vars(Step(r))
-----------------------------------------------------------------------------
-----------------------------------------------------------------------------
(***************************************************************************)
(* Properties.                                                             *)
(***************************************************************************)
Labels == {"idle", "enter", "list", "withdraw", "update", "buy", "check", "insert",
           "debit", "credit", "commit", "record", "respond", "done"}

\* Types; in particular no committed balance is negative.
TypeOK ==
    /\ status \in [Listings -> {"absent", "active", "withdrawn"}]
    /\ purchases \subseteq Listings \X Companies
    /\ balance \in [Companies -> Nat]
    /\ auditLog \subseteq Listings \X Companies
    /\ listingLock \in [Listings -> Requests \cup {None}]
    /\ subLock \in [Companies -> Requests \cup {None}]
    /\ pc \in [Requests -> Labels]
    /\ job \in [Requests -> Jobs \cup {None}]
    /\ resp \in [Requests -> {"none", "ok", "forbidden", "refused", "error", "lost"}]
    /\ tx \in [Requests -> [withdrawn : SUBSET Listings,
                            bought : SUBSET (Listings \X Companies),
                            audit : SUBSET (Listings \X Companies),
                            delta : [Companies -> Int]]]

\* The unique key of data_purchases is never violated: whoever reaches the
\* INSERT is the only one to hold the listing, and the sale is not there yet.
UniqueSale ==
    \A r \in Requests :
        pc[r] = "insert" => /\ Sale(r) \notin purchases
                            /\ \A q \in Requests : Sale(r) \notin tx[q].bought

\* Committed state behaves as MarketContract promises.
Contract == INSTANCE MarketContract
ContractSpec == Contract!Spec

\* Every request that has begun is answered: waiting for each other's rows
\* never lasts.
Answered == \A r \in Requests : pc[r] # "idle" ~> pc[r] = "done"
=============================================================================
