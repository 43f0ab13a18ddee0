------------------------- MODULE Marketplace_proofs -------------------------
(***************************************************************************)
(* Machine-checked proofs about Marketplace: for any number of companies,  *)
(* listings, requests and prices, the unique key of data_purchases is      *)
(* never violated, and what is committed behaves as MarketContract says.   *)
(***************************************************************************)
EXTENDS Marketplace, TLAPS

Answers == {"none", "ok", "forbidden", "refused", "error", "lost"}

\* The sessions that the requests pass through.
NoMove    == [c \in Companies |-> 0]
Taken(r)  == [NoMove EXCEPT ![Company(r)] = -PriceOf(r)]
Moved(r)  == [Taken(r) EXCEPT ![SellerOf(r)] = PriceOf(r)]
Buys(r, d)   == [withdrawn |-> {}, bought |-> {Sale(r)}, audit |-> {}, delta |-> d]
Withdraws(r) == [withdrawn |-> {Listing(r)}, bought |-> {}, audit |-> {}, delta |-> NoMove]
Audits(r)    == [withdrawn |-> {}, bought |-> {}, audit |-> {Sale(r)}, delta |-> NoMove]

\* A purchase that has the listing, and one that has passed all checks.
Holding(r) == \/ pc[r] \in {"check", "insert", "debit", "credit"}
              \/ pc[r] = "commit" /\ job[r].kind = "buy"
Checked(r) == Holding(r) /\ pc[r] # "check"

\* What is true of request r between its steps: what its session holds,
\* which locks, and that what it has checked under these locks still holds.
RequestInv(r) ==
    /\ pc[r] # "idle" => job[r] \in Jobs
    /\ pc[r] \notin {"debit", "credit", "commit", "respond"} => tx[r] = Clean
    /\ pc[r] = "respond" => tx[r] = Audits(r)
    /\ pc[r] \in {"buy", "check", "insert", "debit", "credit"} => job[r].kind = "buy"
    /\ pc[r] \in {"withdraw", "update"} => job[r].kind = "withdraw"
    /\ pc[r] = "update" => status[Listing(r)] # "absent"
    /\ Holding(r) => listingLock[Listing(r)] = r /\ status[Listing(r)] = "active"
    /\ Checked(r) => SellerOf(r) # Company(r) /\ Sale(r) \notin purchases
    /\ pc[r] = "debit" => tx[r] = Buys(r, NoMove)
    /\ pc[r] = "credit" => /\ tx[r] = Buys(r, Taken(r))
                           /\ subLock[Company(r)] = r
                           /\ balance[Company(r)] >= PriceOf(r)
    /\ pc[r] = "commit" =>
          \/ /\ job[r].kind = "withdraw"
             /\ tx[r] = Withdraws(r)
             /\ listingLock[Listing(r)] = r
             /\ status[Listing(r)] # "absent"
          \/ /\ job[r].kind = "buy"
             /\ PriceOf(r) = 0
             /\ tx[r] = Buys(r, NoMove)
          \/ /\ job[r].kind = "buy"
             /\ tx[r] = Buys(r, Moved(r))
             /\ subLock[Company(r)] = r /\ subLock[SellerOf(r)] = r
             /\ balance[Company(r)] >= PriceOf(r)

\* Every request has a session.
SessionsExist == DOMAIN tx = Requests /\ tx = [r \in Requests |-> tx[r]]

\* The types of everything but the sessions.
TablesOK ==
    /\ status \in [Listings -> {"absent", "active", "withdrawn"}]
    /\ purchases \subseteq Listings \X Companies
    /\ balance \in [Companies -> Nat]
    /\ auditLog \subseteq Listings \X Companies
    /\ listingLock \in [Listings -> Requests \cup {None}]
    /\ subLock \in [Companies -> Requests \cup {None}]
    /\ pc \in [Requests -> Labels]
    /\ job \in [Requests -> Jobs \cup {None}]
    /\ resp \in [Requests -> Answers]
    /\ SessionsExist

Inv == TablesOK /\ \A r \in Requests : RequestInv(r)

\* The initial state satisfies the invariant.
LEMMA InvInit == Init => Inv
<1> SUFFICES ASSUME Init PROVE Inv
  OBVIOUS
<1>1. TablesOK
  BY MarketplaceAssumption DEF Init, TablesOK, Labels, Answers, SessionsExist
<1>2. ASSUME NEW r \in Requests PROVE RequestInv(r)
  BY DEF Init, RequestInv, Holding, Checked
<1>3. QED
  BY <1>1, <1>2 DEF Inv

\* The names a request under way stands for.
LEMMA JobType ==
    ASSUME Inv, NEW r \in Requests, pc[r] # "idle"
    PROVE  /\ Listing(r) \in Listings /\ Company(r) \in Companies
           /\ SellerOf(r) \in Companies /\ PriceOf(r) \in Nat
           /\ Sale(r) \in Listings \X Companies
           /\ job[r].kind \in {"list", "withdraw", "buy"}
BY MarketplaceAssumption DEF Inv, RequestInv, Jobs, Listing, Company, SellerOf, PriceOf, Sale

\* Only a holder of locks has something to commit, and what it commits
\* lies under its locks.
LEMMA PendingIsLocked ==
    ASSUME Inv, NEW r \in Requests, pc[r] = "commit"
    PROVE  /\ \A l \in tx[r].withdrawn : l = Listing(r) /\ listingLock[l] = r
                                         /\ status[l] # "absent"
           /\ \A p \in tx[r].bought : p = Sale(r) /\ listingLock[Listing(r)] = r
                                      /\ job[r].kind = "buy"
           /\ \A c \in Companies : tx[r].delta[c] # 0 => subLock[c] = r
           /\ tx[r].delta \in [Companies -> Int]
           /\ tx[r].audit = {}
           /\ \A c \in Companies : balance[c] + tx[r].delta[c] \in Nat
<1>1. /\ Listing(r) \in Listings /\ Company(r) \in Companies
      /\ SellerOf(r) \in Companies /\ PriceOf(r) \in Nat
  BY JobType
<1>2. RequestInv(r) /\ balance \in [Companies -> Nat]
  BY DEF Inv, TablesOK
<1>3. CASE job[r].kind = "withdraw" /\ tx[r] = Withdraws(r) /\ listingLock[Listing(r)] = r
           /\ status[Listing(r)] # "absent"
  BY <1>1, <1>2, <1>3 DEF Withdraws, NoMove
<1>4. CASE job[r].kind = "buy" /\ tx[r] = Buys(r, NoMove)
  BY <1>1, <1>2, <1>4 DEF Buys, NoMove, RequestInv, Holding
<1>5. CASE /\ job[r].kind = "buy" /\ tx[r] = Buys(r, Moved(r))
           /\ subLock[Company(r)] = r /\ subLock[SellerOf(r)] = r
           /\ balance[Company(r)] >= PriceOf(r)
  <2>1. SellerOf(r) # Company(r) /\ listingLock[Listing(r)] = r
    BY <1>2, <1>5 DEF RequestInv, Holding, Checked
  <2>2. \A c \in Companies : Moved(r)[c] = IF c = SellerOf(r) THEN PriceOf(r)
                                           ELSE IF c = Company(r) THEN -PriceOf(r) ELSE 0
    BY <1>1 DEF Moved, Taken, NoMove
  <2>3. Moved(r) \in [Companies -> Int]
    BY <1>1 DEF Moved, Taken, NoMove
  <2>4. tx[r].delta = Moved(r) /\ tx[r].bought = {Sale(r)} /\ tx[r].withdrawn = {} /\ tx[r].audit = {}
    BY <1>5 DEF Buys
  <2>5. QED
    BY <1>1, <1>2, <1>5, <2>1, <2>2, <2>3, <2>4
<1>6. QED
  BY <1>2, <1>3, <1>4, <1>5 DEF RequestInv

(***************************************************************************)
(* One request moves at a time.                                            *)
(***************************************************************************)

\* Nobody but r moves, and nobody but r loses a lock.
OnlyMoves(r) ==
    /\ \A q \in Requests \ {r} : pc'[q] = pc[q] /\ tx'[q] = tx[q] /\ job'[q] = job[q]
    /\ \A l \in Listings : \A q \in Requests \ {r} : listingLock[l] = q => listingLock'[l] = q
    /\ \A c \in Companies : \A q \in Requests \ {r} : subLock[c] = q => subLock'[c] = q

\* What r takes from the others' view of the tables is nothing it has no
\* lock for, and no listing is ever taken back to "absent".
Respects(r) ==
    /\ \A l \in Listings : status'[l] # status[l] /\ status[l] # "absent"
                               => listingLock[l] = r
    /\ \A l \in Listings : status[l] # "absent" => status'[l] # "absent"
    /\ \A p \in purchases' \ purchases : \E l \in Listings : p[1] = l /\ listingLock[l] = r
    /\ \A c \in Companies : balance'[c] # balance[c] => subLock[c] = r

\* What is said of another request stays true.
LEMMA OthersKept ==
    ASSUME Inv, NEW r \in Requests, OnlyMoves(r), Respects(r),
           NEW q \in Requests, q # r
    PROVE  RequestInv(q)'
<1>1. pc'[q] = pc[q] /\ tx'[q] = tx[q] /\ job'[q] = job[q] /\ RequestInv(q)
  BY DEF OnlyMoves, Inv
<1>2. CASE pc[q] = "idle"
  BY <1>1, <1>2 DEF RequestInv, Holding, Checked
<1>3. CASE pc[q] # "idle"
  <2>1. /\ Listing(q) \in Listings /\ Company(q) \in Companies /\ SellerOf(q) \in Companies
        /\ PriceOf(q) \in Nat
    BY <1>3, JobType
  <2>2. /\ Listing(q)' = Listing(q) /\ Company(q)' = Company(q) /\ SellerOf(q)' = SellerOf(q)
        /\ PriceOf(q)' = PriceOf(q) /\ Sale(q)' = Sale(q)
    BY <1>1 DEF Listing, Company, SellerOf, PriceOf, Sale
  <2>3. /\ Buys(q, NoMove)' = Buys(q, NoMove) /\ Buys(q, Taken(q))' = Buys(q, Taken(q))
        /\ Buys(q, Moved(q))' = Buys(q, Moved(q)) /\ Withdraws(q)' = Withdraws(q)
        /\ Audits(q)' = Audits(q)
    BY <2>2 DEF Buys, Taken, Moved, NoMove, Withdraws, Audits
  <2>4. Holding(q)' <=> Holding(q)
    BY <1>1 DEF Holding
  <2>5. Checked(q)' <=> Checked(q)
    BY <1>1, <2>4 DEF Checked
  <2>6. listingLock[Listing(q)] = q => listingLock'[Listing(q)] = q
    BY <2>1 DEF OnlyMoves
  <2>7. \A c \in Companies : subLock[c] = q => subLock'[c] = q /\ balance'[c] = balance[c]
    BY DEF OnlyMoves, Respects
  <2>8. status[Listing(q)] # "absent" => status'[Listing(q)] # "absent"
    BY <2>1 DEF Respects
  <2>9. Holding(q) => listingLock'[Listing(q)] = q /\ status'[Listing(q)] = "active"
    <3> SUFFICES ASSUME Holding(q)
                 PROVE  listingLock'[Listing(q)] = q /\ status'[Listing(q)] = "active"
      OBVIOUS
    <3>1. listingLock[Listing(q)] = q /\ status[Listing(q)] = "active"
      BY <1>1 DEF RequestInv
    <3>2. QED
      BY <2>1, <2>6, <3>1 DEF Respects
  <2>10. Checked(q) => SellerOf(q) # Company(q) /\ Sale(q) \notin purchases'
    <3> SUFFICES ASSUME Checked(q)
                 PROVE  SellerOf(q) # Company(q) /\ Sale(q) \notin purchases'
      OBVIOUS
    <3>1. /\ SellerOf(q) # Company(q) /\ Sale(q) \notin purchases
          /\ listingLock[Listing(q)] = q
      BY <1>1 DEF RequestInv, Checked
    <3>2. Sale(q)[1] = Listing(q)
      BY DEF Sale
    <3>3. QED
      BY <3>1, <3>2 DEF Respects
  <2>11. /\ pc'[q] # "idle" => job'[q] \in Jobs
         /\ pc'[q] \notin {"debit", "credit", "commit", "respond"} => tx'[q] = Clean
         /\ pc'[q] = "respond" => tx'[q] = Audits(q)
         /\ pc'[q] \in {"buy", "check", "insert", "debit", "credit"} => job'[q].kind = "buy"
         /\ pc'[q] \in {"withdraw", "update"} => job'[q].kind = "withdraw"
         /\ pc'[q] = "update" => status'[Listing(q)] # "absent"
         /\ pc'[q] = "debit" => tx'[q] = Buys(q, NoMove)
    BY <1>1, <2>8 DEF RequestInv
  <2>12. pc'[q] = "credit" => /\ tx'[q] = Buys(q, Taken(q))
                              /\ subLock'[Company(q)] = q
                              /\ balance'[Company(q)] >= PriceOf(q)
    BY <1>1, <2>1, <2>7 DEF RequestInv
  <2>13. pc'[q] = "commit" =>
          \/ /\ job'[q].kind = "withdraw"
             /\ tx'[q] = Withdraws(q)
             /\ listingLock'[Listing(q)] = q
             /\ status'[Listing(q)] # "absent"
          \/ /\ job'[q].kind = "buy"
             /\ PriceOf(q) = 0
             /\ tx'[q] = Buys(q, NoMove)
          \/ /\ job'[q].kind = "buy"
             /\ tx'[q] = Buys(q, Moved(q))
             /\ subLock'[Company(q)] = q /\ subLock'[SellerOf(q)] = q
             /\ balance'[Company(q)] >= PriceOf(q)
    BY <1>1, <2>1, <2>6, <2>7, <2>8 DEF RequestInv
  <2>14. Clean' = Clean
    BY DEF Clean
  <2>15. QED
    BY <2>2, <2>3, <2>4, <2>5, <2>9, <2>10, <2>11, <2>12, <2>13, <2>14 DEF RequestInv
<1>4. QED
  BY <1>2, <1>3

LEMMA StepInv ==
    ASSUME Inv, NEW r \in Requests, OnlyMoves(r), Respects(r), TablesOK', RequestInv(r)'
    PROVE  Inv'
BY OthersKept DEF Inv

\* Locks are only ever taken when free, and only one's own are released.
LEMMA LocksKept ==
    ASSUME Inv, NEW r \in Requests
    PROVE  /\ TakeListing(r) /\ Listing(r) \in Listings =>
                 /\ listingLock' \in [Listings -> Requests \cup {None}]
                 /\ listingLock'[Listing(r)] = r
                 /\ \A l \in Listings : \A q \in Requests \ {r} :
                        listingLock[l] = q => listingLock'[l] = q
           /\ \A c \in Companies : TakeSub(r, c) =>
                 /\ subLock' \in [Companies -> Requests \cup {None}]
                 /\ subLock'[c] = r
                 /\ \A d \in Companies : subLock[d] = r => subLock'[d] = r
                 /\ \A d \in Companies : \A q \in Requests \ {r} :
                        subLock[d] = q => subLock'[d] = q
           /\ ReleaseAll(r) =>
                 /\ listingLock' \in [Listings -> Requests \cup {None}]
                 /\ subLock' \in [Companies -> Requests \cup {None}]
                 /\ \A l \in Listings : \A q \in Requests \ {r} :
                        listingLock[l] = q => listingLock'[l] = q
                 /\ \A d \in Companies : \A q \in Requests \ {r} :
                        subLock[d] = q => subLock'[d] = q
<1>1. /\ listingLock \in [Listings -> Requests \cup {None}]
      /\ subLock \in [Companies -> Requests \cup {None}] /\ None \notin Requests
  BY MarketplaceAssumption DEF Inv, TablesOK
<1>2. QED
  BY <1>1 DEF TakeListing, TakeSub, ReleaseAll, Unlocked

\* The session and the label of r are replaced, the others' are not.
LEMMA Moves ==
    ASSUME Inv, NEW r \in Requests
    PROVE  /\ \A l \in Labels : Goto(r, l) =>
                 /\ pc' \in [Requests -> Labels] /\ pc'[r] = l
                 /\ \A q \in Requests \ {r} : pc'[q] = pc[q]
           /\ \A s : SetSession(r, s) =>
                 /\ SessionsExist' /\ tx'[r] = s
                 /\ \A q \in Requests \ {r} : tx'[q] = tx[q]
           /\ \A a \in Answers : resp' = [resp EXCEPT ![r] = a] => resp' \in [Requests -> Answers]
<1>1. pc \in [Requests -> Labels] /\ SessionsExist /\ resp \in [Requests -> Answers]
  BY DEF Inv, TablesOK
<1>2. ASSUME NEW s, SetSession(r, s)
      PROVE  /\ SessionsExist' /\ tx'[r] = s
             /\ \A q \in Requests \ {r} : tx'[q] = tx[q]
  BY <1>1, <1>2 DEF SetSession, SessionsExist
<1>3. QED
  BY <1>1, <1>2 DEF Goto

\* A request that ends without a commit.
LEMMA CloseInv ==
    ASSUME Inv, NEW r \in Requests, NEW a \in Answers, Close(r, a), pc[r] # "idle"
    PROVE  Inv'
<1>1. /\ ReleaseAll(r) /\ SetSession(r, Clean) /\ Goto(r, "done")
      /\ resp' = [resp EXCEPT ![r] = a] /\ UNCHANGED store /\ job' = job
  BY DEF Close
<1>2. "done" \in Labels
  BY DEF Labels
<1>3. /\ pc' \in [Requests -> Labels] /\ pc'[r] = "done"
      /\ \A q \in Requests \ {r} : pc'[q] = pc[q]
  BY <1>1, <1>2, Moves
<1>4. /\ SessionsExist' /\ tx'[r] = Clean
      /\ \A q \in Requests \ {r} : tx'[q] = tx[q]
  BY <1>1, Moves
<1>5. resp' \in [Requests -> Answers]
  BY <1>1, Moves
<1>6. OnlyMoves(r)
  BY <1>1, <1>3, <1>4, LocksKept DEF OnlyMoves
<1>7. Respects(r)
  BY <1>1 DEF Respects, store
<1>8. TablesOK'
  BY <1>1, <1>3, <1>4, <1>5, LocksKept DEF TablesOK, Inv, store
<1>9. RequestInv(r)'
  BY <1>1, <1>3, <1>4 DEF RequestInv, Holding, Checked, Inv, Clean
<1>10. QED
  BY <1>6, <1>7, <1>8, <1>9, StepInv

\* A step that writes no table: what remains to be shown is what is said
\* of r itself.
LEMMA QuietStep ==
    ASSUME Inv, NEW r \in Requests, UNCHANGED <<store, job, resp>>,
           NEW l \in Labels, Goto(r, l),
           \/ tx' = tx
           \/ \E s : SetSession(r, s),
           \/ UNCHANGED locks
           \/ TakeListing(r) /\ Listing(r) \in Listings /\ UNCHANGED subLock
           \/ UNCHANGED listingLock /\ \E c \in Companies : TakeSub(r, c),
           RequestInv(r)'
    PROVE  Inv'
<1>1. /\ pc' \in [Requests -> Labels] /\ \A q \in Requests \ {r} : pc'[q] = pc[q]
  BY Moves
<1>2. SessionsExist' /\ \A q \in Requests \ {r} : tx'[q] = tx[q]
  BY Moves DEF Inv, TablesOK, SessionsExist
<1>3. /\ listingLock' \in [Listings -> Requests \cup {None}]
      /\ subLock' \in [Companies -> Requests \cup {None}]
      /\ \A m \in Listings : \A q \in Requests \ {r} :
             listingLock[m] = q => listingLock'[m] = q
      /\ \A c \in Companies : \A q \in Requests \ {r} : subLock[c] = q => subLock'[c] = q
  <2>1. CASE UNCHANGED locks
    BY <2>1 DEF locks, Inv, TablesOK
  <2>2. CASE TakeListing(r) /\ Listing(r) \in Listings /\ UNCHANGED subLock
    BY <2>2, LocksKept DEF Inv, TablesOK
  <2>3. CASE UNCHANGED listingLock /\ \E c \in Companies : TakeSub(r, c)
    BY <2>3, LocksKept DEF Inv, TablesOK
  <2>4. QED
    BY <2>1, <2>2, <2>3
<1>4. OnlyMoves(r)
  BY <1>1, <1>2, <1>3 DEF OnlyMoves
<1>5. Respects(r)
  BY DEF Respects, store
<1>6. TablesOK'
  BY <1>1, <1>2, <1>3 DEF TablesOK, Inv, store
<1>7. QED
  BY <1>4, <1>5, <1>6, StepInv

\* A commit makes what is pending visible.
LEMMA CommitInv == ASSUME Inv, NEW r \in Requests, Commit(r) PROVE Inv'
<1>1. /\ pc[r] = "commit" /\ RequestInv(r) /\ job' = job
      /\ job[r].kind \in {"withdraw", "buy"}
  BY DEF Commit, Inv, RequestInv
<1>2. /\ status' = [l \in Listings |-> IF l \in tx[r].withdrawn THEN "withdrawn" ELSE status[l]]
      /\ purchases' = purchases \cup tx[r].bought
      /\ balance' = [c \in Companies |-> balance[c] + tx[r].delta[c]]
      /\ auditLog' = auditLog \cup tx[r].audit
      /\ ReleaseAll(r) /\ SetSession(r, Clean)
  BY DEF Commit, Publish
<1>3. PICK label \in {"done", "record"} : Goto(r, label)
  BY DEF Commit
<1>4. /\ pc' \in [Requests -> Labels] /\ pc'[r] = label
      /\ \A q \in Requests \ {r} : pc'[q] = pc[q]
  <2>1. label \in Labels
    BY DEF Labels
  <2>2. QED
    BY <1>3, <2>1, Moves
<1>5. /\ SessionsExist' /\ tx'[r] = Clean
      /\ \A q \in Requests \ {r} : tx'[q] = tx[q]
  BY <1>2, Moves
<1>6. resp' \in [Requests -> Answers]
  <2>1. "ok" \in Answers
    BY DEF Answers
  <2>2. QED
    BY <2>1, Moves DEF Commit, Inv, TablesOK
<1>7. OnlyMoves(r)
  BY <1>1, <1>2, <1>4, <1>5, LocksKept DEF OnlyMoves
<1>8. /\ \A l \in tx[r].withdrawn : l = Listing(r) /\ listingLock[l] = r /\ status[l] # "absent"
      /\ \A p \in tx[r].bought : p = Sale(r) /\ listingLock[Listing(r)] = r
      /\ \A c \in Companies : tx[r].delta[c] # 0 => subLock[c] = r
      /\ tx[r].delta \in [Companies -> Int]
      /\ tx[r].audit = {}
      /\ \A c \in Companies : balance[c] + tx[r].delta[c] \in Nat
  BY <1>1, PendingIsLocked
<1>9. /\ Listing(r) \in Listings /\ Sale(r) \in Listings \X Companies /\ Sale(r)[1] = Listing(r)
  BY <1>1, JobType DEF Sale
<1>10. status \in [Listings -> {"absent", "active", "withdrawn"}] /\ balance \in [Companies -> Nat]
  BY DEF Inv, TablesOK
<1>11. Respects(r)
  <2>1. \A c \in Companies : balance'[c] # balance[c] => subLock[c] = r
    BY <1>2, <1>8, <1>10
  <2>2. \A p \in purchases' \ purchases : \E l \in Listings : p[1] = l /\ listingLock[l] = r
    BY <1>2, <1>8, <1>9
  <2>3. /\ \A l \in Listings : status'[l] # status[l] => listingLock[l] = r
        /\ \A l \in Listings : status[l] # "absent" => status'[l] # "absent"
    BY <1>2, <1>8, <1>10
  <2>4. QED
    BY <2>1, <2>2, <2>3 DEF Respects
<1>12. TablesOK'
  <2>1. status' \in [Listings -> {"absent", "active", "withdrawn"}]
    BY <1>2, <1>10
  <2>2. balance' \in [Companies -> Nat]
    BY <1>2, <1>8
  <2>3. purchases' \subseteq Listings \X Companies /\ auditLog' \subseteq Listings \X Companies
    BY <1>2, <1>8, <1>9 DEF Inv, TablesOK
  <2>4. QED
    BY <1>1, <1>2, <1>4, <1>5, <1>6, <2>1, <2>2, <2>3, LocksKept DEF TablesOK, Inv
<1>13. RequestInv(r)'
  <2>1. job'[r] \in Jobs
    BY <1>1 DEF RequestInv
  <2>2. QED
    BY <1>4, <1>5, <2>1 DEF RequestInv, Holding, Checked, Clean
<1>14. QED
  BY <1>7, <1>11, <1>12, <1>13, StepInv

\* Every step keeps the invariant.
LEMMA InvNext == Inv /\ [Next]_vars => Inv'
<1> SUFFICES ASSUME Inv, [Next]_vars PROVE Inv'
  OBVIOUS
<1>1. CASE UNCHANGED vars
  <2>1. UNCHANGED <<store, locks, pc, job, resp, tx>>
    BY <1>1 DEF vars
  <2>2. TablesOK'
    BY <2>1 DEF Inv, TablesOK, SessionsExist, store, locks
  <2>3. ASSUME NEW r \in Requests PROVE RequestInv(r)'
    <3>1. RequestInv(r)
      BY DEF Inv
    <3>2. QED
      BY <2>1, <3>1 DEF store, locks, RequestInv, Holding, Checked, Clean, Buys, Withdraws,
                        Audits, Taken, Moved, NoMove, Sale, Listing, Company, SellerOf, PriceOf
  <2>4. QED
    BY <2>2, <2>3 DEF Inv
<1>2. ASSUME NEW r \in Requests, Start(r) PROVE Inv'
  <2>1. PICK j \in Workload[r] : job' = [job EXCEPT ![r] = j]
    BY <1>2 DEF Start
  <2>2. /\ pc[r] = "idle" /\ Goto(r, "enter") /\ UNCHANGED <<store, locks, resp, tx>>
    BY <1>2 DEF Start
  <2>3. j \in Jobs /\ job \in [Requests -> Jobs \cup {None}]
    BY MarketplaceAssumption DEF Inv, TablesOK
  <2>4. /\ job' \in [Requests -> Jobs \cup {None}] /\ job'[r] = j
        /\ \A q \in Requests \ {r} : job'[q] = job[q]
    BY <2>1, <2>3
  <2>5. /\ pc' \in [Requests -> Labels] /\ pc'[r] = "enter"
        /\ \A q \in Requests \ {r} : pc'[q] = pc[q]
    BY <2>2, Moves DEF Labels
  <2>6. OnlyMoves(r) /\ Respects(r)
    BY <2>2, <2>4, <2>5 DEF OnlyMoves, Respects, store, locks
  <2>7. TablesOK'
    BY <2>2, <2>4, <2>5 DEF Inv, TablesOK, SessionsExist, store, locks
  <2>8. RequestInv(r)'
    BY <2>2, <2>3, <2>4, <2>5 DEF RequestInv, Holding, Checked, Inv, Clean
  <2>9. QED
    BY <2>6, <2>7, <2>8, StepInv
<1>3. ASSUME NEW r \in Requests,
             Forbidden(r) \/ RefuseListing(r) \/ NotFound(r) \/ Unavailable(r)
             \/ RefusePurchase(r) \/ CannotPay(r) \/ Respond(r) \/ DeadlockVictim(r) \/ Crash(r)
      PROVE  Inv'
  <2>1. DeadlockVictim(r) => pc[r] # "idle"
    <3> SUFFICES ASSUME DeadlockVictim(r) PROVE pc[r] # "idle"
      OBVIOUS
    <3>1. \E p : p \in Blockers(r)
      BY DEF DeadlockVictim
    <3>2. QED
      BY <3>1 DEF Blockers
  <2>2. pc[r] # "idle" /\ \E a \in Answers : Close(r, a)
    BY <1>3, <2>1 DEF Forbidden, RefuseListing, NotFound, Unavailable, RefusePurchase,
                      CannotPay, Respond, DeadlockVictim, Crash, Answers
  <2>3. QED
    BY <2>2, CloseInv
<1>4. ASSUME NEW r \in Requests, Enter(r) PROVE Inv'
  <2>1. /\ pc[r] = "enter" /\ UNCHANGED <<store, locks, job, resp, tx>>
        /\ Goto(r, job[r].kind) /\ job[r] \in Jobs
    BY <1>4 DEF Enter, Inv, RequestInv
  <2>2. job[r].kind \in {"list", "withdraw", "buy"} /\ job[r].kind \in Labels
    BY <2>1 DEF Jobs, Labels
  <2>3. pc'[r] = job[r].kind
    BY <2>1, <2>2, Moves
  <2>4. RequestInv(r)'
    BY <2>1, <2>2, <2>3 DEF RequestInv, Holding, Checked, Inv, Clean
  <2>5. QED
    BY <2>1, <2>2, <2>4, QuietStep
<1>5. ASSUME NEW r \in Requests, CreateListing(r) PROVE Inv'
  <2>1. /\ pc[r] = "list" /\ status[Listing(r)] = "absent" /\ Goto(r, "done")
        /\ status' = [status EXCEPT ![Listing(r)] = "active"]
        /\ UNCHANGED <<purchases, balance, auditLog, locks, job, tx>>
        /\ resp' = [resp EXCEPT ![r] = "ok"]
    BY <1>5 DEF CreateListing
  <2>2. /\ pc' \in [Requests -> Labels] /\ pc'[r] = "done"
        /\ \A q \in Requests \ {r} : pc'[q] = pc[q]
    BY <2>1, Moves DEF Labels
  <2>3. resp' \in [Requests -> Answers]
    BY <2>1, Moves DEF Answers
  <2>4. Listing(r) \in Listings
    BY <2>1, JobType
  <2>5. status \in [Listings -> {"absent", "active", "withdrawn"}]
    BY DEF Inv, TablesOK
  <2>6. OnlyMoves(r)
    BY <2>1, <2>2 DEF OnlyMoves, locks
  <2>7. Respects(r)
    BY <2>1, <2>4, <2>5 DEF Respects
  <2>8. TablesOK'
    BY <2>1, <2>2, <2>3, <2>5 DEF Inv, TablesOK, SessionsExist, locks
  <2>9. RequestInv(r)'
    BY <2>1, <2>2 DEF RequestInv, Holding, Checked, Inv, Clean
  <2>10. QED
    BY <2>6, <2>7, <2>8, <2>9, StepInv
<1>6. ASSUME NEW r \in Requests, SelectOwn(r) PROVE Inv'
  <2>1. /\ pc[r] = "withdraw" /\ status[Listing(r)] = "active" /\ Goto(r, "update")
        /\ UNCHANGED <<store, locks, job, resp, tx>>
    BY <1>6 DEF SelectOwn
  <2>2. pc'[r] = "update" /\ "update" \in Labels
    BY <2>1, Moves DEF Labels
  <2>3. RequestInv(r)'
    BY <2>1, <2>2 DEF RequestInv, Holding, Checked, Inv, Clean, Listing, store
  <2>4. QED
    BY <2>1, <2>2, <2>3, QuietStep
<1>7. ASSUME NEW r \in Requests, UpdateStatus(r) PROVE Inv'
  <2> DEFINE s == [tx[r] EXCEPT !.withdrawn = {Listing(r)}]
  <2>1. /\ pc[r] = "update" /\ TakeListing(r) /\ SetSession(r, s) /\ Goto(r, "commit")
        /\ UNCHANGED <<store, subLock, job, resp>>
    BY <1>7 DEF UpdateStatus
  <2>2. pc'[r] = "commit" /\ "commit" \in Labels
    BY <2>1, Moves DEF Labels
  <2>3. RequestInv(r) /\ tx[r] = Clean /\ status[Listing(r)] # "absent"
    BY <2>1 DEF Inv, RequestInv
  <2>4. s = Withdraws(r)
    BY <2>3, SMTT(40) DEF Clean, Withdraws, NoMove
  <2> HIDE DEF s
  <2>5. tx'[r] = s /\ Withdraws(r)' = Withdraws(r) /\ Listing(r)' = Listing(r)
    BY <2>1, Moves DEF Withdraws, NoMove, Listing
  <2>6. Listing(r) \in Listings /\ listingLock'[Listing(r)] = r
    BY <2>1, JobType, LocksKept
  <2>7. RequestInv(r)'
    BY <2>1, <2>2, <2>3, <2>4, <2>5, <2>6 DEF RequestInv, Holding, Checked, store
  <2>8. QED
    BY <2>1, <2>2, <2>6, <2>7, QuietStep
<1>8. ASSUME NEW r \in Requests, LockListing(r) PROVE Inv'
  <2>1. /\ pc[r] = "buy" /\ status[Listing(r)] = "active" /\ TakeListing(r) /\ Goto(r, "check")
        /\ UNCHANGED <<store, subLock, job, resp, tx>>
    BY <1>8 DEF LockListing
  <2>2. pc'[r] = "check" /\ "check" \in Labels
    BY <2>1, Moves DEF Labels
  <2>3. Listing(r) \in Listings /\ listingLock'[Listing(r)] = r /\ Listing(r)' = Listing(r)
    BY <2>1, JobType, LocksKept DEF Listing
  <2>4. RequestInv(r)
    BY DEF Inv
  <2>5. RequestInv(r)'
    BY <2>1, <2>2, <2>3, <2>4 DEF RequestInv, Holding, Checked, Clean, store
  <2>6. QED
    BY <2>1, <2>2, <2>3, <2>5, QuietStep
<1>9. ASSUME NEW r \in Requests, CheckPurchase(r) PROVE Inv'
  <2>1. /\ pc[r] = "check" /\ SellerOf(r) # Company(r) /\ Sale(r) \notin purchases
        /\ Goto(r, "insert") /\ UNCHANGED <<store, locks, job, resp, tx>>
    BY <1>9 DEF CheckPurchase
  <2>2. pc'[r] = "insert" /\ "insert" \in Labels
    BY <2>1, Moves DEF Labels
  <2>3. /\ Listing(r)' = Listing(r) /\ SellerOf(r)' = SellerOf(r)
        /\ Company(r)' = Company(r) /\ Sale(r)' = Sale(r)
    BY <2>1 DEF Listing, SellerOf, Company, Sale
  <2>4. RequestInv(r)'
    BY <2>1, <2>2, <2>3, ZenonT(60) DEF RequestInv, Holding, Checked, Inv, Clean, store, locks
  <2>5. QED
    BY <2>1, <2>2, <2>4, QuietStep
<1>10. ASSUME NEW r \in Requests, InsertPurchase(r) \/ Debit(r) \/ Credit(r) PROVE Inv'
  <2>1. /\ pc[r] \in {"insert", "debit", "credit"} /\ RequestInv(r)
        /\ UNCHANGED <<store, job, resp>>
    BY <1>10 DEF InsertPurchase, Debit, Credit, Inv, locks
  <2>2. /\ Listing(r)' = Listing(r) /\ SellerOf(r)' = SellerOf(r) /\ PriceOf(r)' = PriceOf(r)
        /\ Company(r)' = Company(r) /\ Sale(r)' = Sale(r)
    BY <2>1 DEF Listing, SellerOf, Company, Sale, PriceOf
  <2>3. /\ Buys(r, NoMove)' = Buys(r, NoMove) /\ Buys(r, Taken(r))' = Buys(r, Taken(r))
        /\ Buys(r, Moved(r))' = Buys(r, Moved(r))
    BY <2>2 DEF Buys, NoMove, Taken, Moved
  <2>4. /\ Listing(r) \in Listings /\ Company(r) \in Companies
        /\ SellerOf(r) \in Companies /\ PriceOf(r) \in Nat
    BY <2>1, JobType
  <2>5. /\ job[r].kind = "buy" /\ job[r] \in Jobs /\ listingLock[Listing(r)] = r
        /\ status[Listing(r)] = "active" /\ SellerOf(r) # Company(r) /\ Sale(r) \notin purchases
    BY <2>1 DEF RequestInv, Holding, Checked
  <2>6. CASE InsertPurchase(r)
    <3> DEFINE s == [tx[r] EXCEPT !.bought = {Sale(r)}]
    <3>1. /\ pc[r] = "insert" /\ SetSession(r, s) /\ UNCHANGED locks
          /\ Goto(r, IF PriceOf(r) > 0 THEN "debit" ELSE "commit")
      BY <2>6 DEF InsertPurchase
    <3>2. s = Buys(r, NoMove)
      BY <2>1, <3>1 DEF RequestInv, Clean, Buys, NoMove
    <3> HIDE DEF s
    <3>3. PICK label \in {"debit", "commit"} :
              Goto(r, label) /\ label = IF PriceOf(r) > 0 THEN "debit" ELSE "commit"
      BY <3>1
    <3>4. pc'[r] = label /\ tx'[r] = Buys(r, NoMove) /\ label \in Labels
      BY <3>1, <3>2, <3>3, Moves DEF Labels
    <3>5. PriceOf(r) > 0 \/ PriceOf(r) = 0
      BY <2>4
    <3>6. RequestInv(r)'
      BY <2>1, <2>2, <2>3, <2>5, <3>1, <3>3, <3>4, <3>5
         DEF RequestInv, Holding, Checked, store, locks
    <3>7. QED
      BY <2>1, <3>1, <3>3, <3>4, <3>6, QuietStep
  <2>7. CASE Debit(r)
    <3> DEFINE d == [tx[r].delta EXCEPT ![Company(r)] = -PriceOf(r)]
               s == [tx[r] EXCEPT !.delta = d]
    <3>1. /\ pc[r] = "debit" /\ SetSession(r, s) /\ UNCHANGED listingLock /\ Goto(r, "credit")
          /\ TakeSub(r, Company(r)) /\ balance[Company(r)] >= PriceOf(r)
      BY <2>7 DEF Debit, Move
    <3>2. tx[r] = Buys(r, NoMove)
      BY <2>1, <3>1 DEF RequestInv
    <3>3. d = Taken(r)
      BY <3>2 DEF Buys, Taken
    <3> HIDE DEF d
    <3>4. s = Buys(r, Taken(r))
      BY <3>2, <3>3 DEF Buys
    <3> HIDE DEF s
    <3>5. pc'[r] = "credit" /\ tx'[r] = Buys(r, Taken(r)) /\ "credit" \in Labels
      BY <3>1, <3>4, Moves DEF Labels
    <3>6. subLock'[Company(r)] = r
      BY <2>4, <3>1, LocksKept
    <3>7. RequestInv(r)'
      BY <2>1, <2>2, <2>3, <2>5, <3>1, <3>5, <3>6 DEF RequestInv, Holding, Checked, store
    <3>8. QED
      BY <2>1, <2>4, <3>1, <3>5, <3>7, QuietStep
  <2>8. CASE Credit(r)
    <3> DEFINE d == [tx[r].delta EXCEPT ![SellerOf(r)] = PriceOf(r)]
               s == [tx[r] EXCEPT !.delta = d]
    <3>1. /\ pc[r] = "credit" /\ SetSession(r, s) /\ UNCHANGED listingLock /\ Goto(r, "commit")
          /\ TakeSub(r, SellerOf(r))
      BY <2>8 DEF Credit, Move
    <3>2. /\ tx[r] = Buys(r, Taken(r)) /\ subLock[Company(r)] = r
          /\ balance[Company(r)] >= PriceOf(r)
      BY <2>1, <3>1 DEF RequestInv
    <3>3. d = Moved(r)
      BY <3>2 DEF Buys, Moved
    <3> HIDE DEF d
    <3>4. s = Buys(r, Moved(r))
      BY <3>2, <3>3 DEF Buys
    <3> HIDE DEF s
    <3>5. pc'[r] = "commit" /\ tx'[r] = Buys(r, Moved(r)) /\ "commit" \in Labels
      BY <3>1, <3>4, Moves DEF Labels
    <3>6. subLock'[Company(r)] = r /\ subLock'[SellerOf(r)] = r
      BY <2>4, <3>1, <3>2, LocksKept
    <3>7. RequestInv(r)'
      BY <2>1, <2>2, <2>3, <2>5, <3>1, <3>2, <3>5, <3>6 DEF RequestInv, Holding, Checked, store
    <3>8. QED
      BY <2>1, <2>4, <3>1, <3>5, <3>7, QuietStep
  <2>9. QED
    BY <1>10, <2>6, <2>7, <2>8
<1>11. ASSUME NEW r \in Requests, Record(r) PROVE Inv'
  <2> DEFINE s == [tx[r] EXCEPT !.audit = {Sale(r)}]
  <2>1. /\ pc[r] = "record" /\ SetSession(r, s) /\ Goto(r, "respond")
        /\ UNCHANGED <<store, locks, job, resp>>
    BY <1>11 DEF Record
  <2>2. RequestInv(r) /\ tx[r] = Clean
    BY <2>1 DEF Inv, RequestInv
  <2>3. s = Audits(r)
    BY <2>2, SMTT(40) DEF Clean, Audits, NoMove
  <2> HIDE DEF s
  <2>4. /\ pc'[r] = "respond" /\ "respond" \in Labels /\ tx'[r] = Audits(r)
        /\ Audits(r)' = Audits(r)
    BY <2>1, <2>3, Moves DEF Labels, Audits, NoMove, Sale, Listing, Company
  <2>5. RequestInv(r)'
    BY <2>1, <2>2, <2>4 DEF RequestInv, Holding, Checked
  <2>6. QED
    BY <2>1, <2>4, <2>5, QuietStep
<1>12. QED
  BY <1>1, <1>2, <1>3, <1>4, <1>5, <1>6, <1>7, <1>8, <1>9, <1>10, <1>11, CommitInv
     DEF Next, Step, Quiet

(***************************************************************************)
(* The theorems.                                                           *)
(***************************************************************************)
LEMMA InvAlways == Spec => []Inv
BY InvInit, InvNext, PTL DEF Spec

\* Type correctness: no committed balance is ever negative.
THEOREM TypeCorrect == Spec => []TypeOK
<1>1. Inv => TypeOK
  <2> SUFFICES ASSUME Inv PROVE TypeOK
    OBVIOUS
  <2> DEFINE Sessions == [withdrawn : SUBSET Listings,
                          bought : SUBSET (Listings \X Companies),
                          audit : SUBSET (Listings \X Companies),
                          delta : [Companies -> Int]]
  <2>1. ASSUME NEW r \in Requests PROVE tx[r] \in Sessions
    <3>1. RequestInv(r)
      BY DEF Inv
    <3>2. Clean \in Sessions
      BY DEF Clean
    <3>3. CASE pc[r] \notin {"debit", "credit", "commit", "respond"}
      BY <3>1, <3>2, <3>3 DEF RequestInv
    <3>4. CASE pc[r] \in {"debit", "credit", "commit", "respond"}
      <4>1. /\ Listing(r) \in Listings /\ Company(r) \in Companies /\ SellerOf(r) \in Companies
            /\ PriceOf(r) \in Nat /\ Sale(r) \in Listings \X Companies
        BY <3>4, JobType
      <4>2. NoMove \in [Companies -> Int]
        BY DEF NoMove
      <4>3. Taken(r) \in [Companies -> Int]
        BY <4>1, <4>2 DEF Taken
      <4>4. Moved(r) \in [Companies -> Int]
        BY <4>1, <4>3 DEF Moved
      <4>5. \A d \in [Companies -> Int] : Buys(r, d) \in Sessions
        BY <4>1 DEF Buys
      <4>6. Withdraws(r) \in Sessions /\ Audits(r) \in Sessions
        BY <4>1, <4>2 DEF Withdraws, Audits
      <4>7. tx[r] \in {Withdraws(r), Audits(r), Buys(r, NoMove), Buys(r, Taken(r)),
                       Buys(r, Moved(r))}
        BY <3>1, <3>4 DEF RequestInv
      <4>8. QED
        BY <4>2, <4>3, <4>4, <4>5, <4>6, <4>7
    <3>5. QED
      BY <3>3, <3>4
  <2>2. tx \in [Requests -> Sessions]
    <3>1. tx = [r \in Requests |-> tx[r]]
      BY DEF Inv, TablesOK, SessionsExist
    <3>2. QED
      BY <2>1, <3>1
  <2>3. QED
    BY <2>2 DEF Inv, TablesOK, TypeOK, Answers
<1>2. QED
  BY <1>1, InvAlways, PTL

\* The unique key of data_purchases never catches anybody: the row lock on
\* the listing has kept everybody else out.
THEOREM SalesAreUnique == Spec => []UniqueSale
<1>1. Inv => UniqueSale
  <2> SUFFICES ASSUME Inv, NEW r \in Requests, pc[r] = "insert",
                      NEW q \in Requests
               PROVE  Sale(r) \notin purchases /\ Sale(r) \notin tx[q].bought
    BY DEF UniqueSale
  <2>1. /\ Sale(r) \notin purchases /\ listingLock[Listing(r)] = r /\ tx[r] = Clean
    BY DEF Inv, RequestInv, Holding, Checked
  <2>2. RequestInv(q)
    BY DEF Inv
  <2>3. ASSUME Sale(r) \in tx[q].bought PROVE FALSE
    <3>1. pc[q] \in {"debit", "credit", "commit"} /\ Holding(q) /\ Sale(r) = Sale(q)
      BY <2>2, <2>3 DEF RequestInv, Holding, Clean, Buys, Withdraws, Audits
    <3>2. listingLock[Listing(q)] = q
      BY <2>2, <3>1 DEF RequestInv
    <3>3. Listing(q) = Listing(r)
      BY <3>1 DEF Sale
    <3>4. QED
      BY <2>1, <3>1, <3>2, <3>3
  <2>4. QED
    BY <2>1, <2>3
<1>2. QED
  BY <1>1, InvAlways, PTL

\* What is committed behaves as the contract says: every sale is one
\* indivisible move of the price from the buyer to the seller, of a listing
\* that is offered at that moment, and never a second time to that buyer.
THEOREM ImplementsContract == Spec => ContractSpec
<1>1. Init => Contract!Init
  BY MarketplaceAssumption DEF Init, Contract!Init
<1>2. Inv /\ [Next]_vars => [Contract!Next]_(Contract!vars)
  <2> SUFFICES ASSUME Inv, [Next]_vars PROVE Contract!Next \/ UNCHANGED <<status, purchases, balance>>
    BY DEF Contract!vars
  <2>1. ASSUME NEW r \in Requests, Commit(r)
        PROVE  Contract!Next \/ UNCHANGED <<status, purchases, balance>>
    <3>1. pc[r] = "commit" /\ RequestInv(r)
      BY <2>1 DEF Commit, Inv
    <3>2. /\ status' = [l \in Listings |-> IF l \in tx[r].withdrawn THEN "withdrawn" ELSE status[l]]
          /\ purchases' = purchases \cup tx[r].bought
          /\ balance' = [c \in Companies |-> balance[c] + tx[r].delta[c]]
      BY <2>1 DEF Commit, Publish
    <3>3. /\ Listing(r) \in Listings /\ Company(r) \in Companies /\ SellerOf(r) \in Companies
          /\ PriceOf(r) \in Nat
      BY <3>1, JobType
    <3>4. /\ status \in [Listings -> {"absent", "active", "withdrawn"}]
          /\ balance \in [Companies -> Nat]
      BY DEF Inv, TablesOK
    <3>5. CASE tx[r] = Withdraws(r) /\ status[Listing(r)] # "absent"
      <4>1. purchases' = purchases
        BY <3>2, <3>5 DEF Withdraws
      <4>2. balance' = balance
        BY <3>2, <3>4, <3>5 DEF Withdraws, NoMove
      <4>3. status' = [status EXCEPT ![Listing(r)] = "withdrawn"]
        <5>1. status' = [l \in Listings |-> IF l \in {Listing(r)} THEN "withdrawn"
                                             ELSE status[l]]
          BY <3>2, <3>5 DEF Withdraws
        <5>2. QED
          BY <3>3, <3>4, <5>1
      <4>4. status[Listing(r)] = "withdrawn" => status' = status
        BY <3>3, <3>4, <4>3
      <4>5. status[Listing(r)] = "active" => Contract!Withdraw(Listing(r))
        BY <4>1, <4>2, <4>3 DEF Contract!Withdraw
      <4>6. QED
        BY <3>3, <3>4, <3>5, <4>1, <4>2, <4>4, <4>5 DEF Contract!Next
    <3>6. ASSUME Checked(r), tx[r].bought = {Sale(r)}, tx[r].withdrawn = {},
                 balance[Company(r)] >= PriceOf(r),
                 \A c \in Companies : tx[r].delta[c] = IF c = SellerOf(r) THEN PriceOf(r)
                                        ELSE IF c = Company(r) THEN -PriceOf(r) ELSE 0
          PROVE  Contract!Next
      <4>1. /\ status[Listing(r)] = "active" /\ SellerOf(r) # Company(r)
            /\ Sale(r) \notin purchases
        BY <3>1, <3>6 DEF RequestInv, Checked
      <4>2. status' = status
        BY <3>2, <3>4, <3>6
      <4>3. purchases' = purchases \cup {Sale(r)}
        BY <3>2, <3>6
      <4>4. balance' = [balance EXCEPT ![Company(r)] = @ - PriceOf(r),
                                       ![SellerOf(r)] = @ + PriceOf(r)]
        <5> DEFINE b == [balance EXCEPT ![Company(r)] = @ - PriceOf(r),
                                        ![SellerOf(r)] = @ + PriceOf(r)]
        <5>1. ASSUME NEW c \in Companies PROVE balance'[c] = b[c]
          BY <3>2, <3>3, <3>4, <3>6, <4>1
        <5>2. DOMAIN balance' = Companies /\ DOMAIN b = Companies
          BY <3>2, <3>4
        <5>3. b = [c \in Companies |-> b[c]] /\ balance' = [c \in Companies |-> balance'[c]]
          BY <3>2, <3>4
        <5> HIDE DEF b
        <5>4. balance' = b
          BY <5>1, <5>3
        <5>5. QED
          BY <5>4 DEF b
      <4>5. Contract!Sell(Listing(r), Company(r))
        BY <3>6, <4>1, <4>2, <4>3, <4>4 DEF Contract!Sell, Sale, SellerOf, PriceOf
      <4>6. QED
        BY <3>3, <4>5 DEF Contract!Next
    <3>7. CASE job[r].kind = "buy" /\ PriceOf(r) = 0 /\ tx[r] = Buys(r, NoMove)
      <4>1. \A c \in Companies : tx[r].delta[c] = 0
        BY <3>7 DEF Buys, NoMove
      <4>2. balance[Company(r)] >= PriceOf(r)
        BY <3>3, <3>4, <3>7
      <4>3. Checked(r) /\ tx[r].bought = {Sale(r)} /\ tx[r].withdrawn = {}
        BY <3>1, <3>7 DEF Checked, Holding, Buys
      <4>4. \A c \in Companies : tx[r].delta[c] = IF c = SellerOf(r) THEN PriceOf(r)
                                        ELSE IF c = Company(r) THEN -PriceOf(r) ELSE 0
        BY <3>7, <4>1
      <4>5. QED
        BY <3>6, <4>2, <4>3, <4>4
    <3>8. CASE job[r].kind = "buy" /\ tx[r] = Buys(r, Moved(r)) /\ balance[Company(r)] >= PriceOf(r)
      <4>1. Checked(r) /\ tx[r].bought = {Sale(r)} /\ tx[r].withdrawn = {} /\ tx[r].delta = Moved(r)
        BY <3>1, <3>8 DEF Checked, Holding, Buys
      <4>2. \A c \in Companies : Moved(r)[c] = IF c = SellerOf(r) THEN PriceOf(r)
                                   ELSE IF c = Company(r) THEN -PriceOf(r) ELSE 0
        BY <3>3 DEF Moved, Taken, NoMove
      <4>3. QED
        BY <3>6, <3>8, <4>1, <4>2
    <3>9. QED
      BY <3>1, <3>5, <3>7, <3>8 DEF RequestInv
  <2>2. ASSUME NEW r \in Requests, CreateListing(r) PROVE Contract!Next
    <3>1. Listing(r) \in Listings
      BY <2>2, JobType DEF CreateListing
    <3>2. Contract!Offer(Listing(r))
      BY <2>2 DEF CreateListing, Contract!Offer
    <3>3. QED
      BY <3>1, <3>2 DEF Contract!Next
  <2>3. ASSUME NEW r \in Requests, NEW a, Close(r, a)
        PROVE  UNCHANGED <<status, purchases, balance>>
    BY <2>3 DEF Close, store
  <2>4. ASSUME NEW r \in Requests,
               Forbidden(r) \/ RefuseListing(r) \/ NotFound(r) \/ Unavailable(r)
               \/ RefusePurchase(r) \/ CannotPay(r) \/ Respond(r) \/ DeadlockVictim(r) \/ Crash(r)
        PROVE  UNCHANGED <<status, purchases, balance>>
    BY <2>3, <2>4 DEF Forbidden, RefuseListing, NotFound, Unavailable, RefusePurchase,
                      CannotPay, Respond, DeadlockVictim, Crash
  <2>5. ASSUME NEW r \in Requests,
               Start(r) \/ Enter(r) \/ SelectOwn(r) \/ UpdateStatus(r) \/ LockListing(r)
               \/ CheckPurchase(r) \/ InsertPurchase(r) \/ Debit(r) \/ Credit(r) \/ Record(r)
        PROVE  UNCHANGED <<status, purchases, balance>>
    BY <2>5 DEF Start, Enter, SelectOwn, UpdateStatus, LockListing, CheckPurchase,
                InsertPurchase, Debit, Credit, Record, store
  <2>6. CASE UNCHANGED vars
    BY <2>6 DEF vars, store
  <2>7. QED
    BY <2>1, <2>2, <2>4, <2>5, <2>6 DEF Next, Step, Quiet
<1>3. QED
  BY <1>1, <1>2, InvAlways, PTL DEF Spec, ContractSpec, Contract!Spec
=============================================================================
