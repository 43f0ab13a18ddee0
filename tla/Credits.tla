------------------------------ MODULE Credits ------------------------------
(***************************************************************************)
(* Subscriptions and credits under concurrent requests.                    *)
(*                                                                         *)
(* Every HTTP request runs in a database session of its own (get_db) at    *)
(* PostgreSQL's READ COMMITTED level: it sees what is committed when a     *)
(* statement starts, plus its own uncommitted rows.  An action below is    *)
(* the code between two awaits of a request; the requests interleave       *)
(* freely, and any of them may be cut off at any point, which rolls its    *)
(* transaction back.                                                       *)
(*                                                                         *)
(* Credit movements are serialised by SELECT ... FOR UPDATE on the         *)
(* company's subscription row.  rowLock[c] is that lock; while the row is  *)
(* being inserted it is the inserter's hold on the unique key.  The second *)
(* FOR UPDATE, on the latest ledger row, is not modelled: whoever takes it *)
(* has the subscription row already or found none to lock.                 *)
(***************************************************************************)
EXTENDS CreditLedger

CONSTANTS
    Companies,        \* the tenants
    Requests,         \* every request ever made
    Workload,         \* [Requests -> set of jobs the request may turn out to be]
    Unprovisioned,    \* companies older than the billing tables: no subscription
    OpeningPlans,     \* the plans and
    OpeningBalances,  \* the balances that a provisioned company may start from
    Skews,            \* how far ahead a replica's clock may be
    None

\* The protocols by which a paid operation combines its work, its charge and
\* its commits.
ChargeWithCommit == {"estimate", "compliance", "questionnaire_pdf"}
CommitThenCharge == {"scenario", "extract"}
ChargeThenWork   == {"report_pdf"}
PaidKinds == ChargeWithCommit \cup CommitThenCharge \cup ChargeThenWork
Kinds     == PaidKinds \cup {"view", "credits", "grant", "plan"}

Jobs == [kind : Kinds, company : Companies, target : Plans, amount : Int]

NoneIsNeutral     == None \notin Requests \cup Plans
WorkloadIsJobs    == /\ Workload \in [Requests -> SUBSET Jobs]
                     /\ \A r \in Requests, j \in UNION {Workload[q] : q \in Requests} :
                            j.kind = "grant" => j.amount > 0
OpeningIsPositive == OpeningBalances \subseteq Nat \ {0}
SkewIsNat         == Skews \subseteq Nat
ASSUME CreditsAssumption ==
    /\ NoneIsNeutral
    /\ WorkloadIsJobs
    /\ OpeningIsPositive
    /\ OpeningPlans \subseteq Plans
    /\ SkewIsNat
    /\ Unprovisioned \subseteq Companies

VARIABLES
    sub,      \* [Companies -> plan of the committed subscription row, or None]
    ledger,   \* [Companies -> set of committed credit_ledger rows]
    rowLock,  \* [Companies -> the request holding the subscription row, or None]
    clock,    \* the time of the next ledger row; two ticks each, so an odd skew never ties
    pc,       \* [Requests -> where the request is]
    job,      \* [Requests -> what it was asked to do, or None]
    tx,       \* [Requests -> its session: see Fresh]
    result,   \* [Requests -> "none", "draft" (uncommitted or unsent) or "stored"]
    resp      \* [Requests -> the answer it got, or "none"]

store == <<sub, ledger, rowLock>>
vars  == <<sub, ledger, rowLock, clock, pc, job, tx, result, resp>>

\* An empty session: the plan it has loaded, the subscription row and the
\* ledger rows it has written but not committed, the credit movement in
\* progress (amount, reason), and the balance it read for that movement.
Fresh == [plan |-> None, written |-> None, rows |-> {},
          amount |-> 0, reason |-> "none", seen |-> 0]

Reasons == {"none", "subscription_grant", "manual_grant", "plan_upgrade",
            "plan_downgrade_adjustment", "usage"}
\* Table credit_ledger, with its CHECK (balance_after >= 0); by is a ghost.
LedgerRows == [at : Int, amount : Int, balance_after : Nat, reason : Reasons,
               by : Requests \cup {None}]
Sessions == [plan : Plans \cup {None}, written : Plans \cup {None}, rows : SUBSET LedgerRows,
             amount : Int, reason : Reasons, seen : Int]

OpeningRow(b) == [at |-> 0, amount |-> b, balance_after |-> b,
                  reason |-> "subscription_grant", by |-> None]

Init ==
    /\ sub \in {s \in [Companies -> Plans \cup {None}] :
                   \A c \in Companies :
                      IF c \in Unprovisioned THEN s[c] = None ELSE s[c] \in OpeningPlans}
    /\ ledger \in {l \in [Companies -> {{}} \cup {{OpeningRow(b)} : b \in OpeningBalances}] :
                      \A c \in Companies : c \in Unprovisioned <=> l[c] = {}}
    /\ rowLock = [c \in Companies |-> None]
    /\ clock = 1
    /\ pc = [r \in Requests |-> "idle"]
    /\ job = [r \in Requests |-> None]
    /\ tx = [r \in Requests |-> Fresh]
    /\ result = [r \in Requests |-> "none"]
    /\ resp = [r \in Requests |-> "none"]
-----------------------------------------------------------------------------
Kind(r)    == job[r].kind
Company(r) == job[r].company

Operation(kind) == CASE kind \in {"estimate", "compliance"}            -> "estimate"
                     [] kind \in {"questionnaire_pdf", "report_pdf"} -> "pdf_export"
                     [] kind = "scenario"                             -> "scenario_compute"
                     [] kind = "extract"                              -> "questionnaire_extract"
Cost(r) == credit_cost(Operation(Kind(r)))

\* What the session of r sees of its company.
VisibleRows(r)    == ledger[Company(r)] \cup tx[r].rows
VisibleBalance(r) == get_credit_balance(VisibleRows(r))
VisibleSub(r) == IF tx[r].written # None THEN tx[r].written ELSE sub[Company(r)]

Goto(r, label)   == pc' = [pc EXCEPT ![r] = label]
SetSession(r, s) == tx' = [tx EXCEPT ![r] = s]

\* The charge that the handler of r will make.
Owe(r) == [tx[r] EXCEPT !.amount = -Cost(r), !.reason = "usage"]

\* Wrong on purpose: FOR UPDATE left out.
TakeLockWithoutWaiting(r) == rowLock' = [rowLock EXCEPT ![Company(r)] = r]

\* The lock on the subscription row: r waits for another holder.
TakeLock(r) ==
    /\ rowLock[Company(r)] \in {None, r}
    /\ rowLock' = [rowLock EXCEPT ![Company(r)] = r]
Released(r) == [c \in Companies |-> IF rowLock[c] = r THEN None ELSE rowLock[c]]

\* COMMIT: what the session wrote becomes visible and its locks are freed.
Publish(r) ==
    /\ sub' = [sub EXCEPT ![Company(r)] = VisibleSub(r)]
    /\ ledger' = [ledger EXCEPT ![Company(r)] = VisibleRows(r)]
    /\ rowLock' = Released(r)
    /\ SetSession(r, [tx[r] EXCEPT !.written = None, !.rows = {}])

\* ROLLBACK: what the session wrote is gone and its locks are freed.
Rollback(r) ==
    /\ rowLock' = Released(r)
    /\ UNCHANGED <<sub, ledger>>

\* The handler raises: the session closes without a commit.
Fail(r, answer) ==
    /\ Rollback(r)
    /\ Goto(r, "done")
    /\ SetSession(r, Fresh)
    /\ result' = [result EXCEPT ![r] = IF @ = "draft" THEN "none" ELSE @]
    /\ resp' = [resp EXCEPT ![r] = answer]
    /\ UNCHANGED <<clock, job>>

\* Where get_or_create_subscription returns to.
Subscribed(r) == CASE Kind(r) = "plan"        -> "plan"
                   [] Kind(r) \in PaidKinds  -> "check"
                   [] OTHER                   -> "commit"
-----------------------------------------------------------------------------
\* A request arrives.  An admin's grant moves credits before it looks at the
\* subscription; every other request starts with get_or_create_subscription.
Start(r) ==
    /\ pc[r] = "idle"
    /\ \E j \in Workload[r] :
          /\ job' = [job EXCEPT ![r] = j]
          /\ \/ /\ j.kind = "grant"
                /\ SetSession(r, [Fresh EXCEPT !.amount = j.amount, !.reason = "manual_grant"])
                /\ Goto(r, "lock")
             \/ /\ j.kind # "grant"
                /\ SetSession(r, Fresh)
                /\ Goto(r, "subscribe")
    /\ UNCHANGED <<store, clock, result, resp>>

\* The SELECT of get_or_create_subscription.
GetSubscription(r) ==
    /\ pc[r] = "subscribe"
    /\ SetSession(r, [tx[r] EXCEPT !.plan = VisibleSub(r)])
    /\ Goto(r, IF VisibleSub(r) = None THEN "insert" ELSE Subscribed(r))
    /\ UNCHANGED <<store, clock, job, result, resp>>

\* Its INSERT of the free plan, which waits for another session's
\* uncommitted insert of the same company; the opening grant follows.
InsertSubscription(r) ==
    /\ pc[r] = "insert"
    /\ sub[Company(r)] = None
    /\ TakeLock(r)
    /\ SetSession(r, [tx[r] EXCEPT !.plan = "free", !.written = "free",
                                   !.amount = monthly_credits("free"),
                                   !.reason = "subscription_grant"])
    /\ Goto(r, "lock")
    /\ UNCHANGED <<sub, ledger, clock, job, result, resp>>

\* The INSERT meets a committed row: IntegrityError.  rollback() undoes all
\* the session has written and expires its objects, so every handler but
\* GET /billing/subscription, which needs only the re-selected row, then
\* fails on reading `user`.
InsertConflict(r) ==
    /\ pc[r] = "insert"
    /\ sub[Company(r)] # None
    /\ \/ /\ Kind(r) = "view"
          /\ Rollback(r)
          /\ SetSession(r, [Fresh EXCEPT !.plan = sub[Company(r)]])
          /\ Goto(r, "commit")
          /\ UNCHANGED <<clock, job, result, resp>>
       \/ /\ Kind(r) # "view"
          /\ Fail(r, "error")
-----------------------------------------------------------------------------
\* grant_credits and deduct_credits: lock the subscription row, when there
\* is one to be seen,
LockSubscription(r) ==
    /\ pc[r] = "lock"
    /\ \/ VisibleSub(r) # None /\ TakeLock(r)
       \/ VisibleSub(r) = None /\ UNCHANGED rowLock
    /\ Goto(r, "read")
    /\ UNCHANGED <<sub, ledger, clock, job, tx, result, resp>>

\* Wrong on purpose: the balance is not compared with the amount.
ReadBalanceUnchecked(r) ==
    /\ pc[r] = "read"
    /\ SetSession(r, [tx[r] EXCEPT !.seen = VisibleBalance(r)])
    /\ Goto(r, "flush")
    /\ UNCHANGED <<store, clock, job, result, resp>>

\* read the latest balance,
ReadBalance(r) ==
    /\ pc[r] = "read"
    /\ VisibleBalance(r) + tx[r].amount >= 0
    /\ SetSession(r, [tx[r] EXCEPT !.seen = VisibleBalance(r)])
    /\ Goto(r, "flush")
    /\ UNCHANGED <<store, clock, job, result, resp>>

\* which raises ValueError when it does not cover a deduction,
InsufficientBalance(r) ==
    /\ pc[r] = "read"
    /\ VisibleBalance(r) + tx[r].amount < 0
    /\ Fail(r, "error_insufficient")

\* and flush the row that carries the new balance.
NextRow(r, skew) == [at |-> clock + skew, amount |-> tx[r].amount,
                     balance_after |-> tx[r].seen + tx[r].amount,
                     reason |-> tx[r].reason, by |-> r]
FlushRow(r) ==
    /\ pc[r] = "flush"
    /\ \E k \in Skews :
          SetSession(r, [tx[r] EXCEPT !.rows = tx[r].rows \cup {NextRow(r, k)}])
    /\ clock' = clock + 2
    /\ Goto(r, CASE tx[r].reason = "subscription_grant" -> Subscribed(r)
                 [] tx[r].reason = "manual_grant"       -> "subscribe"
                 [] OTHER                               -> "commit")
    /\ UNCHANGED <<store, job, result, resp>>
-----------------------------------------------------------------------------
\* change_plan: nothing to do when the loaded plan is the wanted one.
KeepPlan(r) ==
    /\ pc[r] = "plan"
    /\ tx[r].plan = job[r].target
    /\ Goto(r, "commit")
    /\ UNCHANGED <<store, clock, job, tx, result, resp>>

\* Otherwise the new plan is flushed, which locks the row, before the next
\* statement.  The delta is taken from the plan loaded before the lock.
SetPlan(r) ==
    LET delta == monthly_credits(job[r].target) - monthly_credits(tx[r].plan) IN
    /\ pc[r] = "plan"
    /\ tx[r].plan # job[r].target
    /\ TakeLock(r)
    /\ SetSession(r, [tx[r] EXCEPT !.plan = job[r].target, !.written = job[r].target,
                                   !.amount = delta, !.reason = "plan_upgrade"])
    /\ Goto(r, IF delta > 0 THEN "lock" ELSE "cap")
    /\ UNCHANGED <<sub, ledger, clock, job, result, resp>>

\* Wrong on purpose: the cap is forgotten.
CapBalanceNever(r) ==
    /\ pc[r] = "cap"
    /\ Goto(r, "commit")
    /\ UNCHANGED <<store, clock, job, tx, result, resp>>

\* A downgrade takes away what exceeds the new plan's monthly credits.
CapBalance(r) ==
    LET excess == VisibleBalance(r) - monthly_credits(job[r].target) IN
    /\ pc[r] = "cap"
    /\ \/ /\ excess > 0
          /\ SetSession(r, [tx[r] EXCEPT !.amount = -excess,
                                         !.reason = "plan_downgrade_adjustment"])
          /\ Goto(r, "lock")
       \/ /\ excess <= 0
          /\ UNCHANGED tx
          /\ Goto(r, "commit")
    /\ UNCHANGED <<store, clock, job, result, resp>>
-----------------------------------------------------------------------------
\* require_credits: an unlocked look at the balance before the handler runs,
CheckBalance(r) ==
    /\ pc[r] = "check"
    /\ VisibleBalance(r) >= Cost(r)
    /\ SetSession(r, Owe(r))
    /\ Goto(r, CASE Kind(r) \in ChargeThenWork -> "lock"
                 [] Kind(r) = "extract"        -> "mark"
                 [] OTHER                      -> "work")
    /\ UNCHANGED <<store, clock, job, result, resp>>

\* which refuses the request; a subscription it created goes with it.
RefuseUnpaid(r) ==
    /\ pc[r] = "check"
    /\ VisibleBalance(r) < Cost(r)
    /\ Fail(r, "payment_required")

\* process_questionnaire commits status "extracting" before it calls the model.
MarkExtracting(r) ==
    /\ pc[r] = "mark"
    /\ Publish(r)
    /\ Goto(r, "work")
    /\ UNCHANGED <<clock, job, result, resp>>

\* Wrong on purpose: the report is committed before it is charged,
DraftResultCommitted(r) ==
    /\ pc[r] = "work"
    /\ Kind(r) \in ChargeWithCommit
    /\ Publish(r)
    /\ result' = [result EXCEPT ![r] = "stored"]
    /\ Goto(r, "lock")
    /\ UNCHANGED <<clock, job, resp>>

\* and wrong on purpose: it is not charged at all.
DraftResultUncharged(r) ==
    /\ pc[r] = "work"
    /\ Kind(r) \in ChargeWithCommit
    /\ result' = [result EXCEPT ![r] = "draft"]
    /\ Goto(r, "commit")
    /\ UNCHANGED <<store, clock, job, tx, resp>>

\* The work itself: a result that is committed together with its charge,
DraftResult(r) ==
    /\ pc[r] = "work"
    /\ Kind(r) \in ChargeWithCommit
    /\ result' = [result EXCEPT ![r] = "draft"]
    /\ Goto(r, "lock")
    /\ UNCHANGED <<store, clock, job, tx, resp>>

\* or a result that the service commits by itself, to be charged afterwards,
StoreResult(r) ==
    /\ pc[r] = "work"
    /\ Kind(r) \in CommitThenCharge
    /\ Publish(r)
    /\ result' = [result EXCEPT ![r] = "stored"]
    /\ Goto(r, "lock")
    /\ UNCHANGED <<clock, job, resp>>

\* or an error: no such upload, a malformed estimate, a failing generator.
WorkFails(r) ==
    /\ pc[r] = "work"
    /\ Fail(r, "error")

\* The handler's commit,
Commit(r) ==
    /\ pc[r] = "commit"
    /\ Kind(r) \notin ChargeThenWork
    /\ Publish(r)
    /\ Goto(r, "done")
    /\ result' = [result EXCEPT ![r] = IF @ = "draft" THEN "stored" ELSE @]
    /\ resp' = [resp EXCEPT ![r] = "ok"]
    /\ UNCHANGED <<clock, job>>

\* before which a report PDF has not been generated,
CommitCharge(r) ==
    /\ pc[r] = "commit"
    /\ Kind(r) \in ChargeThenWork
    /\ Publish(r)
    /\ Goto(r, "render")
    /\ UNCHANGED <<clock, job, result, resp>>

\* and whose generation may still fail.
Render(r) ==
    /\ pc[r] = "render"
    /\ Goto(r, "done")
    /\ \/ /\ result' = [result EXCEPT ![r] = "stored"]
          /\ resp' = [resp EXCEPT ![r] = "ok"]
       \/ /\ UNCHANGED result
          /\ resp' = [resp EXCEPT ![r] = "error"]
    /\ UNCHANGED <<store, clock, job, tx>>

\* The worker is killed or the connection drops: no answer.
Crash(r) ==
    /\ pc[r] \notin {"idle", "done"}
    /\ Fail(r, "lost")
-----------------------------------------------------------------------------
Step(r) ==
    \/ GetSubscription(r) \/ InsertSubscription(r) \/ InsertConflict(r)
    \/ LockSubscription(r) \/ ReadBalance(r) \/ InsufficientBalance(r) \/ FlushRow(r)
    \/ KeepPlan(r) \/ SetPlan(r) \/ CapBalance(r)
    \/ CheckBalance(r) \/ RefuseUnpaid(r) \/ MarkExtracting(r)
    \/ DraftResult(r) \/ StoreResult(r) \/ WorkFails(r)
    \/ Commit(r) \/ CommitCharge(r) \/ Render(r)

\* Nothing is left to do once every request has been answered.
Quiet == /\ \A r \in Requests : pc[r] = "done"
         /\ UNCHANGED vars

Next == \/ \E r \in Requests : Start(r) \/ Step(r) \/ Crash(r)
        \/ Quiet

Spec == Init /\ [][Next]_vars
-----------------------------------------------------------------------------
(***************************************************************************)
(* Properties.                                                             *)
(***************************************************************************)
Labels  == {"idle", "subscribe", "insert", "lock", "read", "flush", "plan", "cap",
            "check", "mark", "work", "commit", "render", "done"}
Answers == {"none", "ok", "payment_required", "error_insufficient", "error", "lost"}

\* Every variable has its type; in particular no ledger row, committed or
\* pending, has a negative balance.
TypeOK ==
    /\ sub \in [Companies -> Plans \cup {None}]
    /\ rowLock \in [Companies -> Requests \cup {None}]
    /\ clock \in Nat
    /\ pc \in [Requests -> Labels]
    /\ job \in [Requests -> Jobs \cup {None}]
    /\ ledger \in [Companies -> SUBSET LedgerRows]
    /\ tx \in [Requests -> Sessions]
    /\ result \in [Requests -> {"none", "draft", "stored"}]
    /\ resp \in [Requests -> Answers]

\* The balance kept in the latest row is the sum of everything ever granted
\* and deducted: two sessions never continue from the same row, however
\* their statements interleave (_lock_subscription_for_credits).
LedgerChained == \A c \in Companies : Chained(ledger[c])

Charges(r) == {e \in ledger[Company(r)] : e.by = r /\ e.reason = "usage"}
IsPaid(r)  == job[r] # None /\ Kind(r) \in PaidKinds

\* An estimate's report and its charge are committed by the same commit:
\* at no point, crash included, is there one without the other.
AtomicCharge ==
    \A r \in Requests :
        IsPaid(r) /\ Kind(r) \in ChargeWithCommit
            => (result[r] = "stored" <=> Charges(r) # {})

\* No paid operation is answered with success unless it has been charged.
SuccessIsCharged ==
    \A r \in Requests : IsPaid(r) /\ resp[r] = "ok" => Charges(r) # {}

\* What one request may add or take away: nothing, a charge or a grant.
Deltas == {0} \cup {-credit_cost(Operation(k)) : k \in PaidKinds}
              \cup UNION {{j.amount : j \in {i \in Workload[r] : i.kind = "grant"}} : r \in Requests}

\* Committed state behaves as CreditAccount promises: each commit is one
\* indivisible opening, movement or change of plan.
Account == INSTANCE CreditAccount WITH
    plan    <- sub,
    balance <- [c \in Companies |-> get_credit_balance(ledger[c])]
AccountSpec == Account!Spec
=============================================================================
