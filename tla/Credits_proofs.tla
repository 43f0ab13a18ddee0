--------------------------- MODULE Credits_proofs ---------------------------
(***************************************************************************)
(* Machine-checked proofs about Credits, for any number of companies,      *)
(* requests and jobs.                                                      *)
(***************************************************************************)
EXTENDS Credits, TLAPS

(***************************************************************************)
(* Facts about the ledger operators.                                       *)
(***************************************************************************)

\* A set of rows whose latest row exists, as every finite ledger has one.
HasLatest(S) == S = {} \/ \E m \in S : \A f \in S : f.at <= m.at

\* Prices and plan limits are natural numbers.
LEMMA PricesAreNat ==
    /\ \A o : credit_cost(o) \in Nat
    /\ \A p : monthly_credits(p) \in Nat
BY DEF credit_cost, monthly_credits

\* The balance read from a ledger of well-typed rows is a natural number.
LEMMA BalanceIsNat ==
    ASSUME NEW S \in SUBSET LedgerRows, HasLatest(S)
    PROVE  get_credit_balance(S) \in Nat
<1>1. CASE S = {}
  BY <1>1 DEF get_credit_balance
<1>2. CASE S # {}
  <2>1. \E m \in S : \A f \in S : f.at <= m.at
    BY <1>2 DEF HasLatest
  <2>2. LatestRow(S) \in S
    BY <2>1 DEF LatestRow
  <2>3. QED
    BY <1>2, <2>2 DEF get_credit_balance, LedgerRows
<1>3. QED
  BY <1>1, <1>2

\* Two ledgers with a latest row have one between them.
LEMMA UnionHasLatest ==
    ASSUME NEW S \in SUBSET LedgerRows, NEW T \in SUBSET LedgerRows,
           HasLatest(S), HasLatest(T)
    PROVE  HasLatest(S \cup T)
<1>1. CASE S = {}
  BY <1>1 DEF HasLatest
<1>2. CASE T = {}
  BY <1>2 DEF HasLatest
<1>3. CASE S # {} /\ T # {}
  <2>1. PICK m \in S : \A f \in S : f.at <= m.at
    BY <1>3 DEF HasLatest
  <2>2. PICK n \in T : \A f \in T : f.at <= n.at
    BY <1>3 DEF HasLatest
  <2>3. \A f \in S \cup T : f.at \in Int
    BY DEF LedgerRows
  <2>4. CASE m.at <= n.at
    BY <2>1, <2>2, <2>3, <2>4 DEF HasLatest
  <2>5. CASE n.at <= m.at
    BY <2>1, <2>2, <2>3, <2>5 DEF HasLatest
  <2>6. QED
    BY <2>3, <2>4, <2>5
<1>4. QED
  BY <1>1, <1>2, <1>3

(***************************************************************************)
(* Type correctness.                                                       *)
(***************************************************************************)

\* What has to be carried along for the types: ledgers have a latest row, a
\* request under way has a job, and the row about to be flushed passed the
\* check against the balance.
TypeInv ==
    /\ TypeOK
    /\ \A c \in Companies : HasLatest(ledger[c])
    /\ \A r \in Requests :
          /\ HasLatest(tx[r].rows)
          /\ pc[r] # "idle" => job[r] \in Jobs
          /\ pc[r] = "flush" => tx[r].seen + tx[r].amount \in Nat

\* The initial state is well typed.
LEMMA TypeInit == Init => TypeInv
<1> SUFFICES ASSUME Init PROVE TypeInv
  OBVIOUS
<1> USE CreditsAssumption
<1>1. \A b \in OpeningBalances : OpeningRow(b) \in LedgerRows
  BY DEF OpeningIsPositive, OpeningRow, LedgerRows, Reasons
<1>2. ledger \in [Companies -> SUBSET LedgerRows]
  BY <1>1 DEF Init
<1>3. \A c \in Companies : HasLatest(ledger[c])
  BY <1>1 DEF Init, HasLatest, OpeningRow
<1>4. Fresh \in Sessions /\ HasLatest(Fresh.rows)
  BY DEF Fresh, Sessions, HasLatest, Reasons
<1>5. QED
  BY <1>2, <1>3, <1>4 DEF Init, TypeInv, TypeOK, Plans, Labels, Answers

\* What the helpers of the actions preserve.
LEMMA ReleasedType ==
    ASSUME TypeOK, NEW r \in Requests
    PROVE  Released(r) \in [Companies -> Requests \cup {None}]
BY DEF TypeOK, Released

LEMMA VisibleType ==
    ASSUME TypeInv, NEW r \in Requests, pc[r] # "idle"
    PROVE  /\ Company(r) \in Companies
           /\ VisibleRows(r) \in SUBSET LedgerRows
           /\ HasLatest(VisibleRows(r))
           /\ VisibleBalance(r) \in Nat
           /\ VisibleSub(r) \in Plans \cup {None}
<1>1. Company(r) \in Companies
  BY DEF TypeInv, Company, Jobs
<1>2. ledger[Company(r)] \in SUBSET LedgerRows /\ tx[r].rows \in SUBSET LedgerRows
  BY <1>1 DEF TypeInv, TypeOK, Sessions
<1>3. HasLatest(VisibleRows(r))
  BY <1>1, <1>2, UnionHasLatest DEF TypeInv, VisibleRows
<1>4. VisibleRows(r) \in SUBSET LedgerRows
  BY <1>2 DEF VisibleRows
<1>5. VisibleSub(r) \in Plans \cup {None}
  BY <1>1 DEF VisibleSub, TypeInv, TypeOK, Sessions
<1>6. QED
  BY <1>1, <1>3, <1>4, <1>5, BalanceIsNat DEF VisibleBalance

\* The session of one request is replaced by a well-typed one.
LEMMA SetSessionType ==
    ASSUME TypeInv, NEW r \in Requests, NEW s \in Sessions, HasLatest(s.rows),
           SetSession(r, s)
    PROVE  /\ tx' \in [Requests -> Sessions]
           /\ tx'[r] = s
           /\ \A q \in Requests : q # r => tx'[q] = tx[q]
           /\ \A q \in Requests : HasLatest(tx'[q].rows)
<1>1. tx' = [tx EXCEPT ![r] = s]
  BY DEF SetSession
<1>2. tx \in [Requests -> Sessions] /\ \A q \in Requests : HasLatest(tx[q].rows)
  BY DEF TypeInv, TypeOK
<1>3. tx' \in [Requests -> Sessions] /\ tx'[r] = s /\ \A q \in Requests : q # r => tx'[q] = tx[q]
  BY <1>1, <1>2
<1>4. QED
  BY <1>2, <1>3

LEMMA FreshType == Fresh \in Sessions /\ HasLatest(Fresh.rows)
BY DEF Fresh, Sessions, HasLatest, Reasons

LEMMA SessionType ==
    ASSUME TypeInv, NEW r \in Requests
    PROVE  tx[r] \in Sessions /\ HasLatest(tx[r].rows)
BY DEF TypeInv, TypeOK

LEMMA OweType ==
    ASSUME TypeInv, NEW r \in Requests
    PROVE  Owe(r) \in Sessions /\ Owe(r).rows = tx[r].rows
<1>1. -Cost(r) \in Int
  BY PricesAreNat DEF Cost
<1>2. QED
  BY <1>1, SessionType DEF Owe, Sessions, Reasons

\* A step of request r that moves it to label l and gives it session s.
LEMMA StepType ==
    ASSUME TypeInv, NEW r \in Requests, pc[r] # "idle",
           NEW s \in Sessions, HasLatest(s.rows), SetSession(r, s),
           NEW l \in Labels, Goto(r, l),
           l = "flush" => s.seen + s.amount \in Nat,
           sub' \in [Companies -> Plans \cup {None}],
           ledger' \in [Companies -> SUBSET LedgerRows],
           \A c \in Companies : HasLatest(ledger'[c]),
           rowLock' \in [Companies -> Requests \cup {None}],
           clock' \in Nat,
           job' = job,
           result' \in [Requests -> {"none", "draft", "stored"}],
           resp' \in [Requests -> Answers]
    PROVE  TypeInv'
<1>1. /\ tx' \in [Requests -> Sessions]
      /\ tx'[r] = s
      /\ \A q \in Requests : q # r => tx'[q] = tx[q]
      /\ \A q \in Requests : HasLatest(tx'[q].rows)
  BY SetSessionType
<1>2. /\ pc' \in [Requests -> Labels]
      /\ pc'[r] = l
      /\ \A q \in Requests : q # r => pc'[q] = pc[q]
  BY DEF Goto, TypeInv, TypeOK
<1>3. ASSUME NEW q \in Requests
      PROVE  /\ pc'[q] # "idle" => job'[q] \in Jobs
             /\ pc'[q] = "flush" => tx'[q].seen + tx'[q].amount \in Nat
  BY <1>1, <1>2, <1>3 DEF TypeInv
<1>4. TypeOK'
  BY <1>1, <1>2 DEF TypeOK, TypeInv
<1>5. QED
  BY <1>1, <1>3, <1>4 DEF TypeInv

LEMMA RollbackType ==
    ASSUME TypeInv, NEW r \in Requests, Rollback(r)
    PROVE  /\ sub' \in [Companies -> Plans \cup {None}]
           /\ ledger' \in [Companies -> SUBSET LedgerRows]
           /\ \A c \in Companies : HasLatest(ledger'[c])
           /\ rowLock' \in [Companies -> Requests \cup {None}]
BY ReleasedType DEF Rollback, TypeInv, TypeOK

LEMMA FailType ==
    ASSUME TypeInv, NEW r \in Requests, NEW a \in Answers, Fail(r, a), pc[r] # "idle"
    PROVE  TypeInv'
<1>1. /\ result' \in [Requests -> {"none", "draft", "stored"}]
      /\ resp' \in [Requests -> Answers]
      /\ clock' \in Nat /\ job' = job
      /\ Rollback(r) /\ SetSession(r, Fresh) /\ Goto(r, "done")
  BY DEF Fail, TypeInv, TypeOK
<1>2. QED
  BY <1>1, StepType, RollbackType, FreshType DEF Labels

\* A commit leaves well-typed tables and an empty session.
LEMMA PublishType ==
    ASSUME TypeInv, NEW r \in Requests, Publish(r), pc[r] # "idle"
    PROVE  /\ sub' \in [Companies -> Plans \cup {None}]
           /\ ledger' \in [Companies -> SUBSET LedgerRows]
           /\ rowLock' \in [Companies -> Requests \cup {None}]
           /\ \A c \in Companies : HasLatest(ledger'[c])
           /\ [tx[r] EXCEPT !.written = None, !.rows = {}] \in Sessions
           /\ HasLatest([tx[r] EXCEPT !.written = None, !.rows = {}].rows)
<1>1. /\ Company(r) \in Companies
      /\ VisibleRows(r) \in SUBSET LedgerRows
      /\ HasLatest(VisibleRows(r))
      /\ VisibleSub(r) \in Plans \cup {None}
  BY VisibleType
<1>2. /\ ledger' \in [Companies -> SUBSET LedgerRows]
      /\ \A c \in Companies : HasLatest(ledger'[c])
  BY <1>1 DEF Publish, TypeInv, TypeOK
<1>3. sub' \in [Companies -> Plans \cup {None}]
  BY <1>1 DEF Publish, TypeInv, TypeOK
<1>4. [tx[r] EXCEPT !.written = None, !.rows = {}] \in Sessions
  BY SessionType DEF Sessions
<1>5. HasLatest([tx[r] EXCEPT !.written = None, !.rows = {}].rows)
  BY SessionType DEF HasLatest, Sessions
<1>6. QED
  BY <1>2, <1>3, <1>4, <1>5, ReleasedType DEF Publish, TypeInv

\* The parts of the state that an action leaves alone keep their types.
LEMMA KeptType ==
    ASSUME TypeInv
    PROVE  /\ sub \in [Companies -> Plans \cup {None}]
           /\ ledger \in [Companies -> SUBSET LedgerRows]
           /\ \A c \in Companies : HasLatest(ledger[c])
           /\ rowLock \in [Companies -> Requests \cup {None}]
           /\ clock \in Nat
           /\ result \in [Requests -> {"none", "draft", "stored"}]
           /\ resp \in [Requests -> Answers]
BY DEF TypeInv, TypeOK

LEMMA TakeLockType ==
    ASSUME TypeInv, NEW r \in Requests, TakeLock(r)
    PROVE  rowLock' \in [Companies -> Requests \cup {None}]
BY DEF TypeInv, TypeOK, TakeLock

\* The row that FlushRow adds, and the session it adds it to.
LEMMA NextRowType ==
    ASSUME TypeInv, NEW r \in Requests, pc[r] = "flush", NEW k \in Skews
    PROVE  NextRow(r, k) \in LedgerRows
<1>1. k \in Nat
  BY CreditsAssumption DEF SkewIsNat
<1>2. tx[r] \in Sessions /\ tx[r].seen + tx[r].amount \in Nat
  BY SessionType DEF TypeInv
<1>3. QED
  BY <1>1, <1>2, KeptType DEF NextRow, Sessions, LedgerRows

LEMMA AddRowType ==
    ASSUME TypeInv, NEW r \in Requests, NEW e \in LedgerRows
    PROVE  /\ [tx[r] EXCEPT !.rows = tx[r].rows \cup {e}] \in Sessions
           /\ HasLatest([tx[r] EXCEPT !.rows = tx[r].rows \cup {e}].rows)
<1>1. tx[r] \in Sessions /\ HasLatest(tx[r].rows)
  BY SessionType
<1>2. HasLatest({e})
  BY DEF HasLatest, LedgerRows
<1>3. HasLatest(tx[r].rows \cup {e})
  BY <1>1, <1>2, UnionHasLatest DEF Sessions
<1>4. [tx[r] EXCEPT !.rows = tx[r].rows \cup {e}] \in Sessions
  BY <1>1 DEF Sessions
<1>5. [tx[r] EXCEPT !.rows = tx[r].rows \cup {e}].rows = tx[r].rows \cup {e}
  BY <1>1 DEF Sessions
<1>6. QED
  BY <1>3, <1>4, <1>5

\* Every step keeps the types.
LEMMA TypeNext == TypeInv /\ [Next]_vars => TypeInv'
<1> SUFFICES ASSUME TypeInv, [Next]_vars PROVE TypeInv'
  OBVIOUS
<1>1. CASE UNCHANGED vars
  BY <1>1 DEF vars, TypeInv, TypeOK
<1>2. ASSUME NEW r \in Requests, Start(r) PROVE TypeInv'
  <2>1. PICK j \in Workload[r] :
          /\ job' = [job EXCEPT ![r] = j]
          /\ \/ /\ j.kind = "grant"
                /\ SetSession(r, [Fresh EXCEPT !.amount = j.amount, !.reason = "manual_grant"])
                /\ Goto(r, "lock")
             \/ /\ j.kind # "grant"
                /\ SetSession(r, Fresh)
                /\ Goto(r, "subscribe")
    BY <1>2 DEF Start
  <2>2. j \in Jobs
    BY CreditsAssumption DEF WorkloadIsJobs
  <2>3. [Fresh EXCEPT !.amount = j.amount, !.reason = "manual_grant"] \in Sessions
    BY <2>2, FreshType DEF Sessions, Jobs, Reasons
  <2>4. HasLatest([Fresh EXCEPT !.amount = j.amount, !.reason = "manual_grant"].rows)
    BY DEF Fresh, HasLatest
  <2>5. PICK s \in Sessions : HasLatest(s.rows) /\ SetSession(r, s)
    BY <2>1, <2>3, <2>4, FreshType
  <2>6. PICK l \in {"lock", "subscribe"} : Goto(r, l)
    BY <2>1
  <2>7. /\ tx' \in [Requests -> Sessions]
        /\ \A q \in Requests : HasLatest(tx'[q].rows)
        /\ \A q \in Requests : q # r => tx'[q] = tx[q]
    BY <2>5, SetSessionType
  <2>8. /\ pc' \in [Requests -> Labels]
        /\ pc'[r] = l
        /\ \A q \in Requests : q # r => pc'[q] = pc[q]
    BY <2>6 DEF Goto, TypeInv, TypeOK, Labels
  <2>9. /\ job' \in [Requests -> Jobs \cup {None}]
        /\ job'[r] = j
        /\ \A q \in Requests : q # r => job'[q] = job[q]
    BY <2>1, <2>2 DEF TypeInv, TypeOK
  <2>10. TypeOK'
    BY <1>2, <2>7, <2>8, <2>9 DEF Start, store, TypeInv, TypeOK
  <2>11. QED
    BY <1>2, <2>2, <2>6, <2>7, <2>8, <2>9, <2>10 DEF Start, store, TypeInv
<1>3. ASSUME NEW r \in Requests, GetSubscription(r) PROVE TypeInv'
  <2>1. pc[r] # "idle"
    BY <1>3 DEF GetSubscription
  <2> DEFINE s == [tx[r] EXCEPT !.plan = VisibleSub(r)]
  <2>2. s \in Sessions /\ s.rows = tx[r].rows
    BY <2>1, SessionType, VisibleType DEF Sessions
  <2>3. PICK l \in Labels : l # "flush" /\ Goto(r, l)
    BY <1>3 DEF GetSubscription, Subscribed, Labels
  <2>4. SetSession(r, s) /\ UNCHANGED <<store, clock, job, result, resp>>
    BY <1>3 DEF GetSubscription
  <2> HIDE DEF s
  <2>5. QED
    BY <2>1, <2>2, <2>3, <2>4, StepType, SessionType, KeptType DEF store
<1>4. ASSUME NEW r \in Requests, InsertSubscription(r) PROVE TypeInv'
  <2>1. pc[r] # "idle"
    BY <1>4 DEF InsertSubscription
  <2> DEFINE s == [tx[r] EXCEPT !.plan = "free", !.written = "free",
                                !.amount = monthly_credits("free"),
                                !.reason = "subscription_grant"]
  <2>2. s \in Sessions /\ s.rows = tx[r].rows
    <3>1. "free" \in Plans /\ "subscription_grant" \in Reasons
      BY DEF Plans, Reasons
    <3>2. PICK n \in Int : n = monthly_credits("free")
      BY PricesAreNat
    <3>3. s = [tx[r] EXCEPT !.plan = "free", !.written = "free", !.amount = n,
                            !.reason = "subscription_grant"]
      BY <3>2
    <3> HIDE DEF s
    <3>4. QED
      BY <3>1, <3>3, SessionType DEF Sessions
  <2>3. SetSession(r, s) /\ Goto(r, "lock") /\ TakeLock(r)
    BY <1>4 DEF InsertSubscription
  <2>4. UNCHANGED <<sub, ledger, clock, job, result, resp>>
    BY <1>4 DEF InsertSubscription
  <2> HIDE DEF s
  <2>5. QED
    BY <2>1, <2>2, <2>3, <2>4, StepType, SessionType, TakeLockType, KeptType DEF Labels
<1>5. ASSUME NEW r \in Requests, InsertConflict(r) PROVE TypeInv'
  <2>1. pc[r] # "idle"
    BY <1>5 DEF InsertConflict
  <2>2. CASE Fail(r, "error")
    BY <2>1, <2>2, FailType DEF Answers
  <2> DEFINE s == [Fresh EXCEPT !.plan = sub[Company(r)]]
  <2>3. CASE Rollback(r) /\ SetSession(r, s) /\ Goto(r, "commit")
             /\ UNCHANGED <<clock, job, result, resp>>
    <3>1. s \in Sessions /\ HasLatest(s.rows)
      BY <2>1, VisibleType, KeptType, FreshType DEF Sessions, Fresh
    <3> HIDE DEF s
    <3>2. QED
      BY <2>1, <2>3, <3>1, StepType, RollbackType, KeptType DEF Labels
  <2>4. QED
    BY <1>5, <2>2, <2>3 DEF InsertConflict
<1>6. ASSUME NEW r \in Requests, LockSubscription(r) PROVE TypeInv'
  <2>1. pc[r] # "idle" /\ Goto(r, "read") /\ UNCHANGED <<sub, ledger, clock, job, tx, result, resp>>
    BY <1>6 DEF LockSubscription
  <2>2. rowLock' \in [Companies -> Requests \cup {None}]
    BY <1>6, TakeLockType, KeptType DEF LockSubscription
  <2>3. SetSession(r, tx[r])
    BY <2>1 DEF SetSession, TypeInv, TypeOK
  <2>4. QED
    BY <2>1, <2>2, <2>3, StepType, SessionType, KeptType DEF Labels
<1>7. ASSUME NEW r \in Requests, ReadBalance(r) PROVE TypeInv'
  <2>1. pc[r] # "idle" /\ Goto(r, "flush") /\ UNCHANGED <<store, clock, job, result, resp>>
    BY <1>7 DEF ReadBalance
  <2> DEFINE s == [tx[r] EXCEPT !.seen = VisibleBalance(r)]
  <2>2. SetSession(r, s) /\ VisibleBalance(r) + tx[r].amount >= 0
    BY <1>7 DEF ReadBalance
  <2>3. s \in Sessions /\ s.rows = tx[r].rows /\ s.seen + s.amount \in Nat
    BY <2>1, <2>2, SessionType, VisibleType DEF Sessions
  <2> HIDE DEF s
  <2>4. QED
    BY <2>1, <2>2, <2>3, StepType, SessionType, KeptType DEF Labels, store
<1>8. ASSUME NEW r \in Requests, InsufficientBalance(r) PROVE TypeInv'
  BY <1>8, FailType DEF InsufficientBalance, Answers
<1>9. ASSUME NEW r \in Requests, FlushRow(r) PROVE TypeInv'
  <2>1. /\ pc[r] = "flush" /\ clock' = clock + 2
        /\ UNCHANGED <<store, job, result, resp>>
    BY <1>9 DEF FlushRow
  <2>2. PICK k \in Skews :
            SetSession(r, [tx[r] EXCEPT !.rows = tx[r].rows \cup {NextRow(r, k)}])
    BY <1>9 DEF FlushRow
  <2> DEFINE s == [tx[r] EXCEPT !.rows = tx[r].rows \cup {NextRow(r, k)}]
  <2>3. s \in Sessions /\ HasLatest(s.rows) /\ SetSession(r, s)
    BY <2>1, <2>2, NextRowType, AddRowType
  <2>4. PICK l \in Labels : l # "flush" /\ Goto(r, l)
    BY <1>9 DEF FlushRow, Subscribed, Labels
  <2> HIDE DEF s
  <2>5. clock' \in Nat
    BY <2>1, KeptType
  <2>6. QED
    BY <2>1, <2>3, <2>4, <2>5, StepType, KeptType DEF store
<1>10. ASSUME NEW r \in Requests, KeepPlan(r) PROVE TypeInv'
  <2>1. /\ pc[r] # "idle" /\ Goto(r, "commit")
        /\ UNCHANGED <<store, clock, job, tx, result, resp>>
    BY <1>10 DEF KeepPlan
  <2>2. SetSession(r, tx[r])
    BY <2>1 DEF SetSession, TypeInv, TypeOK
  <2>3. QED
    BY <2>1, <2>2, StepType, SessionType, KeptType DEF Labels, store
<1>11. ASSUME NEW r \in Requests, SetPlan(r) PROVE TypeInv'
  <2> DEFINE delta == monthly_credits(job[r].target) - monthly_credits(tx[r].plan)
             s == [tx[r] EXCEPT !.plan = job[r].target, !.written = job[r].target,
                                !.amount = delta, !.reason = "plan_upgrade"]
  <2>1. /\ pc[r] # "idle" /\ TakeLock(r) /\ SetSession(r, s)
        /\ UNCHANGED <<sub, ledger, clock, job, result, resp>>
    BY <1>11 DEF SetPlan
  <2>2. PICK l \in {"lock", "cap"} : Goto(r, l)
    BY <1>11 DEF SetPlan
  <2>3. job[r].target \in Plans /\ delta \in Int
    BY <2>1, PricesAreNat DEF TypeInv, Jobs
  <2> HIDE DEF delta
  <2>4. s \in Sessions /\ s.rows = tx[r].rows
    BY <2>3, SessionType DEF Sessions, Reasons
  <2> HIDE DEF s
  <2>5. QED
    BY <2>1, <2>2, <2>4, StepType, SessionType, TakeLockType, KeptType DEF Labels
<1>12. ASSUME NEW r \in Requests, CapBalance(r) PROVE TypeInv'
  <2> DEFINE excess == VisibleBalance(r) - monthly_credits(job[r].target)
             s == [tx[r] EXCEPT !.amount = -excess,
                                !.reason = "plan_downgrade_adjustment"]
  <2>1. pc[r] # "idle" /\ UNCHANGED <<store, clock, job, result, resp>>
    BY <1>12 DEF CapBalance
  <2>2. \/ SetSession(r, s) /\ Goto(r, "lock")
        \/ UNCHANGED tx /\ Goto(r, "commit")
    BY <1>12 DEF CapBalance
  <2>3. -excess \in Int
    BY <2>1, VisibleType, PricesAreNat
  <2> HIDE DEF excess
  <2>4. s \in Sessions /\ s.rows = tx[r].rows
    BY <2>3, SessionType DEF Sessions, Reasons
  <2>5. UNCHANGED tx => SetSession(r, tx[r])
    BY DEF SetSession, TypeInv, TypeOK
  <2> HIDE DEF s
  <2>6. QED
    BY <2>1, <2>2, <2>4, <2>5, StepType, SessionType, KeptType DEF Labels, store
<1>13. ASSUME NEW r \in Requests, CheckBalance(r) PROVE TypeInv'
  <2>1. /\ pc[r] # "idle" /\ SetSession(r, Owe(r))
        /\ UNCHANGED <<store, clock, job, result, resp>>
    BY <1>13 DEF CheckBalance
  <2>2. PICK l \in {"lock", "mark", "work"} : Goto(r, l)
    BY <1>13 DEF CheckBalance
  <2>3. QED
    BY <2>1, <2>2, StepType, OweType, SessionType, KeptType DEF Labels, store
<1>14. ASSUME NEW r \in Requests, RefuseUnpaid(r) PROVE TypeInv'
  BY <1>14, FailType DEF RefuseUnpaid, Answers
<1> DEFINE Emptied(r) == [tx[r] EXCEPT !.written = None, !.rows = {}]
<1>15. ASSUME NEW r \in Requests, pc[r] # "idle", Publish(r), NEW l \in Labels \ {"flush"},
              Goto(r, l), UNCHANGED <<clock, job>>,
              result' \in [Requests -> {"none", "draft", "stored"}],
              resp' \in [Requests -> Answers]
       PROVE  TypeInv'
  <2>1. Emptied(r) \in Sessions /\ HasLatest(Emptied(r).rows)
    BY <1>15, PublishType
  <2>2. SetSession(r, Emptied(r))
    BY <1>15 DEF Publish
  <2> HIDE DEF Emptied
  <2>3. QED
    BY <1>15, <2>1, <2>2, StepType, PublishType, KeptType
<1>16. ASSUME NEW r \in Requests, MarkExtracting(r) PROVE TypeInv'
  BY <1>15, <1>16, KeptType DEF MarkExtracting, Labels
<1>17. ASSUME NEW r \in Requests, DraftResult(r) PROVE TypeInv'
  <2>1. /\ pc[r] # "idle" /\ Goto(r, "lock") /\ UNCHANGED <<store, clock, job, tx, resp>>
        /\ result' \in [Requests -> {"none", "draft", "stored"}]
    BY <1>17, KeptType DEF DraftResult
  <2>2. SetSession(r, tx[r])
    BY <2>1 DEF SetSession, TypeInv, TypeOK
  <2>3. QED
    BY <2>1, <2>2, StepType, SessionType, KeptType DEF Labels, store
<1>18. ASSUME NEW r \in Requests, StoreResult(r) PROVE TypeInv'
  BY <1>15, <1>18, KeptType DEF StoreResult, Labels
<1>19. ASSUME NEW r \in Requests, WorkFails(r) PROVE TypeInv'
  BY <1>19, FailType DEF WorkFails, Answers
<1>20. ASSUME NEW r \in Requests, Commit(r) PROVE TypeInv'
  <2>1. /\ result' \in [Requests -> {"none", "draft", "stored"}]
        /\ resp' \in [Requests -> Answers]
    BY <1>20, KeptType DEF Commit, Answers
  <2>2. QED
    BY <1>15, <1>20, <2>1 DEF Commit, Labels
<1>21. ASSUME NEW r \in Requests, CommitCharge(r) PROVE TypeInv'
  BY <1>15, <1>21, KeptType DEF CommitCharge, Labels
<1>22. ASSUME NEW r \in Requests, Render(r) PROVE TypeInv'
  <2>1. /\ pc[r] # "idle" /\ Goto(r, "done") /\ UNCHANGED <<store, clock, job, tx>>
        /\ result' \in [Requests -> {"none", "draft", "stored"}]
        /\ resp' \in [Requests -> Answers]
    BY <1>22, KeptType DEF Render, Answers
  <2>2. SetSession(r, tx[r])
    BY <2>1 DEF SetSession, TypeInv, TypeOK
  <2>3. QED
    BY <2>1, <2>2, StepType, SessionType, KeptType DEF Labels, store
<1>23. ASSUME NEW r \in Requests, Crash(r) PROVE TypeInv'
  BY <1>23, FailType DEF Crash, Answers
<1>24. QED
  BY <1>1, <1>2, <1>3, <1>4, <1>5, <1>6, <1>7, <1>8, <1>9, <1>10, <1>11, <1>12, <1>13,
     <1>14, <1>16, <1>17, <1>18, <1>19, <1>20, <1>21, <1>22, <1>23
     DEF Next, Step, Quiet

\* Type correctness: every reachable state has the types of TypeOK; no
\* ledger row with a negative balance is ever written, so the CHECK of table
\* credit_ledger never fires.
THEOREM TypeCorrect == Spec => []TypeOK
<1>1. TypeInv => TypeOK
  BY DEF TypeInv
<1>2. QED
  BY <1>1, TypeInit, TypeNext, PTL DEF Spec

(***************************************************************************)
(* The ledger stays chained.                                               *)
(*                                                                         *)
(* The lock serialises all credit movements as long as there is a row to   *)
(* lock and one clock stamps all rows.  These are the two assumptions;     *)
(* runs of the model checker show that neither can be dropped.             *)
(***************************************************************************)

\* An admin grants credits only to companies that have a subscription.
GrantsAreProvisioned ==
    \A r \in Requests : \A j \in Workload[r] :
        j.kind = "grant" => j.company \notin Unprovisioned
OneClock == Skews = {0}

\* A chained set of rows, all of them older than the next one.
WellFormed(rows) == Chained(rows) /\ \A e \in rows : e.at < clock

\* Request r, once begun, holds the lock while it has anything uncommitted
\* or is between reading the balance and writing the row that follows it; it
\* sees a chained ledger; and the balance it read is still the latest.
SessionInv(r) ==
    pc[r] # "idle" =>
        /\ pc[r] \notin {"subscribe", "insert", "done"} => VisibleSub(r) # None
        /\ tx[r].rows # {} \/ tx[r].written # None \/ pc[r] \in {"read", "flush"}
               => rowLock[Company(r)] = r
        /\ WellFormed(VisibleRows(r))
        /\ pc[r] = "flush" => tx[r].seen = VisibleBalance(r)

ChainInv ==
    /\ \A c \in Companies : c \notin Unprovisioned => sub[c] # None
    /\ \A c \in Companies : WellFormed(ledger[c])
    /\ \A r \in Requests : SessionInv(r)

\* A row that continues from the latest balance, and is newer than all
\* others, extends the chain.
LEMMA AppendRow ==
    ASSUME NEW S \in SUBSET LedgerRows, NEW e \in LedgerRows, Chained(S),
           \A f \in S : f.at < e.at,
           e.balance_after = get_credit_balance(S) + e.amount
    PROVE  Chained(S \cup {e})
<1>1. Before(S \cup {e}, e) = S
  BY DEF Before, LedgerRows
<1>2. \A f \in S : Before(S \cup {e}, f) = Before(S, f)
  BY DEF Before, LedgerRows
<1>3. \A f \in S : /\ f.balance_after = get_credit_balance(Before(S \cup {e}, f)) + f.amount
                   /\ f.balance_after >= 0
  BY <1>2 DEF Chained
<1>4. /\ e.balance_after = get_credit_balance(Before(S \cup {e}, e)) + e.amount
      /\ e.balance_after >= 0
  BY <1>1 DEF LedgerRows
<1>5. QED
  BY <1>3, <1>4 DEF Chained

\* The chain is intact in the initial state.
LEMMA ChainInit == Init => ChainInv
<1> SUFFICES ASSUME Init PROVE ChainInv
  OBVIOUS
<1> USE CreditsAssumption DEF NoneIsNeutral
<1>1. \A c \in Companies : c \notin Unprovisioned => sub[c] # None
  BY DEF Init, Plans
<1>2. \A b \in OpeningBalances : WellFormed({OpeningRow(b)})
  <2> SUFFICES ASSUME NEW b \in OpeningBalances PROVE WellFormed({OpeningRow(b)})
    OBVIOUS
  <2>1. b \in Nat
    BY DEF OpeningIsPositive
  <2>2. clock = 1
    BY DEF Init
  <2> DEFINE e == OpeningRow(b)
  <2>3. e.at = 0 /\ e.amount = b /\ e.balance_after = b
    BY DEF OpeningRow
  <2> HIDE DEF e
  <2>4. Before({e}, e) = {}
    BY <2>3 DEF Before
  <2>5. get_credit_balance(Before({e}, e)) = 0
    BY <2>4 DEF get_credit_balance
  <2>6. WellFormed({e})
    BY <2>1, <2>2, <2>3, <2>5 DEF WellFormed, Chained
  <2>7. QED
    BY <2>6 DEF e
<1>3. WellFormed({})
  BY DEF WellFormed, Chained
<1>4. \A c \in Companies : WellFormed(ledger[c])
  <2> SUFFICES ASSUME NEW c \in Companies PROVE WellFormed(ledger[c])
    OBVIOUS
  <2>1. ledger[c] \in {{}} \cup {{OpeningRow(b)} : b \in OpeningBalances}
    BY DEF Init
  <2>2. QED
    BY <1>2, <1>3, <2>1
<1>5. QED
  BY <1>1, <1>4 DEF ChainInv, SessionInv, Init

\* Nobody but r moves, and nobody but r loses a lock.
OnlyMoves(r) ==
    /\ \A q \in Requests \ {r} : pc'[q] = pc[q] /\ tx'[q] = tx[q] /\ job'[q] = job[q]
    /\ \A c \in Companies : \A q \in Requests \ {r} : rowLock[c] = q => rowLock'[c] = q

LEMMA OnlyOneMoves ==
    ASSUME TypeInv, NEW r \in Requests, Start(r) \/ Step(r) \/ Crash(r)
    PROVE  OnlyMoves(r)
<1> USE CreditsAssumption DEF NoneIsNeutral
<1>1. pc \in [Requests -> Labels] /\ tx \in [Requests -> Sessions] /\ DOMAIN job = Requests
      /\ rowLock \in [Companies -> Requests \cup {None}]
  BY DEF TypeInv, TypeOK
<1> DEFINE QuietPc == \A q \in Requests \ {r} : pc'[q] = pc[q]
           QuietTx == \A q \in Requests \ {r} : tx'[q] = tx[q]
           KeptLocks == \A c \in Companies : \A q \in Requests \ {r} :
                            rowLock[c] = q => rowLock'[c] = q
<1>2. ASSUME NEW l, Goto(r, l) PROVE QuietPc
  BY <1>1, <1>2 DEF Goto
<1>3. ASSUME NEW s, SetSession(r, s) PROVE QuietTx
  BY <1>1, <1>3 DEF SetSession
<1>4. TakeLock(r) => KeptLocks
  BY <1>1 DEF TakeLock
<1>5. rowLock' = Released(r) => KeptLocks
  BY <1>1 DEF Released
<1>6. ASSUME NEW a, Fail(r, a) PROVE QuietPc /\ QuietTx /\ KeptLocks /\ job' = job
  BY <1>2, <1>3, <1>5, <1>6 DEF Fail, Rollback
<1>7. Publish(r) => QuietTx /\ KeptLocks
  BY <1>3, <1>5 DEF Publish
<1> HIDE DEF QuietPc, QuietTx, KeptLocks
<1>8. UNCHANGED tx => QuietTx
  BY DEF QuietTx
<1>9. UNCHANGED rowLock => KeptLocks
  BY DEF KeptLocks
<1>10. CASE Start(r)
  <2>1. QuietPc /\ QuietTx /\ KeptLocks
    BY <1>2, <1>3, <1>9, <1>10 DEF Start, store
  <2>2. \A q \in Requests \ {r} : job'[q] = job[q]
    BY <1>1, <1>10 DEF Start
  <2>3. QED
    BY <2>1, <2>2 DEF OnlyMoves, QuietPc, QuietTx, KeptLocks
<1>11. CASE Step(r) \/ Crash(r)
  <2>1. GetSubscription(r) => QuietPc /\ QuietTx /\ KeptLocks /\ job' = job
    BY <1>2, <1>3, <1>9 DEF GetSubscription, store
  <2>2. InsertSubscription(r) => QuietPc /\ QuietTx /\ KeptLocks /\ job' = job
    BY <1>2, <1>3, <1>4 DEF InsertSubscription
  <2>3. InsertConflict(r) => QuietPc /\ QuietTx /\ KeptLocks /\ job' = job
    BY <1>2, <1>3, <1>5, <1>6 DEF InsertConflict, Rollback
  <2>4. LockSubscription(r) => QuietPc /\ QuietTx /\ KeptLocks /\ job' = job
    BY <1>2, <1>4, <1>8, <1>9 DEF LockSubscription
  <2>5. ReadBalance(r) => QuietPc /\ QuietTx /\ KeptLocks /\ job' = job
    BY <1>2, <1>3, <1>9 DEF ReadBalance, store
  <2>6. InsufficientBalance(r) => QuietPc /\ QuietTx /\ KeptLocks /\ job' = job
    BY <1>6 DEF InsufficientBalance
  <2>7. FlushRow(r) => QuietPc /\ QuietTx /\ KeptLocks /\ job' = job
    BY <1>2, <1>3, <1>9 DEF FlushRow, store
  <2>8. KeepPlan(r) => QuietPc /\ QuietTx /\ KeptLocks /\ job' = job
    BY <1>2, <1>8, <1>9 DEF KeepPlan, store
  <2>9. SetPlan(r) => QuietPc /\ QuietTx /\ KeptLocks /\ job' = job
    BY <1>2, <1>3, <1>4 DEF SetPlan
  <2>10. CapBalance(r) => QuietPc /\ QuietTx /\ KeptLocks /\ job' = job
    BY <1>2, <1>3, <1>8, <1>9 DEF CapBalance, store
  <2>11. CheckBalance(r) => QuietPc /\ QuietTx /\ KeptLocks /\ job' = job
    BY <1>2, <1>3, <1>9 DEF CheckBalance, store
  <2>12. RefuseUnpaid(r) \/ WorkFails(r) \/ Crash(r)
             => QuietPc /\ QuietTx /\ KeptLocks /\ job' = job
    BY <1>6 DEF RefuseUnpaid, WorkFails, Crash
  <2>13. MarkExtracting(r) \/ StoreResult(r) \/ Commit(r) \/ CommitCharge(r)
             => QuietPc /\ QuietTx /\ KeptLocks /\ job' = job
    BY <1>2, <1>7 DEF MarkExtracting, StoreResult, Commit, CommitCharge
  <2>14. DraftResult(r) \/ Render(r) => QuietPc /\ QuietTx /\ KeptLocks /\ job' = job
    BY <1>2, <1>8, <1>9 DEF DraftResult, Render, store
  <2>15. QuietPc /\ QuietTx /\ KeptLocks /\ job' = job
    BY <1>11, <2>1, <2>2, <2>3, <2>4, <2>5, <2>6, <2>7, <2>8, <2>9, <2>10, <2>11, <2>12,
       <2>13, <2>14 DEF Step
  <2>16. QED
    BY <2>15 DEF OnlyMoves, QuietPc, QuietTx, KeptLocks
<1>12. QED
  BY <1>10, <1>11

\* A step of r that writes nothing to the tables keeps the chain when it
\* keeps what is said of r itself.
LEMMA ChainKept ==
    ASSUME TypeInv, TypeInv', ChainInv, NEW r \in Requests, OnlyMoves(r),
           sub' = sub, ledger' = ledger, clock' \in {clock, clock + 2}, SessionInv(r)'
    PROVE  ChainInv'
<1>1. clock \in Nat /\ \A e \in LedgerRows : e.at \in Int
  BY KeptType DEF LedgerRows
<1>2. ASSUME NEW S \in SUBSET LedgerRows, WellFormed(S) PROVE WellFormed(S)'
  BY <1>1, <1>2 DEF WellFormed
<1>3. \A c \in Companies : WellFormed(ledger[c])'
  BY <1>2, KeptType DEF ChainInv
<1>4. ASSUME NEW q \in Requests, q # r, pc[q] # "idle" PROVE SessionInv(q)'
  <2>1. pc'[q] = pc[q] /\ tx'[q] = tx[q] /\ job'[q] = job[q]
    BY <1>4 DEF OnlyMoves
  <2>2. Company(q)' = Company(q) /\ VisibleRows(q)' = VisibleRows(q)
        /\ VisibleSub(q)' = VisibleSub(q) /\ VisibleBalance(q)' = VisibleBalance(q)
    BY <2>1 DEF Company, VisibleRows, VisibleSub, VisibleBalance
  <2>3. Company(q) \in Companies /\ VisibleRows(q) \in SUBSET LedgerRows
    BY <1>4, VisibleType
  <2>4. SessionInv(q)
    BY DEF ChainInv
  <2>5. rowLock[Company(q)] = q => rowLock'[Company(q)] = q
    BY <1>4, <2>3 DEF OnlyMoves
  <2>6. WellFormed(VisibleRows(q))'
    BY <1>2, <1>4, <2>2, <2>3, <2>4 DEF SessionInv
  <2>7. QED
    BY <1>4, <2>1, <2>2, <2>4, <2>5, <2>6 DEF SessionInv
<1>5. ASSUME NEW q \in Requests PROVE SessionInv(q)'
  <2>1. CASE q # r /\ pc[q] = "idle"
    BY <2>1 DEF OnlyMoves, SessionInv
  <2>2. QED
    BY <1>4, <2>1
<1>6. QED
  BY <1>3, <1>5 DEF ChainInv

\* A request whose session has ended with a rollback says nothing new.
LEMMA ChainFail ==
    ASSUME TypeInv, TypeInv', ChainInv, NEW r \in Requests, OnlyMoves(r), NEW a, Fail(r, a),
           pc[r] # "idle"
    PROVE  ChainInv'
<1>1. pc'[r] = "done" /\ tx'[r] = Fresh /\ job' = job /\ sub' = sub /\ ledger' = ledger
      /\ clock' = clock
  BY DEF Fail, Goto, SetSession, Rollback, TypeInv, TypeOK
<1>2. Fresh.rows = {} /\ Fresh.written = None
  BY DEF Fresh
<1>3. Company(r)' = Company(r) /\ VisibleRows(r)' = ledger[Company(r)]
  BY <1>1, <1>2 DEF Company, VisibleRows
<1>4. WellFormed(VisibleRows(r))'
  BY <1>1, <1>3, VisibleType DEF ChainInv, WellFormed
<1>5. SessionInv(r)'
  BY <1>1, <1>2, <1>4 DEF SessionInv
<1>6. QED
  BY <1>1, <1>5, ChainKept

\* A commit moves the chain that r sees to the table.  Whoever else has
\* something uncommitted for the company would hold the lock in its place.
LEMMA ChainPublish ==
    ASSUME TypeInv, TypeInv', ChainInv, NEW r \in Requests, OnlyMoves(r), Publish(r),
           UNCHANGED <<clock, job>>, pc[r] \notin {"idle", "subscribe", "insert", "done"},
           pc'[r] \notin {"read", "flush", "idle"}
    PROVE  ChainInv'
<1> USE CreditsAssumption DEF NoneIsNeutral
<1> DEFINE d == Company(r)
<1>1. /\ d \in Companies /\ VisibleRows(r) \in SUBSET LedgerRows
      /\ SessionInv(r) /\ VisibleSub(r) # None /\ WellFormed(VisibleRows(r))
  BY VisibleType DEF ChainInv, SessionInv
<1>2. /\ sub' = [sub EXCEPT ![d] = VisibleSub(r)]
      /\ ledger' = [ledger EXCEPT ![d] = VisibleRows(r)]
      /\ tx'[r].rows = {} /\ tx'[r].written = None
  BY DEF Publish, SetSession, TypeInv, TypeOK, Sessions
<1>3. /\ sub'[d] = VisibleSub(r) /\ ledger'[d] = VisibleRows(r)
      /\ \A c \in Companies : c # d => sub'[c] = sub[c] /\ ledger'[c] = ledger[c]
  BY <1>1, <1>2, KeptType
<1>4. \A c \in Companies : c \notin Unprovisioned => sub'[c] # None
  BY <1>1, <1>3 DEF ChainInv
<1>5. \A c \in Companies : WellFormed(ledger[c])'
  BY <1>1, <1>3 DEF ChainInv, WellFormed
<1>6. SessionInv(r)'
  <2>1. Company(r)' = d /\ VisibleRows(r)' = ledger'[d] /\ VisibleSub(r)' = sub'[d]
    BY <1>2 DEF Company, VisibleRows, VisibleSub
  <2>2. QED
    BY <1>1, <1>2, <1>3, <1>5, <2>1 DEF SessionInv
<1>7. ASSUME NEW q \in Requests, q # r, pc[q] # "idle" PROVE SessionInv(q)'
  <2>1. pc'[q] = pc[q] /\ tx'[q] = tx[q] /\ job'[q] = job[q]
    BY <1>7 DEF OnlyMoves
  <2>2. Company(q)' = Company(q) /\ Company(q) \in Companies /\ tx[q] \in Sessions
    BY <1>7, <2>1, VisibleType, SessionType DEF Company
  <2>3. SessionInv(q)
    BY DEF ChainInv
  <2>4. rowLock[Company(q)] = q => rowLock'[Company(q)] = q
    BY <1>7, <2>2 DEF OnlyMoves
  <2>5. VisibleSub(q) # None => VisibleSub(q)' # None
    BY <1>1, <1>3, <2>1, <2>2 DEF VisibleSub
  <2>6. CASE Company(q) # d \/ ledger'[d] = ledger[d]
    <3>1. ledger'[Company(q)] = ledger[Company(q)]
      BY <1>3, <2>2, <2>6
    <3>2. VisibleRows(q)' = VisibleRows(q) /\ VisibleBalance(q)' = VisibleBalance(q)
      BY <2>1, <2>2, <3>1 DEF VisibleRows, VisibleBalance
    <3>3. QED
      BY <1>7, <2>1, <2>2, <2>3, <2>4, <2>5, <3>2 DEF SessionInv, WellFormed
  <2>7. CASE Company(q) = d /\ ledger'[d] # ledger[d]
    <3>1. tx[r].rows # {}
      BY <1>3, <2>7 DEF VisibleRows
    <3>2. rowLock[d] = r
      BY <1>1, <3>1 DEF SessionInv
    <3>3. tx[q].rows = {} /\ pc[q] # "flush" /\ pc[q] # "read" /\ tx[q].written = None
      BY <1>7, <2>3, <2>7, <3>2 DEF SessionInv
    <3>4. VisibleRows(q)' = ledger'[d]
      BY <2>1, <2>2, <2>7, <3>3 DEF VisibleRows
    <3>5. WellFormed(VisibleRows(q))'
      BY <1>1, <1>5, <3>4 DEF WellFormed
    <3>6. QED
      BY <1>7, <2>1, <2>3, <2>5, <3>3, <3>5 DEF SessionInv
  <2>8. QED
    BY <2>6, <2>7
<1>8. ASSUME NEW q \in Requests PROVE SessionInv(q)'
  <2>1. CASE q # r /\ pc[q] = "idle"
    BY <2>1 DEF OnlyMoves, SessionInv
  <2>2. QED
    BY <1>6, <1>7, <2>1
<1>9. QED
  BY <1>4, <1>5, <1>8 DEF ChainInv

\* Every step keeps the chain.
LEMMA ChainNext ==
    ASSUME GrantsAreProvisioned, OneClock, TypeInv, TypeInv', ChainInv, [Next]_vars
    PROVE  ChainInv'
<1> USE CreditsAssumption DEF NoneIsNeutral
<1>1. CASE UNCHANGED vars
  BY <1>1 DEF vars, ChainInv, SessionInv, WellFormed, Company, VisibleRows, VisibleSub,
              VisibleBalance
<1>2. ASSUME NEW r \in Requests, Start(r) PROVE ChainInv'
  <2>1. OnlyMoves(r)
    BY <1>2, OnlyOneMoves
  <2>2. PICK j \in Workload[r] :
          /\ job' = [job EXCEPT ![r] = j]
          /\ \/ /\ j.kind = "grant"
                /\ SetSession(r, [Fresh EXCEPT !.amount = j.amount, !.reason = "manual_grant"])
                /\ Goto(r, "lock")
             \/ /\ j.kind # "grant"
                /\ SetSession(r, Fresh)
                /\ Goto(r, "subscribe")
    BY <1>2 DEF Start
  <2>3. j \in Jobs /\ Company(r)' = j.company /\ j.company \in Companies
    BY <2>2 DEF WorkloadIsJobs, Company, TypeInv, TypeOK, Jobs
  <2>4. tx'[r].rows = {} /\ tx'[r].written = None
    <3>1. CASE SetSession(r, Fresh)
      BY <3>1 DEF SetSession, Fresh, TypeInv, TypeOK
    <3>2. CASE SetSession(r, [Fresh EXCEPT !.amount = j.amount, !.reason = "manual_grant"])
      BY <3>2 DEF SetSession, Fresh, TypeInv, TypeOK
    <3>3. QED
      BY <2>2, <3>1, <3>2
  <2>5. pc'[r] = IF j.kind = "grant" THEN "lock" ELSE "subscribe"
    BY <2>2 DEF Goto, TypeInv, TypeOK
  <2>6. sub' = sub /\ ledger' = ledger /\ clock' = clock
    BY <1>2 DEF Start, store
  <2>7. VisibleRows(r)' = ledger[j.company] /\ VisibleSub(r)' = sub[j.company]
    BY <2>3, <2>4, <2>6 DEF VisibleRows, VisibleSub
  <2>8. j.kind = "grant" => sub[j.company] # None
    BY <2>3 DEF GrantsAreProvisioned, ChainInv
  <2>9. SessionInv(r)'
    BY <2>3, <2>4, <2>5, <2>6, <2>7, <2>8 DEF SessionInv, ChainInv, WellFormed
  <2>10. QED
    BY <2>1, <2>6, <2>9, ChainKept
<1>3. ASSUME NEW r \in Requests, pc[r] # "idle", OnlyMoves(r), job' = job, sub' = sub,
             ledger' = ledger, clock' = clock, tx'[r].rows = tx[r].rows,
             \/ pc'[r] \in {"subscribe", "insert"}
             \/ VisibleSub(r)' # None,
             \/ rowLock'[Company(r)] = r
             \/ /\ rowLock'[Company(r)] = rowLock[Company(r)]
                /\ tx'[r].written = tx[r].written
                /\ pc'[r] \in {"read", "flush"} => pc[r] = "read",
             pc'[r] = "flush" => tx'[r].seen = VisibleBalance(r)
      PROVE  ChainInv'
  <2>1. SessionInv(r)
    BY DEF ChainInv
  <2>2. /\ Company(r)' = Company(r) /\ VisibleRows(r)' = VisibleRows(r)
        /\ VisibleBalance(r)' = VisibleBalance(r)
    BY <1>3 DEF Company, VisibleRows, VisibleBalance
  <2>3. WellFormed(VisibleRows(r))'
    BY <1>3, <2>1, <2>2 DEF SessionInv, WellFormed
  <2>4. SessionInv(r)'
    BY <1>3, <2>1, <2>2, <2>3 DEF SessionInv
  <2>5. QED
    BY <1>3, <2>4, ChainKept
<1>4. ASSUME NEW r \in Requests, Step(r) \/ Crash(r)
      PROVE  OnlyMoves(r) /\ SessionInv(r) /\ tx[r] \in Sessions
  BY <1>4, OnlyOneMoves, SessionType DEF ChainInv
<1>5. ASSUME NEW r \in Requests, GetSubscription(r) PROVE ChainInv'
  <2>1. /\ pc[r] # "idle" /\ OnlyMoves(r) /\ tx[r] \in Sessions
        /\ UNCHANGED <<store, clock, job, result, resp>>
    BY <1>4, <1>5 DEF GetSubscription, Step
  <2>2. tx'[r] = [tx[r] EXCEPT !.plan = VisibleSub(r)]
    BY <1>5 DEF GetSubscription, SetSession, TypeInv, TypeOK
  <2>3. tx'[r].rows = tx[r].rows /\ tx'[r].written = tx[r].written
    BY <2>1, <2>2 DEF Sessions
  <2>4. VisibleSub(r)' = VisibleSub(r)
    BY <2>1, <2>3 DEF VisibleSub, Company, store
  <2>5. pc'[r] = IF VisibleSub(r) = None THEN "insert" ELSE Subscribed(r)
    BY <1>5 DEF GetSubscription, Goto, TypeInv, TypeOK
  <2>6. Subscribed(r) \in {"plan", "check", "commit"}
    BY DEF Subscribed
  <2>7. QED
    BY <1>3, <2>1, <2>3, <2>4, <2>5, <2>6 DEF store
<1>6. ASSUME NEW r \in Requests, InsertSubscription(r) PROVE ChainInv'
  <2>1. /\ pc[r] # "idle" /\ OnlyMoves(r) /\ tx[r] \in Sessions /\ TakeLock(r)
        /\ UNCHANGED <<sub, ledger, clock, job, result, resp>>
    BY <1>4, <1>6 DEF InsertSubscription, Step
  <2>2. tx'[r] = [tx[r] EXCEPT !.plan = "free", !.written = "free",
                               !.amount = monthly_credits("free"),
                               !.reason = "subscription_grant"]
    BY <1>6 DEF InsertSubscription, SetSession, TypeInv, TypeOK
  <2>3. tx'[r].rows = tx[r].rows /\ tx'[r].written = "free"
    BY <2>1, <2>2 DEF Sessions
  <2>4. VisibleSub(r)' # None
    BY <2>3 DEF VisibleSub, Plans
  <2>5. rowLock'[Company(r)] = r
    BY <2>1, VisibleType DEF TakeLock, TypeInv, TypeOK
  <2>6. pc'[r] = "lock"
    BY <1>6 DEF InsertSubscription, Goto, TypeInv, TypeOK
  <2>7. QED
    BY <1>3, <2>1, <2>3, <2>4, <2>5, <2>6
<1>7. ASSUME NEW r \in Requests, InsertConflict(r) PROVE ChainInv'
  <2>1. pc[r] # "idle" /\ OnlyMoves(r) /\ sub[Company(r)] # None
    BY <1>4, <1>7 DEF InsertConflict, Step
  <2>2. CASE Fail(r, "error")
    BY <2>1, <2>2, ChainFail
  <2>3. CASE /\ Rollback(r) /\ SetSession(r, [Fresh EXCEPT !.plan = sub[Company(r)]])
             /\ Goto(r, "commit") /\ UNCHANGED <<clock, job, result, resp>>
    <3>1. /\ tx'[r].rows = {} /\ tx'[r].written = None /\ pc'[r] = "commit"
          /\ sub' = sub /\ ledger' = ledger
      BY <2>3 DEF SetSession, Goto, Rollback, Fresh, TypeInv, TypeOK
    <3>2. Company(r)' = Company(r) /\ Company(r) \in Companies
      BY <2>1, <2>3, VisibleType DEF Company
    <3>3. VisibleRows(r)' = ledger[Company(r)] /\ VisibleSub(r)' = sub[Company(r)]
      BY <3>1, <3>2 DEF VisibleRows, VisibleSub
    <3>4. WellFormed(VisibleRows(r))'
      BY <2>3, <3>2, <3>3 DEF ChainInv, WellFormed
    <3>5. SessionInv(r)'
      BY <2>1, <3>1, <3>3, <3>4 DEF SessionInv
    <3>6. QED
      BY <2>1, <2>3, <3>1, <3>5, ChainKept
  <2>4. QED
    BY <1>7, <2>2, <2>3 DEF InsertConflict
<1>8. ASSUME NEW r \in Requests, LockSubscription(r) PROVE ChainInv'
  <2>1. /\ pc[r] = "lock" /\ OnlyMoves(r) /\ SessionInv(r)
        /\ UNCHANGED <<sub, ledger, clock, job, tx, result, resp>>
    BY <1>4, <1>8 DEF LockSubscription, Step
  <2>2. TakeLock(r) /\ VisibleSub(r) # None
    BY <1>8, <2>1 DEF LockSubscription, SessionInv
  <2>3. rowLock'[Company(r)] = r
    BY <2>1, <2>2, VisibleType DEF TakeLock, TypeInv, TypeOK
  <2>4. pc'[r] = "read" /\ VisibleSub(r)' = VisibleSub(r)
    BY <1>8, <2>1 DEF LockSubscription, Goto, TypeInv, TypeOK, VisibleSub, Company
  <2>5. QED
    BY <1>3, <2>1, <2>2, <2>3, <2>4
<1>9. ASSUME NEW r \in Requests, ReadBalance(r) PROVE ChainInv'
  <2>1. /\ pc[r] = "read" /\ OnlyMoves(r) /\ SessionInv(r) /\ tx[r] \in Sessions
        /\ UNCHANGED <<store, clock, job, result, resp>>
    BY <1>4, <1>9 DEF ReadBalance, Step
  <2>2. tx'[r] = [tx[r] EXCEPT !.seen = VisibleBalance(r)]
    BY <1>9 DEF ReadBalance, SetSession, TypeInv, TypeOK
  <2>3. /\ tx'[r].rows = tx[r].rows /\ tx'[r].written = tx[r].written
        /\ tx'[r].seen = VisibleBalance(r)
    BY <2>1, <2>2 DEF Sessions
  <2>4. VisibleSub(r)' = VisibleSub(r) /\ VisibleSub(r) # None
    BY <2>1, <2>3 DEF VisibleSub, Company, store, SessionInv
  <2>5. QED
    BY <1>3, <2>1, <2>3, <2>4 DEF store
<1>10. ASSUME NEW r \in Requests, FlushRow(r) PROVE ChainInv'
  <2>1. /\ pc[r] = "flush" /\ OnlyMoves(r) /\ SessionInv(r) /\ tx[r] \in Sessions
        /\ clock' = clock + 2 /\ UNCHANGED <<store, job, result, resp>>
    BY <1>4, <1>10 DEF FlushRow, Step
  <2> DEFINE e == NextRow(r, 0)
  <2>2. tx'[r] = [tx[r] EXCEPT !.rows = tx[r].rows \cup {e}]
    BY <1>10 DEF FlushRow, OneClock, SetSession, TypeInv, TypeOK
  <2>3. e \in LedgerRows
    BY <2>1, NextRowType DEF OneClock
  <2>4. /\ e.at = clock /\ e.amount = tx[r].amount
        /\ e.balance_after = VisibleBalance(r) + tx[r].amount
    BY <2>1, KeptType DEF NextRow, SessionInv
  <2> HIDE DEF e
  <2>5. tx'[r].rows = tx[r].rows \cup {e} /\ tx'[r].written = tx[r].written
    BY <2>1, <2>2 DEF Sessions
  <2>6. /\ Company(r)' = Company(r) /\ VisibleSub(r)' = VisibleSub(r)
        /\ VisibleRows(r)' = VisibleRows(r) \cup {e}
    BY <2>1, <2>5 DEF Company, VisibleSub, VisibleRows, store
  <2>7. VisibleRows(r) \in SUBSET LedgerRows /\ WellFormed(VisibleRows(r)) /\ VisibleSub(r) # None
    BY <2>1, VisibleType DEF SessionInv
  <2>8. Chained(VisibleRows(r) \cup {e})
    BY <2>3, <2>4, <2>7, AppendRow DEF WellFormed, VisibleBalance
  <2>9. \A f \in VisibleRows(r) \cup {e} : f.at < clock + 2
    BY <2>3, <2>4, <2>7, KeptType DEF WellFormed, LedgerRows
  <2>10. WellFormed(VisibleRows(r))'
    BY <2>1, <2>6, <2>8, <2>9 DEF WellFormed
  <2>11. pc'[r] \notin {"idle", "read", "flush"}
    BY <1>10 DEF FlushRow, Subscribed, Goto, TypeInv, TypeOK
  <2>12. rowLock'[Company(r)'] = r
    BY <2>1, <2>6 DEF SessionInv, store
  <2>13. SessionInv(r)'
    BY <2>6, <2>7, <2>10, <2>11, <2>12 DEF SessionInv
  <2>14. QED
    BY <2>1, <2>13, ChainKept DEF store
<1>11. ASSUME NEW r \in Requests, SetPlan(r) PROVE ChainInv'
  <2>1. /\ pc[r] # "idle" /\ OnlyMoves(r) /\ tx[r] \in Sessions /\ TakeLock(r)
        /\ UNCHANGED <<sub, ledger, clock, job, result, resp>>
    BY <1>4, <1>11 DEF SetPlan, Step
  <2>2. PICK n : tx'[r] = [tx[r] EXCEPT !.plan = job[r].target, !.written = job[r].target,
                                        !.amount = n, !.reason = "plan_upgrade"]
    BY <1>11 DEF SetPlan, SetSession, TypeInv, TypeOK
  <2>3. tx'[r].rows = tx[r].rows /\ tx'[r].written = job[r].target
    BY <2>1, <2>2 DEF Sessions
  <2>4. VisibleSub(r)' # None
    BY <2>1, <2>3 DEF VisibleSub, TypeInv, Jobs
  <2>5. rowLock'[Company(r)] = r
    BY <2>1, VisibleType DEF TakeLock, TypeInv, TypeOK
  <2>6. pc'[r] \in {"lock", "cap"}
    BY <1>11 DEF SetPlan, Goto, TypeInv, TypeOK
  <2>7. QED
    BY <1>3, <2>1, <2>3, <2>4, <2>5, <2>6
<1>12. ASSUME NEW r \in Requests, KeepPlan(r) \/ DraftResult(r) \/ Render(r) PROVE ChainInv'
  <2>1. /\ pc[r] \in {"plan", "work", "render"} /\ OnlyMoves(r) /\ SessionInv(r)
        /\ UNCHANGED <<store, clock, job, tx>> /\ pc'[r] \in {"commit", "lock", "done"}
    BY <1>4, <1>12 DEF KeepPlan, DraftResult, Render, Step, Goto, TypeInv, TypeOK
  <2>2. VisibleSub(r)' = VisibleSub(r) /\ VisibleSub(r) # None
    BY <2>1 DEF VisibleSub, Company, store, SessionInv
  <2>3. QED
    BY <1>3, <2>1, <2>2 DEF store
<1>13. ASSUME NEW r \in Requests, CapBalance(r) \/ CheckBalance(r) PROVE ChainInv'
  <2>1. /\ pc[r] \in {"cap", "check"} /\ OnlyMoves(r) /\ SessionInv(r) /\ tx[r] \in Sessions
        /\ UNCHANGED <<store, clock, job>> /\ pc'[r] \in {"commit", "lock", "mark", "work"}
    BY <1>4, <1>13 DEF CapBalance, CheckBalance, Step, Goto, TypeInv, TypeOK
  <2>2. ASSUME CapBalance(r)
        PROVE  tx'[r].rows = tx[r].rows /\ tx'[r].written = tx[r].written
    <3>1. tx' = tx \/ \E n : tx'[r] = [tx[r] EXCEPT !.amount = n,
                                                    !.reason = "plan_downgrade_adjustment"]
      BY <2>2, ZenonT(60) DEF CapBalance, SetSession, TypeInv, TypeOK
    <3>2. QED
      BY <2>1, <3>1 DEF Sessions
  <2>3. ASSUME CheckBalance(r)
        PROVE  tx'[r].rows = tx[r].rows /\ tx'[r].written = tx[r].written
    <3>1. tx'[r] = Owe(r)
      BY <2>3 DEF CheckBalance, SetSession, TypeInv, TypeOK
    <3>2. QED
      BY <2>1, <3>1 DEF Owe, Sessions
  <2>4. tx'[r].rows = tx[r].rows /\ tx'[r].written = tx[r].written
    BY <1>13, <2>2, <2>3
  <2>5. VisibleSub(r)' = VisibleSub(r) /\ VisibleSub(r) # None
    BY <2>1, <2>4 DEF VisibleSub, Company, store, SessionInv
  <2>6. QED
    BY <1>3, <2>1, <2>4, <2>5 DEF store
<1>14. ASSUME NEW r \in Requests,
              MarkExtracting(r) \/ StoreResult(r) \/ Commit(r) \/ CommitCharge(r)
       PROVE  ChainInv'
  <2>1. /\ OnlyMoves(r) /\ Publish(r) /\ UNCHANGED <<clock, job>>
        /\ pc[r] \in {"mark", "work", "commit"}
        /\ pc'[r] \in {"work", "lock", "done", "render"}
    BY <1>4, <1>14 DEF MarkExtracting, StoreResult, Commit, CommitCharge, Step, Goto,
                       TypeInv, TypeOK
  <2>2. QED
    BY <2>1, ChainPublish
<1>15. ASSUME NEW r \in Requests,
              InsufficientBalance(r) \/ RefuseUnpaid(r) \/ WorkFails(r) \/ Crash(r)
       PROVE  ChainInv'
  <2>1. OnlyMoves(r) /\ pc[r] # "idle" /\ \E a : Fail(r, a)
    BY <1>4, <1>15 DEF InsufficientBalance, RefuseUnpaid, WorkFails, Crash, Step
  <2>2. QED
    BY <2>1, ChainFail
<1>16. QED
  BY <1>1, <1>2, <1>5, <1>6, <1>7, <1>8, <1>9, <1>10, <1>11, <1>12, <1>13, <1>14, <1>15
     DEF Next, Step, Quiet

\* No update is ever lost: with grants only to companies that have a
\* subscription, and one clock, the balance in the latest row is always the
\* sum of all grants and charges, for any number of concurrent requests.
THEOREM LedgerIsChained ==
    ASSUME GrantsAreProvisioned, OneClock
    PROVE  Spec => []LedgerChained
<1>1. Init => TypeInv /\ ChainInv
  BY TypeInit, ChainInit
<1>2. TypeInv /\ ChainInv /\ [Next]_vars => (TypeInv /\ ChainInv)'
  BY TypeNext, ChainNext
<1>3. ChainInv => LedgerChained
  BY DEF ChainInv, WellFormed, LedgerChained
<1>4. QED
  BY <1>1, <1>2, <1>3, PTL DEF Spec

(***************************************************************************)
(* Work and charge.                                                        *)
(*                                                                         *)
(* A paid request owes its charge until it commits, whatever the others    *)
(* do: they write rows of their own only.                                  *)
(***************************************************************************)

\* The labels before the charge of a paid request is written.
Unpaid == {"subscribe", "insert", "check", "mark", "work", "lock", "read", "flush"}

Pending(r) == {e \in tx[r].rows : e.reason = "usage"}

\* Where a paid request stands with its charge, and with its result if both
\* are to be committed together.
Charging(r) ==
    /\ pc[r] \in Unpaid => Pending(r) = {} /\ Charges(r) = {}
    /\ pc[r] \in {"mark", "work"} => tx[r].reason = "usage"
    /\ pc[r] \in {"lock", "read", "flush"} => tx[r].reason \in {"subscription_grant", "usage"}
    /\ pc[r] = "commit" => Pending(r) # {} /\ Charges(r) = {}
    /\ pc[r] = "render" => Charges(r) # {} /\ Kind(r) \in ChargeThenWork
    /\ pc[r] \notin {"plan", "cap"}
    /\ resp[r] = "ok" => pc[r] = "done" /\ Charges(r) # {}
    /\ Kind(r) \in ChargeWithCommit =>
          /\ pc[r] # "done" => result[r] # "stored"
          /\ pc[r] = "commit" => result[r] = "draft"
          /\ pc[r] \in {"lock", "read", "flush"} /\ tx[r].reason = "usage" => result[r] = "draft"
          /\ pc[r] = "done" => (result[r] = "stored" <=> Charges(r) # {})

\* What holds of request r: its rows are its own, it has none before it
\* begins, and if it is paid for, it stands well with its charge.
ChargeOf(r) ==
    /\ \A e \in tx[r].rows : e.by = r
    /\ pc[r] = "idle" => /\ job[r] = None /\ tx[r].rows = {}
                         /\ result[r] = "none" /\ resp[r] = "none"
                         /\ \A c \in Companies : \A e \in ledger[c] : e.by # r
    /\ IsPaid(r) => Charging(r)

ChargeInv == \A r \in Requests : ChargeOf(r)

\* The initial state has no row written by a request.
LEMMA ChargeInit == Init => ChargeInv
BY CreditsAssumption, SMTT(40) DEF NoneIsNeutral, Init, ChargeInv, ChargeOf, IsPaid, OpeningRow, Fresh

\* The kinds of paid requests are apart.
LEMMA KindsApart ==
    /\ ChargeWithCommit \cap CommitThenCharge = {}
    /\ ChargeWithCommit \cap ChargeThenWork = {}
    /\ CommitThenCharge \cap ChargeThenWork = {}
BY DEF ChargeWithCommit, CommitThenCharge, ChargeThenWork

\* Whatever r does, it is the only one whose charges and result change.
LEMMA ChargeKept ==
    ASSUME TypeInv, ChargeInv, NEW r \in Requests, OnlyMoves(r),
           \A q \in Requests \ {r} : result'[q] = result[q] /\ resp'[q] = resp[q],
           ledger' = ledger \/ (Publish(r) /\ pc[r] # "idle"),
           pc'[r] # "idle", \A e \in tx'[r].rows : e.by = r, IsPaid(r)' => Charging(r)'
    PROVE  ChargeInv'
<1>1. ASSUME NEW q \in Requests, q # r PROVE ChargeOf(q)'
  <2>1. /\ pc'[q] = pc[q] /\ tx'[q] = tx[q] /\ job'[q] = job[q]
        /\ result'[q] = result[q] /\ resp'[q] = resp[q] /\ ChargeOf(q)
    BY <1>1 DEF OnlyMoves, ChargeInv
  <2>2. ASSUME NEW c \in Companies
        PROVE  \A e : e.by = q => (e \in ledger'[c] <=> e \in ledger[c])
    <3>1. CASE ledger' = ledger
      BY <3>1
    <3>2. CASE Publish(r) /\ pc[r] # "idle"
      <4>1. ledger' = [ledger EXCEPT ![Company(r)] = ledger[Company(r)] \cup tx[r].rows]
        BY <3>2 DEF Publish, VisibleRows
      <4>2. \A e \in tx[r].rows : e.by # q
        BY <1>1 DEF ChargeInv, ChargeOf
      <4>3. c = Company(r) => ledger'[c] = ledger[c] \cup tx[r].rows
        BY <4>1, KeptType
      <4>4. c # Company(r) => ledger'[c] = ledger[c]
        BY <4>1, KeptType
      <4>5. QED
        BY <4>2, <4>3, <4>4
    <3>3. QED
      BY <3>1, <3>2
  <2>3. CASE pc[q] = "idle"
    BY <2>1, <2>2, <2>3 DEF ChargeOf, IsPaid
  <2>4. CASE pc[q] # "idle"
    <3>1. Company(q) \in Companies /\ Company(q)' = Company(q) /\ Kind(q)' = Kind(q)
      BY <2>1, <2>4, VisibleType DEF Company, Kind
    <3>2. Charges(q)' = Charges(q) /\ Pending(q)' = Pending(q) /\ IsPaid(q)' = IsPaid(q)
      BY <2>1, <2>2, <3>1 DEF Charges, Pending, IsPaid
    <3>3. QED
      BY <2>1, <2>4, <3>1, <3>2 DEF ChargeOf, Charging
  <2>5. QED
    BY <2>3, <2>4
<1>2. ChargeOf(r)'
  BY DEF ChargeOf
<1>3. QED
  BY <1>1, <1>2 DEF ChargeInv

\* A request that fails has neither a charge nor a result, unless its
\* protocol commits one of them first.
LEMMA ChargeFail ==
    ASSUME TypeInv, ChargeInv, NEW r \in Requests, OnlyMoves(r), NEW a, Fail(r, a),
           a # "ok", pc[r] \notin {"idle", "done"}
    PROVE  ChargeInv'
<1>1. /\ pc'[r] = "done" /\ tx'[r] = Fresh /\ job' = job /\ ledger' = ledger /\ resp'[r] = a
      /\ result'[r] = IF result[r] = "draft" THEN "none" ELSE result[r]
      /\ \A q \in Requests \ {r} : result'[q] = result[q] /\ resp'[q] = resp[q]
  BY DEF Fail, Goto, SetSession, Rollback, TypeInv, TypeOK
<1>2. \A e \in tx'[r].rows : e.by = r
  BY <1>1 DEF Fresh
<1>3. Kind(r)' = Kind(r) /\ Charges(r)' = Charges(r) /\ IsPaid(r)' = IsPaid(r)
  BY <1>1 DEF Kind, Company, Charges, IsPaid
<1>4. ASSUME IsPaid(r) PROVE Charging(r)'
  <2>1. Charging(r)
    BY <1>4 DEF ChargeInv, ChargeOf
  <2>2. Kind(r) \in ChargeWithCommit => result[r] # "stored" /\ Charges(r) = {}
    BY <2>1, KindsApart, KeptType DEF Charging, Unpaid, TypeInv, TypeOK, Labels
  <2>3. QED
    BY <1>1, <1>3, <2>2 DEF Charging, Unpaid
<1>5. QED
  BY <1>1, <1>2, <1>3, <1>4, ChargeKept

\* A commit turns the pending charge into a charge.
LEMMA ChargePublish ==
    ASSUME TypeInv, ChargeInv, NEW r \in Requests, Publish(r), job' = job, pc[r] # "idle"
    PROVE  /\ Charges(r)' = Charges(r) \cup Pending(r) /\ Pending(r)' = {}
           /\ tx'[r].rows = {} /\ tx'[r].reason = tx[r].reason
           /\ Kind(r)' = Kind(r) /\ IsPaid(r)' = IsPaid(r)
<1>1. tx'[r].rows = {} /\ tx'[r].reason = tx[r].reason
  BY DEF Publish, SetSession, TypeInv, TypeOK, Sessions
<1>2. Company(r) \in Companies /\ Company(r)' = Company(r)
  BY VisibleType DEF Company
<1>3. ledger'[Company(r)] = ledger[Company(r)] \cup tx[r].rows
  BY <1>2, KeptType DEF Publish, VisibleRows
<1>4. \A e \in tx[r].rows : e.by = r
  BY DEF ChargeInv, ChargeOf
<1>5. QED
  BY <1>1, <1>2, <1>3, <1>4 DEF Charges, Pending, Kind, IsPaid

\* Every step keeps work and charge together.
LEMMA ChargeNext == TypeInv /\ ChargeInv /\ [Next]_vars => ChargeInv'
<1> SUFFICES ASSUME TypeInv, ChargeInv, [Next]_vars PROVE ChargeInv'
  OBVIOUS
<1> USE CreditsAssumption DEF NoneIsNeutral
<1>1. CASE UNCHANGED vars
  BY <1>1 DEF vars, ChargeInv, ChargeOf, Charging, IsPaid, Charges, Pending, Kind, Company
<1>2. ASSUME NEW r \in Requests, Start(r) \/ Step(r) \/ Crash(r)
      PROVE  OnlyMoves(r) /\ ChargeOf(r) /\ tx[r] \in Sessions
  BY <1>2, OnlyOneMoves, SessionType DEF ChargeInv
<1>3. ASSUME NEW r \in Requests, Start(r) PROVE ChargeInv'
  <2>1. PICK j \in Workload[r] :
          /\ job' = [job EXCEPT ![r] = j]
          /\ \/ /\ j.kind = "grant"
                /\ SetSession(r, [Fresh EXCEPT !.amount = j.amount, !.reason = "manual_grant"])
                /\ Goto(r, "lock")
             \/ /\ j.kind # "grant"
                /\ SetSession(r, Fresh)
                /\ Goto(r, "subscribe")
    BY <1>3 DEF Start
  <2>2. job'[r] = j /\ j.company \in Companies /\ ledger' = ledger /\ result' = result /\ resp' = resp
    BY <1>3, <2>1 DEF Start, store, TypeInv, TypeOK, WorkloadIsJobs, Jobs
  <2>3. tx'[r].rows = {}
    <3>1. CASE SetSession(r, Fresh)
      BY <3>1 DEF SetSession, Fresh, TypeInv, TypeOK
    <3>2. CASE SetSession(r, [Fresh EXCEPT !.amount = j.amount, !.reason = "manual_grant"])
      BY <3>2 DEF SetSession, Fresh, TypeInv, TypeOK
    <3>3. QED
      BY <2>1, <3>1, <3>2
  <2>4. pc'[r] = IF j.kind = "grant" THEN "lock" ELSE "subscribe"
    BY <2>1 DEF Goto, TypeInv, TypeOK
  <2>5. result[r] = "none" /\ resp[r] = "none" /\ \A c \in Companies : \A e \in ledger[c] : e.by # r
    BY <1>2, <1>3 DEF ChargeOf, Start
  <2>6. Charges(r)' = {} /\ Pending(r)' = {}
    BY <2>2, <2>3, <2>5 DEF Charges, Pending, Company
  <2>7. IsPaid(r)' => pc'[r] = "subscribe"
    BY <2>2, <2>4 DEF IsPaid, Kind, PaidKinds, ChargeWithCommit, CommitThenCharge, ChargeThenWork
  <2>8. IsPaid(r)' => Charging(r)'
    BY <2>2, <2>5, <2>6, <2>7 DEF Charging, Unpaid
  <2>9. QED
    BY <1>2, <1>3, <2>2, <2>3, <2>4, <2>8, ChargeKept
<1>4. ASSUME NEW r \in Requests, pc[r] # "idle", OnlyMoves(r), ChargeOf(r),
             job' = job, ledger' = ledger, resp' = resp,
             \A q \in Requests \ {r} : result'[q] = result[q],
             pc'[r] # "idle", tx'[r].rows = tx[r].rows, IsPaid(r) => Charging(r)'
      PROVE  ChargeInv'
  <2>1. IsPaid(r)' = IsPaid(r) /\ \A e \in tx'[r].rows : e.by = r
    BY <1>4 DEF IsPaid, Kind, ChargeOf
  <2>2. QED
    BY <1>4, <2>1, ChargeKept
<1>5. ASSUME NEW r \in Requests, job' = job, ledger' = ledger, tx'[r].rows = tx[r].rows
      PROVE  Charges(r)' = Charges(r) /\ Pending(r)' = Pending(r) /\ Kind(r)' = Kind(r)
  BY <1>5 DEF Charges, Pending, Kind, Company
\* Steps before the charge that leave the result alone.
<1>6. ASSUME NEW r \in Requests, pc[r] \in Unpaid, OnlyMoves(r), ChargeOf(r),
             job' = job, ledger' = ledger, resp' = resp, result' = result,
             tx'[r].rows = tx[r].rows, pc'[r] # "idle",
             IsPaid(r) =>
               /\ pc'[r] \in Unpaid
               /\ pc'[r] \in {"mark", "work"} => tx'[r].reason = "usage"
               /\ pc'[r] \in {"lock", "read", "flush"} =>
                     tx'[r].reason \in {"subscription_grant", "usage"}
               /\ pc'[r] \in {"lock", "read", "flush"} /\ tx'[r].reason = "usage" =>
                     \/ Kind(r) \notin ChargeWithCommit
                     \/ pc[r] \in {"lock", "read", "flush"} /\ tx[r].reason = "usage"
      PROVE  ChargeInv'
  <2>1. Charges(r)' = Charges(r) /\ Pending(r)' = Pending(r) /\ Kind(r)' = Kind(r)
    BY <1>5, <1>6
  <2>2. ASSUME IsPaid(r) PROVE Charging(r)'
    BY <1>6, <2>1, <2>2 DEF ChargeOf, Charging, Unpaid
  <2>3. QED
    BY <1>4, <1>6, <2>2 DEF Unpaid
<1>7. ASSUME NEW r \in Requests, GetSubscription(r) PROVE ChargeInv'
  <2>1. /\ pc[r] = "subscribe" /\ OnlyMoves(r) /\ ChargeOf(r) /\ tx[r] \in Sessions
        /\ UNCHANGED <<store, clock, job, result, resp>>
    BY <1>2, <1>7 DEF GetSubscription, Step
  <2>2. tx'[r] = [tx[r] EXCEPT !.plan = VisibleSub(r)]
    BY <1>7 DEF GetSubscription, SetSession, TypeInv, TypeOK
  <2>3. tx'[r].rows = tx[r].rows
    BY <2>1, <2>2 DEF Sessions
  <2>4. /\ pc'[r] \in {"insert", "plan", "check", "commit"}
        /\ IsPaid(r) => pc'[r] \in {"insert", "check"}
    BY <1>7 DEF GetSubscription, Goto, Subscribed, TypeInv, TypeOK, IsPaid,
                PaidKinds, ChargeWithCommit, CommitThenCharge, ChargeThenWork
  <2>5. QED
    BY <1>6, <2>1, <2>3, <2>4 DEF store, Unpaid
<1>8. ASSUME NEW r \in Requests, InsertSubscription(r) PROVE ChargeInv'
  <2>1. /\ pc[r] = "insert" /\ pc'[r] = "lock" /\ OnlyMoves(r) /\ ChargeOf(r) /\ tx[r] \in Sessions
        /\ UNCHANGED <<sub, ledger, clock, job, result, resp>>
    BY <1>2, <1>8 DEF InsertSubscription, Step, Goto, TypeInv, TypeOK
  <2>2. tx'[r] = [tx[r] EXCEPT !.plan = "free", !.written = "free",
                               !.amount = monthly_credits("free"),
                               !.reason = "subscription_grant"]
    BY <1>8 DEF InsertSubscription, SetSession, TypeInv, TypeOK
  <2>3. tx'[r].rows = tx[r].rows /\ tx'[r].reason = "subscription_grant"
    BY <2>1, <2>2 DEF Sessions
  <2>4. QED
    BY <1>6, <2>1, <2>3 DEF Unpaid
<1>9. ASSUME NEW r \in Requests, LockSubscription(r) \/ ReadBalance(r) PROVE ChargeInv'
  <2>1. /\ pc[r] \in {"lock", "read"} /\ pc'[r] \in {"read", "flush"}
        /\ OnlyMoves(r) /\ ChargeOf(r) /\ tx[r] \in Sessions
        /\ UNCHANGED <<ledger, job, result, resp>>
    BY <1>2, <1>9 DEF LockSubscription, ReadBalance, Step, Goto, store, TypeInv, TypeOK
  <2>2. tx' = tx \/ tx'[r] = [tx[r] EXCEPT !.seen = VisibleBalance(r)]
    BY <1>9 DEF LockSubscription, ReadBalance, SetSession, TypeInv, TypeOK
  <2>3. tx'[r].rows = tx[r].rows /\ tx'[r].reason = tx[r].reason
    BY <2>1, <2>2 DEF Sessions
  <2>4. QED
    BY <1>6, <2>1, <2>3 DEF Unpaid, ChargeOf, Charging
<1>10. ASSUME NEW r \in Requests, FlushRow(r) PROVE ChargeInv'
  <2>1. /\ pc[r] = "flush" /\ OnlyMoves(r) /\ ChargeOf(r) /\ tx[r] \in Sessions
        /\ UNCHANGED <<ledger, job, result, resp>>
    BY <1>2, <1>10 DEF FlushRow, Step, store
  <2>2. PICK k \in Skews : tx'[r] = [tx[r] EXCEPT !.rows = tx[r].rows \cup {NextRow(r, k)}]
    BY <1>10 DEF FlushRow, SetSession, TypeInv, TypeOK
  <2> DEFINE e == NextRow(r, k)
  <2>3. e.by = r /\ e.reason = tx[r].reason
    BY DEF NextRow
  <2> HIDE DEF e
  <2>4. tx'[r].rows = tx[r].rows \cup {e} /\ tx'[r].reason = tx[r].reason
    BY <2>1, <2>2 DEF Sessions, e
  <2>5. /\ pc'[r] # "idle"
        /\ pc'[r] = CASE tx[r].reason = "subscription_grant" -> Subscribed(r)
                      [] tx[r].reason = "manual_grant"       -> "subscribe"
                      [] OTHER                               -> "commit"
    BY <1>10 DEF FlushRow, Goto, Subscribed, TypeInv, TypeOK
  <2>6. Charges(r)' = Charges(r) /\ Kind(r)' = Kind(r) /\ IsPaid(r)' = IsPaid(r)
    BY <2>1 DEF Charges, Kind, Company, IsPaid
  <2>7. ASSUME IsPaid(r) PROVE Charging(r)'
    <3>1. Charging(r)
      BY <2>1, <2>7 DEF ChargeOf
    <3>2. CASE tx[r].reason = "subscription_grant"
      <4>1. pc'[r] = "check"
        BY <2>5, <2>7, <3>2 DEF Subscribed, IsPaid, PaidKinds, ChargeWithCommit,
                                CommitThenCharge, ChargeThenWork
      <4>2. Pending(r)' = {}
        BY <2>1, <2>3, <2>4, <3>1, <3>2 DEF Pending, Charging, Unpaid
      <4>3. QED
        BY <2>1, <2>6, <3>1, <4>1, <4>2 DEF Charging, Unpaid
    <3>3. CASE tx[r].reason = "usage"
      <4>1. pc'[r] = "commit"
        BY <2>5, <3>3
      <4>2. Pending(r)' # {}
        BY <2>3, <2>4, <3>3 DEF Pending
      <4>3. QED
        BY <2>1, <2>6, <3>1, <3>3, <4>1, <4>2 DEF Charging, Unpaid
    <3>4. QED
      BY <2>1, <3>1, <3>2, <3>3 DEF Charging
  <2>8. \A f \in tx'[r].rows : f.by = r
    BY <2>1, <2>3, <2>4 DEF ChargeOf
  <2>9. QED
    BY <2>1, <2>5, <2>6, <2>7, <2>8, ChargeKept
<1>11. ASSUME NEW r \in Requests, KeepPlan(r) \/ SetPlan(r) \/ CapBalance(r) PROVE ChargeInv'
  <2>1. /\ pc[r] \in {"plan", "cap"} /\ pc'[r] \in {"commit", "lock", "cap"}
        /\ OnlyMoves(r) /\ ChargeOf(r) /\ tx[r] \in Sessions
        /\ UNCHANGED <<ledger, job, result, resp>>
    BY <1>2, <1>11 DEF KeepPlan, SetPlan, CapBalance, Step, Goto, store, TypeInv, TypeOK
  <2>2. ~IsPaid(r)
    BY <2>1 DEF ChargeOf, Charging
  <2>3. \/ tx'[r] = tx[r]
        \/ \E n : tx'[r] = [tx[r] EXCEPT !.plan = job[r].target, !.written = job[r].target,
                                         !.amount = n, !.reason = "plan_upgrade"]
        \/ \E n : tx'[r] = [tx[r] EXCEPT !.amount = n, !.reason = "plan_downgrade_adjustment"]
    <3>1. CASE KeepPlan(r)
      BY <3>1 DEF KeepPlan
    <3>2. CASE SetPlan(r)
      BY <3>2, ZenonT(60) DEF SetPlan, SetSession, TypeInv, TypeOK
    <3>3. CASE CapBalance(r)
      BY <3>3, ZenonT(60) DEF CapBalance, SetSession, TypeInv, TypeOK
    <3>4. QED
      BY <1>11, <3>1, <3>2, <3>3
  <2>4. tx'[r].rows = tx[r].rows
    BY <2>1, <2>3 DEF Sessions
  <2>5. QED
    BY <1>4, <2>1, <2>2, <2>4, SMTT(40)
<1>12. ASSUME NEW r \in Requests, CheckBalance(r) PROVE ChargeInv'
  <2>1. /\ pc[r] = "check" /\ OnlyMoves(r) /\ ChargeOf(r) /\ tx[r] \in Sessions
        /\ UNCHANGED <<ledger, job, result, resp>> /\ tx'[r] = Owe(r)
    BY <1>2, <1>12 DEF CheckBalance, Step, store, SetSession, TypeInv, TypeOK
  <2>2. tx'[r].rows = tx[r].rows /\ tx'[r].reason = "usage"
    BY <2>1 DEF Owe, Sessions
  <2>3. pc'[r] = CASE Kind(r) \in ChargeThenWork -> "lock"
                   [] Kind(r) = "extract"        -> "mark"
                   [] OTHER                      -> "work"
    BY <1>12 DEF CheckBalance, Goto, TypeInv, TypeOK
  <2>4. pc'[r] \in {"lock", "mark", "work"} /\ (pc'[r] = "lock" => Kind(r) \in ChargeThenWork)
    BY <2>3
  <2>5. QED
    BY <1>6, <2>1, <2>2, <2>4, KindsApart DEF Unpaid
<1>13. ASSUME NEW r \in Requests, DraftResult(r) PROVE ChargeInv'
  <2>1. /\ pc[r] = "work" /\ pc'[r] = "lock" /\ Kind(r) \in ChargeWithCommit
        /\ OnlyMoves(r) /\ ChargeOf(r)
        /\ UNCHANGED <<ledger, job, tx, resp>> /\ result' = [result EXCEPT ![r] = "draft"]
    BY <1>2, <1>13 DEF DraftResult, Step, Goto, store, TypeInv, TypeOK
  <2>2. result'[r] = "draft" /\ \A q \in Requests \ {r} : result'[q] = result[q]
    BY <2>1, KeptType
  <2>3. Charges(r)' = Charges(r) /\ Pending(r)' = Pending(r) /\ Kind(r)' = Kind(r)
    BY <1>5, <2>1
  <2>4. IsPaid(r) => Charging(r)'
    BY <2>1, <2>2, <2>3 DEF ChargeOf, Charging, Unpaid
  <2>5. QED
    BY <1>4, <2>1, <2>2, <2>4
<1>14. ASSUME NEW r \in Requests,
              MarkExtracting(r) \/ StoreResult(r) \/ Commit(r) \/ CommitCharge(r)
       PROVE  ChargeInv'
  <2>1. /\ pc[r] \in {"mark", "work", "commit"} /\ Publish(r) /\ OnlyMoves(r) /\ ChargeOf(r)
        /\ job' = job
    BY <1>2, <1>14 DEF MarkExtracting, StoreResult, Commit, CommitCharge, Step
  <2>2. /\ Charges(r)' = Charges(r) \cup Pending(r) /\ Pending(r)' = {}
        /\ tx'[r].rows = {} /\ tx'[r].reason = tx[r].reason
        /\ Kind(r)' = Kind(r) /\ IsPaid(r)' = IsPaid(r)
    BY <2>1, ChargePublish
  <2>3. /\ pc'[r] \in {"work", "lock", "done", "render"}
        /\ \A q \in Requests \ {r} : result'[q] = result[q] /\ resp'[q] = resp[q]
    BY <1>14, KeptType DEF MarkExtracting, StoreResult, Commit, CommitCharge, Goto, TypeInv, TypeOK
  <2>4. ASSUME IsPaid(r), MarkExtracting(r) PROVE Charging(r)'
    <3>1. pc[r] = "mark" /\ pc'[r] = "work" /\ result' = result /\ resp' = resp
      BY <2>4 DEF MarkExtracting, Goto, TypeInv, TypeOK
    <3>2. QED
      BY <2>1, <2>2, <2>4, <3>1 DEF ChargeOf, Charging, Unpaid
  <2>5. ASSUME IsPaid(r), StoreResult(r) PROVE Charging(r)'
    <3>1. pc[r] = "work" /\ pc'[r] = "lock" /\ resp' = resp /\ Kind(r) \in CommitThenCharge
      BY <2>5 DEF StoreResult, Goto, TypeInv, TypeOK
    <3>2. QED
      BY <2>1, <2>2, <2>5, <3>1, KindsApart DEF ChargeOf, Charging, Unpaid
  <2>6. ASSUME IsPaid(r), Commit(r) PROVE Charging(r)'
    <3>1. /\ pc[r] = "commit" /\ pc'[r] = "done" /\ Kind(r) \notin ChargeThenWork
          /\ result'[r] = IF result[r] = "draft" THEN "stored" ELSE result[r]
      BY <2>6, KeptType DEF Commit, Goto, TypeInv, TypeOK
    <3>2. QED
      BY <2>1, <2>2, <2>6, <3>1 DEF ChargeOf, Charging, Unpaid
  <2>7. ASSUME IsPaid(r), CommitCharge(r) PROVE Charging(r)'
    <3>1. /\ pc[r] = "commit" /\ pc'[r] = "render" /\ Kind(r) \in ChargeThenWork
          /\ result' = result /\ resp' = resp
      BY <2>7 DEF CommitCharge, Goto, TypeInv, TypeOK
    <3>2. QED
      BY <2>1, <2>2, <2>7, <3>1, KindsApart DEF ChargeOf, Charging, Unpaid
  <2>8. IsPaid(r)' => Charging(r)'
    BY <1>14, <2>2, <2>4, <2>5, <2>6, <2>7
  <2>9. QED
    BY <2>1, <2>2, <2>3, <2>8, ChargeKept
<1>15. ASSUME NEW r \in Requests, Render(r) PROVE ChargeInv'
  <2>1. /\ pc[r] = "render" /\ pc'[r] = "done" /\ OnlyMoves(r) /\ ChargeOf(r)
        /\ UNCHANGED <<ledger, job, tx>>
        /\ \A q \in Requests \ {r} : result'[q] = result[q] /\ resp'[q] = resp[q]
    BY <1>2, <1>15, KeptType DEF Render, Step, Goto, store, TypeInv, TypeOK
  <2>2. /\ Charges(r)' = Charges(r) /\ Pending(r)' = Pending(r) /\ Kind(r)' = Kind(r)
        /\ IsPaid(r)' = IsPaid(r) /\ \A e \in tx'[r].rows : e.by = r
    BY <1>5, <2>1 DEF IsPaid, Kind, ChargeOf
  <2>3. IsPaid(r) => Charging(r)'
    BY <2>1, <2>2, KindsApart DEF ChargeOf, Charging, Unpaid
  <2>4. QED
    BY <2>1, <2>2, <2>3, ChargeKept
<1>16. ASSUME NEW r \in Requests, InsertConflict(r) PROVE ChargeInv'
  <2>1. pc[r] = "insert" /\ OnlyMoves(r)
    BY <1>2, <1>16 DEF InsertConflict, Step
  <2>2. CASE Fail(r, "error")
    BY <2>1, <2>2, ChargeFail
  <2>3. CASE /\ Kind(r) = "view" /\ Rollback(r)
             /\ SetSession(r, [Fresh EXCEPT !.plan = sub[Company(r)]])
             /\ Goto(r, "commit") /\ UNCHANGED <<clock, job, result, resp>>
    <3>1. tx'[r].rows = {} /\ pc'[r] = "commit" /\ ledger' = ledger
      BY <2>3 DEF SetSession, Goto, Rollback, Fresh, TypeInv, TypeOK
    <3>2. ~IsPaid(r)'
      BY <2>3 DEF IsPaid, Kind, PaidKinds, ChargeWithCommit, CommitThenCharge, ChargeThenWork
    <3>3. QED
      BY <2>1, <2>3, <3>1, <3>2, ChargeKept
  <2>4. QED
    BY <1>16, <2>2, <2>3 DEF InsertConflict
<1>17. ASSUME NEW r \in Requests,
              InsufficientBalance(r) \/ RefuseUnpaid(r) \/ WorkFails(r) \/ Crash(r)
       PROVE  ChargeInv'
  <2>1. OnlyMoves(r) /\ pc[r] \notin {"idle", "done"} /\ \E a : a # "ok" /\ Fail(r, a)
    BY <1>2, <1>17 DEF InsufficientBalance, RefuseUnpaid, WorkFails, Crash, Step
  <2>2. QED
    BY <2>1, ChargeFail
<1>18. QED
  BY <1>1, <1>3, <1>7, <1>8, <1>9, <1>10, <1>11, <1>12, <1>13, <1>14, <1>15, <1>16, <1>17
     DEF Next, Step, Quiet

\* An estimate and its charge appear together, through every interleaving
\* and every crash.
THEOREM ChargesAreAtomic == Spec => []AtomicCharge
<1>1. TypeInv /\ ChargeInv => AtomicCharge
  <2> SUFFICES ASSUME TypeInv, ChargeInv, NEW r \in Requests, IsPaid(r), Kind(r) \in ChargeWithCommit
               PROVE  result[r] = "stored" <=> Charges(r) # {}
    BY DEF AtomicCharge
  <2>1. Charging(r) /\ pc[r] # "idle"
    BY DEF ChargeInv, ChargeOf, IsPaid
  <2>2. QED
    BY <2>1, KindsApart, KeptType DEF Charging, Unpaid, TypeInv, TypeOK, Labels
<1>2. Init => TypeInv /\ ChargeInv
  BY TypeInit, ChargeInit
<1>3. TypeInv /\ ChargeInv /\ [Next]_vars => (TypeInv /\ ChargeInv)'
  BY TypeNext, ChargeNext
<1>4. QED
  BY <1>1, <1>2, <1>3, PTL DEF Spec

\* Nobody is told of a success that has not been paid for.
THEOREM SuccessesAreCharged == Spec => []SuccessIsCharged
<1>1. ChargeInv => SuccessIsCharged
  BY DEF ChargeInv, ChargeOf, Charging, SuccessIsCharged
<1>2. Init => TypeInv /\ ChargeInv
  BY TypeInit, ChargeInit
<1>3. TypeInv /\ ChargeInv /\ [Next]_vars => (TypeInv /\ ChargeInv)'
  BY TypeNext, ChargeNext
<1>4. QED
  BY <1>1, <1>2, <1>3, PTL DEF Spec

(***************************************************************************)
(* The account is implemented.                                             *)
(*                                                                         *)
(* A session offers, at every point, what its commit will do to the        *)
(* account.  Sessions of one company that have written something hold its  *)
(* lock, so that no commit of another comes between an offer and its       *)
(* publication.  What the lock does not protect is the plan a change of    *)
(* plan starts from, which is read before the lock: of two upgrades at     *)
(* once, the second grants credits without changing the plan.              *)
(***************************************************************************)

\* At most one request changes the plan of a company.
PlanChangesAlone ==
    \A r, q \in Requests : \A j \in Workload[r], i \in Workload[q] :
        j.kind = "plan" /\ i.kind = "plan" /\ j.company = i.company => r = q

\* The account as CreditAccount opens it.
OpenPlan(c)    == IF sub[c] = None THEN "free" ELSE sub[c]
OpenBalance(c) == IF sub[c] = None THEN monthly_credits("free")
                                   ELSE get_credit_balance(ledger[c])

\* Request r, if it committed now, would move d credits and keep the plan,
Offers(r, d) ==
    /\ VisibleSub(r) = OpenPlan(Company(r))
    /\ VisibleBalance(r) = OpenBalance(Company(r)) + d

\* or it has set the plan it wants and would leave the balance as promised.
Target(r)  == job[r].target
PlanSet(r) == Kind(r) = "plan" /\ tx[r].written = Target(r)

OffersUpgrade(r) ==
    LET delta == monthly_credits(Target(r)) - monthly_credits(OpenPlan(Company(r))) IN
    /\ PlanSet(r)
    /\ delta > 0
    /\ VisibleBalance(r) = OpenBalance(Company(r)) + delta

OffersDowngrade(r) ==
    LET limit == monthly_credits(Target(r)) IN
    /\ PlanSet(r)
    /\ limit < monthly_credits(OpenPlan(Company(r)))
    /\ VisibleBalance(r) = IF OpenBalance(Company(r)) > limit THEN limit
                                                              ELSE OpenBalance(Company(r))

\* The five credit movements, between the lock and the row that is flushed:
\* nothing of the movement is visible yet, and its amount is the right one.
Moves(r) ==
    LET c == Company(r) IN
    \/ /\ tx[r].reason = "subscription_grant"
       /\ Kind(r) # "grant"
       /\ tx[r].rows = {} /\ tx[r].written = "free" /\ sub[c] = None
       /\ tx[r].plan = "free"
       /\ tx[r].amount = monthly_credits("free")
    \/ /\ tx[r].reason = "manual_grant"
       /\ Offers(r, 0)
       /\ Kind(r) = "grant"
       /\ tx[r].amount = job[r].amount
    \/ /\ tx[r].reason = "usage"
       /\ Offers(r, 0)
       /\ Kind(r) \in PaidKinds /\ tx[r].amount = -Cost(r)
    \/ /\ tx[r].reason = "plan_upgrade"
       /\ PlanSet(r)
       /\ VisibleBalance(r) = OpenBalance(c)
       /\ tx[r].amount = monthly_credits(Target(r)) - monthly_credits(OpenPlan(c))
       /\ tx[r].amount > 0
    \/ /\ tx[r].reason = "plan_downgrade_adjustment"
       /\ PlanSet(r)
       /\ VisibleBalance(r) = OpenBalance(c)
       /\ monthly_credits(Target(r)) < monthly_credits(OpenPlan(c))
       /\ tx[r].amount = monthly_credits(Target(r)) - OpenBalance(c)
       /\ tx[r].amount < 0

\* Where request r, once begun, stands with the account of its company.
AccountOf(r) ==
    /\ job[r] \in Workload[r]
    /\ tx[r].written # None => Kind(r) = "plan" \/ sub[Company(r)] = None
    /\ pc[r] \in {"subscribe", "insert"} =>
          \/ Kind(r) # "grant" /\ tx[r].rows = {} /\ tx[r].written = None
          \/ /\ pc[r] = "subscribe" /\ Kind(r) = "grant"
             /\ tx[r].rows # {} /\ Offers(r, job[r].amount)
    /\ pc[r] \in {"check", "mark", "work", "plan"} => Offers(r, 0)
    /\ pc[r] \in {"check", "mark", "work"} => Kind(r) \in PaidKinds
    /\ pc[r] \in {"mark", "work"} => tx[r].reason = "usage" /\ tx[r].amount = -Cost(r)
    /\ pc[r] = "plan" => tx[r].plan = OpenPlan(Company(r)) /\ Kind(r) = "plan"
    /\ pc[r] = "cap" => /\ PlanSet(r)
                        /\ monthly_credits(Target(r)) < monthly_credits(OpenPlan(Company(r)))
                        /\ VisibleBalance(r) = OpenBalance(Company(r))
    /\ pc[r] \in {"lock", "read", "flush"} => Moves(r)
    /\ pc[r] = "commit" => \/ \E d \in Deltas : Offers(r, d)
                           \/ OffersUpgrade(r) \/ OffersDowngrade(r)

AccountInv ==
    /\ \A c \in Companies : sub[c] = None => ledger[c] = {}
    /\ \A r \in Requests : pc[r] # "idle" => AccountOf(r)

\* The newest row of a ledger decides its balance.
LEMMA NewestDecides ==
    ASSUME NEW S \in SUBSET LedgerRows, NEW e \in LedgerRows, \A f \in S : f.at < e.at
    PROVE  get_credit_balance(S \cup {e}) = e.balance_after
<1>1. \A f \in S \cup {e} : f.at \in Int
  BY DEF LedgerRows
<1>2. \A f \in S \cup {e} : f.at <= e.at
  BY <1>1
<1>3. ASSUME NEW m \in S \cup {e}, \A f \in S \cup {e} : f.at <= m.at PROVE m = e
  BY <1>1, <1>3
<1>4. LatestRow(S \cup {e}) = e
  BY <1>2, <1>3 DEF LatestRow
<1>5. QED
  BY <1>4 DEF get_credit_balance

\* No two plans grant the same credits.
LEMMA PlansDiffer == \A p, q \in Plans : monthly_credits(p) = monthly_credits(q) => p = q
BY DEF Plans, monthly_credits

\* An account has a plan and a natural balance.
LEMMA OpenType ==
    ASSUME TypeInv, NEW c \in Companies
    PROVE  OpenPlan(c) \in Plans /\ OpenBalance(c) \in Nat
<1>1. ledger[c] \in SUBSET LedgerRows /\ HasLatest(ledger[c]) /\ sub[c] \in Plans \cup {None}
  BY KeptType
<1>2. QED
  BY <1>1, BalanceIsNat, PricesAreNat DEF OpenPlan, OpenBalance, Plans

\* Each company starts with both a subscription and a ledger or with neither.
LEMMA AccountInit == Init => AccountInv
<1> SUFFICES ASSUME Init PROVE AccountInv
  OBVIOUS
<1>1. \A c \in Companies : sub[c] = None => ledger[c] = {}
  BY CreditsAssumption DEF Init, NoneIsNeutral
<1>2. \A r \in Requests : pc[r] = "idle"
  BY DEF Init
<1>3. QED
  BY <1>1, <1>2 DEF AccountInv

\* What is said of q depends on its session and on its company's tables only.
LEMMA AccountQuiet ==
    ASSUME TypeInv, NEW q \in Requests, pc[q] # "idle", AccountOf(q),
           pc'[q] = pc[q], tx'[q] = tx[q], job'[q] = job[q],
           sub'[Company(q)] = sub[Company(q)], ledger'[Company(q)] = ledger[Company(q)]
    PROVE  AccountOf(q)'
<1>1. /\ Company(q)' = Company(q) /\ Kind(q)' = Kind(q) /\ Target(q)' = Target(q)
      /\ Cost(q)' = Cost(q)
  BY DEF Company, Kind, Target, Cost
<1>2. /\ VisibleSub(q)' = VisibleSub(q) /\ VisibleRows(q)' = VisibleRows(q)
      /\ VisibleBalance(q)' = VisibleBalance(q)
  BY <1>1 DEF VisibleSub, VisibleRows, VisibleBalance
<1>3. /\ OpenPlan(Company(q))' = OpenPlan(Company(q))
      /\ OpenBalance(Company(q))' = OpenBalance(Company(q))
  BY <1>1 DEF OpenPlan, OpenBalance
<1>4. /\ \A d : Offers(q, d)' = Offers(q, d)
      /\ PlanSet(q)' = PlanSet(q)
  BY <1>1, <1>2, <1>3 DEF Offers, PlanSet
<1>5. /\ OffersUpgrade(q)' = OffersUpgrade(q) /\ OffersDowngrade(q)' = OffersDowngrade(q)
      /\ Moves(q)' = Moves(q)
  BY <1>1, <1>2, <1>3, <1>4 DEF OffersUpgrade, OffersDowngrade, Moves
<1>6. QED
  BY <1>1, <1>2, <1>3, <1>4, <1>5 DEF AccountOf

\* A session that has written nothing sees its company's tables as they are.
LEMMA SeesTables ==
    ASSUME TypeInv, NEW q \in Requests, pc[q] # "idle",
           tx[q].rows = {}, tx[q].written = None, sub[Company(q)] # None
    PROVE  Offers(q, 0)
<1>1. VisibleSub(q) = sub[Company(q)] /\ VisibleRows(q) = ledger[Company(q)]
  BY DEF VisibleSub, VisibleRows
<1>2. OpenPlan(Company(q)) = sub[Company(q)]
  BY DEF OpenPlan
<1>3. OpenBalance(Company(q)) = VisibleBalance(q)
  BY <1>1 DEF OpenBalance, VisibleBalance
<1>4. QED
  BY <1>1, <1>2, <1>3, VisibleType DEF Offers

\* When another request commits something for q's company, q has nothing
\* uncommitted, and its offer stands: only its plan may not be overtaken.
LEMMA AccountOvertaken ==
    ASSUME TypeInv, TypeInv', NEW q \in Requests, pc[q] # "idle", AccountOf(q),
           pc'[q] = pc[q], tx'[q] = tx[q], job'[q] = job[q],
           tx[q].rows = {}, tx[q].written = None, pc[q] \notin {"read", "flush"},
           VisibleSub(q) # None \/ pc[q] \in {"subscribe", "insert", "done"},
           sub'[Company(q)] # None,
           pc[q] = "plan" => sub'[Company(q)] = sub[Company(q)]
    PROVE  AccountOf(q)'
<1>1. /\ Company(q)' = Company(q) /\ Kind(q)' = Kind(q) /\ Target(q)' = Target(q)
      /\ Cost(q)' = Cost(q)
  BY DEF Company, Kind, Target, Cost
<1>2. Offers(q, 0)'
  <2>1. VisibleSub(q)' = sub'[Company(q)] /\ VisibleRows(q)' = ledger'[Company(q)]
    BY <1>1 DEF VisibleSub, VisibleRows
  <2>2. OpenPlan(Company(q))' = sub'[Company(q)]
    BY <1>1 DEF OpenPlan
  <2>3. VisibleBalance(q)' = OpenBalance(Company(q))'
    BY <1>1, <2>1 DEF VisibleBalance, OpenBalance
  <2>4. OpenBalance(Company(q))' \in Nat
    <3>1. ledger'[Company(q)] \in SUBSET LedgerRows /\ HasLatest(ledger'[Company(q)])
      BY VisibleType DEF TypeInv, TypeOK
    <3>2. QED
      BY <1>1, <2>1, <2>3, <3>1, BalanceIsNat DEF VisibleBalance
  <2>5. QED
    BY <1>1, <2>1, <2>2, <2>3, <2>4 DEF Offers
<1>3. VisibleSub(q) = sub[Company(q)]
  BY DEF VisibleSub
<1>4. pc[q] = "lock" => Moves(q)'
  <2> SUFFICES ASSUME pc[q] = "lock" PROVE Moves(q)'
    OBVIOUS
  <2>1. Moves(q) /\ "free" # None /\ job[q].target # None
    BY CreditsAssumption DEF AccountOf, NoneIsNeutral, Plans, TypeInv, Jobs
  <2>2. tx[q].reason \in {"manual_grant", "usage"}
    BY <2>1 DEF Moves, PlanSet, Target
  <2>3. QED
    BY <1>1, <1>2, <2>1, <2>2 DEF Moves
<1>5. pc[q] = "plan" => OpenPlan(Company(q))' = OpenPlan(Company(q))
  BY <1>1 DEF OpenPlan
<1>6. 0 \in Deltas
  BY DEF Deltas
<1>7. pc[q] # "cap"
  BY CreditsAssumption DEF AccountOf, NoneIsNeutral, PlanSet, Target, TypeInv, Jobs
<1>8. QED
  BY <1>1, <1>2, <1>4, <1>5, <1>6, <1>7 DEF AccountOf

\* A step of r that changes no table changes nobody else's account.
LEMMA AccountKept ==
    ASSUME TypeInv, AccountInv, NEW r \in Requests, OnlyMoves(r),
           sub' = sub, ledger' = ledger, pc'[r] # "idle" => AccountOf(r)'
    PROVE  AccountInv'
<1>1. ASSUME NEW q \in Requests, q # r, pc'[q] # "idle" PROVE AccountOf(q)'
  <2>1. pc'[q] = pc[q] /\ tx'[q] = tx[q] /\ job'[q] = job[q]
    BY <1>1 DEF OnlyMoves
  <2>2. AccountOf(q)
    BY <1>1, <2>1 DEF AccountInv
  <2>3. QED
    BY <1>1, <2>1, <2>2, AccountQuiet
<1>2. QED
  BY <1>1 DEF AccountInv

\* The same of a request that gives up.
LEMMA AccountFail ==
    ASSUME TypeInv, AccountInv, NEW r \in Requests, pc[r] # "idle", OnlyMoves(r),
           NEW a, Fail(r, a)
    PROVE  AccountInv'
<1>1. pc'[r] = "done" /\ tx'[r] = Fresh /\ job' = job /\ sub' = sub /\ ledger' = ledger
  BY DEF Fail, Goto, SetSession, Rollback, TypeInv, TypeOK
<1>2. Fresh.written = None
  BY DEF Fresh
<1>3. job[r] \in Workload[r]
  BY DEF AccountInv, AccountOf
<1>4. AccountOf(r)'
  BY <1>1, <1>2, <1>3 DEF AccountOf
<1>5. QED
  BY <1>1, <1>4, AccountKept

\* A commit makes the offer of r the state of the account; nobody else of
\* its company has anything uncommitted, unless r commits nothing.
LEMMA AccountPublish ==
    ASSUME PlanChangesAlone, TypeInv, TypeInv', ChainInv, AccountInv,
           NEW r \in Requests, OnlyMoves(r), Publish(r), job' = job,
           pc[r] \in {"mark", "work", "commit"}, AccountOf(r)'
    PROVE  AccountInv'
<1> DEFINE d == Company(r)
<1>1. /\ d \in Companies /\ VisibleSub(r) # None /\ SessionInv(r) /\ AccountOf(r)
      /\ tx[r] \in Sessions
  BY VisibleType, SessionType DEF ChainInv, SessionInv, AccountInv
<1>2. /\ sub'[d] = VisibleSub(r) /\ ledger'[d] = VisibleRows(r)
      /\ \A c \in Companies : c # d => sub'[c] = sub[c] /\ ledger'[c] = ledger[c]
  BY <1>1, KeptType DEF Publish
<1>3. \A c \in Companies : sub'[c] = None => ledger'[c] = {}
  BY <1>1, <1>2 DEF AccountInv
<1>4. ASSUME NEW q \in Requests, q # r, pc'[q] # "idle" PROVE AccountOf(q)'
  <2>1. pc'[q] = pc[q] /\ tx'[q] = tx[q] /\ job'[q] = job[q]
    BY <1>4 DEF OnlyMoves
  <2>2. AccountOf(q) /\ SessionInv(q) /\ Company(q) \in Companies /\ pc[q] # "idle"
    BY <1>4, <2>1, VisibleType DEF AccountInv, ChainInv
  <2>3. CASE sub'[Company(q)] = sub[Company(q)] /\ ledger'[Company(q)] = ledger[Company(q)]
    BY <2>1, <2>2, <2>3, AccountQuiet
  <2>4. CASE ~(sub'[Company(q)] = sub[Company(q)] /\ ledger'[Company(q)] = ledger[Company(q)])
    <3>1. Company(q) = d
      BY <1>2, <2>2, <2>4
    <3>2. tx[r].rows # {} \/ tx[r].written # None
      BY <1>2, <2>4, <3>1 DEF VisibleSub, VisibleRows
    <3>3. rowLock[d] = r
      BY <1>1, <3>2 DEF SessionInv
    <3>4. tx[q].rows = {} /\ tx[q].written = None /\ pc[q] \notin {"read", "flush"}
      BY <1>4, <2>2, <3>1, <3>3 DEF SessionInv
    <3>5. VisibleSub(q) # None \/ pc[q] \in {"subscribe", "insert", "done"}
      BY <2>2 DEF SessionInv
    <3>6. pc[q] = "plan" => sub'[Company(q)] = sub[Company(q)]
      <4> SUFFICES ASSUME pc[q] = "plan" PROVE sub'[d] = sub[d]
        BY <3>1
      <4>1. sub[d] # None
        BY <3>1, <3>4, <3>5 DEF VisibleSub
      <4>2. Kind(r) # "plan"
        BY <1>1, <1>4, <2>2, <3>1 DEF AccountOf, PlanChangesAlone, Kind, Company
      <4>3. tx[r].written = None
        BY <1>1, <4>1, <4>2 DEF AccountOf
      <4>4. QED
        BY <1>2, <4>3 DEF VisibleSub
    <3>7. QED
      BY <1>1, <1>2, <2>1, <2>2, <3>1, <3>4, <3>5, <3>6, AccountOvertaken
  <2>5. QED
    BY <2>3, <2>4
<1>5. QED
  BY <1>3, <1>4 DEF AccountInv

\* Every step keeps the accounts.
LEMMA AccountNext ==
    ASSUME GrantsAreProvisioned, OneClock, PlanChangesAlone,
           TypeInv, TypeInv', ChainInv, AccountInv, [Next]_vars
    PROVE  AccountInv'
<1> USE CreditsAssumption DEF NoneIsNeutral
<1>1. CASE UNCHANGED vars
  <2>1. \A r \in Requests : pc[r] # "idle" => AccountOf(r)'
    BY <1>1, AccountQuiet DEF vars, AccountInv
  <2>2. QED
    BY <1>1, <2>1 DEF vars, AccountInv
<1>2. ASSUME NEW r \in Requests, Step(r) \/ Crash(r), pc[r] # "idle"
      PROVE  /\ OnlyMoves(r) /\ SessionInv(r) /\ AccountOf(r) /\ tx[r] \in Sessions
             /\ Company(r) \in Companies /\ VisibleBalance(r) \in Nat /\ job[r] \in Jobs
             /\ OpenPlan(Company(r)) \in Plans /\ OpenBalance(Company(r)) \in Nat
  BY <1>2, OnlyOneMoves, SessionType, VisibleType, OpenType DEF ChainInv, AccountInv, TypeInv
<1>3. ASSUME NEW r \in Requests, Start(r) PROVE AccountInv'
  <2>1. OnlyMoves(r)
    BY <1>3, OnlyOneMoves
  <2>2. PICK j \in Workload[r] :
          /\ job' = [job EXCEPT ![r] = j]
          /\ \/ /\ j.kind = "grant"
                /\ SetSession(r, [Fresh EXCEPT !.amount = j.amount, !.reason = "manual_grant"])
                /\ Goto(r, "lock")
             \/ /\ j.kind # "grant"
                /\ SetSession(r, Fresh)
                /\ Goto(r, "subscribe")
    BY <1>3 DEF Start
  <2>3. job'[r] = j /\ j \in Jobs /\ sub' = sub /\ ledger' = ledger
    BY <1>3, <2>2 DEF WorkloadIsJobs, Start, store, TypeInv, TypeOK
  <2>4. Company(r)' = j.company /\ Kind(r)' = j.kind /\ j.company \in Companies
    BY <2>3 DEF Company, Kind, Jobs
  <2>5. CASE j.kind = "grant"
    <3>1. /\ tx'[r] = [Fresh EXCEPT !.amount = j.amount, !.reason = "manual_grant"]
          /\ pc'[r] = "lock"
      BY <2>2, <2>5 DEF SetSession, Goto, TypeInv, TypeOK
    <3>2. /\ tx'[r].rows = {} /\ tx'[r].written = None /\ tx'[r].amount = j.amount
          /\ tx'[r].reason = "manual_grant"
      BY <3>1 DEF Fresh
    <3>3. sub[j.company] # None
      BY <2>4, <2>5 DEF GrantsAreProvisioned, ChainInv
    <3>4. Offers(r, 0)'
      BY <2>3, <2>4, <3>2, <3>3, OpenType
         DEF Offers, VisibleSub, VisibleRows, VisibleBalance, OpenPlan, OpenBalance
    <3>5. AccountOf(r)'
      BY <2>3, <2>4, <2>5, <3>1, <3>2, <3>4 DEF AccountOf, Moves
    <3>6. QED
      BY <2>1, <2>3, <3>5, AccountKept
  <2>6. CASE j.kind # "grant"
    <3>1. tx'[r] = Fresh /\ pc'[r] = "subscribe"
      BY <2>2, <2>6 DEF SetSession, Goto, TypeInv, TypeOK
    <3>2. AccountOf(r)'
      BY <2>3, <2>4, <2>6, <3>1 DEF AccountOf, Fresh
    <3>3. QED
      BY <2>1, <2>3, <3>2, AccountKept
  <2>7. QED
    BY <2>5, <2>6
\* A step that changes no table, no row and no plan of r leaves its view alone.
<1>4. ASSUME NEW r \in Requests, job' = job, sub' = sub, ledger' = ledger,
             tx'[r].rows = tx[r].rows, tx'[r].written = tx[r].written
      PROVE  /\ Company(r)' = Company(r) /\ Kind(r)' = Kind(r) /\ Target(r)' = Target(r)
             /\ Cost(r)' = Cost(r)
             /\ VisibleSub(r)' = VisibleSub(r) /\ VisibleBalance(r)' = VisibleBalance(r)
             /\ OpenPlan(Company(r))' = OpenPlan(Company(r))
             /\ OpenBalance(Company(r))' = OpenBalance(Company(r))
             /\ PlanSet(r)' = PlanSet(r)
             /\ \A d : Offers(r, d)' = Offers(r, d)
  <2>1. /\ Company(r)' = Company(r) /\ Kind(r)' = Kind(r) /\ Target(r)' = Target(r)
        /\ Cost(r)' = Cost(r)
    BY <1>4 DEF Company, Kind, Target, Cost
  <2>2. /\ VisibleSub(r)' = VisibleSub(r) /\ VisibleBalance(r)' = VisibleBalance(r)
        /\ OpenPlan(Company(r))' = OpenPlan(Company(r))
        /\ OpenBalance(Company(r))' = OpenBalance(Company(r))
    BY <1>4, <2>1 DEF VisibleSub, VisibleRows, VisibleBalance, OpenPlan, OpenBalance
  <2>3. QED
    BY <1>4, <2>1, <2>2 DEF PlanSet, Offers
<1>5. ASSUME NEW r \in Requests, GetSubscription(r) PROVE AccountInv'
  <2>1. /\ pc[r] = "subscribe" /\ UNCHANGED <<store, clock, job, result, resp>>
        /\ tx'[r] = [tx[r] EXCEPT !.plan = VisibleSub(r)]
        /\ pc'[r] = IF VisibleSub(r) = None THEN "insert" ELSE Subscribed(r)
    BY <1>5 DEF GetSubscription, SetSession, Goto, TypeInv, TypeOK
  <2>2. OnlyMoves(r) /\ AccountOf(r) /\ tx[r] \in Sessions /\ OpenBalance(Company(r)) \in Nat
        /\ OpenPlan(Company(r)) \in Plans
    BY <1>2, <1>5, <2>1 DEF Step
  <2>3. /\ tx'[r].rows = tx[r].rows /\ tx'[r].written = tx[r].written
        /\ tx'[r].reason = tx[r].reason /\ tx'[r].amount = tx[r].amount
        /\ tx'[r].plan = VisibleSub(r)
    BY <2>1, <2>2 DEF Sessions
  <2>4. CASE Kind(r) # "grant" /\ tx[r].rows = {} /\ tx[r].written = None
    <3>1. VisibleSub(r) # None => Offers(r, 0) /\ OpenPlan(Company(r)) = VisibleSub(r)
      BY <2>1, <2>4, SeesTables DEF VisibleSub, Offers
    <3>2. /\ Kind(r) = "plan" => Subscribed(r) = "plan"
          /\ Kind(r) \in PaidKinds => Subscribed(r) = "check"
          /\ Kind(r) \notin PaidKinds \cup {"plan"} => Subscribed(r) = "commit"
      BY DEF Subscribed, PaidKinds, ChargeWithCommit, CommitThenCharge, ChargeThenWork
    <3>3. 0 \in Deltas
      BY DEF Deltas
    <3>4. AccountOf(r)'
      BY <1>4, <2>1, <2>2, <2>3, <2>4, <3>1, <3>2, <3>3 DEF AccountOf, store
    <3>5. QED
      BY <2>1, <2>2, <3>4, AccountKept DEF store
  <2>5. CASE Kind(r) = "grant" /\ Offers(r, job[r].amount)
    <3>1. VisibleSub(r) # None /\ Subscribed(r) = "commit"
      BY <2>2, <2>5 DEF Offers, Plans, Subscribed, PaidKinds, ChargeWithCommit,
                        CommitThenCharge, ChargeThenWork
    <3>2. job[r].amount \in Deltas
      BY <2>2, <2>5 DEF AccountOf, Deltas, Kind
    <3>3. AccountOf(r)'
      BY <1>4, <2>1, <2>2, <2>3, <2>5, <3>1, <3>2 DEF AccountOf, store
    <3>4. QED
      BY <2>1, <2>2, <3>3, AccountKept DEF store
  <2>6. QED
    BY <2>1, <2>2, <2>4, <2>5 DEF AccountOf
<1>6. ASSUME NEW r \in Requests, InsertSubscription(r) PROVE AccountInv'
  <2>1. /\ pc[r] = "insert" /\ UNCHANGED <<sub, ledger, clock, job, result, resp>>
        /\ sub[Company(r)] = None /\ pc'[r] = "lock"
        /\ tx'[r] = [tx[r] EXCEPT !.plan = "free", !.written = "free",
                                  !.amount = monthly_credits("free"),
                                  !.reason = "subscription_grant"]
    BY <1>6 DEF InsertSubscription, SetSession, Goto, TypeInv, TypeOK
  <2>2. OnlyMoves(r) /\ AccountOf(r) /\ tx[r] \in Sessions
    BY <1>2, <1>6, <2>1 DEF Step
  <2>3. /\ tx'[r].rows = tx[r].rows /\ tx'[r].written = "free" /\ tx'[r].plan = "free"
        /\ tx'[r].amount = monthly_credits("free") /\ tx'[r].reason = "subscription_grant"
    BY <2>1, <2>2 DEF Sessions
  <2>4. Kind(r) # "grant" /\ tx[r].rows = {}
    BY <2>1, <2>2 DEF AccountOf
  <2>5. Company(r)' = Company(r) /\ Kind(r)' = Kind(r)
    BY <2>1 DEF Company, Kind
  <2>6. AccountOf(r)'
    BY <2>1, <2>2, <2>3, <2>4, <2>5 DEF AccountOf, Moves
  <2>7. QED
    BY <2>1, <2>2, <2>6, AccountKept
<1>7. ASSUME NEW r \in Requests, InsertConflict(r) PROVE AccountInv'
  <2>1. pc[r] = "insert" /\ sub[Company(r)] # None
    BY <1>7 DEF InsertConflict
  <2>2. OnlyMoves(r) /\ AccountOf(r)
    BY <1>2, <1>7, <2>1 DEF Step
  <2>3. CASE Fail(r, "error")
    BY <2>1, <2>2, <2>3, AccountFail
  <2>4. CASE /\ Kind(r) = "view" /\ Rollback(r)
             /\ SetSession(r, [Fresh EXCEPT !.plan = sub[Company(r)]])
             /\ Goto(r, "commit") /\ UNCHANGED <<clock, job, result, resp>>
    <3>1. /\ tx'[r].rows = {} /\ tx'[r].written = None /\ pc'[r] = "commit"
          /\ sub' = sub /\ ledger' = ledger /\ job' = job
      BY <2>4 DEF SetSession, Goto, Rollback, Fresh, TypeInv, TypeOK
    <3>2. Company(r)' = Company(r) /\ Kind(r)' = Kind(r) /\ Company(r) \in Companies
      BY <2>1, <3>1, VisibleType DEF Company, Kind
    <3>3. Offers(r, 0)'
      BY <2>1, <3>1, <3>2, OpenType
         DEF Offers, VisibleSub, VisibleRows, VisibleBalance, OpenPlan, OpenBalance
    <3>4. 0 \in Deltas
      BY DEF Deltas
    <3>5. AccountOf(r)'
      BY <2>2, <3>1, <3>2, <3>3, <3>4 DEF AccountOf
    <3>6. QED
      BY <2>2, <3>1, <3>5, AccountKept
  <2>5. QED
    BY <1>7, <2>3, <2>4 DEF InsertConflict
<1>8. ASSUME NEW r \in Requests, LockSubscription(r) \/ ReadBalance(r) PROVE AccountInv'
  <2>1. /\ pc[r] \in {"lock", "read"} /\ pc'[r] \in {"read", "flush"}
        /\ UNCHANGED <<sub, ledger, job>>
        /\ \/ tx'[r] = tx[r]
           \/ tx'[r] = [tx[r] EXCEPT !.seen = VisibleBalance(r)]
    BY <1>8 DEF LockSubscription, ReadBalance, SetSession, Goto, store, TypeInv, TypeOK
  <2>2. OnlyMoves(r) /\ AccountOf(r) /\ tx[r] \in Sessions
    BY <1>2, <1>8, <2>1 DEF Step
  <2>3. /\ tx'[r].rows = tx[r].rows /\ tx'[r].written = tx[r].written
        /\ tx'[r].reason = tx[r].reason /\ tx'[r].amount = tx[r].amount
        /\ tx'[r].plan = tx[r].plan
    BY <2>1, <2>2 DEF Sessions
  <2>4. Moves(r)
    BY <2>1, <2>2 DEF AccountOf
  <2>5. Moves(r)'
    BY <1>4, <2>1, <2>3, <2>4 DEF Moves
  <2>6. AccountOf(r)'
    BY <1>4, <2>1, <2>2, <2>3, <2>5 DEF AccountOf
  <2>7. QED
    BY <2>1, <2>2, <2>6, AccountKept

<1>9. ASSUME NEW r \in Requests, FlushRow(r) PROVE AccountInv'
  <2>1. /\ pc[r] = "flush" /\ UNCHANGED <<store, job, result, resp>>
        /\ pc'[r] = CASE tx[r].reason = "subscription_grant" -> Subscribed(r)
                      [] tx[r].reason = "manual_grant"       -> "subscribe"
                      [] OTHER                               -> "commit"
    BY <1>9 DEF FlushRow, Goto, TypeInv, TypeOK
  <2>2. /\ OnlyMoves(r) /\ SessionInv(r) /\ AccountOf(r) /\ tx[r] \in Sessions /\ Moves(r)
        /\ Company(r) \in Companies /\ VisibleBalance(r) \in Nat /\ job[r] \in Jobs
        /\ OpenPlan(Company(r)) \in Plans /\ OpenBalance(Company(r)) \in Nat
    BY <1>2, <1>9, <2>1 DEF Step, AccountOf
  <2> DEFINE e == NextRow(r, 0)
  <2>3. tx'[r] = [tx[r] EXCEPT !.rows = tx[r].rows \cup {e}]
    BY <1>9 DEF FlushRow, OneClock, SetSession, TypeInv, TypeOK
  <2>4. e \in LedgerRows
    BY <2>1, NextRowType DEF OneClock
  <2>5. e.at = clock /\ e.balance_after = VisibleBalance(r) + tx[r].amount
    BY <2>1, <2>2, KeptType DEF NextRow, SessionInv
  <2> HIDE DEF e
  <2>6. /\ tx'[r].rows = tx[r].rows \cup {e} /\ tx'[r].written = tx[r].written
        /\ tx'[r].reason = tx[r].reason /\ tx'[r].amount = tx[r].amount
        /\ tx'[r].plan = tx[r].plan
    BY <2>2, <2>3 DEF Sessions
  <2>7. /\ Company(r)' = Company(r) /\ Kind(r)' = Kind(r) /\ Target(r)' = Target(r)
        /\ VisibleSub(r)' = VisibleSub(r) /\ PlanSet(r)' = PlanSet(r)
        /\ OpenPlan(Company(r))' = OpenPlan(Company(r))
        /\ OpenBalance(Company(r))' = OpenBalance(Company(r))
    BY <2>1, <2>6 DEF Company, Kind, Target, VisibleSub, PlanSet, OpenPlan, OpenBalance, store
  <2>8. VisibleBalance(r)' = VisibleBalance(r) + tx[r].amount
    <3>1. VisibleRows(r)' = VisibleRows(r) \cup {e}
      BY <2>1, <2>6, <2>7 DEF VisibleRows, store
    <3>2. VisibleRows(r) \in SUBSET LedgerRows /\ \A f \in VisibleRows(r) : f.at < e.at
      BY <2>1, <2>2, <2>5, VisibleType DEF SessionInv, WellFormed
    <3>3. get_credit_balance(VisibleRows(r) \cup {e}) = e.balance_after
      BY <2>4, <3>2, NewestDecides
    <3>4. QED
      BY <2>5, <3>1, <3>3 DEF VisibleBalance
  <2>9. tx[r].amount \in Int
    BY <2>2 DEF Sessions
  <2>10. tx[r].reason \in {"subscription_grant", "manual_grant", "usage", "plan_upgrade",
                           "plan_downgrade_adjustment"}
    BY <2>2 DEF Moves
  <2>11. CASE tx[r].reason = "subscription_grant"
    <3>1. /\ Kind(r) # "grant" /\ tx[r].rows = {} /\ tx[r].written = "free"
          /\ sub[Company(r)] = None /\ tx[r].amount = monthly_credits("free")
          /\ tx[r].plan = "free" /\ pc'[r] = Subscribed(r)
      BY <2>1, <2>2, <2>11 DEF Moves
    <3>2. VisibleBalance(r) = 0
      BY <2>2, <3>1 DEF AccountInv, VisibleBalance, VisibleRows, get_credit_balance
    <3>3. /\ VisibleSub(r) = "free" /\ OpenPlan(Company(r)) = "free"
          /\ OpenBalance(Company(r)) = monthly_credits("free")
      BY <3>1 DEF VisibleSub, OpenPlan, OpenBalance, Plans
    <3>4. Offers(r, 0)'
      BY <2>2, <2>7, <2>8, <3>1, <3>2, <3>3 DEF Offers
    <3>5. /\ Subscribed(r) = "plan" => Kind(r) = "plan"
          /\ Subscribed(r) = "check" => Kind(r) \in PaidKinds
          /\ Subscribed(r) \in {"plan", "check", "commit"}
      BY DEF Subscribed
    <3>6. 0 \in Deltas
      BY DEF Deltas
    <3>7. AccountOf(r)'
      BY <2>1, <2>2, <2>6, <2>7, <3>1, <3>3, <3>4, <3>5, <3>6 DEF AccountOf, store
    <3>8. QED
      BY <2>1, <2>2, <3>7, AccountKept DEF store
  <2>12. CASE tx[r].reason = "manual_grant"
    <3>1. /\ Kind(r) = "grant" /\ Offers(r, 0) /\ tx[r].amount = job[r].amount
          /\ pc'[r] = "subscribe"
      BY <2>1, <2>2, <2>12 DEF Moves
    <3>2. Offers(r, job[r].amount)'
      BY <2>1, <2>2, <2>7, <2>8, <2>9, <3>1 DEF Offers
    <3>3. tx'[r].rows # {}
      BY <2>6
    <3>4. AccountOf(r)'
      BY <2>1, <2>2, <2>6, <2>7, <3>1, <3>2, <3>3 DEF AccountOf, store
    <3>5. QED
      BY <2>1, <2>2, <3>4, AccountKept DEF store
  <2>13. CASE tx[r].reason = "usage"
    <3>1. /\ Offers(r, 0) /\ Kind(r) \in PaidKinds /\ tx[r].amount = -Cost(r)
          /\ pc'[r] = "commit"
      BY <2>1, <2>2, <2>13 DEF Moves
    <3>2. Offers(r, tx[r].amount)'
      BY <2>2, <2>7, <2>8, <2>9, <2>6, <3>1 DEF Offers
    <3>3. tx'[r].amount \in Deltas'
      BY <2>6, <3>1 DEF Deltas, Cost
    <3>4. \E d \in Deltas' : Offers(r, d)'
      BY <2>6, <3>2, <3>3
    <3>5. AccountOf(r)'
      BY <2>1, <2>2, <2>6, <2>7, <3>1, <3>4 DEF AccountOf, store
    <3>6. QED
      BY <2>1, <2>2, <3>5, AccountKept DEF store
  <2>14. CASE tx[r].reason = "plan_upgrade"
    <3>1. /\ PlanSet(r) /\ VisibleBalance(r) = OpenBalance(Company(r)) /\ tx[r].amount > 0
          /\ tx[r].amount = monthly_credits(Target(r)) - monthly_credits(OpenPlan(Company(r)))
          /\ pc'[r] = "commit"
      BY <2>1, <2>2, <2>14 DEF Moves
    <3>2. OffersUpgrade(r)'
      BY <2>7, <2>8, <3>1 DEF OffersUpgrade
    <3>3. AccountOf(r)'
      BY <2>1, <2>2, <2>6, <2>7, <3>1, <3>2 DEF AccountOf, store
    <3>4. QED
      BY <2>1, <2>2, <3>3, AccountKept DEF store
  <2>15. CASE tx[r].reason = "plan_downgrade_adjustment"
    <3>1. /\ PlanSet(r) /\ VisibleBalance(r) = OpenBalance(Company(r)) /\ tx[r].amount < 0
          /\ tx[r].amount = monthly_credits(Target(r)) - OpenBalance(Company(r))
          /\ monthly_credits(Target(r)) < monthly_credits(OpenPlan(Company(r)))
          /\ pc'[r] = "commit"
      BY <2>1, <2>2, <2>15 DEF Moves
    <3>2. OffersDowngrade(r)'
      BY <2>2, <2>7, <2>8, <3>1, PricesAreNat DEF OffersDowngrade
    <3>3. AccountOf(r)'
      BY <2>1, <2>2, <2>6, <2>7, <3>1, <3>2 DEF AccountOf, store
    <3>4. QED
      BY <2>1, <2>2, <3>3, AccountKept DEF store
  <2>16. QED
    BY <2>10, <2>11, <2>12, <2>13, <2>14, <2>15
<1>10. ASSUME NEW r \in Requests, KeepPlan(r) PROVE AccountInv'
  <2>1. pc[r] = "plan" /\ pc'[r] = "commit" /\ UNCHANGED <<store, job, tx>>
    BY <1>10 DEF KeepPlan, Goto, TypeInv, TypeOK
  <2>2. OnlyMoves(r) /\ AccountOf(r)
    BY <1>2, <1>10, <2>1 DEF Step
  <2>3. 0 \in Deltas
    BY DEF Deltas
  <2>4. AccountOf(r)'
    BY <1>4, <2>1, <2>2, <2>3 DEF AccountOf, store
  <2>5. QED
    BY <2>1, <2>2, <2>4, AccountKept DEF store
<1>11. ASSUME NEW r \in Requests, SetPlan(r) PROVE AccountInv'
  <2> DEFINE delta == monthly_credits(job[r].target) - monthly_credits(tx[r].plan)
  <2>1. /\ pc[r] = "plan" /\ UNCHANGED <<sub, ledger, job>>
        /\ tx[r].plan # job[r].target
        /\ tx'[r] = [tx[r] EXCEPT !.plan = job[r].target, !.written = job[r].target,
                                  !.amount = delta, !.reason = "plan_upgrade"]
        /\ pc'[r] = IF delta > 0 THEN "lock" ELSE "cap"
    BY <1>11 DEF SetPlan, SetSession, Goto, TypeInv, TypeOK
  <2>2. /\ OnlyMoves(r) /\ AccountOf(r) /\ tx[r] \in Sessions /\ job[r] \in Jobs
        /\ OpenPlan(Company(r)) \in Plans /\ OpenBalance(Company(r)) \in Nat
    BY <1>2, <1>11, <2>1 DEF Step
  <2>3. delta \in Int /\ tx[r].plan = OpenPlan(Company(r)) /\ Kind(r) = "plan" /\ Offers(r, 0)
    BY <2>1, <2>2, PricesAreNat DEF AccountOf
  <2>4. delta = monthly_credits(Target(r)) - monthly_credits(OpenPlan(Company(r)))
    BY <2>3 DEF Target
  <2>5. delta <= 0 => monthly_credits(Target(r)) < monthly_credits(OpenPlan(Company(r)))
    <3>1. Target(r) \in Plans /\ Target(r) # OpenPlan(Company(r))
      BY <2>1, <2>2, <2>3 DEF Target, Jobs
    <3>2. monthly_credits(Target(r)) # monthly_credits(OpenPlan(Company(r)))
      BY <2>2, <3>1, PlansDiffer
    <3>3. QED
      BY <2>4, <3>2, PricesAreNat
  <2> HIDE DEF delta
  <2>6. /\ tx'[r].rows = tx[r].rows /\ tx'[r].written = job[r].target
        /\ tx'[r].amount = delta /\ tx'[r].reason = "plan_upgrade"
    BY <2>1, <2>2, <2>3 DEF Sessions
  <2>7. /\ Company(r)' = Company(r) /\ Kind(r)' = Kind(r) /\ Target(r)' = Target(r)
        /\ OpenPlan(Company(r))' = OpenPlan(Company(r))
        /\ OpenBalance(Company(r))' = OpenBalance(Company(r))
        /\ VisibleBalance(r)' = VisibleBalance(r)
    BY <2>1, <2>6 DEF Company, Kind, Target, VisibleRows, VisibleBalance, OpenPlan, OpenBalance
  <2>8. PlanSet(r)' /\ VisibleBalance(r)' = OpenBalance(Company(r))'
    BY <2>1, <2>2, <2>3, <2>6, <2>7 DEF PlanSet, Target, Offers
  <2>9. AccountOf(r)'
    <3>1. CASE delta > 0
      BY <2>1, <2>2, <2>3, <2>4, <2>6, <2>7, <2>8, <3>1 DEF AccountOf, Moves
    <3>2. CASE ~(delta > 0)
      BY <2>1, <2>2, <2>3, <2>5, <2>6, <2>7, <2>8, <3>2 DEF AccountOf
    <3>3. QED
      BY <3>1, <3>2
  <2>10. QED
    BY <2>1, <2>2, <2>9, AccountKept
<1>12. ASSUME NEW r \in Requests, CapBalance(r) PROVE AccountInv'
  <2> DEFINE excess == VisibleBalance(r) - monthly_credits(job[r].target)
  <2>1. /\ pc[r] = "cap" /\ UNCHANGED <<sub, ledger, job>>
        /\ \/ /\ excess > 0 /\ pc'[r] = "lock"
              /\ tx'[r] = [tx[r] EXCEPT !.amount = -excess, !.reason = "plan_downgrade_adjustment"]
           \/ excess <= 0 /\ tx' = tx /\ pc'[r] = "commit"
    BY <1>12 DEF CapBalance, SetSession, Goto, store, TypeInv, TypeOK
  <2>2. /\ OnlyMoves(r) /\ AccountOf(r) /\ tx[r] \in Sessions
        /\ OpenPlan(Company(r)) \in Plans /\ OpenBalance(Company(r)) \in Nat
    BY <1>2, <1>12, <2>1 DEF Step
  <2>3. /\ PlanSet(r) /\ VisibleBalance(r) = OpenBalance(Company(r))
        /\ monthly_credits(Target(r)) < monthly_credits(OpenPlan(Company(r)))
    BY <2>1, <2>2 DEF AccountOf
  <2>4. excess \in Int /\ excess = OpenBalance(Company(r)) - monthly_credits(Target(r))
    BY <2>2, <2>3, PricesAreNat DEF Target
  <2> HIDE DEF excess
  <2>5. CASE excess > 0
    <3>1. pc'[r] = "lock" /\ tx'[r] = [tx[r] EXCEPT !.amount = -excess,
                                                   !.reason = "plan_downgrade_adjustment"]
      BY <2>1, <2>4, <2>5
    <3>2. /\ tx'[r].rows = tx[r].rows /\ tx'[r].written = tx[r].written
          /\ tx'[r].amount = -excess /\ tx'[r].reason = "plan_downgrade_adjustment"
      BY <2>2, <3>1 DEF Sessions
    <3>3. Moves(r)'
      BY <1>4, <2>1, <2>2, <2>3, <2>4, <2>5, <3>2, PricesAreNat DEF Moves
    <3>4. AccountOf(r)'
      BY <1>4, <2>1, <2>2, <3>1, <3>2, <3>3 DEF AccountOf
    <3>5. QED
      BY <2>1, <2>2, <3>4, AccountKept
  <2>6. CASE excess <= 0
    <3>1. pc'[r] = "commit" /\ tx' = tx
      BY <2>1, <2>4, <2>6
    <3>2. OffersDowngrade(r)'
      BY <1>4, <2>1, <2>2, <2>3, <2>4, <2>6, <3>1, PricesAreNat DEF OffersDowngrade
    <3>3. AccountOf(r)'
      BY <1>4, <2>1, <2>2, <3>1, <3>2 DEF AccountOf
    <3>4. QED
      BY <2>1, <2>2, <3>3, AccountKept
  <2>7. QED
    BY <2>1, <2>5, <2>6
<1>13. ASSUME NEW r \in Requests, CheckBalance(r) PROVE AccountInv'
  <2>1. /\ pc[r] = "check" /\ UNCHANGED <<store, job>> /\ tx'[r] = Owe(r)
        /\ pc'[r] \in {"lock", "mark", "work"}
    BY <1>13 DEF CheckBalance, SetSession, Goto, TypeInv, TypeOK
  <2>2. OnlyMoves(r) /\ AccountOf(r) /\ tx[r] \in Sessions
    BY <1>2, <1>13, <2>1 DEF Step
  <2>3. /\ tx'[r].rows = tx[r].rows /\ tx'[r].written = tx[r].written
        /\ tx'[r].amount = -Cost(r) /\ tx'[r].reason = "usage"
    BY <2>1, <2>2 DEF Owe, Sessions
  <2>4. Kind(r) \in PaidKinds /\ Offers(r, 0)
    BY <2>1, <2>2 DEF AccountOf
  <2>5. Kind(r) # "plan"
    BY <2>4 DEF PaidKinds, ChargeWithCommit, CommitThenCharge, ChargeThenWork
  <2>6. AccountOf(r)'
    BY <1>4, <2>1, <2>2, <2>3, <2>4, <2>5 DEF AccountOf, Moves, store
  <2>7. QED
    BY <2>1, <2>2, <2>6, AccountKept DEF store
<1>14. ASSUME NEW r \in Requests, DraftResult(r) \/ Render(r) PROVE AccountInv'
  <2>1. /\ UNCHANGED <<store, job, tx>>
        /\ \/ pc[r] = "work" /\ pc'[r] = "lock"
           \/ pc[r] = "render" /\ pc'[r] = "done"
    BY <1>14 DEF DraftResult, Render, Goto, TypeInv, TypeOK
  <2>2. OnlyMoves(r) /\ AccountOf(r)
    BY <1>2, <1>14, <2>1 DEF Step
  <2>3. AccountOf(r)'
    BY <1>4, <2>1, <2>2 DEF AccountOf, Moves, store
  <2>4. QED
    BY <2>1, <2>2, <2>3, AccountKept DEF store
<1>15. ASSUME NEW r \in Requests,
              MarkExtracting(r) \/ StoreResult(r) \/ Commit(r) \/ CommitCharge(r)
       PROVE  AccountInv'
  <2>1. /\ Publish(r) /\ job' = job /\ pc[r] \in {"mark", "work", "commit"}
        /\ pc[r] = "mark" => pc'[r] = "work"
        /\ pc[r] = "work" => pc'[r] = "lock"
        /\ pc[r] = "commit" => pc'[r] \in {"done", "render"}
    BY <1>15 DEF MarkExtracting, StoreResult, Commit, CommitCharge, Goto, TypeInv, TypeOK
  <2>2. /\ OnlyMoves(r) /\ AccountOf(r) /\ tx[r] \in Sessions /\ Company(r) \in Companies
        /\ VisibleBalance(r) \in Nat /\ SessionInv(r)
    BY <1>2, <1>15, <2>1 DEF Step
  <2>3. tx'[r] = [tx[r] EXCEPT !.written = None, !.rows = {}]
    BY <2>1 DEF Publish, SetSession, TypeInv, TypeOK
  <2>4. /\ tx'[r].rows = {} /\ tx'[r].written = None
        /\ tx'[r].amount = tx[r].amount /\ tx'[r].reason = tx[r].reason
    BY <2>2, <2>3 DEF Sessions
  <2>5. Company(r)' = Company(r) /\ Kind(r)' = Kind(r) /\ Cost(r)' = Cost(r)
    BY <2>1 DEF Company, Kind, Cost
  <2>6. sub'[Company(r)] = VisibleSub(r) /\ ledger'[Company(r)] = VisibleRows(r)
    BY <2>1, <2>2, KeptType DEF Publish
  <2>7. VisibleSub(r) # None
    BY <2>1, <2>2 DEF SessionInv
  <2>8. Offers(r, 0)'
    BY <2>2, <2>4, <2>5, <2>6, <2>7
       DEF Offers, VisibleSub, VisibleRows, VisibleBalance, OpenPlan, OpenBalance
  <2>9. AccountOf(r)'
    BY <2>1, <2>2, <2>4, <2>5, <2>8 DEF AccountOf, Moves
  <2>10. QED
    BY <2>1, <2>2, <2>9, AccountPublish
<1>16. ASSUME NEW r \in Requests,
              InsufficientBalance(r) \/ RefuseUnpaid(r) \/ WorkFails(r) \/ Crash(r)
       PROVE  AccountInv'
  <2>1. OnlyMoves(r) /\ pc[r] # "idle" /\ \E a : Fail(r, a)
    BY <1>2, <1>16 DEF InsufficientBalance, RefuseUnpaid, WorkFails, Crash, Step
  <2>2. QED
    BY <2>1, AccountFail
<1>17. QED
  BY <1>1, <1>3, <1>5, <1>6, <1>7, <1>8, <1>9, <1>10, <1>11, <1>12, <1>13, <1>14, <1>15, <1>16
     DEF Next, Step, Quiet

\* The account's own copy of the plans and limits.
LEMMA SameLimits ==
    /\ Account!Plans = Plans
    /\ \A p : Account!monthly_credits(p) = monthly_credits(p)
BY DEF Account!Plans, Plans, Account!monthly_credits, monthly_credits

\* What a request offers when it commits is a step of the account.
LEMMA OfferIsAccountStep ==
    ASSUME TypeInv, ChainInv, AccountInv, NEW r \in Requests, Publish(r),
           pc[r] \in {"mark", "work", "commit"}
    PROVE  Account!Next
<1> DEFINE c == Company(r)
           balances == [d \in Companies |-> get_credit_balance(ledger[d])]
<1>1. /\ c \in Companies /\ AccountOf(r) /\ VisibleBalance(r) \in Nat /\ job[r] \in Jobs
      /\ OpenPlan(c) \in Plans /\ OpenBalance(c) \in Nat
  BY VisibleType, OpenType DEF AccountInv, TypeInv
<1>2. sub' = [sub EXCEPT ![c] = VisibleSub(r)]
  BY DEF Publish
<1>3. balances' = [balances EXCEPT ![c] = VisibleBalance(r)]
  <2>1. ledger' = [ledger EXCEPT ![c] = VisibleRows(r)] /\ DOMAIN ledger = Companies
    BY KeptType DEF Publish
  <2>2. QED
    BY <1>1, <2>1 DEF VisibleBalance
<1>4. Account!OpenPlan(c) = OpenPlan(c) /\ Account!OpenBalance(c) = OpenBalance(c)
  BY <1>1, SameLimits DEF Account!OpenPlan, Account!OpenBalance, OpenPlan, OpenBalance
<1>5. ASSUME NEW d \in Deltas, Offers(r, d) PROVE Account!Next
  <2>1. Account!Transact(c, d)
    BY <1>1, <1>2, <1>3, <1>4, <1>5 DEF Account!Transact, Offers
  <2>2. QED
    BY <1>1, <2>1 DEF Account!Next
<1>6. CASE pc[r] \in {"mark", "work"}
  <2>1. Offers(r, 0) /\ 0 \in Deltas
    BY <1>1, <1>6 DEF AccountOf, Deltas
  <2>2. QED
    BY <1>5, <2>1
<1>7. Target(r) \in Plans /\ (PlanSet(r) => VisibleSub(r) = Target(r))
  BY <1>1, CreditsAssumption DEF Target, PlanSet, VisibleSub, Jobs, NoneIsNeutral
<1>8. ASSUME OffersUpgrade(r) PROVE Account!Next
  <2>1. Account!Upgrade(c, Target(r))
    BY <1>1, <1>2, <1>3, <1>4, <1>7, <1>8, SameLimits DEF Account!Upgrade, OffersUpgrade
  <2>2. QED
    BY <1>1, <1>7, <2>1, SameLimits DEF Account!Next
<1>9. ASSUME OffersDowngrade(r) PROVE Account!Next
  <2>1. Account!Downgrade(c, Target(r))
    BY <1>1, <1>2, <1>3, <1>4, <1>7, <1>9, SameLimits DEF Account!Downgrade, OffersDowngrade
  <2>2. QED
    BY <1>1, <1>7, <2>1, SameLimits DEF Account!Next
<1>10. CASE pc[r] = "commit"
  BY <1>1, <1>5, <1>8, <1>9, <1>10 DEF AccountOf
<1>11. QED
  BY <1>6, <1>10

\* Committed state behaves as CreditAccount promises, for any companies,
\* requests and workload in which no two requests change one company's plan:
\* every commit is one opening, movement or change of plan, from the balance
\* and the plan that are committed at that moment.
THEOREM ImplementsAccount ==
    ASSUME GrantsAreProvisioned, OneClock, PlanChangesAlone
    PROVE  Spec => AccountSpec
<1>1. Init => TypeInv /\ ChainInv /\ AccountInv
  BY TypeInit, ChainInit, AccountInit
<1>2. TypeInv /\ ChainInv /\ AccountInv /\ [Next]_vars => (TypeInv /\ ChainInv /\ AccountInv)'
  BY TypeNext, ChainNext, AccountNext
<1>3. Init => Account!Init
  <2> SUFFICES ASSUME Init PROVE Account!Init
    OBVIOUS
  <2>1. TypeInv /\ AccountInv
    BY <1>1
  <2>2. \A c \in Companies : ledger[c] \in SUBSET LedgerRows /\ HasLatest(ledger[c])
    BY <2>1, KeptType
  <2>3. \A c \in Companies : get_credit_balance(ledger[c]) \in Nat
    BY <2>2, BalanceIsNat
  <2>4. \A c \in Companies : sub[c] = None => get_credit_balance(ledger[c]) = 0
    BY <2>1 DEF AccountInv, get_credit_balance
  <2>5. QED
    BY <2>1, <2>3, <2>4, KeptType, SameLimits DEF Account!Init
<1>4. TypeInv /\ ChainInv /\ AccountInv /\ [Next]_vars => [Account!Next]_(Account!vars)
  <2> SUFFICES ASSUME TypeInv, ChainInv, AccountInv, [Next]_vars
               PROVE  Account!Next \/ (sub' = sub /\ ledger' = ledger)
    BY DEF Account!vars
  <2>1. CASE UNCHANGED vars
    BY <2>1 DEF vars
  <2>2. ASSUME NEW r \in Requests, Start(r) \/ Step(r) \/ Crash(r)
        PROVE  Account!Next \/ (sub' = sub /\ ledger' = ledger)
    <3>1. CASE MarkExtracting(r) \/ StoreResult(r) \/ Commit(r) \/ CommitCharge(r)
      BY <3>1, OfferIsAccountStep, SMTT(40) DEF MarkExtracting, StoreResult, Commit, CommitCharge
    <3>2. CASE ~(MarkExtracting(r) \/ StoreResult(r) \/ Commit(r) \/ CommitCharge(r))
      BY <2>2, <3>2 DEF Start, Step, Crash, GetSubscription, InsertSubscription, InsertConflict,
         LockSubscription, ReadBalance, InsufficientBalance, FlushRow, KeepPlan, SetPlan,
         CapBalance, CheckBalance, RefuseUnpaid, DraftResult, WorkFails, Render,
         Fail, Rollback, store
    <3>3. QED
      BY <3>1, <3>2
  <2>3. QED
    BY <2>1, <2>2 DEF Next, Quiet, vars
<1>5. QED
  BY <1>1, <1>2, <1>3, <1>4, PTL DEF Spec, AccountSpec, Account!Spec
=============================================================================
