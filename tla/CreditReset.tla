---------------------------- MODULE CreditReset ----------------------------
(***************************************************************************)
(* The monthly credit reset, one loop in every replica of the service.     *)
(*                                                                         *)
(* A loop wakes up once a day, and on the first of the month takes a       *)
(* Redis lock that expires, then tops every company up to its plan's       *)
(* monthly credits in one transaction with a savepoint per company.        *)
(* Requests go on spending and adding credits and changing plans; what one *)
(* of them does to a company is one step here, which Credits justifies.    *)
(*                                                                         *)
(* Time advances in ticks, and only as far as the replicas keep up with    *)
(* it: none is ever more than Lateness ticks behind its schedule.          *)
(***************************************************************************)
EXTENDS CreditLedger, FiniteSets

CONSTANTS
    Replicas,
    LastCompany,     \* the companies are 1..LastCompany, in the order of their ids
    Unopened,        \* the companies without a subscription at the start
    OpeningBalances, \* the balances that the other companies may start from
    Spending,        \* the amounts that a request may take away
    Incomes,         \* the amounts that a sale or a manual grant may add
    Offered,         \* the plans that a company may change to
    MaxRequests,     \* bound on requests that move credits or change a plan
    Day,             \* ticks per day, CREDIT_RESET_INTERVAL_SECONDS
    DaysPerMonth,
    LockTTL,         \* _LOCK_TTL_CREDIT in ticks
    Spread,          \* how far apart the replicas' daily wake-ups may be
    Lateness,
    Faults,          \* what may go wrong, see KindsOfFault
    MaxFaults,       \* bound on faults, each kind of which strikes once
    Horizon,         \* bound on time
    None

Companies == 1..LastCompany
Months    == 0..(Horizon \div (Day * DaysPerMonth))

\* A replica restarts; it never had a connection to Redis; the connection it
\* had fails; a statement of the reset fails (a deadlock, a lost connection).
\* And, no fault, a request opens the subscription that the reset is opening.
KindsOfFault == {"restart", "no_redis", "redis_error", "sql_error"}
Incidents    == KindsOfFault \cup {"conflict"}

ASSUME CreditResetAssumption ==
    /\ LastCompany \in Nat
    /\ Unopened \subseteq Companies
    /\ OpeningBalances \subseteq Nat \ {0}
    /\ Spending \subseteq Nat \ {0} /\ Incomes \subseteq Nat \ {0}
    /\ Offered \subseteq Plans
    /\ Day \in Nat \ {0} /\ DaysPerMonth \in Nat \ {0}
    /\ LockTTL \in 1..Day
    /\ {MaxRequests, Spread, Lateness, MaxFaults, Horizon} \subseteq Nat
    /\ Faults \subseteq KindsOfFault
    /\ None \notin Replicas \cup Plans /\ None \notin Months

VARIABLES
    now,         \* the time, in ticks
    sub,         \* [Companies -> the plan, or None without a subscription]
    balance,     \* [Companies -> the committed balance]
    subLock,     \* [Companies -> the replica that holds the subscription row, or None]
    redisLock,   \* when the lock carbonscope:lock:credit_reset expires
    wake,        \* [Replicas -> when its sleep ends]
    lastMonth,   \* [Replicas -> last_reset_month, or None]
    pc,          \* [Replicas -> where the loop is]
    at,          \* [Replicas -> the company it is at]
    monthly,     \* [Replicas -> [Companies -> the credits of the plan it has found]]
    topUp,       \* [Replicas -> what it is about to grant]
    tx,          \* [Replicas -> what its session has written and not committed]
    topUps,      \* ghost: [Companies \X Months -> committed monthly_reset rows]
    served,      \* ghost: the <<company, month>> that a committed run has looked after
    credited,    \* ghost: [Replicas -> [Companies -> what requests have added since
                 \*         it read the balance that it tops up]]
    requests,    \* ghost: how many requests have moved credits or changed a plan
    happened     \* ghost: the incidents so far

store == <<sub, balance, subLock>>
found == <<monthly, credited, requests>>
ghost == <<topUps, served>>
vars  == <<now, store, redisLock, wake, lastMonth, pc, at, topUp, tx, found, ghost, happened>>

DayOf(t)   == ((t \div Day) % DaysPerMonth) + 1
MonthOf(t) == t \div (Day * DaysPerMonth)

\* An empty session of a run for month m: subscriptions opened, credits
\* added, companies topped up, looked after, and given up on.
Clean(m) == [month |-> m, opened |-> {}, delta |-> [c \in Companies |-> 0],
             granted |-> {}, done |-> {}, failed |-> {}]

Init ==
    /\ now = 0
    /\ sub = [c \in Companies |-> IF c \in Unopened THEN None ELSE "free"]
    /\ balance \in {b \in [Companies -> {0} \cup OpeningBalances] :
                       \A c \in Companies : b[c] = 0 <=> c \in Unopened}
    /\ subLock = [c \in Companies |-> None]
    /\ redisLock = 0
    /\ wake \in {w \in [Replicas -> 0..(Day - 1)] :
                    \A r, q \in Replicas : w[r] - w[q] <= Spread}
    /\ lastMonth = [r \in Replicas |-> None]
    /\ pc = [r \in Replicas |-> "asleep"]
    /\ at = [r \in Replicas |-> 1]
    /\ monthly = [r \in Replicas |-> [c \in Companies |-> 0]]
    /\ topUp = [r \in Replicas |-> 0]
    /\ tx = [r \in Replicas |-> Clean(0)]
    /\ topUps = [k \in Companies \X Months |-> 0]
    /\ served = {}
    /\ credited = [r \in Replicas |-> [c \in Companies |-> 0]]
    /\ requests = 0
    /\ happened = {}
-----------------------------------------------------------------------------
Goto(r, label)   == pc' = [pc EXCEPT ![r] = label]
SetSession(r, s) == tx' = [tx EXCEPT ![r] = s]
Unlocked(r)      == [c \in Companies |-> IF subLock[c] = r THEN None ELSE subLock[c]]
TakeLock(r)      == /\ subLock[at[r]] \in {None, r}
                    /\ subLock' = [subLock EXCEPT ![at[r]] = r]

VisibleSub(r, c)     == IF c \in tx[r].opened THEN "free" ELSE sub[c]
VisibleBalance(r, c) == balance[c] + tx[r].delta[c]

\* The plan of the company at hand stays as it was loaded.
Finds(r, plan) ==
    monthly' = [monthly EXCEPT ![r] = [monthly[r] EXCEPT ![at[r]] = monthly_credits(plan)]]

\* The balance of the company at hand has been read, and is to be topped up.
FillUpBy(r, n) ==
    /\ topUp' = [topUp EXCEPT ![r] = n]
    /\ credited' = [credited EXCEPT ![r] = [credited[r] EXCEPT ![at[r]] = 0]]
    /\ Goto(r, "grant")

\* The session adds n credits to the company at hand.
Add(s, c, n) == [s EXCEPT !.delta = [s.delta EXCEPT ![c] = @ + n]]

\* The next sleep begins.
Sleep(r) == /\ Goto(r, "asleep")
            /\ wake' = [wake EXCEPT ![r] = now + Day]

\* A fault strikes.
Strike(kind) ==
    /\ kind \in Faults \ happened
    /\ Cardinality(happened \cap KindsOfFault) < MaxFaults
    /\ happened' = happened \cup {kind}

Working(r) == pc[r] \notin {"asleep", "dead"}

\* Time passes, unless a replica would fall too far behind.
Tick ==
    /\ now < Horizon
    /\ \A r \in Replicas : pc[r] = "dead" \/ now < wake[r] + Lateness
    /\ now' = now + 1
    /\ UNCHANGED <<store, redisLock, wake, lastMonth, pc, at, topUp, tx, found, ghost, happened>>
-----------------------------------------------------------------------------
\* The first of the month, in a month that this process has not reset.
Due(r) == DayOf(now) = 1 /\ lastMonth[r] # MonthOf(now)

\* The day is not the first, or the month has been reset.
NotDue(r) ==
    /\ pc[r] = "asleep" /\ now >= wake[r] /\ now < Horizon
    /\ ~Due(r)
    /\ Sleep(r)
    /\ UNCHANGED <<now, store, redisLock, lastMonth, at, topUp, tx, found, ghost, happened>>

Begin(r) ==
    /\ Goto(r, "select")
    /\ at' = [at EXCEPT ![r] = 1]
    /\ SetSession(r, Clean(MonthOf(now)))
    /\ UNCHANGED <<now, store, wake, lastMonth, topUp, found, ghost>>

WakesOnFirst(r) == pc[r] = "asleep" /\ now >= wake[r] /\ now < Horizon /\ Due(r)

\* Wrong on purpose: SET without NX.
AcquireLockAnyway(r) ==
    /\ WakesOnFirst(r)
    /\ redisLock' = now + LockTTL
    /\ Begin(r)
    /\ UNCHANGED happened

\* Wrong on purpose: SET NX without EX.
AcquireLockForEver(r) ==
    /\ WakesOnFirst(r)
    /\ redisLock <= now
    /\ redisLock' = Horizon + Day
    /\ Begin(r)
    /\ UNCHANGED happened

\* _acquire_lock: SET NX EX.
AcquireLock(r) ==
    /\ WakesOnFirst(r)
    /\ redisLock <= now
    /\ redisLock' = now + LockTTL
    /\ Begin(r)
    /\ UNCHANGED happened

LockIsHeld(r) ==
    /\ WakesOnFirst(r)
    /\ redisLock > now
    /\ Sleep(r)
    /\ UNCHANGED <<now, store, redisLock, lastMonth, at, topUp, tx, found, ghost, happened>>

\* _get_redis returns None: single-instance mode.
NoRedis(r) ==
    /\ WakesOnFirst(r)
    /\ Strike("no_redis")
    /\ Begin(r)
    /\ UNCHANGED redisLock

\* An established client raises redis.ConnectionError, which is no OSError:
\* neither _acquire_lock nor the loop catches it, and the task ends.
RedisError(r) ==
    /\ WakesOnFirst(r)
    /\ Strike("redis_error")
    /\ Goto(r, "dead")
    /\ UNCHANGED <<now, store, redisLock, wake, lastMonth, at, topUp, tx, found, ghost>>
-----------------------------------------------------------------------------
\* Each company in the order of ids: get_or_create_subscription,
Select(r) ==
    /\ pc[r] = "select"
    /\ at[r] \in Companies
    /\ \/ /\ VisibleSub(r, at[r]) = None
          /\ Goto(r, "insert")
          /\ UNCHANGED monthly
       \/ /\ VisibleSub(r, at[r]) # None
          /\ Goto(r, "read")
          /\ Finds(r, VisibleSub(r, at[r]))
    /\ UNCHANGED <<now, store, redisLock, wake, lastMonth, at, topUp, tx, credited, requests, ghost,
                   happened>>

InsertSubscription(r) ==
    /\ pc[r] = "insert"
    /\ sub[at[r]] = None
    /\ TakeLock(r)
    /\ SetSession(r, [Add(tx[r], at[r], monthly_credits("free")) EXCEPT !.opened = @ \cup {at[r]}])
    /\ Finds(r, "free")
    /\ Goto(r, "read")
    /\ UNCHANGED <<now, sub, balance, redisLock, wake, lastMonth, at, topUp, credited, requests, ghost,
                   happened>>

\* whose IntegrityError handler rolls the whole session back, the companies
\* before this one included; the SELECT after it is refused, because the
\* savepoint's block has lost its transaction, and the loop goes on.
InsertConflict(r) ==
    /\ pc[r] = "insert"
    /\ sub[at[r]] # None
    /\ happened' = happened \cup {"conflict"}
    /\ subLock' = Unlocked(r)
    /\ SetSession(r, [Clean(tx[r].month) EXCEPT !.failed = tx[r].failed \cup {at[r]}])
    /\ at' = [at EXCEPT ![r] = @ + 1]
    /\ Goto(r, "select")
    /\ UNCHANGED <<now, sub, balance, redisLock, wake, lastMonth, topUp, found, ghost>>

\* Wrong on purpose: the month's credits are added to what is left.
ReadBalanceNever(r) ==
    /\ pc[r] = "read"
    /\ FillUpBy(r, monthly[r][at[r]])
    /\ UNCHANGED <<now, store, redisLock, wake, lastMonth, at, tx, monthly, requests, ghost, happened>>

\* Wrong on purpose: max(0, ...) left out.
ReadBalanceUnclamped(r) ==
    /\ pc[r] = "read"
    /\ FillUpBy(r, monthly[r][at[r]] - VisibleBalance(r, at[r]))
    /\ UNCHANGED <<now, store, redisLock, wake, lastMonth, at, tx, monthly, requests, ghost, happened>>

\* then the balance, without a lock,
ReadBalance(r) ==
    LET missing == monthly[r][at[r]] - VisibleBalance(r, at[r]) IN
    /\ pc[r] = "read"
    /\ \/ /\ missing > 0
          /\ FillUpBy(r, missing)
          /\ UNCHANGED <<at, tx>>
       \/ /\ missing <= 0
          /\ SetSession(r, [tx[r] EXCEPT !.done = @ \cup {at[r]}])
          /\ at' = [at EXCEPT ![r] = @ + 1]
          /\ Goto(r, "select")
          /\ UNCHANGED <<topUp, credited>>
    /\ UNCHANGED <<now, store, redisLock, wake, lastMonth, monthly, requests, ghost, happened>>

\* then grant_credits, which locks the row until the whole run commits.
Grant(r) ==
    /\ pc[r] = "grant"
    /\ TakeLock(r)
    /\ SetSession(r, [Add(tx[r], at[r], topUp[r]) EXCEPT !.granted = @ \cup {at[r]},
                                                         !.done = @ \cup {at[r]}])
    /\ at' = [at EXCEPT ![r] = @ + 1]
    /\ Goto(r, "select")
    /\ UNCHANGED <<now, sub, balance, redisLock, wake, lastMonth, topUp, found, ghost, happened>>

\* A statement fails: the savepoint undoes what was written for this company.
CompanyFails(r) ==
    /\ pc[r] \in {"insert", "read", "grant"}
    /\ Strike("sql_error")
    /\ SetSession(r, [tx[r] EXCEPT !.opened = @ \ {at[r]},
                                   !.delta = [tx[r].delta EXCEPT ![at[r]] = 0],
                                   !.failed = @ \cup {at[r]}])
    /\ subLock' = IF at[r] \in tx[r].opened THEN [subLock EXCEPT ![at[r]] = None] ELSE subLock
    /\ at' = [at EXCEPT ![r] = @ + 1]
    /\ Goto(r, "select")
    /\ UNCHANGED <<now, sub, balance, redisLock, wake, lastMonth, topUp, found, ghost>>

\* A statement outside the savepoints fails, the list of the companies or the
\* commit: the loop logs it and goes to sleep until the next day.
RunFails(r) ==
    /\ pc[r] = "select"
    /\ Strike("sql_error")
    /\ subLock' = Unlocked(r)
    /\ SetSession(r, Clean(0))
    /\ Sleep(r)
    /\ UNCHANGED <<now, sub, balance, redisLock, lastMonth, at, topUp, found, ghost>>

\* The run commits once the companies are exhausted, and remembers the month.
Commit(r) ==
    LET t == tx[r] IN
    /\ pc[r] = "select"
    /\ at[r] > LastCompany
    /\ sub' = [c \in Companies |-> IF c \in t.opened THEN "free" ELSE sub[c]]
    /\ balance' = [c \in Companies |-> balance[c] + t.delta[c]]
    /\ subLock' = Unlocked(r)
    /\ topUps' = [k \in Companies \X Months |->
                     IF k[1] \in t.granted /\ k[2] = t.month THEN topUps[k] + 1 ELSE topUps[k]]
    /\ served' = served \cup {<<c, t.month>> : c \in t.done}
    /\ lastMonth' = [lastMonth EXCEPT ![r] = t.month]
    /\ Sleep(r)
    /\ SetSession(r, Clean(0))
    /\ UNCHANGED <<now, redisLock, at, topUp, found, happened>>
-----------------------------------------------------------------------------
\* The process is killed, loses what is in memory and starts to sleep anew.
Restart(r) ==
    /\ now < Horizon
    /\ Strike("restart")
    /\ subLock' = Unlocked(r)
    /\ lastMonth' = [lastMonth EXCEPT ![r] = None]
    /\ SetSession(r, Clean(0))
    /\ Sleep(r)
    /\ UNCHANGED <<now, sub, balance, redisLock, at, topUp, found, ghost>>

\* A request that moves credits, or changes a plan, has the row to itself.
Request(c) ==
    /\ sub[c] # None /\ subLock[c] = None
    /\ requests < MaxRequests /\ requests' = requests + 1
    /\ UNCHANGED <<now, subLock, redisLock, wake, lastMonth, pc, at, monthly, topUp, tx, ghost, happened>>

\* It spends,
Spend(c) ==
    /\ Request(c)
    /\ \E n \in Spending : /\ balance[c] >= n
                           /\ balance' = [balance EXCEPT ![c] = @ - n]
    /\ UNCHANGED <<sub, credited>>

\* or adds credits: those that the reset has not seen are counted.
Gain(c, n) ==
    /\ balance' = [balance EXCEPT ![c] = @ + n]
    /\ credited' = [r \in Replicas |-> [credited[r] EXCEPT ![c] = @ + n]]

\* A sale on the marketplace, or a grant by hand.
Credit(c) ==
    /\ Request(c)
    /\ \E n \in Incomes : Gain(c, n)
    /\ UNCHANGED sub

\* change_plan: the difference is granted,
Upgrade(c) ==
    /\ Request(c)
    /\ \E plan \in Offered :
          /\ monthly_credits(plan) > monthly_credits(sub[c])
          /\ sub' = [sub EXCEPT ![c] = plan]
          /\ Gain(c, monthly_credits(plan) - monthly_credits(sub[c]))

\* or the balance is capped.
Downgrade(c) ==
    /\ Request(c)
    /\ \E plan \in Offered :
          /\ monthly_credits(plan) < monthly_credits(sub[c])
          /\ sub' = [sub EXCEPT ![c] = plan]
          /\ balance' = [balance EXCEPT ![c] = IF @ > monthly_credits(plan)
                                               THEN monthly_credits(plan) ELSE @]
    /\ UNCHANGED credited

\* A first request opens the company's subscription.
Open(c) ==
    /\ sub[c] = None /\ subLock[c] = None
    /\ sub' = [sub EXCEPT ![c] = "free"]
    /\ balance' = [balance EXCEPT ![c] = monthly_credits("free")]
    /\ UNCHANGED <<now, subLock, redisLock, wake, lastMonth, pc, at, topUp, tx, found, ghost, happened>>

Loop(r) ==
    \/ NotDue(r) \/ AcquireLock(r) \/ LockIsHeld(r) \/ NoRedis(r) \/ RedisError(r)
    \/ Select(r) \/ InsertSubscription(r) \/ InsertConflict(r)
    \/ ReadBalance(r) \/ Grant(r) \/ CompanyFails(r) \/ RunFails(r) \/ Commit(r)

\* The end of the period looked at.
Quiet == now = Horizon /\ UNCHANGED vars

Next == \/ Tick \/ Quiet
        \/ \E r \in Replicas : Loop(r) \/ Restart(r)
        \/ \E c \in Companies : Spend(c) \/ Open(c) \/ Credit(c) \/ Upgrade(c) \/ Downgrade(c)

Spec == Init /\ [][Next]_vars
-----------------------------------------------------------------------------
(***************************************************************************)
(* Properties.                                                             *)
(***************************************************************************)
Sessions == [month : Months, opened : SUBSET Companies, delta : [Companies -> Nat],
             granted : SUBSET Companies, done : SUBSET Companies, failed : SUBSET Companies]

TypeOK ==
    /\ now \in 0..Horizon
    /\ sub \in [Companies -> Plans \cup {None}]
    /\ balance \in [Companies -> Nat]
    /\ subLock \in [Companies -> Replicas \cup {None}]
    /\ redisLock \in Nat
    /\ wake \in [Replicas -> Nat]
    /\ lastMonth \in [Replicas -> Months \cup {None}]
    /\ pc \in [Replicas -> {"asleep", "select", "insert", "read", "grant", "dead"}]
    /\ at \in [Replicas -> 1..(LastCompany + 1)]
    /\ monthly \in [Replicas -> [Companies -> Nat]]
    /\ topUp \in [Replicas -> Nat]
    /\ tx \in [Replicas -> Sessions]
    /\ topUps \in [Companies \X Months -> Nat]
    /\ served \subseteq Companies \X Months
    /\ credited \in [Replicas -> [Companies -> Nat]]
    /\ requests \in 0..MaxRequests
    /\ happened \subseteq Incidents

\* A reset fills up and never adds up: it brings a company to the credits of
\* the plan that it found and no further, though it reads the balance without
\* a lock.  Only what requests have added since then comes on top: a sale, a
\* manual grant, or the difference of a plan change that the reset has not
\* seen.  The Redis lock is needed for this: without it two resets add up.
TopsUpOnly ==
    [][\A r \in Replicas, c \in Companies :
          pc'[r] # pc[r] /\ balance'[c] > balance[c] /\ "no_redis" \notin happened
              => balance'[c] <= monthly[r][c] + credited[r][c]]_vars

\* A company is topped up at most once a month, whoever runs the reset,
\* unless a replica works without Redis or wakes up at another time of the
\* day than before, which a restart may bring about.
OncePerMonth ==
    happened \cap {"no_redis", "restart"} = {} => \A k \in DOMAIN topUps : topUps[k] <= 1

\* Once the first of a month is over, every company has been looked after:
\* by another replica, if one has lost its loop to Redis.  Only a restart, a
\* failing statement or a racing first request may cost a company its month.
FirstIsOver(m) == now >= m * Day * DaysPerMonth + Day + Lateness /\ \A r \in Replicas : ~Working(r)
MonthNotMissed ==
    /\ happened \cap {"restart", "sql_error", "conflict"} = {}
    /\ \E r \in Replicas : pc[r] # "dead"
    => \A c \in Companies, m \in Months : FirstIsOver(m) => <<c, m>> \in served

\* A failure with one company costs that company's reset and no other's:
\* a run has everything it has passed, except what failed.
FailureIsContained ==
    \A r \in Replicas, c \in Companies :
        Working(r) /\ c < at[r] => c \in tx[r].done \cup tx[r].failed
=============================================================================
