# CarbonScope: verification project

CarbonScope is a multi-tenant carbon accounting service: a FastAPI application
(`src/api`) on PostgreSQL, run as several replicas, with background tasks, and a
Bittensor subnet (`src/neurons`, `src/carbonscope`) that produces emission
estimates. This directory holds TLA+ models of the parts of it whose
correctness depends on order: which request runs between which two statements
of another, what a crash leaves behind, what a retry repeats.

* `tlc -config X.cfg M` checks a run; `tlapm M_proofs.tla` checks a proof module.
* `PROJECT.json` maps every definition to the lines it models, and lists the
  runs, the deliberately wrong variants ("Wrong on purpose" in the modules) that
  each property detects, the findings, the hazards and the theorems.

## 1. Inventory

| Component | State | Operations | Talks to |
|---|---|---|---|
| Subscriptions and credits (`services/subscriptions.py`, `routes/billing_routes.py`, `deps.py`) | `subscriptions` (one row per company), `credit_ledger` (append-only, running balance in each row) | get or create a subscription, change plan, grant, deduct, check | every paid operation, marketplace, scheduler, Stripe |
| Paid operations (`services/carbon.py`, `scenarios.py`, `questionnaire.py`, `routes/compliance_routes.py`) | reports, scenarios, questionnaires | estimate, compute, extract, export | credits, subnet bridge, webhooks, audit |
| Marketplace (`services/marketplace.py`) | `data_listings`, `data_purchases` | list, withdraw, purchase | credits, audit |
| Scheduler (`services/scheduler.py`) | a Redis lock per task, `last_reset_month` in memory | monthly credit reset, alert checks, webhook retries, token cleanup | credits, alerts, webhooks, tokens |
| Webhooks (`services/webhooks.py`) | `webhooks`, `webhook_deliveries` | create, toggle, delete, dispatch, background retry, manual retry | paid operations, alerts, reviews |
| Event bus (`services/event_bus.py`) | one bounded queue per subscriber, in memory | subscribe, publish, unsubscribe | SSE route |
| Accounts and sessions (`auth.py`, `routes/auth_routes.py`, `routes/mfa_routes.py`, `services/mfa.py`) | users with lockout counters, refresh, revoked and reset tokens, TOTP secret and backup codes | register, login, refresh, logout, change or reset password, MFA setup, verify, validate, disable, delete account | mail |
| Team (`routes/team_routes.py`) | users of a company with roles, invitations | invite, accept, change role, remove | accounts |
| Reviews (`services/reviews.py`) | `data_reviews`, one state machine per review | create, submit, approve, reject | audit, webhooks |
| Supply chain (`services/supply_chain.py`) | `supply_chain_links` | link, change status, remove | webhooks |
| Questionnaires (`services/questionnaire.py`, `routes/questionnaire_routes.py`) | `questionnaires` with a status, `questionnaire_questions` | upload, apply a template, extract, answer, set the status, delete | credits, language models |
| Alerts (`services/alerts.py`) | `alerts` | check, acknowledge | scheduler, event bus, webhooks |
| Stripe (`routes/stripe_routes.py`) | subscription columns | signed events: checkout, subscription, invoice | credits, alerts, mail |
| Subnet bridge (`services/subnet_bridge.py`) | a circuit breaker per place in the list of miners and one for the bridge, in memory | query miners, aggregate, fall back | miners, the chain |
| Validator (`neurons/validator.py`) | moving-average scores and their signed file, weights | query round, score, set weights, save, load | miners, scoring, the chain |
| Miner (`neurons/miner.py`, `carbonscope/protocol.py`) | a table of the callers' request times | let in or refuse, estimate | calculators, the chain |
| Emission factors (`carbonscope/emission_factors/`, `utils.py`) | datasets, cached | calculators of the three scopes, defaults of an industry | |
| Scoring and test cases (`carbonscope/scoring.py`, `validation/`, `test_cases/`) | none | queries with a ground truth, five marks and a penalty | calculators |
| Scenarios, compliance, PCAF, benchmarks, forecasts (`services/`) | none | computations over one company's data | |
| Frontend, PDF rendering, mail, LLM calls, migrations, deployment files | | | |

### What is hard here

* **Interleaving.** Every request is a coroutine with a session of its own, at
  READ COMMITTED; another request can run at any `await`. Only credit movements
  and purchases take row locks.
* **Commits in the middle.** A service that commits leaves its route outside the
  transaction: what the route adds afterwards may be missing, or may be lost.
* **Crashes.** A cut-off request rolls back what it has not committed, and nobody
  resumes it. Webhook deliveries and monthly resets live across restarts.
* **Replicas.** Two replicas run the same scheduler; a Redis lock that fails open
  separates them, and each stamps rows with its own clock.
* **Memory.** Circuit breakers, event queues and validator scores are lost on
  restart, or survive it through a file.

### What makes each component correct

* *Credits*: the ledger is one chain of running balances; one opening grant;
  work and charge together or not at all.
* *Marketplace*: one sale of a listing to a company; each sale moves its price.
* *Scheduler*: a company is topped up once a month, to its plan's credits, and
  every month.
* *Webhooks*: an event is sent until it succeeds or is given up, a bounded number
  of times, and not again afterwards.
* *Subnet bridge*: miners and a subnet that fail are left alone, for as long as the
  recovery times say and no longer; a minority does not choose the report.
* *Validator*: scores survive a restart; a miner that is skipped gets another chance;
  weights are set once in a tempo.
* *Sessions*: a refresh token is exchanged only by requests that had read it before it was
  first exchanged, and few sessions outlive a logout or a new password; wrong passwords are
  bounded, whatever runs at the same time.
* *Team*: a company keeps an administrator.
* *Reviews, supply chain, questionnaires*: a submission is decided a bounded number of
  times; suppliers add no more than they emit; an extraction is not left waiting.
* *Alerts, Stripe*: an increase, and a failed payment, are alerted sooner or later.
* *Miner, scoring*: a caller is let in so many times in a window; the miner's method
  agrees with the ground truth; what is not true does not pay.

## 2. Plan

| Step | Modules | About |
|---|---|---|
| 1 *(done)* | `CreditLedger`, `CreditAccount`, `Credits` | the money, refining what a customer is told |
| 2 *(done)* | `MarketContract`, `Marketplace` | two companies' money and three row locks |
| 3 *(done)* | `CreditReset` | the scheduler's lock and the monthly reset on two replicas |
| 4 *(done)* | `Webhooks` | dispatch, background and manual retry, a crash between send and commit |
| 5 *(done)* | `Consensus`, `SubnetBridge` | two levels of circuit breakers and the choice of a report |
| 6 *(done)* | `Validator` | scores and their file, skipped miners and their probes, the breaker, weights |
| 7 *(done)* | `Sessions`, `Membership` | lockout, tokens, resets, the second factor; invitations, roles, deletions |
| 8 *(done)* | `Reviews`, `SupplyChain`, `Questionnaires` | check-then-act under READ COMMITTED, soft deletion, status machines |
| 9 *(done)* | `Billing`, `Alerts` | repeated and late events, duplicates, bounded queues |
| 10 *(done)* | `EmissionFactors`, `Miner`, `MinerAxon`, `TestCases`, `Scoring`, `Estimation` | an estimate, what lets it in, and what it is worth |

All safety properties that the passing runs check are proved, `HonestyPays` for queries without waste only.

Abstract specifications: `CreditAccount` and `MarketContract`. A behaviour of `MCAccounts`,
`MCNotices` or `MCServices` is one of one of its parts, because these share no state that
the others change.

A divergence between code and documents has a run of its own where it is the clearest
way to show it; the others are listed in section 7.

## 3. The modules

### Credits

`CreditLedger` holds the data: plans, prices, and a ledger as a set of rows whose
latest (by `created_at`) carries the balance. `Credits` runs requests over it. A
request has a program counter `pc[r]`, a session `tx[r]` (what it has loaded, and
written without committing) and an answer `resp[r]`; `sub` and `ledger` are the
committed tables, `rowLock` the row lock of `SELECT ... FOR UPDATE`, which the unique
key of an uncommitted insert also stands for. Each action is the code between
two awaits. A handler's label sequence is the order of its statements, so that
the three ways in which the program combines work, charge and commit
(`ChargeWithCommit`, `CommitThenCharge`, `ChargeThenWork`) are three paths
through the same actions. `CreditAccount` is what a customer is told: one plan and one
balance that change in one step.

### Marketplace

Requests list, withdraw and buy. Locks are taken in the code's order: listing,
buyer, seller. A credit movement is one action here, which `Credits` justifies.
PostgreSQL's deadlock detector is modelled as ending one request of a ring of
waiting requests. `MarketContract` is what the market promises.

### CreditReset

One loop per replica (`pc[r]`, the time `wake[r]` its sleep ends, `last_reset_month`)
against the Redis lock, which is the time at which it expires. A run's session
`tx[r]` holds what it has added and not committed; each company is inserted if it
has no subscription, read, and granted the difference, as three actions, because
requests commit in between: they spend (`Spend`), sell or are granted credits by hand
(`Credit`), change the plan (`Upgrade`, `Downgrade`) or open a subscription (`Open`). `monthly` holds
the credits of the plan that a run has loaded, which may be an old one by the time of the grant, and `credited` counts what
requests have added since it read the balance. Faults happen once each: a restart, a
replica without Redis, an error of its connection, a failing statement of a company or of the run. Time is a
counter that `Tick` advances, never past what a loop has still to do.

### Webhooks

`row` is the committed table; each session works on `old` and `new` copies of what it
has selected, and `Publish` writes the columns that differ, as SQLAlchemy does:
this is where retries of two sessions can count from the same row. A POST is made
in the action that looks the webhook up, and answered in a later one. A batch may take longer than the lock lives
(`LockExpires`, counted by `late`): another loop then works on the same rows. That a
retry is due at a time is left to chance: any subset of the due rows may be selected.

### Consensus, SubnetBridge

`Consensus` is the pure choice among reports: median, candidates of sufficient
quality, the closest, and the agreement. `SubnetBridge` is the memory of one process.
`dendrite.query` is called without an await and blocks the event loop, so that an
estimate is one step whose duration is a parameter; between estimates time passes,
miners join or leave, the process restarts. `minerCb` is indexed by a miner's place in the
list of active miners, as in the code. `streak`, `restUntil`, `burst` and `lastBad` record, by
miner, what has happened, and are what the properties compare the breakers with.

### Validator

One loop, of which each action is the code between two calls to the subnet, the chain or
the disk. The two files are `file` and `signed`, the scores that the signature is of. The
moving average is computed in integers of fixed precision with factors in tenths.
Blocks are counted from the last setting of weights up to a tempo, as nothing
depends on more. The answer of `set_weights` is ignored by the code: whether or not the chain took the
weights (`chainAge`), the validator counts from then on. `case_index` is kept modulo the period of the probes.

### Sessions, Membership

In both, a request is two steps: what it loads and checks is put in `call` or `visit`, and
its commit writes. Of a row, a commit writes the columns that the request has given another
value than the loaded one, as SQLAlchemy does, which is why a count of failed
logins can be wound back. Refused and failed requests change nothing and
are no steps. `Sessions` is one account: its password and lock, refresh and access tokens by number,
reset tokens and the second factor. `parent` records for which token a pair was exchanged and `cut` how many pairs there were when all were
last revoked; the properties compare the stored tokens with them. `Membership` has users, invitations and companies, unique addresses, and the
foreign keys that make a purge fail.

### Reviews, SupplyChain, Questionnaires

The same two steps. `Reviews` has the reviews of one report, `SupplyChain` one buyer's links and what the
verified suppliers add to its scope 3. An extraction of `Questionnaires` has three commits' worth of steps:
marking, deleting the old questions with a predicate on ids that were read, writing the new ones.

### Billing, Alerts

`Billing` is one subscription row, which may not be there yet, and the events that Stripe has sent and not seen answered. A handler keeps the row that it
has loaded and writes what it changes of it; an error may fall between commit and answer. A second checkout overwrites the customer by which later events find the row. `Alerts` keeps the latest reports of one company,
the window of alerts that the duplicate check reads, the lock of the hourly check, and each browser's queue.

### EmissionFactors, Miner, TestCases, Scoring, Estimation

Pure functions, in integers: kilograms per thousand of the code's units, marks in thousandths. `Miner` is
validation and estimate, with the breakdown that is marked; `TestCases` the nine curated queries, the synthetic ones,
and the ground truth, which is a second copy of the method; `Scoring` the five marks and the penalty.
`Estimation` lets a miner answer a query, truly or in several other ways, and marks the answer. An answer without a breakdown and one with an empty
breakdown are different things (`NoBreakdown`, `EmptyBreakdown`), as they are to the marks for compliance and completeness.

### MinerAxon

Who is let in: `request_times` is the ordered table of the code, `passed` and `called` record what has happened and are
what the property compares it with. A caller's times are a set of stamps, a time with a number that tells those of one moment apart: the code's deque
is in the order of time, so that dropping from its head what is old drops all that is.

## 4. The runs

| Run | Bounds | Question |
|---|---|---|
| `credits` | 2 companies (one without a subscription), 3 requests; 251,665 states | do plan changes, grants and paid operations keep the ledger chained and the charges atomic, and does committed state behave as `CreditAccount`, which opens an account once? |
| `marketplace` | 4 companies, 2 listings, 3 requests; 25,933 states | are sales unique, paid for, as `MarketContract` says, and free of lasting deadlock? |
| `reset` | 2 replicas, 2 companies, 12 ticks (day of 4, month of 2 days, lock of 2), one fault, 2 requests that move credits or change a plan; 3,512,640 states | is a company topped up once a month, to the credits of the plan it was found with, and every month? |
| `webhooks` | 2 replicas, 2 deliveries, one event, one manual retry, one crash, one batch that outlives the lock; 270,082 states | is a failing endpoint left in peace, are attempts counted, does every delivery settle? |
| `bridge` | 3 miners, 7 ticks, one change of the network; 990,941 states | do breakers spare miners and subnet, recover in time, and does the majority choose? |
| `validator` | 3 miners, 2 networks, a failing write, a restart; 350,910 states | do scores survive, do weights keep their distance, are skipped miners probed? |
| `accounts` | 2 requests at a time, 2 passwords, 2 pairs of tokens, or 3 without wrong passwords and second factor; 3 users, 2 companies, one invitation; 1.60 million states | are wrong passwords bounded, how many sessions do a token and a logout leave, when does a company lose its last administrator? |
| `notices` | 4 events, two of them checkouts, with one error; 2 replicas, 3 reports, a window of 2, one failing check; 172,516 states | are failed payments and increases alerted in the end? |
| `services` | 2 requests at a time, 2 suppliers; 3 callers for 2 places, 4 ticks; 9,195 queries, nine of them curated; 1.02 million states | are decisions bounded, do shares add up, does an extraction end; are callers limited; does the miner's method agree with the ground truth, and does the truth pay? |
| `webhooks_first_failure`, `reset_conflict`, `validator_all_skipped` | smaller instances | where the code does other than its comments and documents say: see the findings |

**Credits.** No action reads or writes another company's rows; the two companies
differ in whether they have a subscription. Three requests are a
holder, a waiter and one that reads without a lock; the amounts (12 credits,
prices 10, 5 and 3) are chosen so that one operation is covered and two are not, and
so that a cap of 100 cuts and does not cut. All replicas share one clock (`Skews = {0}`).

**Marketplace.** A deadlock needs two listings of two sellers; the third company is a
buyer without the credits, the fourth one without the plan.

**Reset.** Twelve ticks are two first days and the second days after them, so that
each loop wakes up in both months. The lock lives half a day, longer than `Spread`, the
distance of the wake-ups; with a longer `Spread` TLC finds a company that is topped up twice.
The amounts 70 and 130 lie below and above the free plan's 100. Two requests are one before the balance is read and one between this and the grant,
or a change to the professional plan and back.

**Webhooks.** `MaxRetries = 2` has a first, a middle and a last attempt. One delivery waits for a retry and one is still to be dispatched. One batch
outlives the lock (`MaxLate = 1`), which is what two loops on one delivery need. A failing endpoint may get its first POST, the manual ones, after each of
these and for each late batch the loop's `LoopAttempts` (one fewer than `MaxRetries`, and at least one), and one for each batch whose counts a crash or a deleted
webhook has undone; the slower of two loops may wind the count back by a round, and this is all that a late batch can cost. Manual retries count by rounds too: `retry_delivery` makes the row due again whatever its count.
The first POST has none of the loop's after it, because one that fails leaves no row (`webhooks_first_failure`).

**Bridge.** The miners' threshold 2 and the bridge's 3 allow a miner's breaker to open
before, with and after the bridge's. Recovery times of 3 and 2 ticks, and queries of 1,
fit into seven ticks with a second round of failures. Three reports are the smallest
number that the consensus looks at; four kinds of them are two honest ones, a poor and
a far one. One change of the network is enough to move a miner to another's place.

**Validator.** One miner always scores, one at times, one never; two are skipped at once while a
round probes one. The thresholds (2 zeros, 2 failures, probes at every second curated query, a
tempo of a block) are the smallest with a value below them. `ema_alpha` is 1.0, which keeps the
averages few and distinct.

**Accounts.** Two requests at a time are enough for a check that has gone stale; a third would repeat the second. Three failures lock
the account, and two requests can try five wrong passwords before a lock, and no more: `MaxGuesses` is not given but computed from `MaxAttempts` and the number
of requests, and one less is too little. A token that two requests exchange at once takes three
pairs of tokens (`MaxSessions`); with wrong passwords and the second factor there are two (`FewSessions`), one that is exchanged and one
that is not, and no forgotten password, which writes what a change of the password writes. Three users are two administrators and an invited one.

**Notices.** A failed payment, before or after the checkout that links its customer, an update of the status, and a second checkout of another customer, in any order; one error is enough to have an event twice.
Three reports have two comparisons, and one that a deletion makes; a window of two alerts is filled and overflows.

**Services.** Two requests are the smallest number that race; two suppliers one with and one without a report, or a known spend.
The miner's gate has one caller more than places, and a limit of two. The datasets are those of `data/emission_factors`, of the largest tables the rows that
are reached and a few more; synthetic queries keep 3, 6 or 9 of ten fields with amounts at both ends of what is drawn and in between.

**Fairness.** `Marketplace`: weak fairness of each request's own steps: the event
loop resumes a coroutine whose statement has returned, and PostgreSQL grants a
row lock once it is free and ends a deadlock after a second. Nothing is assumed of
arrivals or of crashes. `Webhooks`: a replica's loop comes back every thirty seconds, so that
it gets the lock if that is free again and again (strong fairness), a POST is answered or
times out (weak), a delivery whose time has come is selected in some pass (strong).
`Validator`: the loop goes on (weak); a curated query is drawn again and again, and each skipped
miner is in the sample of a probing round again and again (strong), because both are drawn at
random. `MCNotices`: Stripe repeats an event until it is answered, a replica checks every hour as long as it lives, the lock
runs out (all weak); nobody is bound to delete, to err or to read events. `Credits`, `CreditReset`, `SubnetBridge` and the others have no
fairness: what must happen there has a time by which it must have happened, which makes it a safety
property (`MonthNotMissed`, `Recovers`).

## 5. The proofs

`Credits_proofs`: `TypeCorrect`, and `LedgerIsChained` under two assumptions,
`GrantsAreProvisioned` (no manual grant is a company's first contact) and `OneClock`. Both are
needed: without the first, a grant and an opening grant can continue from the same balance, and with `Skews = {0, 1}`
TLC finds a row of the ledger that does not continue the one before. The inductive invariant says that a request that has read a
balance holds the subscription row (or the right to insert it), that the balance
it read is still the one it sees, that what it has written continues the
committed rows, and that all rows are older than the clock.
`ChargesAreAtomic` and `SuccessesAreCharged` need neither assumption. Their invariant `ChargeInv`
says at each label whether a paid request has its charge pending, committed or neither, and what
has become of its result; that the rows a session writes carry its own request keeps it when others commit.

`ImplementsAccount` shows that each step of `Credits` is one step of `CreditAccount` or a stutter. It needs, besides, that no two requests of the workload
change one company's plan (`PlanChangesAlone`), because a change computes its difference from a plan it has loaded before the lock: with
two of them `AccountSpec` is false (section 7). `AccountInv` says, at each label, what the account would do if the session
were committed then: nothing, open, one movement of the request's amount, or the change of plan with its difference or its cap, computed from the plan and the
balance that are still the committed ones. `MCCredits` satisfies all three assumptions.

`CreditReset_proofs`: `TypeCorrect`, `NothingIsCarriedOver`, `ToppedUpOnce` and `NoMonthIsMissed`, for any replicas, companies, days, months and lock. The inductive
invariant has five parts besides types. `RowInv`: what a session has added is for companies that it has come to and that have a subscription, for it at least, and it holds the rows it
has opened. `TimeInv`: no loop is further behind its time of waking than `Lateness`, and a run's lock lives until `LockTTL` after that time. `FillInv`: while nobody works without Redis there is
one run, and what it is about to grant lifts no company above its `Level`, the credits of the plan it found and what requests have added since it read the balance; a request that adds credits lifts both by as much, one that spends or caps a balance only leaves more room. `ClaimInv`: the times of
waking stay within `Spread` of each other, a run is the first of its month, and a month that a run has begun is begun by no other, which sleeps past the first, remembers the month,
or will find the lock taken. `MissInv`: a month whose first a living replica sleeps past, or that it remembers, or that the lock was taken for, has a run under way that passes nobody over, or is done.
The assumptions are about the schedule. `NothingIsCarriedOver` needs only that a run ends before its lock does, which `scheduler.py:43` expects (`Lateness < LockTTL`). `ToppedUpOnce` and `NoMonthIsMissed` are proved for wake-ups on
time (`Lateness = 0`): a pass that is late moves all later wake-ups, until they are further apart than the lock lives, or past the first itself (section 7).
`Spread < LockTTL` is the distance of the replicas' wake-ups; with `DaysPerMonth >= 2` a first ends before the next begins. The run has all of these.

`Webhooks_proofs`: `TypeCorrect`, `EndpointsAreSpared` and `AttemptsAreCounted`, for any webhooks, deliveries, administrators, replicas and `MaxRetries`. Each session holds copies, so
that the type invariant says what each label's copies are of. `StoreInv` relates them to the table: a row that was selected and is gone belongs to a webhook that is deleted, a copy differs from what was selected by at most one attempt or by being dropped, and a delivery that is not
stored yet is nowhere but in its dispatch. A loop that holds a delivery, or may select it, without the lock is a straggler, and there are no more `Stragglers` than late batches (`FewStragglers`). `PostInv` is an argument by
potential: a row has `Left` attempts before it stops being due, a straggler has its own attempt if it is `Unsent` and the attempts that its commit may give back by winding the count back (`Stake`), and the POSTs made,
the attempts left and the stakes are together no more than what administrators' answered requests, late batches, crashes and webhooks deleted under a batch have `Allowed` so far, and one more while the loop with the lock has an attempt `Uncommitted`.
When the lock expires under a batch, `Allowed` grows by the round that the new straggler has at stake. `CountInv` says that while nobody else has touched the deliveries the count lags by the attempts under way and by a round for each late batch, of which a straggler that is still at work
has used none (`Behind`, `Slack`). Neither theorem assumes anything of how long batches take.

`Marketplace_proofs`: `TypeCorrect`, `SalesAreUnique` and `ImplementsContract`. The inductive
invariant ties each label to the locks held there and the session's pending
writes to the job, and says that only the holder of a listing has pending sales
of it and that a pending debit is covered by the committed balance.

`SubnetBridge_proofs`: `TypeCorrect`, `SubnetRecovers`, `FailingMinersAreSpared` (as long as the list of
active miners has not changed) and `FailingSubnetIsSpared`, for any set of miners, thresholds and recovery times. The inductive
invariant has three parts besides types. `Timely`: a miner's breaker has opened no later than
the last failure, and the bridge's no later than `MinerRecovery` after it, because only open
breakers of miners can make an estimate fail when nothing else does. `BurstIsCounted`: the
bridge's count is at least the number of failures of a burst that is not over. `BreakersMatch`: while the
network has not changed, the breaker at a miner's place counts that miner's failures. That
two miners have different places is a lemma about cardinalities.
`MinorityDoesNotDecide` is a fact about the choice among reports, for any reports: `ResultIsChosen` says that a result from the subnet is what `Consensus` chooses
from well-formed reports, and the rest is arithmetic over sets. A k-th smallest total exists (`KthIs`), the median lies between the smallest
and the largest total of any majority (`MiddleIsWithin`), and what is chosen is no further from the median than any other candidate (`ChosenIs`).

`Validator_proofs`: `TypeCorrect`, `ScoresOutliveTheProcess` and `WeightsKeepTheirDistance`, for any
miners, thresholds and smoothing factors. `DiskIsCurrent` says what a restart would load in each
phase of a save, and that a complete save makes up for one that was cut short; `AgeIsKnown` that
`last_weight_block` is not older than the weights on the chain while the chain can be read.

`Accounts_proofs`: of `Sessions`, `SessionsTypeCorrect`, `TokensAreSpent` and `WrongPasswordsAreFew`; of `Membership`, `MembershipTypeCorrect` and
`LastAdministrators`; for any number of requests, users and companies, and any limit of attempts. The bound on wrong passwords is not obvious, because a login writes the count it has loaded, plus
one, and so may wind back what others have counted. A request that has loaded a low count is a chance to wind back. `Room` is how far a count is from the lock, and
`Profile` counts, for each `k`, the requests whose room is at least `k` if they fail. Each wrong password makes the profile smaller in the lexicographic order that looks at the largest room
first: the request that fails gives its chance up, and those it makes for the requests that load after it are smaller. `GuessInv` says that the wrong passwords so far and the profiles
`Below` the present one are together no more than `MaxGuesses`, which is the number of all profiles less one. For one request it is `MaxAttempts - 1`; for `N` it is
the number of ways to choose `MaxAttempts - 1` of `N + MaxAttempts - 1`, less one. `TokensAreSpent` says that a token that has been exchanged
is stored no more, that the requests that have exchanged it and those that are about to are together no more than there are requests, and that of the sessions revoked by a logout or a new password
fewer than that survive by an exchange. `LineageInv` adds that the stored tokens are newer than the last revocation and that a request holds a token that was issued. The token that a request has read goes with its commit, so that
each exchange uses up a reader and no new one can come. `AdminsInv` says that a visit that changes a role or removes a member is by someone else, and that a visit that
purges finds its user deleted, which a user stays (`DeadStays`): a purge does not take an administrator away.
From these follows `TypeCorrect`, the types of `MCAccounts`, because each step of it is one of a part while the other stands still; `NoticesTypeCorrect` is the same
for `MCNotices`. What is not mere typing in the latter is a failed payment's alerts: `BillingInv` says that an event has no more of them than the errors so far, and one more
only once its handler has committed or Stripe has its answer.

`Services_proofs`: `DecisionsBounded` (`Reviews`), `ExtractionsInOrder` (`Questionnaires`), `AxonTypeCorrect` and `CallersAreLimited` (`MinerAxon`). The bound on decisions is not inductive: `Counted` adds the requests that have
loaded a review undecided to the decisions it has, and says that a submitted review has none. `SetsInOrder` says that an extraction about to write will replace
the template and its own older set, so that each set that is stored has a request of its own. `AxonInv` says that the miner's table is in the order of
its callers' last calls, that no entry has more than `RateMax` times, and that a request that was let in and is still in the window is in its caller's entry, or else more than
`MaxTracked` callers have called since then. The last is what an eviction leaves behind: the entry that is dropped is the one whose caller has called the longest time ago, so that all the others have called
later, and they and the new one are too many (`CrowdEvicts`). `CallersAreLimited` follows for callers that fit into the table.

`AttributionIsBounded` and `SupplyTypeCorrect` are of `SupplyChain`, for any suppliers, clerks and amounts. The two sums of `SharesAddUp` are over whatever set of links counts, and induction over
a set is not available. So the library's fold is first shown to be a recursive function on the set's subsets (`FoldIsSum`) that takes one element away at a time;
that such functions agree and exist, and that a sum does not depend on the element taken first, is shown from a smallest subset on which it fails (`Smallest`).
`SharesAre` is then the arithmetic: if each share is rounded down from at most `M` times a part of what is spent, and the others are whole, then all together are at most `M` and the others.
`SupplyInv` adds to the types that a request that is about to change a link has a link to change.

`EstimatesAgree` is of `Estimation`: for any datasets and any query without waste, in whatever region and with whatever texts, the miner and the generator compute the same
scopes. Their breakdowns are `Alike`: the same but for categories that only one of them has, at zero. Such tables have the same total (`TotalsAgree`), and stay alike when
`fill_industry_defaults` adds the categories that are missing (`FilledAlike`); the latter is a recursive function along the list of an industry's categories, whose existence is shown from a least
place at which it would fail (`FillingsExist`). That factors of fuels and grids are never zero is an assumption on the datasets, and is needed: an estimate of zero
for fuel or electricity that is there would be marked down as leaving a scope out. `MarksAreBounded` says what an answer and its mark can be, true or not. `EstimationInv` keeps that an answer is one of the `Possible` ones and
that a mark is the answer's score, and one lemma for each of the five marks and the penalty gives its range (`AccuracyIs`, `ComplianceIs`, `CompletenessMarkIs`, `SanityIs`, `BenchmarkIs`, `PenaltyIs`).

`HonestyWins` is `HonestyPays` for any datasets and any query without waste. The true answer has full marks for accuracy, compliance and completeness (`TrueMarks`), so what an
untrue one can win is in sanity, likeness and the penalty, and `NoBetter` reduces the claim to an inequality before rounding. A higher confidence wins nothing and may cost the
penalty; the penalty itself is bounded because the miner is sure of itself only with data: 0.7 needs more than five fields, above 0.9 more than two that count for sanity
(`ConfidenceBounds`, `FewFields`, `CountIs`). A scope that is left out or at least doubled has an error of 1, which costs 20 to 50 points in a hundred of accuracy (`AccuracyLost`), and for
electricity 150 of compliance too; that is more than the two faults of sanity and the likeness that it may repair (`ScalingNeverPays`; a higher total
repairs no total that is too high, `MoreIsTooMuch`). A failure loses accuracy, or all of completeness (`FailureNeverPays`), and an answer with the true scopes but another
confidence, total or hidden or emptied breakdown gains at most a fault of sanity (`SameScopes`, `EditingNeverPays`). The theorem needs that `NoAnswer` is no true answer, which TLC evaluates.
With waste it is not a theorem: the generator's ground truth leaves waste out, so for a company with enough of it a true estimate is marked as wrong,
and the run shows `HonestyPays` for the amounts of the curated case only.

`ServicesTypeCorrect`, the types of `MCServices`, follows from the invariants of its five parts as in `TypeCorrect`.

A leaf that needs more than about a second names its prover and a limit far above what it uses (`SMTT(40)`, `ZenonT(60)`), so that a slower machine proves the same;
where one would still be large it is a lemma, as `PublishedRows`, which both commits of `Webhooks` that merge rows use.

Only model-checked: liveness (`Answered`, `Settled`, `SkippedAreProbed`, `FailuresAreAlerted`, `IncreaseIsAlerted`), which is out of the prover's
reach; and `HonestyPays` for queries with waste, as said above.

## 6. What is not modelled

Components without a module are listed with their reason in `PROJECT.json`. Left out for good: the web server's rate limits, the content of reports and
listings, mail, PDF rendering, the frontend and deployment, which keep no state that the properties
speak of; scenarios, compliance, PCAF, benchmarks and forecasts, which are computations over one company's data
and whose charges are in `Credits`; steam, spend by category, unit conversion and the datasets' cache, which no query reaches or which only repeats the files.

In the modules: no soft deletion of subscriptions under Stripe's events; no paging of the reset's companies and no creation of companies during
it; no retry times and no limit of fifty in a webhook batch; no page of a browsed listing;
a single process for the bridge, because breakers are not shared. Requests that are refused are steps only where something is left behind.
Marks are rounded down to thousandths, and results to kilograms, where the code keeps four and two decimals. `Answers` of other miners than this one are
those that `Untruly` lists: scopes left out or reported at least twice as high, a confidence above 1, no breakdown or an empty one, a wrong total. A miner that understates a scope
a little can come out ahead of the truth, because the marks for sanity and likeness may rise by more than
accuracy falls: `HonestyPays` does not say otherwise. It is also why `TrueAnswersPass` speaks of accuracy, compliance and completeness only.

## 7. Known divergences

Shown by a run of `PROJECT.json`: see its findings. Met while modelling and without a run:

* The clocks of two replicas may disagree, and the latest ledger row is chosen by them.
* Two concurrent upgrades both grant the difference of the plans, which each has computed from
  the plan it loaded before the lock (`subscriptions.py:109`).
* Two replicas whose wake-ups on the first are further apart than the lock's hour both run the
  reset, and grant what was spent in between a second time (`scheduler.py:176`).
* A PDF export is charged before the PDF is made; a failing generator keeps the credits.
* An operation whose credits are spent by another between the check and the charge answers
  with an error of the server in place of 402.
* A plan change between a reset's look at the subscription and its grant (`scheduler.py:202-207`): after an upgrade the difference is granted and the
  reset adds what was missing to the old plan's credits; after a downgrade, which caps the balance, it adds what was missing to the old plan's, and a
  free company may keep up to a professional's month. `TopsUpOnly` therefore speaks of the plan that the run has found.
* The monthly reset: a process that is restarted on the first before its wake-up misses the
  month, because it sleeps first (`scheduler.py:171`); an error of an established Redis connection ends the
  loop; wake-ups drift by the duration of each pass.
* A batch of webhook retries may outlive the lock of 25 seconds, as fifty POSTs in a row may each take ten (`scheduler.py:44`); the other replica
  then retries it too, and the slower one writes its older counts over the newer. `BoundedPosts` and `AccountedFor` say what it costs.
* The audit row of a purchase is added after the commit (`marketplace_routes.py:115`) and never
  committed; `auditLog` stays empty in `Marketplace`.
* Errors of the subnet's library other than `RuntimeError` fail the estimate in place of falling back.
* The validator's breaker makes the loop faster: the failing rounds before it opens wait for the
  query interval of 60 s, and the first one after it for 2 s (`validator.py:354-365`).
* The validator ignores the answer of `set_weights`: weights that the chain refuses count as set, and are set again a tempo later (`validator.py:301-310`). When the
  block cannot be read, they are set at every turn.
* A validator that is cut off between replacing the scores and replacing their signature loses all scores, because it refuses the file when it starts (`validator.py:185`).
* A restart of the validator forgets `_query_counts`: established miners learn fast again for ten rounds.
* `agreement_pct` is 100 when the selected total is zero.
* Breakers are kept by a miner's place in the list of active miners, while the comments say "uid" (`subnet_bridge.py:38`, `193`): when a miner leaves,
  one that never failed may find the breaker of another open.
* The lock of a credit movement is the subscription row, which locks nothing when there is none: a manual grant to such a company
  (`billing_routes.py:128`) and an opening grant can both continue from the same balance, although `subscriptions.py:168` promises otherwise.
* A scenario's result is committed before its charge (`scenarios.py:145`); when the credits have gone meanwhile, it stays unpaid (`docs/ARCHITECTURE.md:468`).

Accounts and teams:

* Two requests with one refresh token can both succeed, although it is meant for one (docstring, `auth.py:104`); one that races a logout or a change of the password survives it. So
  does a login, or a second factor, that has passed its check by then; `SessionsAreFew` is about exchanges only.
* `update_profile` writes to a row that has been deleted since it was loaded and puts the address back (docstring, `auth_routes.py:385`).
* Two administrators can demote each other, and the last one can delete the own account.
* A purge fails on a foreign key if the user has invited others or the company has reviews or sold listings; one that races an accepted
  invitation leaves members of a company whose data is gone.
* `accept_invite` answers 500 for an address that is taken; one invitation can make two members if the first changes the address.
* A setup of the second factor that races its verification enables a secret nobody has verified; the count of failures is not reset when a lock ends; the removal of an
  expired refresh token is rolled back; a logout just as the token expires fails.
* Audit rows that routes of teams, exports, reviews and suppliers add after the commit are never committed.

Reviews, suppliers, questionnaires:

* Two answers to one submission are both committed, if both load it before either commits.
* A late submission re-opens a review that has been approved and keeps its reviewer; two requests can open two reviews of a report, after which
  each look-up fails; `in_review` is never set.
* A supplier whose link was removed cannot be linked again, because the unique key counts removed links; `coverage_pct` can exceed 100.
* Extractions at the same time keep both sets of questions; one that is cut off stays "extracting"; a request may set any status.

Stripe and alerts:

* Late and repeated events overwrite a newer status; events that come before the checkout has linked the customer are answered 200 and lost, and so are a checkout before there is a subscription
  and, once a second checkout has overwritten the customer, the events of the first; an error after the commit repeats the alert.
* Alerts of a drop in confidence carry no report and are repeated at each check, pushing the reports of others out of the window of duplicates;
  events are published before the commit and reach only browsers of the same replica; an increase from zero is never alerted; an error of Redis that is
  no `OSError` ends the loop.

Estimates:

* The region "DE" is Delaware, "IN" Indiana and "CA" California, because US states are looked up before countries (`loader.py:157`).
* The curated case of a large company exceeds the miner's limits and is always refused, at the cost of the mark (`miner.py:51`).
* "R-410A" in the construction case is not the dataset's key "R_410A" and gets the default of 1530; several valid types of fuel are not in the dataset and count as diesel.
* Ground truth leaves out waste, which the miner counts.
* The sanity check's docstring says "100x industry average", its table ten times; `load_factors` re-reads when the hour is over *and* the file has changed,
  its docstring says *or*, and takes the hash after it has read.
* The miner reads a caller's place and its permit in two steps, between which the metagraph may be replaced (`miner.py:169`).
