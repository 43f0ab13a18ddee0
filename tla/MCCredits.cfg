\* A provisioned company, whose 12 credits cover one estimate and not two
\* operations, and one older than the billing tables, whose first requests race.
SPECIFICATION Spec
CONSTANTS
    c1 = c1
    c2 = c2
    r1 = r1
    r2 = r2
    r3 = r3
    None = None
    Companies = {c1, c2}
    Requests = {r1, r2, r3}
    Workload <- MixedJobs
    Unprovisioned = {c2}
    OpeningPlans = {"free", "pro"}
    OpeningBalances = {12, 108}
    Skews = {0}
INVARIANTS TypeOK LedgerChained AtomicCharge SuccessIsCharged
PROPERTIES AccountSpec
