\* Two replicas whose wake-ups are closer than the lock's life, one fault of
\* any kind, a company whose subscription a request may open meanwhile, and two
\* requests that move credits or change a plan.
SPECIFICATION Spec
CONSTANTS
    r1 = r1
    r2 = r2
    Replicas = {r1, r2}
    LastCompany = 2
    Unopened = {2}
    OpeningBalances = {70, 130}
    Spending = {60}
    Incomes = {50}
    Offered = {"free", "pro"}
    MaxRequests = 2
    Day = 4
    DaysPerMonth <- TwoDays
    LockTTL = 2
    Spread = 1
    Lateness = 0
    Faults = {"restart", "no_redis", "redis_error", "sql_error"}
    MaxFaults = 1
    Horizon = 12
    None = None
INVARIANTS TypeOK OncePerMonth MonthNotMissed
PROPERTY TopsUpOnly
