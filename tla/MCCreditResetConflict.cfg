\* A request opens the subscription that the reset is about to open.
SPECIFICATION Spec
CONSTANTS
    r1 = r1
    r2 = r2
    Replicas = {r1}
    LastCompany = 2
    Unopened = {2}
    OpeningBalances = {70}
    Spending = {60}
    Incomes = {}
    Offered = {}
    MaxRequests = 1
    Day = 4
    DaysPerMonth <- TwoDays
    LockTTL = 2
    Spread = 0
    Lateness = 0
    Faults = {}
    MaxFaults = 0
    Horizon = 10
    None = None
INVARIANT FailureIsContained
