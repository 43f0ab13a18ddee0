\* An event is dispatched to an endpoint that does not answer.
SPECIFICATION Spec
CONSTANTS
    h1 = h1
    w1 = w1
    w2 = w2
    m1 = m1
    e1 = e1
    None = None
    Hooks = {h1}
    Deliveries = {3}
    HookOf <- OneHook
    Waiting = {}
    Sent = {}
    Dispatches = {e1}
    Targets <- Third
    Manual = {}
    Workers = {w1}
    MaxRetries = 2
    MaxLate = 0
    Deletions = FALSE
    MaxCrashes = 0
CHECK_DEADLOCK FALSE
INVARIANT FailureIsKept
