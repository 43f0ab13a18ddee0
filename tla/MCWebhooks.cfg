\* Two replicas, manual retries, deletions, a dispatched event and a crash.
SPECIFICATION FairSpec
CONSTANTS
    h1 = h1
    w1 = w1
    w2 = w2
    m1 = m1
    e1 = e1
    None = None
    Hooks = {h1}
    Deliveries = {1, 3}
    HookOf <- OneHook
    Waiting = {1}
    Sent = {}
    Dispatches = {e1}
    Targets <- Third
    Manual = {m1}
    Workers = {w1, w2}
    MaxRetries = 2
    MaxLate = 1
    Deletions = TRUE
    MaxCrashes = 1
CHECK_DEADLOCK FALSE
INVARIANTS TypeOK BoundedPosts AccountedFor
PROPERTY Settled
