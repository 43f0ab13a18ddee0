------------------------------ MODULE Webhooks ------------------------------
(***************************************************************************)
(* Webhook deliveries: the first attempt made by a request, the retries of *)
(* the background loop in every replica, and the retries an administrator  *)
(* asks for, while webhooks are switched on and off and deleted.           *)
(*                                                                         *)
(* Each of them works in a database session of its own on copies of the    *)
(* rows it has selected; a commit writes the columns that differ from what *)
(* was selected, whatever has been committed meanwhile.  Between selecting *)
(* and committing lies an HTTP POST, which takes up to ten seconds.        *)
(*                                                                         *)
(* A delivery is due when it has a next_retry_at; that the time has come   *)
(* for it is left to chance, by which any of the due rows may be selected. *)
(***************************************************************************)
EXTENDS Integers, FiniteSets

CONSTANTS
    Hooks,         \* the webhooks of one company
    Deliveries,    \* 1..n: the rows there may be, in table order
    HookOf,        \* [Deliveries -> Hooks]
    Waiting,       \* the deliveries at the start that are due for another attempt
    Sent,          \* and those that have succeeded
    Dispatches,    \* the requests that dispatch an event, and
    Targets,       \* [Dispatches -> the deliveries that its event would make]
    Manual,        \* the requests to retry a delivery
    Workers,       \* the replicas' retry loops
    MaxRetries,    \* column max_retries
    MaxLate,       \* bound on how often a batch takes longer than the lock lives
    Deletions,     \* whether webhooks are deleted
    MaxCrashes,    \* bound on crashes of workers
    None

Rows == [success : BOOLEAN, retries : Nat, due : BOOLEAN]

ASSUME WebhooksAssumption ==
    /\ Deliveries \subseteq Nat
    /\ HookOf \in [Deliveries -> Hooks]
    /\ Targets \in [Dispatches -> SUBSET Deliveries]
    /\ \A e \in Dispatches : Targets[e] \cap (Waiting \cup Sent) = {}
    /\ \A e, f \in Dispatches : e # f => Targets[e] \cap Targets[f] = {}
    /\ IsFiniteSet(Hooks) /\ IsFiniteSet(Manual) /\ IsFiniteSet(Workers)
    /\ Waiting \cup Sent \subseteq Deliveries /\ Waiting \cap Sent = {}
    /\ MaxRetries \in Nat \ {0} /\ MaxCrashes \in Nat
    /\ MaxLate \in Nat /\ Deletions \in BOOLEAN
    /\ Dispatches \cap Manual = {} /\ (Dispatches \cup Manual) \cap Workers = {}
    /\ None \notin Workers \cup Deliveries /\ None \notin Rows

VARIABLES
    hook,      \* [Hooks -> "active", "disabled" or "deleted"]
    row,       \* [Deliveries -> the committed row, or None]
    rowLock,   \* [Deliveries -> the worker whose UPDATE is not committed, or None]
    lock,      \* the holder of carbonscope:lock:webhook_retry, or None
    pc,        \* [Dispatches, Manual and Workers -> where it is]
    task,      \* [... -> the delivery at hand, or None]
    batch,     \* [... -> the deliveries still to look at]
    old, new,  \* [... -> the rows as selected, and as changed since]
    seen,      \* [... -> [Hooks -> the webhook as first looked up, or None]]
    posts,     \* ghost: [Deliveries -> POSTs made]
    manual,    \* ghost: [Deliveries -> POSTs made for an administrator]
    crashes,   \* the crashes so far
    late       \* how often the lock has expired in the middle of a batch

session == <<task, batch, old, new, seen>>
faults  == <<crashes, late>>
vars == <<hook, row, rowLock, lock, pc, session, posts, manual, faults>>

Actors == Dispatches \cup Manual \cup Workers

NoRows  == [d \in Deliveries |-> None]
NoHooks == [h \in Hooks |-> None]

\* A waiting delivery has been retried in vain once, by an administrator.
Init ==
    /\ hook = [h \in Hooks |-> "active"]
    /\ row = [d \in Deliveries |->
                 IF d \in Waiting THEN [success |-> FALSE, retries |-> 1, due |-> TRUE]
                 ELSE IF d \in Sent THEN [success |-> TRUE, retries |-> 0, due |-> FALSE]
                 ELSE None]
    /\ rowLock = [d \in Deliveries |-> None]
    /\ lock = None
    /\ pc = [a \in Actors |-> "idle"]
    /\ task = [a \in Actors |-> None]
    /\ batch = [a \in Actors |-> {}]
    /\ old = [a \in Actors |-> NoRows]
    /\ new = [a \in Actors |-> NoRows]
    /\ seen = [a \in Actors |-> NoHooks]
    /\ posts = [d \in Deliveries |-> IF d \in Waiting THEN 2 ELSE IF d \in Sent THEN 1 ELSE 0]
    /\ manual = [d \in Deliveries |-> IF d \in Waiting THEN 1 ELSE 0]
    /\ crashes = 0 /\ late = 0
-----------------------------------------------------------------------------
Goto(a, label)  == pc' = [pc EXCEPT ![a] = label]
FirstOf(ds)     == CHOOSE d \in ds : \A e \in ds : d <= e
Unlocked(a)     == [d \in Deliveries |-> IF rowLock[d] = a THEN None ELSE rowLock[d]]
CountPost(d)    == posts' = [posts EXCEPT ![d] = @ + 1]

\* The session ends; what it has not committed is gone.
Close(a, label) ==
    /\ Goto(a, label)
    /\ task' = [task EXCEPT ![a] = None]
    /\ batch' = [batch EXCEPT ![a] = {}]
    /\ old' = [old EXCEPT ![a] = NoRows]
    /\ new' = [new EXCEPT ![a] = NoRows]
    /\ seen' = [seen EXCEPT ![a] = NoHooks]
    /\ rowLock' = Unlocked(a)

\* UPDATE writes the columns that have changed since the row was selected.
Merged(cur, was, is) ==
    [success |-> IF is.success = was.success THEN cur.success ELSE is.success,
     retries |-> IF is.retries = was.retries THEN cur.retries ELSE is.retries,
     due     |-> IF ~is.due /\ ~was.due THEN cur.due ELSE is.due]

Changed(a) == {d \in Deliveries : new[a][d] # old[a][d]}
Publish(a) == row' = [d \in Deliveries |->
                         IF d \in Changed(a) THEN Merged(row[d], old[a][d], new[a][d]) ELSE row[d]]
-----------------------------------------------------------------------------
\* dispatch_event: the webhooks that are active when it starts,
ListWebhooks(e) ==
    /\ e \in Dispatches
    /\ pc[e] = "idle"
    /\ batch' = [batch EXCEPT ![e] = {d \in Targets[e] : hook[HookOf[d]] = "active"}]
    /\ Goto(e, "send")
    /\ UNCHANGED <<hook, row, rowLock, lock, task, old, new, seen, posts, manual, faults>>

\* Wrong on purpose: the row is made without a retry_count.
SendFirstUncounted(e) ==
    LET d == FirstOf(batch[e]) IN
    /\ e \in Dispatches
    /\ pc[e] = "send" /\ batch[e] # {}
    /\ CountPost(d)
    /\ new' = [new EXCEPT ![e][d] = [success |-> TRUE, retries |-> None, due |-> FALSE]]
    /\ batch' = [batch EXCEPT ![e] = @ \ {d}]
    /\ UNCHANGED <<hook, row, rowLock, lock, pc, task, old, seen, manual, faults>>

\* one POST to each, which is answered with success
SendFirst(e) ==
    LET d == FirstOf(batch[e]) IN
    /\ e \in Dispatches
    /\ pc[e] = "send" /\ batch[e] # {}
    /\ CountPost(d)
    /\ new' = [new EXCEPT ![e][d] = [success |-> TRUE, retries |-> 0, due |-> FALSE]]
    /\ batch' = [batch EXCEPT ![e] = @ \ {d}]
    /\ UNCHANGED <<hook, row, rowLock, lock, pc, task, old, seen, manual, faults>>

\* or not.  Column defaults are filled in when a row is flushed: here
\* retry_count and max_retries are still None, comparing them raises
\* TypeError, and what has been sent so far is not logged.
SendFirstFails(e) ==
    /\ e \in Dispatches
    /\ pc[e] = "send" /\ batch[e] # {}
    /\ CountPost(FirstOf(batch[e]))
    /\ Close(e, "failed")
    /\ UNCHANGED <<hook, row, lock, manual, faults>>

\* The rows are inserted together, unless a webhook of theirs is gone.
InsertDeliveries(e) ==
    LET made == {d \in Deliveries : new[e][d] # None} IN
    /\ e \in Dispatches
    /\ pc[e] = "send" /\ batch[e] = {}
    /\ \/ /\ \A d \in made : hook[HookOf[d]] # "deleted"
          /\ row' = [d \in Deliveries |-> IF d \in made THEN new[e][d] ELSE row[d]]
          /\ Close(e, "done")
       \/ /\ \E d \in made : hook[HookOf[d]] = "deleted"
          /\ UNCHANGED row
          /\ Close(e, "failed")
    /\ UNCHANGED <<hook, lock, posts, manual, faults>>
-----------------------------------------------------------------------------
\* Wrong on purpose: the key is written whether it exists or not (SET without NX).
AcquireAnyway(w) ==
    /\ w \in Workers
    /\ pc[w] = "idle"
    /\ \E d \in Deliveries : row[d] # None /\ ~row[d].success /\ row[d].due
    /\ lock' = w
    /\ Goto(w, "select")
    /\ UNCHANGED <<hook, row, rowLock, session, posts, manual, faults>>

\* _run_webhook_retries: only with the lock (a pass that finds nothing due is
\* left out),
AcquireLock(w) ==
    /\ w \in Workers
    /\ pc[w] = "idle"
    /\ lock = None
    /\ \E d \in Deliveries : row[d] # None /\ ~row[d].success /\ row[d].due
    /\ lock' = w
    /\ Goto(w, "select")
    /\ UNCHANGED <<hook, row, rowLock, session, posts, manual, faults>>

\* which expires after 25 seconds, whether the batch is done or not: two or
\* three POSTs that time out are enough.
LockExpires ==
    /\ lock # None
    /\ \/ pc[lock] = "idle" /\ UNCHANGED late
       \/ pc[lock] # "idle" /\ late < MaxLate /\ late' = late + 1
    /\ lock' = None
    /\ UNCHANGED <<hook, row, rowLock, pc, session, posts, manual, crashes>>

\* process_pending_retries selects up to fifty of the due rows.
SelectPending(w) ==
    /\ w \in Workers
    /\ pc[w] = "select"
    /\ \E ds \in SUBSET {d \in Deliveries : row[d] # None /\ ~row[d].success /\ row[d].due} :
          /\ batch' = [batch EXCEPT ![w] = ds]
          /\ old' = [old EXCEPT ![w] = [d \in Deliveries |-> IF d \in ds THEN row[d] ELSE None]]
          /\ new' = [new EXCEPT ![w] = [d \in Deliveries |-> IF d \in ds THEN row[d] ELSE None]]
    /\ Goto(w, "look")
    /\ UNCHANGED <<hook, row, rowLock, lock, task, seen, posts, manual, faults>>

\* Each query first flushes the row changed last, which then is locked.
Dirty(w) == {d \in Changed(w) : rowLock[d] # w}

\* The flush finds that the row is gone: StaleDataError ends the batch, and
\* the loop goes back to sleep.
RowIsGone(w) ==
    /\ w \in Workers
    /\ pc[w] \in {"look", "commit"}
    /\ \E d \in Dirty(w) : row[d] = None
    /\ Close(w, "idle")
    /\ UNCHANGED <<hook, row, lock, posts, manual, faults>>

Flush(w) ==
    /\ \A d \in Dirty(w) : row[d] # None /\ rowLock[d] = None
    /\ rowLock' = [d \in Deliveries |-> IF d \in Dirty(w) THEN w ELSE rowLock[d]]

\* Wrong on purpose: the delivery of a disabled webhook stays due.
LookUpKeepsDue(w) ==
    LET d == FirstOf(batch[w])
        h == HookOf[d]
    IN
    /\ w \in Workers
    /\ pc[w] = "look" /\ batch[w] # {}
    /\ Flush(w)
    /\ seen' = [seen EXCEPT ![w][h] = hook[h]]
    /\ batch' = [batch EXCEPT ![w] = @ \ {d}]
    /\ \/ hook[h] = "active" /\ task' = [task EXCEPT ![w] = d] /\ CountPost(d) /\ Goto(w, "wait")
       \/ hook[h] # "active" /\ UNCHANGED <<task, posts, pc>>
    /\ UNCHANGED <<hook, row, lock, old, new, manual, faults>>

\* What is done with a row whose webhook is not to be sent to.
Dropped(r) == [success |-> r.success, retries |-> r.retries, due |-> FALSE]

\* The webhook is looked up; one that this session has met before keeps the
\* state it had then.
LookUp(w) ==
    LET d == FirstOf(batch[w])
        h == HookOf[d]
        state == IF hook[h] = "deleted" THEN "deleted"
                 ELSE IF seen[w][h] # None THEN seen[w][h] ELSE hook[h]
    IN
    /\ w \in Workers
    /\ pc[w] = "look" /\ batch[w] # {}
    /\ Flush(w)
    /\ seen' = [seen EXCEPT ![w][h] = state]
    /\ batch' = [batch EXCEPT ![w] = @ \ {d}]
    /\ \/ /\ state = "active"
          /\ task' = [task EXCEPT ![w] = d]
          /\ CountPost(d)
          /\ Goto(w, "wait")
          /\ UNCHANGED new
       \/ /\ state # "active"
          /\ new' = [new EXCEPT ![w][d] = Dropped(@)]
          /\ UNCHANGED <<task, posts, pc>>
    /\ UNCHANGED <<hook, row, lock, old, manual, faults>>

\* What an attempt of the loop makes of a row.
Retried(r, ok) ==
    [success |-> ok, retries |-> r.retries + 1, due |-> ~ok /\ r.retries + 1 < MaxRetries]

Answer(w) ==
    /\ w \in Workers
    /\ pc[w] = "wait"
    /\ \E ok \in BOOLEAN : new' = [new EXCEPT ![w][task[w]] = Retried(@, ok)]
    /\ task' = [task EXCEPT ![w] = None]
    /\ Goto(w, "look")
    /\ UNCHANGED <<hook, row, rowLock, lock, batch, old, seen, posts, manual, faults>>

\* Wrong on purpose: the session is closed without a commit.
CommitBatchNever(w) ==
    /\ w \in Workers
    /\ pc[w] = "look" /\ batch[w] = {}
    /\ Close(w, "idle")
    /\ UNCHANGED <<hook, row, lock, posts, manual, faults>>

\* One commit for the whole batch.
CommitBatch(w) ==
    /\ w \in Workers
    /\ pc[w] = "look" /\ batch[w] = {}
    /\ \A d \in Dirty(w) : row[d] # None /\ rowLock[d] = None
    /\ Publish(w)
    /\ Close(w, "idle")
    /\ UNCHANGED <<hook, lock, posts, manual, faults>>

\* The process is killed in the middle of a batch.
Crash(w) ==
    /\ w \in Workers
    /\ pc[w] # "idle" /\ crashes < MaxCrashes
    /\ crashes' = crashes + 1
    /\ Close(w, "idle")
    /\ UNCHANGED <<hook, row, lock, posts, manual, late>>
-----------------------------------------------------------------------------
\* retry_delivery: any delivery of an active webhook, successful ones too.
LoadDelivery(m) ==
    /\ m \in Manual
    /\ pc[m] = "idle"
    /\ \E d \in Deliveries :
          /\ row[d] # None
          /\ hook[HookOf[d]] = "active"
          /\ old' = [old EXCEPT ![m][d] = row[d]]
          /\ new' = [new EXCEPT ![m][d] = row[d]]
          /\ task' = [task EXCEPT ![m] = d]
          /\ CountPost(d)
          /\ manual' = [manual EXCEPT ![d] = @ + 1]
    /\ Goto(m, "wait")
    /\ UNCHANGED <<hook, row, rowLock, lock, batch, seen, faults>>

\* It schedules a retry after a failure, however many there have been.
Redelivered(r, ok) == [success |-> ok, retries |-> r.retries + 1, due |-> ~ok]

AnswerManual(m) ==
    /\ m \in Manual
    /\ pc[m] = "wait"
    /\ \E ok \in BOOLEAN : new' = [new EXCEPT ![m][task[m]] = Redelivered(@, ok)]
    /\ Goto(m, "commit")
    /\ UNCHANGED <<hook, row, rowLock, lock, task, batch, old, seen, posts, manual, faults>>

CommitManual(m) ==
    /\ m \in Manual
    /\ pc[m] = "commit"
    /\ \/ /\ row[task[m]] = None
          /\ UNCHANGED row
       \/ /\ row[task[m]] # None
          /\ rowLock[task[m]] = None
          /\ Publish(m)
    /\ Close(m, "done")
    /\ UNCHANGED <<hook, lock, posts, manual, faults>>
-----------------------------------------------------------------------------
\* toggle_webhook, and delete_webhook, whose cascade waits for locked rows.
Toggle(h) ==
    /\ \/ hook[h] = "active" /\ hook' = [hook EXCEPT ![h] = "disabled"]
       \/ hook[h] = "disabled" /\ hook' = [hook EXCEPT ![h] = "active"]
    /\ UNCHANGED <<row, rowLock, lock, pc, session, posts, manual, faults>>

Delete(h) ==
    /\ Deletions
    /\ hook[h] # "deleted"
    /\ \A d \in Deliveries : HookOf[d] = h => rowLock[d] = None
    /\ hook' = [hook EXCEPT ![h] = "deleted"]
    /\ row' = [d \in Deliveries |-> IF HookOf[d] = h THEN None ELSE row[d]]
    /\ UNCHANGED <<rowLock, lock, pc, session, posts, manual, faults>>

Dispatch(e) == ListWebhooks(e) \/ SendFirst(e) \/ SendFirstFails(e) \/ InsertDeliveries(e)
Retry(w)    == SelectPending(w) \/ RowIsGone(w) \/ LookUp(w) \/ Answer(w) \/ CommitBatch(w)
Redeliver(m) == LoadDelivery(m) \/ AnswerManual(m) \/ CommitManual(m)

Next ==
    \/ \E e \in Dispatches : Dispatch(e)
    \/ \E w \in Workers : AcquireLock(w) \/ Retry(w) \/ Crash(w)
    \/ \E m \in Manual : Redeliver(m)
    \/ \E h \in Hooks : Toggle(h) \/ Delete(h)
    \/ LockExpires

Spec == Init /\ [][Next]_vars

\* Selecting the rows that are due: their time comes, and so does the lock's.
SelectAll(w) == SelectPending(w) /\ batch'[w] = {d \in Deliveries : row[d] # None /\ ~row[d].success /\ row[d].due}

\* The loop runs every thirty seconds in every replica, a POST is answered or
\* times out, and each due row is selected in the end.
FairSpec ==
    /\ Spec
    /\ WF_vars(LockExpires)
    /\ \A w \in Workers : /\ WF_vars(Retry(w))
                          /\ SF_vars(AcquireLock(w))
                          /\ SF_vars(SelectAll(w))
    /\ \A m \in Manual : WF_vars(AnswerManual(m) \/ CommitManual(m))
-----------------------------------------------------------------------------
(***************************************************************************)
(* Properties.                                                             *)
(***************************************************************************)
TypeOK ==
    /\ hook \in [Hooks -> {"active", "disabled", "deleted"}]
    /\ row \in [Deliveries -> Rows \cup {None}]
    /\ rowLock \in [Deliveries -> Workers \cup {None}]
    /\ lock \in Workers \cup {None}
    /\ pc \in [Actors -> {"idle", "send", "select", "look", "wait", "commit", "failed", "done"}]
    /\ task \in [Actors -> Deliveries \cup {None}]
    /\ batch \in [Actors -> SUBSET Deliveries]
    /\ old \in [Actors -> [Deliveries -> Rows \cup {None}]]
    /\ new \in [Actors -> [Deliveries -> Rows \cup {None}]]
    /\ seen \in [Actors -> [Hooks -> {"active", "disabled", "deleted", None}]]
    /\ posts \in [Deliveries -> Nat]
    /\ manual \in [Deliveries -> Nat]
    /\ crashes \in 0..MaxCrashes /\ late \in 0..MaxLate

\* A manual retry that fails starts the count anew: it allows the loop what
\* max_retries leaves, and one attempt in any case.
LoopAttempts == IF MaxRetries > 2 THEN MaxRetries - 1 ELSE 1

\* A webhook that keeps failing is left in peace: however the loops, crashes
\* and administrators interleave, an endpoint gets a bounded number of POSTs
\* for one event.  Besides the first one these are the manual retries, each
\* with the loop's attempts after it; as many again for each time that a batch
\* outlived the lock, which lets a second loop try the same deliveries and
\* the slower one wind their counts back; and one for each batch that was lost
\* in a crash or to a deleted webhook, whose attempts are not counted.
BoundedPosts ==
    \A d \in Deliveries :
        posts[d] <= 1 + manual[d] + LoopAttempts * (manual[d] + late)
                      + crashes + Cardinality({h \in Hooks : hook[h] = "deleted"})

\* Nothing but the loops has touched the deliveries.
Undisturbed == /\ crashes = 0
               /\ \A h \in Hooks : hook[h] # "deleted"
               /\ \A m \in Manual : pc[m] = "idle"

\* retry_count accounts for every POST after the first, but for the ones
\* under way: two replicas do not count from the same row, unless a batch
\* has outlived the lock, which hides at most a whole round of attempts.
UnderWay(d) == {a \in Actors : old[a][d] # None /\ (task[a] = d \/ new[a][d].retries # old[a][d].retries)}
AccountedFor ==
    Undisturbed => \A d \in Deliveries :
        row[d] # None => posts[d] <= 1 + row[d].retries + Cardinality(UnderWay(d)) + LoopAttempts * late

\* A delivery does not stay due for ever.
IsDue(d) == row[d] # None /\ ~row[d].success /\ row[d].due
Settled == \A d \in Deliveries : []<>~IsDue(d)

\* A first attempt that fails is kept for the loop to retry.
FailureIsKept ==
    \A e \in Dispatches : \A d \in Targets[e] :
        pc[e] \in {"failed", "done"} /\ posts[d] > 0 /\ hook[HookOf[d]] # "deleted"
            => row[d] # None
=============================================================================
