-------------------------- MODULE Webhooks_proofs --------------------------
(***************************************************************************)
(* Machine-checked proofs about Webhooks, for any number of webhooks,      *)
(* deliveries, replicas and administrators, and any max_retries.           *)
(***************************************************************************)
EXTENDS Webhooks, FiniteSetTheorems, WellFoundedInduction, TLAPS

----------------------------------------------------------------------------
(* What every session holds, wherever it is. *)

\* Crashes and late batches are counted apart.
USE DEF faults

\* A dispatch holds the rows it is going to insert, after one POST each.
Dispatching(e) ==
    /\ pc[e] \in {"idle", "send", "failed", "done"}
    /\ task[e] = None /\ old[e] = NoRows
    /\ batch[e] \subseteq Targets[e]
    /\ pc[e] # "send" => batch[e] = {} /\ new[e] = NoRows
    /\ \A d \in Deliveries : new[e][d] # None => d \in Targets[e]

\* A request to retry holds the one row that it has loaded.
Redelivering(m) ==
    /\ pc[m] \in {"idle", "wait", "commit", "done"}
    /\ pc[m] \in {"wait", "commit"} <=> task[m] # None
    /\ \A d \in Deliveries :
          IF task[m] = d THEN old[m][d] # None /\ new[m][d] # None
          ELSE old[m][d] = None /\ new[m][d] = None

\* A loop holds the rows of its batch, which were due when it selected them.
Retrying(w) ==
    /\ pc[w] \in {"idle", "select", "look", "wait"}
    /\ pc[w] = "wait" <=> task[w] # None
    /\ pc[w] \in {"idle", "select"} => old[w] = NoRows
    /\ \A d \in Deliveries :
          /\ old[w][d] # None <=> new[w][d] # None
          /\ old[w][d] # None => ~old[w][d].success /\ old[w][d].due
          /\ d \in batch[w] => old[w][d] # None
          /\ d = task[w] => old[w][d] # None

\* A row that is locked is there.
LockedIsThere == \A d \in Deliveries : rowLock[d] # None => row[d] # None

TypeInv ==
    /\ TypeOK
    /\ \A e \in Dispatches : Dispatching(e)
    /\ \A m \in Manual : Redelivering(m)
    /\ \A w \in Workers : Retrying(w)
    /\ LockedIsThere

----------------------------------------------------------------------------
(* What becomes of the rows that a loop holds. *)

\* The attempt for d is under way or counted in the loop's copy.
Posted(w, d) ==
    old[w][d] # None /\ (task[w] = d \/ new[w][d].retries # old[w][d].retries)

\* The loop changes a row that it has selected once: it is dropped or retried.
Processed(w) ==
    \A d \in Deliveries : old[w][d] # None =>
        /\ d \in batch[w] \cup {task[w]} => new[w][d] = old[w][d]
        /\ task[w] \notin batch[w]
        /\ \/ new[w][d] = old[w][d]
           \/ new[w][d] = Dropped(old[w][d])
           \/ \E ok \in BOOLEAN : new[w][d] = Retried(old[w][d], ok)

\* A row that was selected and is gone was deleted with its webhook.
GoneIsDeleted ==
    \A w \in Workers, d \in Deliveries :
        old[w][d] # None /\ row[d] = None => hook[HookOf[d]] = "deleted"

\* With a webhook its rows are gone.
DeletedIsGone ==
    \A d \in Deliveries : hook[HookOf[d]] = "deleted" => row[d] = None

\* A request to retry counts its attempt when it is answered.
Asked(m) ==
    /\ pc[m] = "wait" => new[m][task[m]] = old[m][task[m]]
    /\ pc[m] = "commit" =>
          \E ok \in BOOLEAN : new[m][task[m]] = Redelivered(old[m][task[m]], ok)

\* A delivery that is still to be stored has had one POST at most, and is
\* nowhere else.
StillToStore(e, d) ==
    /\ row[d] = None
    /\ \A w \in Workers : old[w][d] = None
    /\ manual[d] = 0
    /\ posts[d] = IF new[e][d] = None THEN 0 ELSE 1
    /\ pc[e] = "idle" => new[e][d] = None
    /\ d \in batch[e] => new[e][d] = None
    /\ new[e][d] # None => new[e][d] = [success |-> TRUE, retries |-> 0, due |-> FALSE]

Unstored ==
    \A e \in Dispatches : pc[e] \in {"idle", "send"} =>
        \A d \in Targets[e] : StillToStore(e, d)

\* A row that is due has failed before.
DueCounted ==
    \A d \in Deliveries :
        /\ row[d] # None /\ row[d].due => row[d].retries >= 1
        /\ \A w \in Workers : old[w][d] # None => old[w][d].retries >= 1

\* The loops whose batch has outlived the lock, as far as they hold the
\* delivery or may still select it: no more than there were late batches.
Stragglers(d) ==
    {w \in Workers : lock # w /\ (pc[w] = "select" \/ old[w][d] # None)}

FewStragglers == \A d \in Deliveries : Cardinality(Stragglers(d)) <= late

StoreInv ==
    /\ \A w \in Workers : Processed(w)
    /\ DueCounted
    /\ FewStragglers
    /\ GoneIsDeleted
    /\ DeletedIsGone
    /\ \A m \in Manual : Asked(m)
    /\ Unstored

----------------------------------------------------------------------------
(* The POSTs that may still be made. *)

\* The attempts that the loop would make of a row.
Left(r) ==
    IF r = None \/ r.success \/ ~r.due THEN 0
    ELSE IF r.retries + 1 < MaxRetries THEN MaxRetries - r.retries ELSE 1

Asking(d) == {m \in Manual : task[m] = d}
Lost      == {h \in Hooks : /\ hook[h] = "deleted"
                            /\ lock \in Workers => \A d \in Deliveries :
                                   HookOf[d] = h => old[lock][d] = None}

\* The POSTs allowed for what has happened so far: an administrator's answer
\* brings the loop's attempts, and so does a batch that outlives the lock; a
\* crash or a deletion loses what was counted.
Allowed(d) ==
    1 + manual[d] + LoopAttempts * (manual[d] - Cardinality(Asking(d)))
      + LoopAttempts * late + crashes + Cardinality(Lost)

\* The stragglers that have not made their attempt, and what they all may
\* still cost: that attempt, and what their commit may wind the count back.
Unsent(d) == {w \in Stragglers(d) : ~Posted(w, d)}
Stake(d)  == (LoopAttempts - 1) * Cardinality(Stragglers(d)) + Cardinality(Unsent(d))

\* The loop with the lock has an attempt under way.
Uncommitted(d) == IF lock \in Workers /\ Posted(lock, d) THEN 1 ELSE 0

PostOK(d) ==
    /\ Cardinality(Asking(d)) <= manual[d]
    /\ posts[d] + Left(row[d]) + Stake(d) <= Allowed(d) + Uncommitted(d)
    /\ lock \in Workers /\ old[lock][d] # None =>
          posts[d] + Left(old[lock][d]) + Stake(d) <= Allowed(d) + Uncommitted(d)

PostInv == \A d \in Deliveries : PostOK(d)

\* While nothing but the loops touches the deliveries, the count lags behind
\* by the attempts under way and by a round for each late batch; a straggler
\* that is still at work has not used up its round.
Posters(d) == {w \in Workers : Posted(w, d)}
Behind(d)  == posts[d] + LoopAttempts * Cardinality(Stragglers(d))
Slack(d)   == 1 + Cardinality(Posters(d)) + LoopAttempts * late

CountOK(d) ==
    /\ row[d] # None => /\ Behind(d) <= Slack(d) + row[d].retries
                        /\ row[d].retries <= LoopAttempts + 1
                        /\ row[d].due => row[d].retries <= LoopAttempts
    /\ \A w \in Workers : old[w][d] # None => old[w][d].retries <= LoopAttempts
    /\ lock \in Workers /\ old[lock][d] # None => Behind(d) <= Slack(d) + old[lock][d].retries

CountInv == Undisturbed => \A d \in Deliveries : CountOK(d)

----------------------------------------------------------------------------
(* Facts about the constants and the operators. *)

LEMMA Constants ==
    /\ Deliveries \subseteq Nat
    /\ HookOf \in [Deliveries -> Hooks]
    /\ Targets \in [Dispatches -> SUBSET Deliveries]
    /\ MaxRetries \in Nat \ {0} /\ MaxCrashes \in Nat /\ MaxLate \in Nat
    /\ IsFiniteSet(Hooks) /\ IsFiniteSet(Manual) /\ IsFiniteSet(Workers)
    /\ None \notin Workers /\ None \notin Deliveries /\ None \notin Rows
    /\ Waiting \subseteq Deliveries /\ Sent \subseteq Deliveries
    /\ Waiting \cap Sent = {}
BY WebhooksAssumption

LEMMA Disjoint ==
    /\ \A e \in Dispatches : e \notin Manual /\ e \notin Workers /\ e \in Actors
    /\ \A m \in Manual : m \notin Dispatches /\ m \notin Workers /\ m \in Actors
    /\ \A w \in Workers : w \notin Dispatches /\ w \notin Manual /\ w \in Actors
BY WebhooksAssumption DEF Actors

\* The row that is taken first is one of them.
LEMMA FirstIsOne ==
    ASSUME NEW ds \in SUBSET Deliveries, ds # {}
    PROVE  FirstOf(ds) \in ds
<1>1. ds \subseteq Nat
    BY Constants
<1>2. PICK d \in ds : \A e \in ds : ~ (<<e, d>> \in OpToRel(<, Nat))
    BY <1>1, NatLessThanWellFounded, WFMin
<1>3. ASSUME NEW e \in ds
      PROVE  ~ (e < d)
    BY <1>1, <1>2, Zenon DEF OpToRel
<1>4. \A e \in ds : d <= e
    BY <1>1, <1>3
<1> QED
    BY <1>4 DEF FirstOf

LEMMA NotNone == \A r \in Rows : r # None
BY Constants

LEMMA RowsOfRetries ==
    ASSUME NEW r \in Rows, NEW ok \in BOOLEAN
    PROVE  Retried(r, ok) \in Rows /\ Redelivered(r, ok) \in Rows /\ Dropped(r) \in Rows
BY DEF Retried, Redelivered, Dropped, Rows

LEMMA RowsOfMerges ==
    ASSUME NEW r \in Rows, NEW was \in Rows, NEW is \in Rows
    PROVE  Merged(r, was, is) \in Rows
BY DEF Merged, Rows

\* Publishing a session's changes leaves a table of rows, if the merged ones are rows.
LEMMA PublishedRows ==
    ASSUME row \in [Deliveries -> Rows \cup {None}], NEW a \in Actors, Publish(a),
           \A d \in Changed(a) : Merged(row[d], old[a][d], new[a][d]) \in Rows
    PROVE  row' \in [Deliveries -> Rows \cup {None}]
<1> DEFINE written(d) == Merged(row[d], old[a][d], new[a][d])
           after(d) == IF d \in Changed(a) THEN written(d) ELSE row[d]
<1>1. row' = [d \in Deliveries |-> after(d)]
    BY DEF Publish
<1>2. \A d \in Deliveries : after(d) \in Rows \cup {None}
    OBVIOUS
<1> HIDE DEF after
<1> QED
    BY <1>1, <1>2

----------------------------------------------------------------------------
(* Who takes a step, and what it leaves alone. *)

Same(a) ==
    /\ pc'[a] = pc[a] /\ task'[a] = task[a] /\ batch'[a] = batch[a]
    /\ old'[a] = old[a] /\ new'[a] = new[a]

\* What is in the sessions, and what is not.
SessionOK ==
    /\ rowLock \in [Deliveries -> Workers \cup {None}]
    /\ pc \in [Actors -> {"idle", "send", "select", "look", "wait", "commit", "failed", "done"}]
    /\ task \in [Actors -> Deliveries \cup {None}]
    /\ batch \in [Actors -> SUBSET Deliveries]
    /\ old \in [Actors -> [Deliveries -> Rows \cup {None}]]
    /\ new \in [Actors -> [Deliveries -> Rows \cup {None}]]
    /\ seen \in [Actors -> [Hooks -> {"active", "disabled", "deleted", None}]]

TableOK ==
    /\ hook \in [Hooks -> {"active", "disabled", "deleted"}]
    /\ row \in [Deliveries -> Rows \cup {None}]
    /\ lock \in Workers \cup {None}
    /\ posts \in [Deliveries -> Nat]
    /\ manual \in [Deliveries -> Nat]
    /\ crashes \in 0..MaxCrashes /\ late \in 0..MaxLate

\* Nothing is left of a session that is closed.
LEMMA Closed ==
    ASSUME TypeOK, NEW a \in Actors, NEW label \in {"idle", "failed", "done"}, Close(a, label)
    PROVE  /\ SessionOK'
           /\ pc'[a] = label /\ task'[a] = None /\ batch'[a] = {}
           /\ old'[a] = NoRows /\ new'[a] = NoRows
           /\ \A d \in Deliveries : rowLock'[d] # None => rowLock[d] # None /\ rowLock[d] # a
<1>1. /\ pc' \in [Actors -> {"idle", "send", "select", "look", "wait", "commit", "failed", "done"}]
      /\ task' \in [Actors -> Deliveries \cup {None}]
      /\ batch' \in [Actors -> SUBSET Deliveries]
      /\ rowLock' \in [Deliveries -> Workers \cup {None}]
    BY DEF TypeOK, Close, Goto, Unlocked
<1>2. /\ NoRows \in [Deliveries -> Rows \cup {None}]
      /\ NoHooks \in [Hooks -> {"active", "disabled", "deleted", None}]
    BY DEF NoRows, NoHooks
<1>3. /\ old' \in [Actors -> [Deliveries -> Rows \cup {None}]]
      /\ new' \in [Actors -> [Deliveries -> Rows \cup {None}]]
      /\ seen' \in [Actors -> [Hooks -> {"active", "disabled", "deleted", None}]]
    BY <1>2 DEF TypeOK, Close
<1>4. SessionOK'
    BY <1>1, <1>3 DEF SessionOK
<1> QED
    BY <1>4 DEF TypeOK, Close, Goto, Unlocked

LEMMA DispatchAlone ==
    ASSUME TypeOK, NEW e \in Dispatches, Dispatch(e)
    PROVE  \A a \in Actors \ {e} : Same(a)
BY Disjoint DEF TypeOK, Same, Dispatch, ListWebhooks, SendFirst, SendFirstFails, InsertDeliveries,
   Close, Goto

LEMMA RetryAlone ==
    ASSUME TypeOK, NEW w \in Workers, AcquireLock(w) \/ Retry(w) \/ Crash(w)
    PROVE  \A a \in Actors \ {w} : Same(a)
<1>1. CASE AcquireLock(w)
    BY <1>1, Disjoint DEF TypeOK, Same, AcquireLock, Goto, session
<1>2. CASE Crash(w)
    BY <1>2, Disjoint DEF TypeOK, Same, Crash, Close, Goto
<1>3. CASE Retry(w)
    BY <1>3, Disjoint DEF TypeOK, Same, Retry, SelectPending, RowIsGone, LookUp, Answer,
       CommitBatch, Close, Goto
<1> QED
    BY <1>1, <1>2, <1>3

LEMMA RedeliverAlone ==
    ASSUME TypeOK, NEW m \in Manual, Redeliver(m)
    PROVE  \A a \in Actors \ {m} : Same(a)
BY Disjoint DEF TypeOK, Same, Redeliver, LoadDelivery, AnswerManual, CommitManual, Close, Goto

LEMMA OwnStep ==
    ASSUME TypeOK, Next, NEW a \in Actors, ~Same(a)
    PROVE  \/ a \in Dispatches /\ Dispatch(a)
           \/ a \in Workers /\ (AcquireLock(a) \/ Retry(a) \/ Crash(a))
           \/ a \in Manual /\ Redeliver(a)
<1>1. CASE \E e \in Dispatches : Dispatch(e)
    BY <1>1, DispatchAlone
<1>2. CASE \E w \in Workers : AcquireLock(w) \/ Retry(w) \/ Crash(w)
    BY <1>2, RetryAlone
<1>3. CASE \E m \in Manual : Redeliver(m)
    BY <1>3, RedeliverAlone
<1>4. CASE (\E h \in Hooks : Toggle(h) \/ Delete(h)) \/ LockExpires
    BY <1>4 DEF Same, Toggle, Delete, LockExpires, session
<1> QED
    BY <1>1, <1>2, <1>3, <1>4 DEF Next

----------------------------------------------------------------------------
(* The type invariant holds at the start and is preserved by every step. *)

LEMMA InitType == Init => TypeInv
<1> SUFFICES ASSUME Init PROVE TypeInv
    OBVIOUS
<1>1. TypeOK
    BY Constants, Disjoint DEF Init, TypeOK, Rows, NoRows, NoHooks
<1>2. /\ \A e \in Dispatches : Dispatching(e)
      /\ \A m \in Manual : Redelivering(m)
      /\ \A w \in Workers : Retrying(w)
    BY Constants, Disjoint DEF Init, Dispatching, Redelivering, Retrying, NoRows
<1> QED
    BY <1>1, <1>2 DEF TypeInv, LockedIsThere, Init

LEMMA DispatchTypeOK ==
    ASSUME TypeInv, NEW e \in Dispatches, Dispatch(e)
    PROVE  TypeOK'
<1>1. TypeOK /\ Dispatching(e) /\ e \in Actors
    BY Disjoint DEF TypeInv
<1>2. CASE ListWebhooks(e)
    BY <1>1, <1>2, Constants DEF TypeOK, ListWebhooks, Goto
<1>3. CASE SendFirst(e)
    <2> DEFINE d == FirstOf(batch[e])
    <2>1. d \in Deliveries
        BY <1>1, <1>3, FirstIsOne DEF TypeOK, SendFirst
    <2>2. [success |-> TRUE, retries |-> 0, due |-> FALSE] \in Rows
        BY DEF Rows
    <2> HIDE DEF d
    <2>3. new'[e] \in [Deliveries -> Rows \cup {None}]
        BY <1>1, <1>3, <2>1, <2>2 DEF TypeOK, SendFirst, d
    <2> QED
        BY <1>1, <1>3, <2>1, <2>2 DEF TypeOK, SendFirst, d, CountPost
<1>4. CASE SendFirstFails(e)
    <2>1. FirstOf(batch[e]) \in Deliveries
        BY <1>1, <1>4, FirstIsOne DEF TypeOK, SendFirstFails
    <2>2. TableOK'
        BY <1>1, <1>4, <2>1 DEF TypeOK, TableOK, SendFirstFails, CountPost
    <2>3. SessionOK'
        BY <1>1, <1>4, Closed DEF SendFirstFails
    <2> QED
        BY <2>2, <2>3 DEF TypeOK, SessionOK, TableOK
<1>5. CASE InsertDeliveries(e)
    <2>1. TableOK'
        <3> DEFINE made == {d \in Deliveries : new[e][d] # None}
                   after(d) == IF d \in made THEN new[e][d] ELSE row[d]
        <3>1. row' = [d \in Deliveries |-> after(d)] \/ row' = row
            BY <1>5 DEF InsertDeliveries
        <3>2. \A d \in Deliveries : new[e][d] \in Rows \cup {None} /\ row[d] \in Rows \cup {None}
            BY <1>1 DEF TypeOK
        <3>3. \A d \in Deliveries : after(d) \in Rows \cup {None}
            BY <3>2
        <3> HIDE DEF made, after
        <3>4. row' \in [Deliveries -> Rows \cup {None}]
            BY <1>1, <3>1, <3>3 DEF TypeOK
        <3> QED
            BY <1>1, <1>5, <3>4 DEF TypeOK, TableOK, InsertDeliveries
    <2>2. SessionOK'
        <3>1. Close(e, "done") \/ Close(e, "failed")
            BY <1>5 DEF InsertDeliveries
        <3> QED
            BY <1>1, <3>1, Closed
    <2> QED
        BY <2>1, <2>2 DEF TypeOK, SessionOK, TableOK
<1> QED
    BY <1>2, <1>3, <1>4, <1>5 DEF Dispatch

LEMMA DispatchType ==
    ASSUME TypeInv, NEW e \in Dispatches, Dispatch(e)
    PROVE  TypeInv'
<1>1. TypeOK /\ Dispatching(e) /\ e \in Actors
    BY Disjoint DEF TypeInv
<1>2. TypeOK'
    BY DispatchTypeOK
<1>3. \A a \in Actors \ {e} : Same(a)
    BY <1>1, DispatchAlone
<1>4. Dispatching(e)'
    <2>1. ASSUME batch[e] # {}
          PROVE  FirstOf(batch[e]) \in batch[e]
        BY <1>1, <2>1, FirstIsOne DEF TypeOK
    <2>2. CASE ListWebhooks(e)
        BY <1>1, <2>2, Constants DEF TypeOK, Dispatching, ListWebhooks, Goto, NoRows
    <2>3. CASE SendFirst(e)
        BY <1>1, <2>1, <2>3 DEF TypeOK, Dispatching, SendFirst
    <2>4. CASE SendFirstFails(e)
        BY <1>1, <2>4 DEF TypeOK, Dispatching, SendFirstFails, Close, Goto, NoRows
    <2>5. CASE InsertDeliveries(e)
        BY <1>1, <2>5 DEF TypeOK, Dispatching, InsertDeliveries, Close, Goto, NoRows
    <2> QED
        BY <2>2, <2>3, <2>4, <2>5 DEF Dispatch
<1>5. \A f \in Dispatches : Dispatching(f)'
    BY <1>3, <1>4, Disjoint DEF TypeInv, Dispatching, Same
<1>6. /\ \A m \in Manual : Redelivering(m)'
      /\ \A w \in Workers : Retrying(w)'
    BY <1>3, Disjoint DEF TypeInv, Redelivering, Retrying, Same
<1>7. LockedIsThere'
    BY Constants DEF TypeInv, LockedIsThere, Dispatch, ListWebhooks, SendFirst, SendFirstFails,
       InsertDeliveries, Close, Unlocked
<1> QED
    BY <1>2, <1>5, <1>6, <1>7 DEF TypeInv

\* The copies of a row that a loop is about to work on.
LEMMA Copies ==
    ASSUME TypeOK, NEW w \in Workers, Retrying(w), NEW d \in Deliveries, old[w][d] # None
    PROVE  old[w][d] \in Rows /\ new[w][d] \in Rows
<1>1. new[w][d] # None
    BY DEF Retrying
<1>2. w \in Actors
    BY Disjoint
<1> QED
    BY <1>1, <1>2 DEF TypeOK

LEMMA AtHand ==
    ASSUME TypeOK, NEW w \in Workers, Retrying(w), pc[w] = "wait"
    PROVE  task[w] \in Deliveries /\ old[w][task[w]] # None /\ new[w][task[w]] \in Rows
<1>1. w \in Actors
    BY Disjoint
<1>2. task[w] # None
    BY DEF Retrying
<1>3. task[w] \in Deliveries
    BY <1>1, <1>2 DEF TypeOK
<1>4. old[w][task[w]] # None
    BY <1>3 DEF Retrying
<1> QED
    BY <1>3, <1>4, Copies

\* One delivery of the batch is sent or dropped.
Sends(w, d) ==
    /\ new' = new
    /\ pc' = [pc EXCEPT ![w] = "wait"]
    /\ task' = [task EXCEPT ![w] = d]
    /\ posts' = [posts EXCEPT ![d] = @ + 1]

Drops(w, d) ==
    /\ new' = [new EXCEPT ![w] = [new[w] EXCEPT ![d] = Dropped(new[w][d])]]
    /\ UNCHANGED <<pc, task, posts>>

LEMMA LookUpStep ==
    ASSUME TypeOK, NEW w \in Workers, Retrying(w), LookUp(w)
    PROVE  \E d \in batch[w] :
              /\ d \in Deliveries /\ old[w][d] \in Rows /\ new[w][d] \in Rows
              /\ pc[w] = "look" /\ old' = old
              /\ batch' = [batch EXCEPT ![w] = @ \ {d}]
              /\ Sends(w, d) \/ Drops(w, d)
<1> DEFINE d == FirstOf(batch[w])
<1>1. w \in Actors
    BY Disjoint
<1>2. d \in batch[w] /\ d \in Deliveries
    BY <1>1, FirstIsOne DEF TypeOK, LookUp
<1> HIDE DEF d
<1>3. old[w][d] \in Rows /\ new[w][d] \in Rows
    <2>1. old[w][d] # None
        BY <1>2 DEF Retrying
    <2> QED
        BY <1>2, <2>1, Copies
<1>4. pc[w] = "look" /\ old' = old /\ batch' = [batch EXCEPT ![w] = @ \ {d}]
    BY DEF LookUp, d
<1>5. Sends(w, d) \/ Drops(w, d)
    BY <1>1, <1>2 DEF TypeOK, LookUp, Sends, Drops, d, Goto, CountPost
<1> QED
    BY <1>2, <1>3, <1>4, <1>5

LEMMA RetryTypeOK ==
    ASSUME TypeInv, NEW w \in Workers, AcquireLock(w) \/ Retry(w) \/ Crash(w)
    PROVE  TypeOK'
<1>1. TypeOK /\ Retrying(w) /\ LockedIsThere /\ w \in Actors
    BY Disjoint DEF TypeInv
<1>3. CASE AcquireLock(w)
    BY <1>1, <1>3 DEF TypeOK, AcquireLock, Goto, session
<1>4. CASE SelectPending(w)
    BY <1>1, <1>4 DEF TypeOK, SelectPending, Goto
<1>5. CASE RowIsGone(w) \/ Crash(w)
    <2>1. TableOK'
        BY <1>1, <1>5, Constants DEF TypeOK, TableOK, RowIsGone, Crash
    <2>2. SessionOK'
        BY <1>1, <1>5, Closed DEF RowIsGone, Crash
    <2> QED
        BY <2>1, <2>2 DEF TypeOK, SessionOK, TableOK
<1>6. CASE LookUp(w)
    <2>1. PICK d \in batch[w] :
              /\ d \in Deliveries /\ old[w][d] \in Rows /\ new[w][d] \in Rows
              /\ pc[w] = "look" /\ old' = old
              /\ batch' = [batch EXCEPT ![w] = @ \ {d}]
              /\ Sends(w, d) \/ Drops(w, d)
        BY <1>1, <1>6, LookUpStep
    <2>2. Dropped(new[w][d]) \in Rows
        BY <2>1 DEF Dropped, Rows
    <2>3. /\ new' \in [Actors -> [Deliveries -> Rows \cup {None}]]
          /\ task' \in [Actors -> Deliveries \cup {None}]
          /\ posts' \in [Deliveries -> Nat]
        <3>1. CASE Sends(w, d)
            BY <1>1, <2>1, <3>1 DEF TypeOK, Sends
        <3>2. CASE Drops(w, d)
            <4>1. [new[w] EXCEPT ![d] = Dropped(new[w][d])] \in [Deliveries -> Rows \cup {None}]
                BY <1>1, <2>2 DEF TypeOK
            <4> QED
                BY <1>1, <3>2, <4>1 DEF TypeOK, Drops
        <3> QED
            BY <2>1, <3>1, <3>2
    <2>4. pc' \in [Actors -> {"idle", "send", "select", "look", "wait", "commit", "failed", "done"}]
        BY <1>1, <2>1, ZenonT(60) DEF TypeOK, Sends, Drops
    <2>5. \A c \in Deliveries : rowLock'[c] \in Workers \cup {None}
        BY <1>1, <1>6 DEF TypeOK, LookUp, Flush
    <2>6. rowLock' \in [Deliveries -> Workers \cup {None}]
        BY <1>6, <2>5 DEF LookUp, Flush
    <2>7. HookOf[FirstOf(batch[w])] \in Hooks
        BY <1>1, <1>6, FirstIsOne, Constants DEF TypeOK, LookUp
    <2>8. seen' \in [Actors -> [Hooks -> {"active", "disabled", "deleted", None}]]
        BY <1>1, <1>6, <2>7 DEF TypeOK, LookUp
    <2>9. SessionOK'
        BY <1>1, <2>1, <2>3, <2>4, <2>6, <2>8 DEF TypeOK, SessionOK
    <2>10. TableOK'
        BY <1>1, <1>6, <2>3 DEF TypeOK, TableOK, LookUp
    <2> QED
        BY <2>9, <2>10 DEF TypeOK, SessionOK, TableOK
<1>7. CASE Answer(w)
    <2>1. task[w] \in Deliveries /\ new[w][task[w]] \in Rows
        BY <1>1, <1>7, AtHand DEF Answer
    <2>2. \A ok \in BOOLEAN : Retried(new[w][task[w]], ok) \in Rows
        BY <2>1, RowsOfRetries
    <2> QED
        BY <1>1, <1>7, <2>1, <2>2 DEF TypeOK, Answer, Goto
<1>8. CASE CommitBatch(w)
    <2>1. ASSUME NEW c \in Changed(w)
          PROVE  Merged(row[c], old[w][c], new[w][c]) \in Rows
        <3>1. c \in Deliveries /\ new[w][c] # old[w][c]
            BY <2>1 DEF Changed
        <3>2. old[w][c] \in Rows /\ new[w][c] \in Rows
            BY <1>1, <3>1 DEF TypeOK, Retrying
        <3>3. row[c] \in Rows
            BY <1>1, <1>8, <2>1, <3>1, Constants DEF TypeOK, LockedIsThere, CommitBatch, Dirty
        <3> QED
            BY <3>2, <3>3, RowsOfMerges
    <2>2. row' \in [Deliveries -> Rows \cup {None}]
        BY <1>1, <1>8, <2>1, PublishedRows DEF TypeOK, CommitBatch
    <2>3. TableOK'
        BY <1>1, <1>8, <2>2 DEF TypeOK, TableOK, CommitBatch
    <2>4. SessionOK'
        BY <1>1, <1>8, Closed DEF CommitBatch
    <2> QED
        BY <2>3, <2>4 DEF TypeOK, SessionOK, TableOK
<1> QED
    BY <1>3, <1>4, <1>5, <1>6, <1>7, <1>8 DEF Retry

LEMMA RetryType ==
    ASSUME TypeInv, NEW w \in Workers, AcquireLock(w) \/ Retry(w) \/ Crash(w)
    PROVE  TypeInv'
<1>1. TypeOK /\ Retrying(w) /\ LockedIsThere /\ w \in Actors
    BY Disjoint DEF TypeInv
<1>2. TypeOK'
    BY RetryTypeOK
<1>3. \A a \in Actors \ {w} : Same(a)
    BY <1>1, RetryAlone
<1>5. Retrying(w)'
    <2>1. CASE AcquireLock(w)
        BY <1>1, <2>1 DEF TypeOK, Retrying, AcquireLock, Goto, session
    <2>2. CASE SelectPending(w)
        BY <1>1, <2>2, Constants DEF TypeOK, Retrying, SelectPending, Goto
    <2>3. CASE Crash(w) \/ RowIsGone(w) \/ CommitBatch(w)
        <3>1. Close(w, "idle")
            BY <2>3 DEF Crash, RowIsGone, CommitBatch
        <3>2. /\ pc'[w] = "idle" /\ task'[w] = None /\ batch'[w] = {}
              /\ old'[w] = NoRows /\ new'[w] = NoRows
            BY <1>1, <3>1, Closed
        <3> QED
            BY <3>2, Constants DEF Retrying, NoRows
    <2>4. CASE LookUp(w)
        <3>1. PICK d \in batch[w] :
                  /\ d \in Deliveries /\ old[w][d] \in Rows /\ new[w][d] \in Rows
                  /\ pc[w] = "look" /\ old' = old
                  /\ batch' = [batch EXCEPT ![w] = @ \ {d}]
                  /\ Sends(w, d) \/ Drops(w, d)
            BY <1>1, <2>4, LookUpStep
        <3>2. Dropped(new[w][d]) # None /\ d # None /\ old[w][d] # None
            <4>1. Dropped(new[w][d]) \in Rows
                BY <3>1 DEF Dropped, Rows
            <4> QED
                BY <3>1, <4>1, Constants
        <3>3. /\ old'[w] = old[w] /\ batch'[w] = batch[w] \ {d}
              /\ \/ pc'[w] = "wait" /\ task'[w] = d /\ new'[w] = new[w]
                 \/ /\ pc'[w] = "look" /\ task'[w] = task[w]
                    /\ new'[w] = [new[w] EXCEPT ![d] = Dropped(new[w][d])]
            BY <1>1, <3>1 DEF TypeOK, Sends, Drops
        <3>4. new[w] \in [Deliveries -> Rows \cup {None}]
            BY <1>1 DEF TypeOK
        <3> QED
            BY <1>1, <3>1, <3>2, <3>3, <3>4 DEF Retrying
    <2>5. CASE Answer(w)
        <3>1. /\ task[w] \in Deliveries /\ new[w][task[w]] \in Rows
              /\ old[w][task[w]] # None
            BY <1>1, <2>5, AtHand DEF Answer
        <3>2. PICK ok \in BOOLEAN :
                  new'[w] = [new[w] EXCEPT ![task[w]] = Retried(new[w][task[w]], ok)]
            BY <1>1, <2>5 DEF TypeOK, Answer
        <3>3. Retried(new[w][task[w]], ok) # None
            <4>1. Retried(new[w][task[w]], ok) \in Rows
                BY <3>1, RowsOfRetries
            <4> QED
                BY <4>1, Constants
        <3>4. /\ pc'[w] = "look" /\ task'[w] = None
              /\ old'[w] = old[w] /\ batch'[w] = batch[w]
            BY <1>1, <2>5 DEF TypeOK, Answer, Goto
        <3>5. new[w] \in [Deliveries -> Rows \cup {None}]
            BY <1>1 DEF TypeOK
        <3> QED
            BY <1>1, <3>1, <3>2, <3>3, <3>4, <3>5, Constants DEF Retrying
    <2> QED
        BY <2>1, <2>2, <2>3, <2>4, <2>5 DEF Retry
<1>6. \A v \in Workers : Retrying(v)'
    BY <1>3, <1>5, Disjoint DEF TypeInv, Retrying, Same
<1>7. /\ \A m \in Manual : Redelivering(m)'
      /\ \A e \in Dispatches : Dispatching(e)'
    BY <1>3, Disjoint DEF TypeInv, Redelivering, Dispatching, Same
<1>8. LockedIsThere'
    <2>1. CASE AcquireLock(w) \/ SelectPending(w) \/ Answer(w)
        BY <1>1, <2>1 DEF LockedIsThere, AcquireLock, SelectPending, Answer
    <2>2. CASE Crash(w) \/ RowIsGone(w)
        BY <1>1, <2>2, Closed DEF LockedIsThere, Crash, RowIsGone
    <2>3. CASE LookUp(w)
        BY <1>1, <2>3 DEF LockedIsThere, LookUp, Flush
    <2>4. CASE CommitBatch(w)
        <3>1. \A c \in Deliveries : rowLock'[c] # None => rowLock[c] # None /\ rowLock[c] # w
            BY <1>1, <2>4, Closed DEF CommitBatch
        <3>2. \A c \in Deliveries : rowLock[c] # None /\ rowLock[c] # w => c \notin Changed(w)
            BY <2>4 DEF CommitBatch, Dirty
        <3> QED
            BY <1>1, <2>4, <3>1, <3>2 DEF LockedIsThere, CommitBatch, Publish
    <2> QED
        BY <2>1, <2>2, <2>3, <2>4 DEF Retry
<1> QED
    BY <1>2, <1>6, <1>7, <1>8 DEF TypeInv

\* The one row that a request holds.
LEMMA OneRow ==
    ASSUME TypeOK, NEW m \in Manual, Redelivering(m), pc[m] \in {"wait", "commit"}
    PROVE  /\ task[m] \in Deliveries
           /\ old[m][task[m]] \in Rows /\ new[m][task[m]] \in Rows
           /\ \A d \in Deliveries : d # task[m] => d \notin Changed(m)
<1>1. m \in Actors /\ task[m] # None
    BY Disjoint DEF Redelivering
<1>2. task[m] \in Deliveries
    BY <1>1 DEF TypeOK
<1>3. old[m][task[m]] # None /\ new[m][task[m]] # None
    BY <1>2 DEF Redelivering
<1>4. ASSUME NEW d \in Deliveries, d # task[m]
      PROVE  d \notin Changed(m)
    BY <1>4 DEF Redelivering, Changed
<1> QED
    BY <1>1, <1>2, <1>3, <1>4 DEF TypeOK

LEMMA RedeliverTypeOK ==
    ASSUME TypeInv, NEW m \in Manual, Redeliver(m)
    PROVE  TypeOK'
<1>1. TypeOK /\ Redelivering(m) /\ LockedIsThere /\ m \in Actors
    BY Disjoint DEF TypeInv
<1>2. CASE LoadDelivery(m)
    <2>1. PICK d \in Deliveries :
              /\ row[d] # None
              /\ old' = [old EXCEPT ![m] = [old[m] EXCEPT ![d] = row[d]]]
              /\ new' = [new EXCEPT ![m] = [new[m] EXCEPT ![d] = row[d]]]
              /\ task' = [task EXCEPT ![m] = d]
              /\ posts' = [posts EXCEPT ![d] = @ + 1]
              /\ manual' = [manual EXCEPT ![d] = @ + 1]
        BY <1>2 DEF LoadDelivery, CountPost
    <2>2. /\ [old[m] EXCEPT ![d] = row[d]] \in [Deliveries -> Rows \cup {None}]
          /\ [new[m] EXCEPT ![d] = row[d]] \in [Deliveries -> Rows \cup {None}]
        BY <1>1, <2>1 DEF TypeOK
    <2>3. /\ old' \in [Actors -> [Deliveries -> Rows \cup {None}]]
          /\ new' \in [Actors -> [Deliveries -> Rows \cup {None}]]
          /\ task' \in [Actors -> Deliveries \cup {None}]
        BY <1>1, <2>1, <2>2 DEF TypeOK
    <2>4. pc' \in [Actors -> {"idle", "send", "select", "look", "wait", "commit", "failed", "done"}]
        BY <1>1, <1>2 DEF TypeOK, LoadDelivery, Goto
    <2>5. posts' \in [Deliveries -> Nat] /\ manual' \in [Deliveries -> Nat]
        BY <1>1, <2>1 DEF TypeOK
    <2> QED
        BY <1>1, <1>2, <2>3, <2>4, <2>5 DEF TypeOK, LoadDelivery
<1>3. CASE AnswerManual(m)
    <2>1. task[m] \in Deliveries /\ new[m][task[m]] \in Rows
        BY <1>1, <1>3, OneRow DEF AnswerManual
    <2>2. PICK ok \in BOOLEAN :
              new' = [new EXCEPT ![m] = [new[m] EXCEPT ![task[m]] = Redelivered(new[m][task[m]], ok)]]
        BY <1>3 DEF AnswerManual
    <2>3. Redelivered(new[m][task[m]], ok) \in Rows
        BY <2>1, RowsOfRetries
    <2>4. [new[m] EXCEPT ![task[m]] = Redelivered(new[m][task[m]], ok)] \in [Deliveries -> Rows \cup {None}]
        BY <1>1, <2>1, <2>3 DEF TypeOK
    <2>5. new' \in [Actors -> [Deliveries -> Rows \cup {None}]]
        BY <1>1, <2>2, <2>4 DEF TypeOK
    <2>6. pc' \in [Actors -> {"idle", "send", "select", "look", "wait", "commit", "failed", "done"}]
        BY <1>1, <1>3 DEF TypeOK, AnswerManual, Goto
    <2> QED
        BY <1>1, <1>3, <2>5, <2>6 DEF TypeOK, AnswerManual
<1>4. CASE CommitManual(m)
    <2>1. /\ task[m] \in Deliveries
          /\ old[m][task[m]] \in Rows /\ new[m][task[m]] \in Rows
          /\ \A d \in Deliveries : d # task[m] => d \notin Changed(m)
        BY <1>1, <1>4, OneRow DEF CommitManual
    <2>2. row[task[m]] # None =>
              Merged(row[task[m]], old[m][task[m]], new[m][task[m]]) \in Rows
        BY <1>1, <2>1, RowsOfMerges DEF TypeOK
    <2>3. row' \in [Deliveries -> Rows \cup {None}]
        <3>1. CASE row' = row
            BY <1>1, <3>1 DEF TypeOK
        <3>2. CASE row[task[m]] # None /\ Publish(m)
            <4>1. Changed(m) \subseteq {task[m]}
                BY <2>1 DEF Changed
            <4>2. \A d \in Changed(m) : Merged(row[d], old[m][d], new[m][d]) \in Rows
                BY <2>2, <3>2, <4>1
            <4> QED
                BY <1>1, <3>2, <4>2, PublishedRows DEF TypeOK
        <3> QED
            BY <1>4, <3>1, <3>2 DEF CommitManual
    <2>4. TableOK'
        BY <1>1, <1>4, <2>3 DEF TypeOK, TableOK, CommitManual
    <2>5. SessionOK'
        BY <1>1, <1>4, Closed DEF CommitManual
    <2> QED
        BY <2>4, <2>5 DEF TypeOK, SessionOK, TableOK
<1> QED
    BY <1>2, <1>3, <1>4 DEF Redeliver

LEMMA RedeliverType ==
    ASSUME TypeInv, NEW m \in Manual, Redeliver(m)
    PROVE  TypeInv'
<1>1. TypeOK /\ Redelivering(m) /\ LockedIsThere /\ m \in Actors
    BY Disjoint DEF TypeInv
<1>2. TypeOK'
    BY RedeliverTypeOK
<1>3. \A a \in Actors \ {m} : Same(a)
    BY <1>1, RedeliverAlone
<1>4. Redelivering(m)'
    <2>1. CASE LoadDelivery(m)
        <3>1. PICK d \in Deliveries :
                  /\ row[d] # None
                  /\ old' = [old EXCEPT ![m] = [old[m] EXCEPT ![d] = row[d]]]
                  /\ new' = [new EXCEPT ![m] = [new[m] EXCEPT ![d] = row[d]]]
                  /\ task' = [task EXCEPT ![m] = d]
            BY <2>1 DEF LoadDelivery
        <3>2. task[m] = None /\ pc'[m] = "wait" /\ d # None
            BY <1>1, <2>1, Constants DEF TypeOK, Redelivering, LoadDelivery, Goto
        <3>3. \A c \in Deliveries : old[m][c] = None /\ new[m][c] = None
            BY <1>1, <3>2, Constants DEF Redelivering
        <3>4. /\ task'[m] = d
              /\ old'[m] = [old[m] EXCEPT ![d] = row[d]]
              /\ new'[m] = [new[m] EXCEPT ![d] = row[d]]
              /\ DOMAIN old[m] = Deliveries /\ DOMAIN new[m] = Deliveries
            BY <1>1, <3>1 DEF TypeOK
        <3> QED
            BY <3>1, <3>2, <3>3, <3>4 DEF Redelivering
    <2>2. CASE AnswerManual(m)
        <3>1. task[m] \in Deliveries /\ new[m][task[m]] \in Rows
            BY <1>1, <2>2, OneRow DEF AnswerManual
        <3>2. PICK ok \in BOOLEAN :
                  new' = [new EXCEPT ![m] = [new[m] EXCEPT ![task[m]] = Redelivered(new[m][task[m]], ok)]]
            BY <2>2 DEF AnswerManual
        <3>3. Redelivered(new[m][task[m]], ok) # None
            <4>1. Redelivered(new[m][task[m]], ok) \in Rows
                BY <3>1, RowsOfRetries
            <4> QED
                BY <4>1, Constants
        <3>4. /\ pc'[m] = "commit" /\ task'[m] = task[m] /\ old'[m] = old[m]
              /\ new'[m] = [new[m] EXCEPT ![task[m]] = Redelivered(new[m][task[m]], ok)]
              /\ DOMAIN new[m] = Deliveries
            BY <1>1, <2>2, <3>2 DEF TypeOK, AnswerManual, Goto
        <3> QED
            BY <1>1, <2>2, <3>1, <3>3, <3>4 DEF Redelivering, AnswerManual
    <2>3. CASE CommitManual(m)
        <3>1. /\ pc'[m] = "done" /\ task'[m] = None
              /\ old'[m] = NoRows /\ new'[m] = NoRows
            BY <1>1, <2>3, Closed DEF CommitManual
        <3> QED
            BY <3>1, Constants DEF Redelivering, NoRows
    <2> QED
        BY <2>1, <2>2, <2>3 DEF Redeliver
<1>5. \A n \in Manual : Redelivering(n)'
    BY <1>3, <1>4, Disjoint DEF TypeInv, Redelivering, Same
<1>6. /\ \A w \in Workers : Retrying(w)'
      /\ \A e \in Dispatches : Dispatching(e)'
    BY <1>3, Disjoint DEF TypeInv, Retrying, Dispatching, Same
<1>7. LockedIsThere'
    <2>1. CASE LoadDelivery(m) \/ AnswerManual(m)
        BY <1>1, <2>1 DEF LockedIsThere, LoadDelivery, AnswerManual
    <2>2. CASE CommitManual(m)
        <3>1. \A d \in Deliveries : rowLock'[d] # None => rowLock[d] # None
            BY <1>1, <2>2, Closed DEF CommitManual
        <3>2. \A d \in Deliveries : rowLock[d] # None => row'[d] = row[d]
            <4>1. \A d \in Deliveries : d # task[m] => d \notin Changed(m)
                BY <1>1, <2>2, OneRow DEF CommitManual
            <4> QED
                BY <1>1, <2>2, <4>1 DEF TypeOK, CommitManual, Publish
        <3> QED
            BY <1>1, <3>1, <3>2 DEF LockedIsThere
    <2> QED
        BY <2>1, <2>2 DEF Redeliver
<1> QED
    BY <1>2, <1>5, <1>6, <1>7 DEF TypeInv

LEMMA HookType ==
    ASSUME TypeInv, (\E h \in Hooks : Toggle(h) \/ Delete(h)) \/ LockExpires
    PROVE  TypeInv'
<1>1. UNCHANGED <<rowLock, pc, session, manual, crashes, posts>>
    BY DEF Toggle, Delete, LockExpires
<1>2. TypeOK'
    <2>1. SessionOK'
        BY <1>1 DEF TypeInv, TypeOK, SessionOK, session
    <2>3. TableOK'
        <3>1. CASE \E h \in Hooks : Toggle(h) \/ Delete(h)
            BY <1>1, <3>1 DEF TypeInv, TypeOK, TableOK, Toggle, Delete
        <3>2. CASE LockExpires
            <4>1. hook' = hook /\ row' = row /\ lock' = None /\ late' \in 0..MaxLate
                BY <3>2, Constants DEF TypeInv, TypeOK, LockExpires
            <4> QED
                BY <1>1, <4>1 DEF TypeInv, TypeOK, TableOK
        <3> QED
            BY <3>1, <3>2
    <2> QED
        BY <2>1, <2>3 DEF TypeOK, SessionOK, TableOK
<1>3. /\ \A e \in Dispatches : Dispatching(e)'
      /\ \A m \in Manual : Redelivering(m)'
      /\ \A w \in Workers : Retrying(w)'
    BY <1>1 DEF TypeInv, Dispatching, Redelivering, Retrying, session
<1>4. LockedIsThere'
    BY <1>1 DEF TypeInv, LockedIsThere, Toggle, Delete, LockExpires
<1> QED
    BY <1>2, <1>3, <1>4 DEF TypeInv

LEMMA TypeStep == TypeInv /\ [Next]_vars => TypeInv'
<1> SUFFICES ASSUME TypeInv, [Next]_vars PROVE TypeInv'
    OBVIOUS
<1>1. CASE UNCHANGED vars
    BY <1>1 DEF TypeInv, TypeOK, Dispatching, Redelivering, Retrying, LockedIsThere, vars, session
<1>2. CASE Next
    BY <1>2, DispatchType, RetryType, RedeliverType, HookType DEF Next
<1> QED
    BY <1>1, <1>2

\* Every variable keeps its type: TypeOK, for any number of webhooks,
\* deliveries, dispatches, administrators and replicas.
THEOREM TypeCorrect == Spec => []TypeOK
<1>1. TypeInv => TypeOK
    BY DEF TypeInv
<1> QED
    BY <1>1, InitType, TypeStep, PTL DEF Spec

----------------------------------------------------------------------------
(* What a loop holds. *)

LEMMA TargetsApart ==
    /\ \A e \in Dispatches : Targets[e] \cap (Waiting \cup Sent) = {}
    /\ \A e, f \in Dispatches : e # f => Targets[e] \cap Targets[f] = {}
BY WebhooksAssumption

LEMMA IdleHoldsNothing ==
    ASSUME TypeInv, NEW w \in Workers, pc[w] \in {"idle", "select"}
    PROVE  task[w] = None /\ batch[w] = {} /\ \A d \in Deliveries : old[w][d] = None /\ new[w][d] = None
<1>1. Retrying(w) /\ TypeOK /\ w \in Actors
    BY Disjoint DEF TypeInv
<1>2. task[w] = None /\ old[w] = NoRows
    BY <1>1 DEF Retrying
<1>3. \A d \in Deliveries : old[w][d] = None
    BY <1>2 DEF NoRows
<1> QED
    BY <1>1, <1>2, <1>3 DEF Retrying, TypeOK

----------------------------------------------------------------------------
(* What becomes of the rows that a loop holds. *)

LEMMA ProcessedStep ==
    ASSUME TypeInv, NEW w \in Workers, Processed(w), AcquireLock(w) \/ Retry(w) \/ Crash(w)
    PROVE  Processed(w)'
<1>1. TypeOK /\ Retrying(w) /\ w \in Actors
    BY Disjoint DEF TypeInv
<1>2. CASE AcquireLock(w)
    BY <1>2 DEF Processed, AcquireLock, session
<1>3. CASE SelectPending(w)
    <2>1. /\ task'[w] = None
          /\ \A d \in Deliveries : new'[w][d] = old'[w][d]
        BY <1>1, <1>3, IdleHoldsNothing DEF TypeOK, SelectPending
    <2>2. batch'[w] \subseteq Deliveries
        BY <1>1, <1>3 DEF TypeOK, SelectPending
    <2> QED
        BY <2>1, <2>2, Constants DEF Processed
<1>4. CASE RowIsGone(w) \/ CommitBatch(w) \/ Crash(w)
    <2>1. Close(w, "idle")
        BY <1>4 DEF RowIsGone, CommitBatch, Crash
    <2>2. old'[w] = NoRows
        BY <1>1, <2>1, Closed
    <2> QED
        BY <2>2 DEF Processed, NoRows
<1>5. CASE LookUp(w)
    <2>1. PICK d \in batch[w] :
              /\ d \in Deliveries /\ old[w][d] \in Rows /\ new[w][d] \in Rows
              /\ pc[w] = "look" /\ old' = old
              /\ batch' = [batch EXCEPT ![w] = @ \ {d}]
              /\ Sends(w, d) \/ Drops(w, d)
        BY <1>1, <1>5, LookUpStep
    <2>2. /\ old'[w] = old[w] /\ batch'[w] = batch[w] \ {d}
          /\ \/ task'[w] = d /\ new'[w] = new[w]
             \/ /\ task'[w] = task[w]
                /\ new'[w] = [new[w] EXCEPT ![d] = Dropped(new[w][d])]
        BY <1>1, <2>1 DEF TypeOK, Sends, Drops
    <2>3. new[w] \in [Deliveries -> Rows \cup {None}] /\ old[w][d] # None
        BY <1>1, <2>1, Constants DEF TypeOK
    <2>4. new[w][d] = old[w][d] /\ task[w] = None
        BY <1>1, <2>1, <2>3 DEF Processed, Retrying
    <2> QED
        BY <1>1, <2>1, <2>2, <2>3, <2>4, Constants DEF Processed
<1>6. CASE Answer(w)
    <2>1. /\ task[w] \in Deliveries /\ new[w][task[w]] \in Rows
          /\ old[w][task[w]] # None
        BY <1>1, <1>6, AtHand DEF Answer
    <2>2. PICK ok \in BOOLEAN :
              new'[w] = [new[w] EXCEPT ![task[w]] = Retried(new[w][task[w]], ok)]
        BY <1>1, <1>6 DEF TypeOK, Answer
    <2>3. /\ task'[w] = None /\ old'[w] = old[w] /\ batch'[w] = batch[w]
          /\ new[w] \in [Deliveries -> Rows \cup {None}]
        BY <1>1, <1>6 DEF TypeOK, Answer
    <2>4. new[w][task[w]] = old[w][task[w]] /\ task[w] \notin batch[w]
        BY <2>1 DEF Processed
    <2>5. batch[w] \subseteq Deliveries
        BY <1>1 DEF TypeOK
    <2>6. ASSUME NEW d \in Deliveries, old'[w][d] # None
          PROVE  /\ d \in batch'[w] \cup {task'[w]} => new'[w][d] = old'[w][d]
                 /\ task'[w] \notin batch'[w]
                 /\ \/ new'[w][d] = old'[w][d]
                    \/ new'[w][d] = Dropped(old'[w][d])
                    \/ \E yes \in BOOLEAN : new'[w][d] = Retried(old'[w][d], yes)
        <3>1. CASE d = task[w]
            BY <2>1, <2>2, <2>3, <2>4, <2>5, <3>1, Constants
        <3>2. CASE d # task[w]
            BY <2>1, <2>2, <2>3, <2>5, <2>6, <3>2, Constants DEF Processed
        <3> QED
            BY <3>1, <3>2
    <2> QED
        BY <2>6 DEF Processed
<1> QED
    BY <1>2, <1>3, <1>4, <1>5, <1>6 DEF Retry

----------------------------------------------------------------------------
(* What each step does to the rows. *)

LEMMA DispatchRows ==
    ASSUME TypeInv, NEW e \in Dispatches, Dispatch(e), NEW d \in Deliveries
    PROVE  /\ row'[d] = row[d] \/ (InsertDeliveries(e) /\ new[e][d] # None /\ row'[d] = new[e][d])
           /\ hook' = hook /\ manual' = manual /\ crashes' = crashes
           /\ late' = late /\ lock' = lock
BY DEF Dispatch, ListWebhooks, SendFirst, SendFirstFails, InsertDeliveries

LEMMA RetryRows ==
    ASSUME TypeInv, NEW w \in Workers, AcquireLock(w) \/ Retry(w) \/ Crash(w), NEW d \in Deliveries
    PROVE  /\ \/ row'[d] = row[d] /\ (CommitBatch(w) => d \notin Changed(w))
              \/ /\ CommitBatch(w) /\ d \in Changed(w)
                 /\ row[d] \in Rows /\ old[w][d] \in Rows /\ new[w][d] \in Rows
                 /\ row'[d] = Merged(row[d], old[w][d], new[w][d])
           /\ hook' = hook /\ manual' = manual
<1>1. TypeOK /\ Retrying(w) /\ LockedIsThere /\ w \in Actors
    BY Disjoint DEF TypeInv
<1>2. CASE CommitBatch(w)
    <2>1. ASSUME d \in Changed(w)
          PROVE  /\ row[d] \in Rows /\ old[w][d] \in Rows /\ new[w][d] \in Rows
                 /\ row'[d] = Merged(row[d], old[w][d], new[w][d])
        <3>1. old[w][d] # None
            BY <1>1, <2>1 DEF Retrying, Changed
        <3>2. row[d] # None
            BY <1>1, <1>2, <2>1, Constants DEF TypeOK, LockedIsThere, CommitBatch, Dirty
        <3>3. row'[d] = Merged(row[d], old[w][d], new[w][d])
            BY <1>2, <2>1 DEF CommitBatch, Publish
        <3> QED
            BY <1>1, <3>1, <3>2, <3>3, Copies DEF TypeOK
    <2>2. d \notin Changed(w) => row'[d] = row[d]
        BY <1>2 DEF CommitBatch, Publish
    <2> QED
        BY <1>2, <2>1, <2>2 DEF CommitBatch
<1>3. CASE ~CommitBatch(w)
    BY <1>3 DEF AcquireLock, Retry, Crash, SelectPending, RowIsGone, LookUp, Answer
<1> QED
    BY <1>2, <1>3

LEMMA RedeliverRows ==
    ASSUME TypeInv, NEW m \in Manual, Redeliver(m), NEW d \in Deliveries
    PROVE  /\ \/ row'[d] = row[d]
              \/ /\ CommitManual(m) /\ d = task[m] /\ new[m][d] # old[m][d]
                 /\ row[d] \in Rows /\ old[m][d] \in Rows /\ new[m][d] \in Rows
                 /\ row'[d] = Merged(row[d], old[m][d], new[m][d])
           /\ hook' = hook /\ crashes' = crashes /\ late' = late /\ lock' = lock
<1>1. TypeOK /\ Redelivering(m) /\ m \in Actors
    BY Disjoint DEF TypeInv
<1>2. CASE CommitManual(m)
    <2>1. /\ task[m] \in Deliveries
          /\ old[m][task[m]] \in Rows /\ new[m][task[m]] \in Rows
          /\ \A c \in Deliveries : c # task[m] => c \notin Changed(m)
        BY <1>1, <1>2, OneRow DEF CommitManual
    <2>2. hook' = hook /\ crashes' = crashes /\ late' = late /\ lock' = lock
        BY <1>2 DEF CommitManual
    <2>3. CASE row' = row
        BY <2>2, <2>3
    <2>4. CASE row[task[m]] # None /\ Publish(m)
        <3>1. CASE d \in Changed(m)
            BY <1>1, <1>2, <2>1, <2>2, <2>4, <3>1 DEF TypeOK, Publish, Changed
        <3>2. CASE d \notin Changed(m)
            BY <2>2, <2>4, <3>2 DEF Publish
        <3> QED
            BY <3>1, <3>2
    <2> QED
        BY <1>2, <2>3, <2>4 DEF CommitManual
<1>3. CASE LoadDelivery(m) \/ AnswerManual(m)
    BY <1>3 DEF LoadDelivery, AnswerManual
<1> QED
    BY <1>2, <1>3 DEF Redeliver

\* A row is never lost but with its webhook.
LEMMA RowsStay ==
    ASSUME TypeInv, Next, NEW d \in Deliveries
    PROVE  /\ row[d] # None /\ row'[d] = None => hook'[HookOf[d]] = "deleted"
           /\ hook[HookOf[d]] = "deleted" => hook'[HookOf[d]] = "deleted"
<1>1. CASE \E e \in Dispatches : Dispatch(e)
    BY <1>1, DispatchRows
<1>2. CASE \E w \in Workers : AcquireLock(w) \/ Retry(w) \/ Crash(w)
    <2>1. PICK w \in Workers : AcquireLock(w) \/ Retry(w) \/ Crash(w)
        BY <1>2
    <2>2. row[d] # None => row'[d] # None
        BY <2>1, RetryRows, RowsOfMerges, Constants
    <2> QED
        BY <2>1, <2>2, RetryRows
<1>3. CASE \E m \in Manual : Redeliver(m)
    <2>1. PICK m \in Manual : Redeliver(m)
        BY <1>3
    <2>2. row[d] # None => row'[d] # None
        BY <2>1, RedeliverRows, RowsOfMerges, Constants
    <2> QED
        BY <2>1, <2>2, RedeliverRows
<1>4. CASE (\E h \in Hooks : Toggle(h) \/ Delete(h)) \/ LockExpires
    BY <1>4, Constants DEF TypeInv, TypeOK, Toggle, Delete, LockExpires
<1> QED
    BY <1>1, <1>2, <1>3, <1>4 DEF Next

LEMMA GoneStep ==
    ASSUME TypeInv, GoneIsDeleted, Next
    PROVE  GoneIsDeleted'
<1> SUFFICES ASSUME NEW w \in Workers, NEW d \in Deliveries, old'[w][d] # None, row'[d] = None
             PROVE  hook'[HookOf[d]] = "deleted"
    BY DEF GoneIsDeleted
<1>1. CASE old[w][d] # None
    BY <1>1, RowsStay DEF GoneIsDeleted
<1>2. CASE old[w][d] = None
    <2>1. w \in Actors /\ TypeOK
        BY Disjoint DEF TypeInv
    <2>2. ~Same(w)
        BY <1>2 DEF Same
    <2>3. AcquireLock(w) \/ Retry(w) \/ Crash(w)
        BY <2>1, <2>2, OwnStep, Disjoint
    <2>4. ~(RowIsGone(w) \/ CommitBatch(w) \/ Crash(w))
        <3>1. ASSUME Close(w, "idle")
              PROVE  FALSE
            <4>1. old'[w] = NoRows
                BY <2>1, <3>1, Closed
            <4> QED
                BY <4>1 DEF NoRows
        <3> QED
            BY <3>1 DEF RowIsGone, CommitBatch, Crash
    <2>5. ~(AcquireLock(w) \/ LookUp(w) \/ Answer(w))
        BY <1>2 DEF AcquireLock, LookUp, Answer, session
    <2>6. SelectPending(w)
        BY <2>3, <2>4, <2>5 DEF Retry
    <2>7. row[d] # None /\ row' = row
        BY <2>1, <2>6 DEF TypeOK, SelectPending
    <2> QED
        BY <2>7
<1> QED
    BY <1>1, <1>2

----------------------------------------------------------------------------
(* The deliveries that are still to be stored. *)

\* A dispatch makes its own rows,
LEMMA ItsOwnRows ==
    ASSUME TypeInv, NEW e \in Dispatches, Dispatch(e), pc'[e] \in {"idle", "send"},
           NEW d \in Targets[e], StillToStore(e, d)
    PROVE  StillToStore(e, d)'
<1>1. TypeOK /\ Dispatching(e) /\ e \in Actors /\ d \in Deliveries
    BY Disjoint, Constants DEF TypeInv
<1>2. \A w \in Workers : old'[w] = old[w]
    BY <1>1, DispatchAlone, Disjoint DEF Same
<1>3. CASE ListWebhooks(e)
    <2>1. pc[e] = "idle" /\ new' = new /\ posts' = posts /\ row' = row /\ manual' = manual
        BY <1>3 DEF ListWebhooks
    <2> QED
        BY <1>2, <2>1 DEF StillToStore
<1>4. CASE SendFirst(e)
    <2> DEFINE c == FirstOf(batch[e])
    <2>1. c \in batch[e] /\ c \in Deliveries
        BY <1>1, <1>4, FirstIsOne DEF TypeOK, SendFirst
    <2> HIDE DEF c
    <2>2. /\ row' = row /\ manual' = manual /\ pc'[e] = "send"
          /\ posts' = [posts EXCEPT ![c] = @ + 1]
          /\ batch'[e] = batch[e] \ {c}
          /\ new'[e] = [new[e] EXCEPT ![c] = [success |-> TRUE, retries |-> 0, due |-> FALSE]]
        BY <1>1, <1>4, <2>1 DEF TypeOK, SendFirst, CountPost, c
    <2>3. new[e] \in [Deliveries -> Rows \cup {None}] /\ posts \in [Deliveries -> Nat]
        BY <1>1 DEF TypeOK
    <2>4. [success |-> TRUE, retries |-> 0, due |-> FALSE] # None
        <3>1. [success |-> TRUE, retries |-> 0, due |-> FALSE] \in Rows
            BY DEF Rows
        <3> QED
            BY <3>1, Constants
    <2>5. CASE d = c
        BY <1>1, <1>2, <2>1, <2>2, <2>3, <2>4, <2>5 DEF StillToStore
    <2>6. CASE d # c
        BY <1>1, <1>2, <2>1, <2>2, <2>3, <2>6 DEF StillToStore
    <2> QED
        BY <2>5, <2>6
<1>5. ~SendFirstFails(e) /\ ~InsertDeliveries(e)
    <2>1. ASSUME Close(e, "failed") \/ Close(e, "done")
          PROVE  FALSE
        BY <1>1, <2>1 DEF Close, Goto, TypeOK
    <2> QED
        BY <2>1 DEF SendFirstFails, InsertDeliveries
<1> QED
    BY <1>3, <1>4, <1>5 DEF Dispatch

\* and no others.
LEMMA NoOtherRows ==
    ASSUME TypeInv, NEW e \in Dispatches, NEW f \in Dispatches, Dispatch(e), e # f,
           NEW d \in Targets[f], StillToStore(f, d)
    PROVE  StillToStore(f, d)'
<1>1. TypeOK /\ Dispatching(e) /\ e \in Actors /\ d \in Deliveries /\ d \notin Targets[e]
    BY Disjoint, Constants, TargetsApart DEF TypeInv
<1>2. Same(f) /\ \A w \in Workers : old'[w] = old[w]
    BY <1>1, DispatchAlone, Disjoint DEF Same
<1>3. row'[d] = row[d] /\ manual' = manual
    BY <1>1, DispatchRows DEF Dispatching
<1>4. posts'[d] = posts[d]
    <2>1. batch[e] # {} => FirstOf(batch[e]) # d
        BY <1>1, FirstIsOne DEF TypeOK, Dispatching
    <2> QED
        BY <1>1, <2>1 DEF TypeOK, Dispatch, ListWebhooks, SendFirst, SendFirstFails, InsertDeliveries,
           CountPost
<1> QED
    BY <1>2, <1>3, <1>4 DEF StillToStore, Same

\* The loops know nothing of them,
LEMMA NotRetried ==
    ASSUME TypeInv, NEW e \in Dispatches, NEW w \in Workers, AcquireLock(w) \/ Retry(w) \/ Crash(w),
           NEW d \in Targets[e], StillToStore(e, d)
    PROVE  StillToStore(e, d)'
<1>1. TypeOK /\ Retrying(w) /\ w \in Actors /\ d \in Deliveries
    BY Disjoint, Constants DEF TypeInv
<1>2. Same(e) /\ \A v \in Workers \ {w} : old'[v] = old[v]
    BY <1>1, RetryAlone, Disjoint DEF Same
<1>3. old[w][d] = None /\ row[d] = None
    BY DEF StillToStore
<1>4. row'[d] = None /\ manual' = manual
    <2>1. None \notin Rows
        BY Constants
    <2> QED
        BY <1>1, <1>3, <2>1, RetryRows
<1>5. old'[w][d] = None
    <2>1. CASE SelectPending(w)
        BY <1>1, <1>3, <2>1 DEF TypeOK, SelectPending
    <2>2. CASE RowIsGone(w) \/ CommitBatch(w) \/ Crash(w)
        <3>1. old'[w] = NoRows
            BY <1>1, <2>2, Closed DEF RowIsGone, CommitBatch, Crash
        <3> QED
            BY <1>1, <3>1 DEF NoRows
    <2>3. CASE AcquireLock(w) \/ LookUp(w) \/ Answer(w)
        BY <1>3, <2>3 DEF AcquireLock, LookUp, Answer, session
    <2> QED
        BY <2>1, <2>2, <2>3 DEF Retry
<1>6. posts'[d] = posts[d]
    <2>1. CASE LookUp(w)
        <3>1. PICK c \in batch[w] :
                  /\ c \in Deliveries /\ old[w][c] \in Rows /\ new[w][c] \in Rows
                  /\ pc[w] = "look" /\ old' = old
                  /\ batch' = [batch EXCEPT ![w] = @ \ {c}]
                  /\ Sends(w, c) \/ Drops(w, c)
            BY <1>1, <2>1, LookUpStep
        <3>2. c # d
            <4>1. None \notin Rows
                BY Constants
            <4> QED
                BY <1>3, <3>1, <4>1
        <3> QED
            BY <1>1, <3>1, <3>2 DEF TypeOK, Sends, Drops
    <2>2. CASE ~LookUp(w)
        BY <2>2 DEF AcquireLock, Retry, Crash, SelectPending, RowIsGone, Answer, CommitBatch
    <2> QED
        BY <2>1, <2>2
<1> QED
    BY <1>2, <1>3, <1>4, <1>5, <1>6 DEF StillToStore, Same

\* and nor do the administrators.
LEMMA NotRedelivered ==
    ASSUME TypeInv, NEW e \in Dispatches, NEW m \in Manual, Redeliver(m),
           NEW d \in Targets[e], StillToStore(e, d)
    PROVE  StillToStore(e, d)'
<1>1. TypeOK /\ m \in Actors /\ d \in Deliveries /\ row[d] = None
    BY Disjoint, Constants DEF TypeInv, StillToStore
<1>2. Same(e) /\ \A w \in Workers : old'[w] = old[w]
    BY <1>1, RedeliverAlone, Disjoint DEF Same
<1>3. row'[d] = None
    <2>1. None \notin Rows
        BY Constants
    <2> QED
        BY <1>1, <2>1, RedeliverRows
<1>4. posts'[d] = posts[d] /\ manual'[d] = manual[d]
    <2>1. CASE LoadDelivery(m)
        BY <1>1, <2>1 DEF TypeOK, LoadDelivery, CountPost
    <2>2. CASE AnswerManual(m) \/ CommitManual(m)
        BY <2>2 DEF AnswerManual, CommitManual
    <2> QED
        BY <2>1, <2>2 DEF Redeliver
<1> QED
    BY <1>1, <1>2, <1>3, <1>4 DEF StillToStore, Same

LEMMA UnstoredStep ==
    ASSUME TypeInv, Unstored, Next
    PROVE  Unstored'
<1> SUFFICES ASSUME NEW e \in Dispatches, pc'[e] \in {"idle", "send"}, NEW d \in Targets[e]
             PROVE  StillToStore(e, d)'
    BY DEF Unstored, StillToStore
<1>1. TypeOK /\ Dispatching(e) /\ e \in Actors /\ d \in Deliveries
    BY Disjoint, Constants DEF TypeInv
<1>2. pc[e] \in {"idle", "send"}
    <2>1. CASE Same(e)
        BY <2>1 DEF Same
    <2>2. CASE Dispatch(e)
        BY <2>2 DEF Dispatch, ListWebhooks, SendFirst, SendFirstFails, InsertDeliveries
    <2>3. Dispatch(e) \/ Same(e)
        BY <1>1, OwnStep, Disjoint
    <2> QED
        BY <2>1, <2>2, <2>3
<1>3. StillToStore(e, d)
    BY <1>2 DEF Unstored
<1>4. CASE \E f \in Dispatches : Dispatch(f)
    BY <1>3, <1>4, ItsOwnRows, NoOtherRows
<1>5. CASE \E w \in Workers : AcquireLock(w) \/ Retry(w) \/ Crash(w)
    BY <1>3, <1>5, NotRetried
<1>6. CASE \E m \in Manual : Redeliver(m)
    BY <1>3, <1>6, NotRedelivered
<1>7. CASE (\E h \in Hooks : Toggle(h) \/ Delete(h)) \/ LockExpires
    BY <1>1, <1>3, <1>7 DEF StillToStore, Toggle, Delete, LockExpires, session
<1> QED
    BY <1>4, <1>5, <1>6, <1>7 DEF Next

LEMMA DeletedStep ==
    ASSUME TypeInv, DeletedIsGone, Next
    PROVE  DeletedIsGone'
<1> SUFFICES ASSUME NEW d \in Deliveries, hook'[HookOf[d]] = "deleted"
             PROVE  row'[d] = None
    BY DEF DeletedIsGone
<1>1. TypeOK /\ HookOf[d] \in Hooks /\ None \notin Rows
    BY Constants DEF TypeInv
<1>2. CASE \E e \in Dispatches : Dispatch(e)
    <2>1. PICK e \in Dispatches : Dispatch(e)
        BY <1>2
    <2>2. row'[d] = row[d] \/ (InsertDeliveries(e) /\ new[e][d] # None /\ row'[d] = new[e][d])
        BY <2>1, DispatchRows
    <2>3. hook' = hook
        BY <2>1, DispatchRows
    <2>4. ASSUME InsertDeliveries(e), new[e][d] # None
          PROVE  row'[d] = row[d]
        BY <2>3, <2>4 DEF InsertDeliveries
    <2> QED
        BY <2>2, <2>3, <2>4 DEF DeletedIsGone
<1>3. CASE \E w \in Workers : AcquireLock(w) \/ Retry(w) \/ Crash(w)
    BY <1>1, <1>3, RetryRows DEF DeletedIsGone
<1>4. CASE \E m \in Manual : Redeliver(m)
    BY <1>1, <1>4, RedeliverRows DEF DeletedIsGone
<1>5. CASE (\E h \in Hooks : Toggle(h) \/ Delete(h)) \/ LockExpires
    BY <1>1, <1>5 DEF DeletedIsGone, TypeOK, Toggle, Delete, LockExpires
<1> QED
    BY <1>2, <1>3, <1>4, <1>5 DEF Next

LEMMA AskedStep ==
    ASSUME TypeInv, Next, NEW m \in Manual, Asked(m)
    PROVE  Asked(m)'
<1>1. TypeOK /\ Redelivering(m) /\ m \in Actors
    BY Disjoint DEF TypeInv
<1>2. CASE Same(m)
    BY <1>2 DEF Asked, Same
<1>3. CASE LoadDelivery(m)
    <2>1. PICK d \in Deliveries :
              /\ old' = [old EXCEPT ![m] = [old[m] EXCEPT ![d] = row[d]]]
              /\ new' = [new EXCEPT ![m] = [new[m] EXCEPT ![d] = row[d]]]
              /\ task' = [task EXCEPT ![m] = d]
        BY <1>3 DEF LoadDelivery
    <2>2. task'[m] = d /\ old'[m][d] = row[d] /\ new'[m][d] = row[d] /\ pc'[m] = "wait"
        BY <1>1, <1>3, <2>1 DEF TypeOK, LoadDelivery, Goto
    <2> QED
        BY <2>2 DEF Asked
<1>4. CASE AnswerManual(m)
    <2>1. task[m] \in Deliveries /\ pc[m] = "wait"
        BY <1>1, <1>4, OneRow DEF AnswerManual
    <2>2. PICK ok \in BOOLEAN :
              new' = [new EXCEPT ![m] = [new[m] EXCEPT ![task[m]] = Redelivered(new[m][task[m]], ok)]]
        BY <1>4 DEF AnswerManual
    <2>3. /\ pc'[m] = "commit" /\ task'[m] = task[m] /\ old'[m] = old[m]
          /\ new'[m][task[m]] = Redelivered(new[m][task[m]], ok)
        BY <1>1, <1>4, <2>1, <2>2 DEF TypeOK, AnswerManual, Goto
    <2> QED
        BY <2>1, <2>3 DEF Asked
<1>5. CASE CommitManual(m)
    <2>1. pc'[m] = "done"
        BY <1>1, <1>5, Closed DEF CommitManual
    <2> QED
        BY <2>1 DEF Asked
<1> QED
    BY <1>1, <1>2, <1>3, <1>4, <1>5, OwnStep, Disjoint DEF Redeliver

----------------------------------------------------------------------------
(* What a loop's step does to a delivery. *)

\* Nothing,
Keeps(w, d) ==
    /\ posts'[d] = posts[d] /\ row'[d] = row[d]
    /\ old'[w][d] = old[w][d]
    /\ (Posted(w, d)' <=> Posted(w, d))

\* it is selected,
Selects(w, d) ==
    /\ posts'[d] = posts[d] /\ row'[d] = row[d]
    /\ row[d] # None /\ old'[w][d] = row[d]
    /\ ~Posted(w, d) /\ ~Posted(w, d)'

\* one POST is made for it,
Attempts(w, d) ==
    /\ posts'[d] = posts[d] + 1 /\ row'[d] = row[d]
    /\ old[w][d] # None /\ old'[w][d] = old[w][d]
    /\ ~Posted(w, d) /\ Posted(w, d)'

\* its copy is committed,
Commits(w, d) ==
    /\ posts'[d] = posts[d] /\ old'[w][d] = None
    /\ \/ row'[d] = row[d] /\ ~Posted(w, d)
       \/ /\ row[d] \in Rows /\ old[w][d] \in Rows
          /\ row'[d] = Merged(row[d], old[w][d], new[w][d])
          /\ \/ new[w][d] = Dropped(old[w][d]) /\ ~Posted(w, d)
             \/ \E ok \in BOOLEAN : new[w][d] = Retried(old[w][d], ok) /\ Posted(w, d)

\* or its copy is lost.
Loses(w, d) ==
    /\ RowIsGone(w) \/ Crash(w)
    /\ posts'[d] = posts[d] /\ row'[d] = row[d] /\ old'[w][d] = None

LEMMA RetriesDiffer ==
    ASSUME NEW r \in Rows, NEW ok \in BOOLEAN
    PROVE  Retried(r, ok).retries # r.retries /\ Dropped(r).retries = r.retries
BY DEF Retried, Dropped, Rows

LEMMA LookUpEffect ==
    ASSUME TypeInv, StoreInv, NEW w \in Workers, LookUp(w), NEW d \in Deliveries
    PROVE  Keeps(w, d) \/ Attempts(w, d)
<1>1. TypeOK /\ Retrying(w) /\ Processed(w) /\ w \in Actors
    BY Disjoint DEF TypeInv, StoreInv
<1>2. PICK c \in batch[w] :
          /\ c \in Deliveries /\ old[w][c] \in Rows /\ new[w][c] \in Rows
          /\ pc[w] = "look" /\ old' = old
          /\ batch' = [batch EXCEPT ![w] = @ \ {c}]
          /\ Sends(w, c) \/ Drops(w, c)
    BY <1>1, LookUpStep
<1>3. row' = row /\ task[w] = None /\ old[w][c] # None /\ new[w][c] = old[w][c] /\ c # None
    <2>1. row' = row
        BY DEF LookUp
    <2>2. old[w][c] # None /\ c # None
        BY <1>2, Constants
    <2> QED
        BY <1>1, <1>2, <2>1, <2>2 DEF Retrying, Processed
<1>4. CASE Sends(w, c)
    <2>1. new' = new /\ task'[w] = c /\ posts' = [posts EXCEPT ![c] = @ + 1]
        BY <1>1, <1>4 DEF TypeOK, Sends
    <2>2. CASE d = c
        <3>1. ~Posted(w, d) /\ Posted(w, d)'
            BY <1>2, <1>3, <2>1, <2>2 DEF Posted
        <3> QED
            BY <1>1, <1>2, <1>3, <2>1, <2>2, <3>1 DEF TypeOK, Attempts
    <2>3. CASE d # c
        <3>1. Posted(w, d)' <=> Posted(w, d)
            BY <1>2, <1>3, <2>1, <2>3, Constants DEF Posted
        <3> QED
            BY <1>1, <1>2, <1>3, <2>1, <2>3, <3>1 DEF TypeOK, Keeps
    <2> QED
        BY <2>2, <2>3
<1>5. CASE Drops(w, c)
    <2>1. /\ new'[w] = [new[w] EXCEPT ![c] = Dropped(new[w][c])]
          /\ DOMAIN new[w] = Deliveries
          /\ task' = task /\ posts' = posts
        BY <1>1, <1>5 DEF TypeOK, Drops
    <2>2. Dropped(new[w][c]).retries = new[w][c].retries
        BY <1>2, RetriesDiffer
    <2>3. new'[w][d].retries = new[w][d].retries
        BY <2>1, <2>2
    <2>4. Posted(w, d)' <=> Posted(w, d)
        BY <1>2, <2>1, <2>3 DEF Posted
    <2> QED
        BY <1>2, <1>3, <2>1, <2>4 DEF Keeps
<1> QED
    BY <1>2, <1>4, <1>5

LEMMA AnswerEffect ==
    ASSUME TypeInv, StoreInv, NEW w \in Workers, Answer(w), NEW d \in Deliveries
    PROVE  Keeps(w, d)
<1>1. TypeOK /\ Retrying(w) /\ Processed(w) /\ w \in Actors
    BY Disjoint DEF TypeInv, StoreInv
<1>2. /\ task[w] \in Deliveries /\ new[w][task[w]] \in Rows
      /\ old[w][task[w]] # None
    BY <1>1, AtHand DEF Answer
<1>3. new[w][task[w]] = old[w][task[w]]
    BY <1>1, <1>2 DEF Processed
<1>4. PICK ok \in BOOLEAN :
          new'[w] = [new[w] EXCEPT ![task[w]] = Retried(new[w][task[w]], ok)]
    BY <1>1 DEF TypeOK, Answer
<1>5. /\ task'[w] = None /\ old' = old /\ posts' = posts /\ row' = row
      /\ DOMAIN new[w] = Deliveries
    BY <1>1 DEF TypeOK, Answer
<1>6. Posted(w, d)' <=> Posted(w, d)
    <2>1. CASE d = task[w]
        <3>1. new'[w][d].retries # old[w][d].retries
            BY <1>2, <1>3, <1>4, <1>5, <2>1, RetriesDiffer
        <3> QED
            BY <1>2, <1>5, <2>1, <3>1 DEF Posted
    <2>2. CASE d # task[w]
        BY <1>4, <1>5, <2>2, Constants DEF Posted
    <2> QED
        BY <2>1, <2>2
<1> QED
    BY <1>5, <1>6 DEF Keeps

LEMMA CommitEffect ==
    ASSUME TypeInv, StoreInv, NEW w \in Workers, CommitBatch(w), NEW d \in Deliveries
    PROVE  Commits(w, d)
<1>1. TypeOK /\ Retrying(w) /\ Processed(w) /\ w \in Actors
    BY Disjoint DEF TypeInv, StoreInv
<1>2. posts' = posts /\ old'[w][d] = None
    <2>1. old'[w] = NoRows
        BY <1>1, Closed DEF CommitBatch
    <2> QED
        BY <2>1 DEF CommitBatch, NoRows
<1>3. task[w] = None /\ d # None
    BY <1>1, Constants DEF Retrying, CommitBatch
<1>4. CASE d \notin Changed(w)
    <2>1. ~Posted(w, d)
        BY <1>3, <1>4 DEF Posted, Changed
    <2>2. row'[d] = row[d]
        BY <1>4, RetryRows DEF Retry
    <2> QED
        BY <1>2, <2>1, <2>2 DEF Commits
<1>5. CASE d \in Changed(w)
    <2>1. /\ row[d] \in Rows /\ old[w][d] \in Rows /\ new[w][d] \in Rows
          /\ row'[d] = Merged(row[d], old[w][d], new[w][d])
        BY <1>5, RetryRows DEF Retry
    <2>2. old[w][d] # None /\ new[w][d] # old[w][d]
        BY <1>5, <2>1, Constants DEF Changed
    <2>3. \/ new[w][d] = Dropped(old[w][d])
          \/ \E ok \in BOOLEAN : new[w][d] = Retried(old[w][d], ok)
        BY <1>1, <2>2 DEF Processed
    <2>4. CASE new[w][d] = Dropped(old[w][d])
        <3>1. ~Posted(w, d)
            BY <1>3, <2>1, <2>4, RetriesDiffer DEF Posted
        <3> QED
            BY <1>2, <2>1, <2>4, <3>1 DEF Commits
    <2>5. CASE \E ok \in BOOLEAN : new[w][d] = Retried(old[w][d], ok)
        <3>1. Posted(w, d)
            BY <2>1, <2>2, <2>5, RetriesDiffer DEF Posted
        <3> QED
            BY <1>2, <2>1, <2>5, <3>1 DEF Commits
    <2> QED
        BY <2>3, <2>4, <2>5
<1> QED
    BY <1>4, <1>5

LEMMA RetryEffect ==
    ASSUME TypeInv, StoreInv, NEW w \in Workers, AcquireLock(w) \/ Retry(w) \/ Crash(w),
           NEW d \in Deliveries
    PROVE  Keeps(w, d) \/ Selects(w, d) \/ Attempts(w, d) \/ Commits(w, d) \/ Loses(w, d)
<1>1. TypeOK /\ Retrying(w) /\ w \in Actors
    BY Disjoint DEF TypeInv
<1>2. CASE AcquireLock(w)
    BY <1>2 DEF AcquireLock, Keeps, Posted, session
<1>3. CASE SelectPending(w)
    <2>1. /\ posts' = posts /\ row' = row /\ task' = task
          /\ old'[w][d] = new'[w][d]
          /\ old'[w][d] = None \/ (row[d] # None /\ old'[w][d] = row[d])
        BY <1>1, <1>3 DEF TypeOK, SelectPending
    <2>2. task[w] = None /\ old[w][d] = None /\ d # None
        BY <1>3, IdleHoldsNothing, Constants DEF SelectPending
    <2>3. ~Posted(w, d) /\ ~Posted(w, d)'
        BY <2>1, <2>2 DEF Posted
    <2> QED
        BY <2>1, <2>2, <2>3 DEF Keeps, Selects
<1>4. CASE RowIsGone(w) \/ Crash(w)
    <2>1. old'[w] = NoRows
        BY <1>1, <1>4, Closed DEF RowIsGone, Crash
    <2> QED
        BY <1>4, <2>1 DEF RowIsGone, Crash, Loses, NoRows
<1> QED
    BY <1>2, <1>3, <1>4, LookUpEffect, AnswerEffect, CommitEffect DEF Retry

----------------------------------------------------------------------------
(* Rows that are due have failed before. *)

LEMMA DueRetry ==
    ASSUME TypeInv, StoreInv, NEW w \in Workers, AcquireLock(w) \/ Retry(w) \/ Crash(w),
           NEW d \in Deliveries
    PROVE  /\ row'[d] # None /\ row'[d].due => row'[d].retries >= 1
           /\ \A v \in Workers : old'[v][d] # None => old'[v][d].retries >= 1
<1>1. TypeOK /\ Retrying(w) /\ w \in Actors
    BY Disjoint DEF TypeInv
<1>2. /\ row[d] # None /\ row[d].due => row[d].retries >= 1
      /\ \A v \in Workers : old[v][d] # None => old[v][d].retries >= 1
    BY DEF StoreInv, DueCounted
<1>3. \A v \in Workers \ {w} : old'[v] = old[v]
    BY <1>1, RetryAlone, Disjoint DEF Same
<1>4. old'[w][d] # None => old'[w][d].retries >= 1
    <2>1. CASE SelectPending(w)
        <3>1. old'[w][d] = None \/ (row[d] # None /\ row[d].due /\ old'[w][d] = row[d])
            BY <1>1, <2>1 DEF TypeOK, SelectPending
        <3> QED
            BY <1>2, <3>1
    <2>2. CASE RowIsGone(w) \/ CommitBatch(w) \/ Crash(w)
        <3>1. old'[w] = NoRows
            BY <1>1, <2>2, Closed DEF RowIsGone, CommitBatch, Crash
        <3> QED
            BY <3>1 DEF NoRows
    <2>3. CASE AcquireLock(w) \/ LookUp(w) \/ Answer(w)
        BY <1>2, <2>3 DEF AcquireLock, LookUp, Answer, session
    <2> QED
        BY <2>1, <2>2, <2>3 DEF Retry
<1>5. row'[d] # None /\ row'[d].due => row'[d].retries >= 1
    <2>1. CASE row'[d] = row[d]
        BY <1>2, <2>1
    <2>2. CASE /\ row[d] \in Rows /\ old[w][d] \in Rows
               /\ row'[d] = Merged(row[d], old[w][d], new[w][d])
               /\ new[w][d] = Dropped(old[w][d])
        <3>1. old[w][d] # None
            BY <2>2, NotNone
        <3>2. old[w][d].due
            BY <1>1, <3>1 DEF Retrying
        <3> QED
            BY <2>2, <3>2 DEF Merged, Dropped
    <2>3. CASE /\ row[d] \in Rows /\ old[w][d] \in Rows
               /\ row'[d] = Merged(row[d], old[w][d], new[w][d])
               /\ \E ok \in BOOLEAN : new[w][d] = Retried(old[w][d], ok)
        BY <2>3 DEF Merged, Retried, Rows
    <2> QED
        BY <2>1, <2>2, <2>3, RetryEffect DEF Keeps, Selects, Attempts, Commits, Loses
<1> QED
    BY <1>2, <1>3, <1>4, <1>5

LEMMA DueStep ==
    ASSUME TypeInv, StoreInv, Next
    PROVE  DueCounted'
<1> SUFFICES ASSUME NEW d \in Deliveries
             PROVE  /\ row'[d] # None /\ row'[d].due => row'[d].retries >= 1
                    /\ \A w \in Workers : old'[w][d] # None => old'[w][d].retries >= 1
    BY DEF DueCounted
<1>1. /\ row[d] # None /\ row[d].due => row[d].retries >= 1
      /\ \A v \in Workers : old[v][d] # None => old[v][d].retries >= 1
    BY DEF StoreInv, DueCounted
<1>2. CASE \E e \in Dispatches : Dispatch(e)
    <2>1. PICK e \in Dispatches : Dispatch(e)
        BY <1>2
    <2>2. \A w \in Workers : old'[w] = old[w]
        BY <2>1, DispatchAlone, Disjoint DEF TypeInv, Same
    <2>3. CASE InsertDeliveries(e) /\ new[e][d] # None /\ row'[d] = new[e][d]
        <3>1. d \in Targets[e] /\ pc[e] = "send"
            BY <2>3 DEF TypeInv, Dispatching, InsertDeliveries
        <3>2. ~row'[d].due
            BY <2>3, <3>1 DEF StoreInv, Unstored, StillToStore
        <3> QED
            BY <1>1, <2>2, <3>2
    <2>4. CASE row'[d] = row[d]
        BY <1>1, <2>2, <2>4
    <2> QED
        BY <2>1, <2>3, <2>4, DispatchRows
<1>3. CASE \E w \in Workers : AcquireLock(w) \/ Retry(w) \/ Crash(w)
    BY <1>3, DueRetry
<1>4. CASE \E m \in Manual : Redeliver(m)
    <2>1. PICK m \in Manual : Redeliver(m)
        BY <1>4
    <2>2. \A w \in Workers : old'[w] = old[w]
        BY <2>1, RedeliverAlone, Disjoint DEF TypeInv, Same
    <2>3. CASE row'[d] = row[d]
        BY <1>1, <2>2, <2>3
    <2>4. CASE /\ CommitManual(m) /\ d = task[m] /\ new[m][d] # old[m][d]
               /\ row[d] \in Rows /\ old[m][d] \in Rows /\ new[m][d] \in Rows
               /\ row'[d] = Merged(row[d], old[m][d], new[m][d])
        <3>1. PICK ok \in BOOLEAN : new[m][d] = Redelivered(old[m][d], ok)
            BY <2>4 DEF StoreInv, Asked, CommitManual
        <3>2. row'[d].retries >= 1
            BY <2>4, <3>1 DEF Merged, Redelivered, Rows
        <3> QED
            BY <1>1, <2>2, <3>2
    <2> QED
        BY <2>1, <2>3, <2>4, RedeliverRows
<1>5. CASE (\E h \in Hooks : Toggle(h) \/ Delete(h)) \/ LockExpires
    BY <1>1, <1>5 DEF Toggle, Delete, LockExpires, session
<1> QED
    BY <1>2, <1>3, <1>4, <1>5 DEF Next

----------------------------------------------------------------------------
(* The loops whose batch has outlived the lock. *)

LEMMA OneMore ==
    ASSUME NEW S, IsFiniteSet(S), NEW x
    PROVE  IsFiniteSet(S \cup {x}) /\ Cardinality(S \cup {x}) <= Cardinality(S) + 1
<1>1. Cardinality(S) \in Nat
    BY FS_CardinalityType
<1>2. /\ IsFiniteSet(S \cup {x})
      /\ Cardinality(S \cup {x}) = Cardinality(S) \/ Cardinality(S \cup {x}) = Cardinality(S) + 1
    BY FS_AddElement
<1> QED
    BY <1>1, <1>2

LEMMA FiniteLoops ==
    ASSUME NEW d \in Deliveries
    PROVE  /\ IsFiniteSet(Stragglers(d)) /\ Cardinality(Stragglers(d)) \in Nat
           /\ IsFiniteSet(Unsent(d)) /\ Cardinality(Unsent(d)) \in Nat
           /\ IsFiniteSet(Posters(d)) /\ Cardinality(Posters(d)) \in Nat
           /\ Cardinality(Unsent(d)) <= Cardinality(Stragglers(d))
<1>1. IsFiniteSet(Workers)
    BY Constants
<1>2. /\ Stragglers(d) \subseteq Workers /\ Posters(d) \subseteq Workers
      /\ Unsent(d) \subseteq Stragglers(d)
    BY DEF Stragglers, Unsent, Posters
<1>3. IsFiniteSet(Stragglers(d)) /\ IsFiniteSet(Posters(d))
    BY <1>1, <1>2, FS_Subset
<1>4. IsFiniteSet(Unsent(d)) /\ Cardinality(Unsent(d)) <= Cardinality(Stragglers(d))
    BY <1>2, <1>3, FS_Subset
<1> QED
    BY <1>3, <1>4, FS_CardinalityType

\* A loop that loses the lock, or comes too late, is the only new one.
LEMMA OutlivesTheLock ==
    ASSUME TypeInv, LockExpires, NEW d \in Deliveries
    PROVE  \/ /\ late' = late /\ lock \in Workers /\ ~Posted(lock, d)
              /\ Stragglers(d)' = Stragglers(d) /\ Unsent(d)' = Unsent(d)
           \/ /\ late' = late + 1 /\ lock \in Workers
              /\ lock \notin Stragglers(d)
              /\ Stragglers(d)' \subseteq Stragglers(d) \cup {lock}
              /\ Unsent(d)' \subseteq Unsent(d) \cup {lock}
              /\ Posted(lock, d) => Unsent(d)' \subseteq Unsent(d)
<1>1. /\ lock \in Workers /\ lock' = None /\ pc' = pc /\ old' = old /\ new' = new /\ task' = task
    BY Constants DEF TypeInv, TypeOK, LockExpires, session
<1>2. \A w \in Workers : Posted(w, d)' <=> Posted(w, d)
    BY <1>1 DEF Posted
<1>3. CASE pc[lock] = "idle"
    <2>1. task[lock] = None /\ old[lock][d] = None
        BY <1>1, <1>3, IdleHoldsNothing
    <2>2. late' = late
        BY <1>3 DEF LockExpires
    <2>3. Stragglers(d)' = Stragglers(d)
        BY <1>1, <1>3, <2>1, Constants DEF Stragglers
    <2>4. Unsent(d)' = Unsent(d)
        BY <1>2, <2>3 DEF Unsent, Stragglers
    <2> QED
        BY <1>1, <2>1, <2>2, <2>3, <2>4 DEF Posted
<1>4. CASE pc[lock] # "idle"
    <2>1. late' = late + 1 /\ lock \notin Stragglers(d)
        BY <1>4 DEF LockExpires, Stragglers
    <2>2. Stragglers(d)' \subseteq Stragglers(d) \cup {lock}
        BY <1>1 DEF Stragglers
    <2>3. \A w \in Unsent(d)' : w \in Workers /\ w \in Stragglers(d)' /\ ~Posted(w, d)
        BY <1>2 DEF Unsent, Stragglers
    <2>4. \A w \in Stragglers(d) : ~Posted(w, d) => w \in Unsent(d)
        BY DEF Unsent
    <2> QED
        BY <1>1, <2>1, <2>2, <2>3, <2>4
<1> QED
    BY <1>3, <1>4

\* A step of a loop adds none; its POST and its commit make it one fewer.
LEMMA CatchesUp ==
    ASSUME TypeInv, StoreInv, NEW w \in Workers, AcquireLock(w) \/ Retry(w) \/ Crash(w),
           NEW d \in Deliveries
    PROVE  /\ late' = late
           /\ lock' = lock \/ (AcquireLock(w) /\ lock = None /\ lock' = w)
           /\ \A v \in Workers \ {w} : old'[v] = old[v] /\ (Posted(v, d)' <=> Posted(v, d))
           /\ Stragglers(d)' \subseteq Stragglers(d) /\ Unsent(d)' \subseteq Unsent(d)
           /\ lock # w /\ Attempts(w, d) => w \in Unsent(d) /\ w \notin Unsent(d)'
           /\ lock # w /\ old[w][d] # None /\ old'[w][d] = None =>
                 w \in Stragglers(d) /\ w \notin Stragglers(d)'
<1>1. TypeOK /\ Retrying(w) /\ w \in Actors
    BY Disjoint DEF TypeInv
<1>2. late' = late /\ (lock' = lock \/ (AcquireLock(w) /\ lock = None /\ lock' = w))
    BY DEF AcquireLock, Retry, Crash, SelectPending, RowIsGone, LookUp, Answer, CommitBatch
<1>3. \A v \in Workers \ {w} : Same(v)
    BY <1>1, RetryAlone, Disjoint
<1>4. \A v \in Workers \ {w} : old'[v] = old[v] /\ (Posted(v, d)' <=> Posted(v, d))
    BY <1>3 DEF Same, Posted
<1>5. \A v \in Workers \ {w} : v \in Stragglers(d)' => v \in Stragglers(d)
    BY <1>2, <1>3, Constants DEF Same, Stragglers
<1>6. CASE AcquireLock(w)
    <2>1. old[w][d] = None /\ old' = old /\ lock' = w
        BY <1>6, IdleHoldsNothing DEF AcquireLock, session
    <2>2. w \notin Stragglers(d)'
        BY <2>1 DEF Stragglers
    <2>3. Stragglers(d)' \subseteq Stragglers(d)
        BY <1>5, <2>2 DEF Stragglers
    <2>4. Unsent(d)' \subseteq Unsent(d)
        BY <1>4, <2>2, <2>3 DEF Unsent, Stragglers
    <2> QED
        BY <1>2, <1>4, <2>1, <2>3, <2>4 DEF Attempts
<1>7. CASE ~AcquireLock(w)
    <2>1. lock' = lock /\ pc'[w] # "select"
        BY <1>1, <1>2, <1>7 DEF TypeOK, Retry, Crash, SelectPending, RowIsGone, LookUp, Answer,
           CommitBatch, Close, Goto
    <2>2. old[w][d] # None \/ pc[w] = "select" \/ old'[w][d] = None
        <3>1. CASE SelectPending(w)
            BY <3>1 DEF SelectPending
        <3>2. CASE RowIsGone(w) \/ CommitBatch(w) \/ Crash(w)
            <4>1. old'[w] = NoRows
                BY <1>1, <3>2, Closed DEF RowIsGone, CommitBatch, Crash
            <4> QED
                BY <4>1 DEF NoRows
        <3>3. CASE LookUp(w) \/ Answer(w)
            BY <3>3 DEF LookUp, Answer
        <3> QED
            BY <1>7, <3>1, <3>2, <3>3 DEF Retry
    <2>3. w \in Stragglers(d)' => w \in Stragglers(d) /\ old'[w][d] # None
        BY <2>1, <2>2 DEF Stragglers
    <2>4. Stragglers(d)' \subseteq Stragglers(d)
        BY <1>5, <2>3 DEF Stragglers
    <2>5. ~Posted(w, d)' /\ old'[w][d] # None => ~Posted(w, d)
        BY RetryEffect DEF Keeps, Selects, Attempts, Commits, Loses
    <2>6. Unsent(d)' \subseteq Unsent(d)
        BY <1>4, <2>3, <2>4, <2>5 DEF Unsent, Stragglers
    <2>7. lock # w /\ old[w][d] # None => w \in Stragglers(d)
        BY DEF Stragglers
    <2>8. Attempts(w, d) => old[w][d] # None /\ ~Posted(w, d) /\ Posted(w, d)'
        BY DEF Attempts
    <2>9. lock # w /\ Attempts(w, d) => w \in Unsent(d) /\ w \notin Unsent(d)'
        BY <2>7, <2>8 DEF Unsent
    <2> QED
        BY <1>2, <1>4, <2>1, <2>3, <2>4, <2>6, <2>7, <2>9
<1> QED
    BY <1>6, <1>7

\* No other step touches them.
LEMMA NotTheLoops ==
    ASSUME TypeInv, NEW d \in Deliveries, lock' = lock, \A w \in Workers : Same(w)
    PROVE  /\ \A w \in Workers : old'[w][d] = old[w][d]
           /\ Stragglers(d)' = Stragglers(d) /\ Unsent(d)' = Unsent(d)
           /\ Posters(d)' = Posters(d) /\ Stake(d)' = Stake(d)
           /\ Uncommitted(d)' = Uncommitted(d)
<1>1. \A w \in Workers : /\ old'[w] = old[w] /\ pc'[w] = pc[w]
                         /\ (Posted(w, d)' <=> Posted(w, d))
    BY DEF Same, Posted
<1>2. Stragglers(d)' = Stragglers(d) /\ Posters(d)' = Posters(d)
    BY <1>1 DEF Stragglers, Posters
<1>3. Unsent(d)' = Unsent(d)
    BY <1>1, <1>2 DEF Unsent, Stragglers
<1>4. Stake(d)' = Stake(d)
    BY <1>2, <1>3 DEF Stake
<1>5. Uncommitted(d)' = Uncommitted(d)
    BY <1>1 DEF Uncommitted
<1> QED
    BY <1>1, <1>2, <1>3, <1>4, <1>5

LEMMA FewStep ==
    ASSUME TypeInv, StoreInv, Next
    PROVE  FewStragglers'
<1> SUFFICES ASSUME NEW d \in Deliveries PROVE Cardinality(Stragglers(d)') <= late'
    BY DEF FewStragglers
<1>1. late \in Nat /\ Cardinality(Stragglers(d)) <= late
    BY Constants DEF TypeInv, TypeOK, StoreInv, FewStragglers
<1>2. IsFiniteSet(Stragglers(d)) /\ Cardinality(Stragglers(d)) \in Nat
    BY FiniteLoops
<1>3. ASSUME Stragglers(d)' \subseteq Stragglers(d), late' = late
      PROVE  Cardinality(Stragglers(d)') <= late'
    <2>1. IsFiniteSet(Stragglers(d)') /\ Cardinality(Stragglers(d)') <= Cardinality(Stragglers(d))
        BY <1>2, <1>3, FS_Subset
    <2>2. Cardinality(Stragglers(d)') \in Nat
        BY <2>1, FS_CardinalityType
    <2> QED
        BY <1>1, <1>2, <1>3, <2>1, <2>2
<1>4. CASE \E e \in Dispatches : Dispatch(e)
    <2>1. PICK e \in Dispatches : Dispatch(e)
        BY <1>4
    <2>2. (\A w \in Workers : Same(w)) /\ lock' = lock /\ late' = late
        BY <2>1, DispatchAlone, DispatchRows, Disjoint DEF TypeInv
    <2> QED
        BY <1>3, <2>2, NotTheLoops
<1>5. CASE \E w \in Workers : AcquireLock(w) \/ Retry(w) \/ Crash(w)
    BY <1>3, <1>5, CatchesUp
<1>6. CASE \E m \in Manual : Redeliver(m)
    <2>1. PICK m \in Manual : Redeliver(m)
        BY <1>6
    <2>2. (\A w \in Workers : Same(w)) /\ lock' = lock /\ late' = late
        BY <2>1, RedeliverAlone, RedeliverRows, Disjoint DEF TypeInv
    <2> QED
        BY <1>3, <2>2, NotTheLoops
<1>7. CASE \E h \in Hooks : Toggle(h) \/ Delete(h)
    <2>1. (\A w \in Workers : Same(w)) /\ lock' = lock /\ late' = late
        BY <1>7 DEF Toggle, Delete, session, Same
    <2> QED
        BY <1>3, <2>1, NotTheLoops
<1>8. CASE LockExpires
    <2>1. CASE late' = late /\ Stragglers(d)' = Stragglers(d)
        BY <1>3, <2>1
    <2>2. CASE late' = late + 1 /\ Stragglers(d)' \subseteq Stragglers(d) \cup {lock}
        <3>1. /\ IsFiniteSet(Stragglers(d) \cup {lock})
              /\ Cardinality(Stragglers(d) \cup {lock}) <= Cardinality(Stragglers(d)) + 1
            BY <1>2, OneMore
        <3>2. /\ IsFiniteSet(Stragglers(d)')
              /\ Cardinality(Stragglers(d)') <= Cardinality(Stragglers(d) \cup {lock})
            BY <2>2, <3>1, FS_Subset
        <3>3. /\ Cardinality(Stragglers(d)') \in Nat
              /\ Cardinality(Stragglers(d) \cup {lock}) \in Nat
            BY <3>1, <3>2, FS_CardinalityType
        <3> QED
            BY <1>1, <1>2, <2>2, <3>1, <3>2, <3>3
    <2> QED
        BY <1>8, <2>1, <2>2, OutlivesTheLock
<1> QED
    BY <1>4, <1>5, <1>6, <1>7, <1>8 DEF Next

LEMMA InitStore == Init => StoreInv
<1> SUFFICES ASSUME Init PROVE StoreInv
    OBVIOUS
<1>1. GoneIsDeleted /\ \A w \in Workers : Processed(w)
    BY Disjoint DEF Init, GoneIsDeleted, Processed, NoRows
<1>2. DeletedIsGone /\ \A m \in Manual : Asked(m)
    BY Disjoint, Constants DEF Init, DeletedIsGone, Asked
<1>3. Unstored
    BY Disjoint, Constants, TargetsApart DEF Init, Unstored, StillToStore, NoRows
<1>4. DueCounted
    BY Disjoint DEF Init, DueCounted, NoRows
<1>5. FewStragglers
    <2>1. \A d \in Deliveries : Stragglers(d) = {}
        BY Disjoint DEF Init, Stragglers, NoRows
    <2>2. Cardinality({}) <= 0
        BY FS_EmptySet
    <2> QED
        BY <2>1, <2>2 DEF FewStragglers, Init
<1> QED
    BY <1>1, <1>2, <1>3, <1>4, <1>5 DEF StoreInv

LEMMA StoreStep == TypeInv /\ StoreInv /\ [Next]_vars => StoreInv'
<1> SUFFICES ASSUME TypeInv, StoreInv, [Next]_vars PROVE StoreInv'
    OBVIOUS
<1>1. CASE UNCHANGED vars
    <2>1. FewStragglers'
        BY <1>1 DEF StoreInv, FewStragglers, Stragglers, vars, session
    <2> QED
        BY <1>1, <2>1 DEF StoreInv, Processed, GoneIsDeleted, DeletedIsGone, Asked, Unstored,
           StillToStore, DueCounted, vars, session
<1>2. CASE Next
    <2>1. GoneIsDeleted' /\ DeletedIsGone' /\ Unstored' /\ DueCounted' /\ FewStragglers'
        BY <1>2, GoneStep, DeletedStep, UnstoredStep, DueStep, FewStep DEF StoreInv
    <2>2. ASSUME NEW w \in Workers
          PROVE  Processed(w)'
        <3>1. CASE AcquireLock(w) \/ Retry(w) \/ Crash(w)
            BY <3>1, ProcessedStep DEF StoreInv
        <3>2. CASE Same(w)
            BY <3>2 DEF StoreInv, Processed, Same
        <3>3. (AcquireLock(w) \/ Retry(w) \/ Crash(w)) \/ Same(w)
            BY <1>2, OwnStep, Disjoint DEF TypeInv
        <3> QED
            BY <3>1, <3>2, <3>3
    <2>3. \A m \in Manual : Asked(m)'
        BY <1>2, AskedStep DEF StoreInv
    <2> QED
        BY <2>1, <2>2, <2>3 DEF StoreInv
<1> QED
    BY <1>1, <1>2

----------------------------------------------------------------------------
(* How many attempts a row has left. *)

LEMMA Tries == MaxRetries \in Nat \ {0} /\ LoopAttempts \in Nat /\ LoopAttempts >= 1
BY Constants DEF LoopAttempts

LEMMA LeftType ==
    ASSUME NEW r \in Rows \cup {None}
    PROVE  Left(r) \in Nat /\ Left(None) = 0
BY Tries DEF Left, Rows

\* A row that was attempted before,
LEMMA LeftAfterOne ==
    ASSUME NEW r \in Rows, r.retries >= 1
    PROVE  Left(r) <= LoopAttempts
BY Tries DEF Left, Rows, LoopAttempts

\* a row that is due,
LEMMA LeftOfDue ==
    ASSUME NEW r \in Rows, ~r.success, r.due
    PROVE  Left(r) >= 1
BY Tries, NotNone DEF Left, Rows

\* and one that the loop has attempted: whatever was committed meanwhile, one
\* attempt fewer.
LEMMA LeftAfterRetry ==
    ASSUME NEW cur \in Rows, NEW was \in Rows, NEW ok \in BOOLEAN, ~was.success, was.due
    PROVE  /\ Left(Merged(cur, was, Retried(was, ok))) <= Left(was) - 1
           /\ Left(Merged(cur, was, Retried(was, ok))) \in Nat
<1> DEFINE r == Merged(cur, was, Retried(was, ok))
<1>1. Retried(was, ok).due = (~ok /\ was.retries + 1 < MaxRetries)
    BY DEF Retried
<1>2. r.retries = was.retries + 1
    BY DEF Merged, Retried, Rows
<1>3. r.due => was.retries + 1 < MaxRetries
    BY <1>1 DEF Merged, Retried
<1>4. was.retries \in Nat
    BY DEF Rows
<1>5. Left(was) = IF was.retries + 1 < MaxRetries THEN MaxRetries - was.retries ELSE 1
    BY NotNone DEF Left
<1>6. Left(was) >= 1
    BY Tries, <1>4, <1>5
<1> HIDE DEF r
<1>7. Left(r) = 0 \/ (r.due /\ Left(r) = IF r.retries + 1 < MaxRetries THEN MaxRetries - r.retries ELSE 1)
    BY DEF Left
<1>8. Left(r) <= Left(was) - 1 /\ Left(r) \in Nat
    BY Tries, <1>2, <1>3, <1>4, <1>5, <1>6, <1>7
<1> QED
    BY <1>8 DEF r

LEMMA LeftAfterDrop ==
    ASSUME NEW cur \in Rows, NEW was \in Rows, was.due
    PROVE  Left(Merged(cur, was, Dropped(was))) = 0
BY DEF Left, Merged, Dropped

\* What an administrator's attempt leaves.
LEMMA LeftAfterAsking ==
    ASSUME NEW cur \in Rows, NEW was \in Rows, NEW ok \in BOOLEAN
    PROVE  Left(Merged(cur, was, Redelivered(was, ok))) <= LoopAttempts
<1>1. Redelivered(was, ok) \in Rows
    BY RowsOfRetries
<1>2. Merged(cur, was, Redelivered(was, ok)) \in Rows
    BY <1>1, RowsOfMerges
<1>3. Merged(cur, was, Redelivered(was, ok)).retries = was.retries + 1
    BY DEF Merged, Redelivered, Rows
<1> QED
    BY <1>2, <1>3, LeftAfterOne DEF Rows

----------------------------------------------------------------------------
(* What the requests and losses so far allow. *)

LEMMA Finite ==
    ASSUME NEW d \in Deliveries
    PROVE  /\ IsFiniteSet(Asking(d)) /\ Cardinality(Asking(d)) \in Nat
           /\ IsFiniteSet(Lost) /\ Cardinality(Lost) \in Nat
<1>1. IsFiniteSet(Hooks) /\ IsFiniteSet(Manual)
    BY WebhooksAssumption
<1>2. Asking(d) \subseteq Manual /\ Lost \subseteq Hooks
    BY DEF Asking, Lost
<1> QED
    BY <1>1, <1>2, FS_Subset, FS_CardinalityType

LEMMA FiniteNext ==
    ASSUME NEW d \in Deliveries
    PROVE  /\ IsFiniteSet(Asking(d)') /\ Cardinality(Asking(d)') \in Nat
           /\ IsFiniteSet(Lost') /\ Cardinality(Lost') \in Nat
<1>1. IsFiniteSet(Hooks) /\ IsFiniteSet(Manual)
    BY WebhooksAssumption
<1>2. Asking(d)' \subseteq Manual /\ Lost' \subseteq Hooks
    BY DEF Asking, Lost
<1> QED
    BY <1>1, <1>2, FS_Subset, FS_CardinalityType

\* What is lost stays lost,
LEMMA LostGrows ==
    ASSUME TypeInv, StoreInv, Next
    PROVE  Lost \subseteq Lost'
<1> SUFFICES ASSUME NEW h \in Lost PROVE h \in Lost'
    OBVIOUS
<1>1. /\ h \in Hooks /\ hook[h] = "deleted"
      /\ lock \in Workers => \A d \in Deliveries : HookOf[d] = h => old[lock][d] = None
    BY DEF Lost
<1>2. hook'[h] = "deleted"
    <2>1. CASE hook' = hook
        BY <1>1, <2>1
    <2>2. CASE \E g \in Hooks : Toggle(g) \/ Delete(g)
        BY <1>1, <2>2, SMTT(40) DEF TypeInv, TypeOK, Toggle, Delete
    <2>3. hook' = hook \/ \E g \in Hooks : Toggle(g) \/ Delete(g)
        BY DEF Next, Dispatch, ListWebhooks, SendFirst, SendFirstFails, InsertDeliveries, AcquireLock,
           Retry, Crash, SelectPending, RowIsGone, LookUp, Answer, CommitBatch, Redeliver,
           LoadDelivery, AnswerManual, CommitManual, LockExpires
    <2> QED
        BY <2>1, <2>2, <2>3
<1>3. ASSUME lock' \in Workers, NEW d \in Deliveries, HookOf[d] = h
      PROVE  old'[lock'][d] = None
    <2>1. row[d] = None /\ (lock \in Workers => old[lock][d] = None)
        BY <1>1, <1>3 DEF StoreInv, DeletedIsGone
    <2>2. CASE lock' = lock /\ \A w \in Workers : Same(w)
        BY <1>3, <2>1, <2>2 DEF Same
    <2>3. CASE \E e \in Dispatches : Dispatch(e)
        BY <1>3, <2>2, <2>3, DispatchAlone, DispatchRows, Disjoint DEF TypeInv
    <2>4. CASE \E m \in Manual : Redeliver(m)
        BY <1>3, <2>2, <2>4, RedeliverAlone, RedeliverRows, Disjoint DEF TypeInv
    <2>5. CASE \E g \in Hooks : Toggle(g) \/ Delete(g)
        BY <2>2, <2>5 DEF Toggle, Delete, session, Same
    <2>6. CASE LockExpires
        BY <1>3, <2>6, Constants DEF LockExpires
    <2>7. CASE \E w \in Workers : AcquireLock(w) \/ Retry(w) \/ Crash(w)
        <3>1. PICK w \in Workers : AcquireLock(w) \/ Retry(w) \/ Crash(w)
            BY <2>7
        <3>2. /\ lock' = lock \/ (AcquireLock(w) /\ lock' = w)
              /\ \A v \in Workers \ {w} : old'[v] = old[v]
            BY <1>3, <3>1, CatchesUp
        <3>3. CASE AcquireLock(w)
            <4>1. old' = old /\ lock' = w /\ old[w][d] = None
                BY <1>3, <3>3, IdleHoldsNothing DEF AcquireLock, session
            <4> QED
                BY <4>1
        <3>4. CASE lock' = lock /\ lock # w
            BY <1>3, <2>1, <3>2, <3>4
        <3>5. CASE lock' = lock /\ lock = w
            <4>1. old[w][d] = None
                BY <2>1, <3>5
            <4>2. old'[w][d] = None
                BY <1>3, <2>1, <3>1, <4>1, RetryEffect DEF Keeps, Selects, Attempts, Commits, Loses
            <4> QED
                BY <3>5, <4>2
        <3> QED
            BY <3>2, <3>3, <3>4, <3>5
    <2> QED
        BY <2>3, <2>4, <2>5, <2>6, <2>7 DEF Next
<1> QED
    BY <1>1, <1>2, <1>3 DEF Lost

LEMMA LostIsMore ==
    ASSUME TypeInv, StoreInv, Next
    PROVE  Cardinality(Lost) <= Cardinality(Lost')
<1>1. IsFiniteSet(Hooks) /\ Lost' \subseteq Hooks
    BY WebhooksAssumption DEF Lost
<1>2. IsFiniteSet(Lost')
    BY <1>1, FS_Subset
<1> QED
    BY <1>2, LostGrows, FS_Subset

\* and when the loop with the lock loses its batch to a deleted webhook, that
\* adds to it.
LEMMA LostToo ==
    ASSUME TypeInv, StoreInv, NEW w \in Workers, lock = w, RowIsGone(w)
    PROVE  Cardinality(Lost) + 1 <= Cardinality(Lost')
<1>1. TypeOK /\ Retrying(w) /\ w \in Actors
    BY Disjoint DEF TypeInv
<1>2. PICK d \in Deliveries : new[w][d] # old[w][d] /\ row[d] = None
    BY DEF RowIsGone, Dirty, Changed
<1>3. old[w][d] # None /\ HookOf[d] \in Hooks
    BY <1>1, <1>2, Constants DEF Retrying
<1>4. HookOf[d] \notin Lost
    BY <1>3 DEF Lost
<1>5. lock' = w /\ \A c \in Deliveries : old'[w][c] = None
    <2>1. old'[w] = NoRows /\ lock' = lock
        BY <1>1, Closed DEF RowIsGone
    <2> QED
        BY <2>1 DEF NoRows
<1>6. hook'[HookOf[d]] = "deleted"
    BY <1>2, <1>3 DEF StoreInv, GoneIsDeleted, RowIsGone
<1>7. HookOf[d] \in Lost'
    BY <1>3, <1>5, <1>6 DEF Lost
<1>8. Lost \cup {HookOf[d]} \subseteq Lost'
    BY <1>7, LostGrows DEF Next, Retry
<1>9. IsFiniteSet(Hooks) /\ Lost \subseteq Hooks /\ Lost' \subseteq Hooks
    BY WebhooksAssumption DEF Lost
<1>10. IsFiniteSet(Lost) /\ IsFiniteSet(Lost')
    BY <1>9, FS_Subset
<1>11. Cardinality(Lost \cup {HookOf[d]}) = Cardinality(Lost) + 1
    BY <1>4, <1>10, FS_AddElement
<1> QED
    BY <1>8, <1>10, <1>11, FS_Subset

----------------------------------------------------------------------------
(* Bounded POSTs. *)

LEMMA Times ==
    ASSUME NEW k \in Nat, NEW n \in Nat
    PROVE  k * n \in Nat /\ k * (n + 1) = k * n + k /\ k * 0 = 0 /\ k * 1 = k
OBVIOUS

LEMMA TimesMore ==
    ASSUME NEW k \in Nat, NEW a \in Nat, NEW b \in Nat, a <= b
    PROVE  k * a <= k * b /\ k * a \in Nat /\ k * b \in Nat
<1>1. PICK n \in Nat : n = b - a
    OBVIOUS
<1>2. b = a + n
    BY <1>1
<1>3. k * (a + n) = k * a + k * n /\ k * n \in Nat /\ k * a \in Nat
    OBVIOUS
<1> QED
    BY <1>2, <1>3

LEMMA AllowedType ==
    ASSUME TypeInv, NEW d \in Deliveries, Cardinality(Asking(d)) <= manual[d]
    PROVE  /\ Allowed(d) \in Nat /\ Uncommitted(d) \in {0, 1}
           /\ LoopAttempts * late \in Nat /\ Allowed(d) >= 1 + manual[d] + LoopAttempts * late
<1>1. manual[d] \in Nat /\ crashes \in Nat /\ late \in Nat
    BY Constants DEF TypeInv, TypeOK
<1>2. manual[d] - Cardinality(Asking(d)) \in Nat
    BY <1>1, Finite
<1>3. /\ LoopAttempts * (manual[d] - Cardinality(Asking(d))) \in Nat
      /\ LoopAttempts * late \in Nat
    BY <1>1, <1>2, Tries, Times
<1> QED
    BY <1>1, <1>3, Finite DEF Allowed, Uncommitted

\* Where no administrator asks or is answered, what is allowed can only grow
\* with what is lost or late.
LEMMA AllowedStays ==
    ASSUME TypeInv, StoreInv, Next, NEW d \in Deliveries,
           Asking(d)' = Asking(d), manual'[d] = manual[d], crashes' \in Nat, crashes' >= crashes,
           late' = late \/ late' = late + 1,
           Cardinality(Asking(d)) <= manual[d]
    PROVE  /\ Allowed(d)' >= Allowed(d) /\ Allowed(d)' \in Nat
           /\ \/ crashes' >= crashes + 1
              \/ Cardinality(Lost)' >= Cardinality(Lost) + 1
              => Allowed(d)' >= Allowed(d) + 1
           /\ late' = late + 1 => Allowed(d)' >= Allowed(d) + LoopAttempts
<1> DEFINE credit == LoopAttempts * (manual[d] - Cardinality(Asking(d)))
           round  == LoopAttempts * late
<1>1. manual[d] \in Nat /\ crashes \in Nat /\ late \in Nat
    BY Constants DEF TypeInv, TypeOK
<1>2. manual[d] - Cardinality(Asking(d)) \in Nat
    BY <1>1, Finite
<1>3. credit \in Nat /\ round \in Nat
    BY <1>1, <1>2, Tries, Times
<1>4. Allowed(d) = 1 + manual[d] + credit + round + crashes + Cardinality(Lost)
    BY DEF Allowed
<1>5. Allowed(d)' = 1 + manual[d] + credit + LoopAttempts * late' + crashes' + Cardinality(Lost)'
    BY DEF Allowed
<1>6. /\ late' = late => LoopAttempts * late' = round
      /\ late' = late + 1 => LoopAttempts * late' = round + LoopAttempts
    BY <1>1, Tries, Times
<1> HIDE DEF credit, round
<1>7. /\ Cardinality(Lost) \in Nat /\ Cardinality(Lost)' \in Nat
      /\ Cardinality(Lost) <= Cardinality(Lost)'
    BY Finite, FiniteNext, LostIsMore
<1>8. PICK more \in Nat : LoopAttempts * late' = round + more /\ (late' = late + 1 => more = LoopAttempts)
    <2>1. CASE late' = late /\ ~(late' = late + 1)
        BY <1>3, <1>6, <2>1
    <2>2. CASE late' = late + 1
        BY <1>6, <2>2, Tries
    <2> QED
        BY <1>1, <2>1, <2>2
<1> QED
    BY <1>1, <1>3, <1>4, <1>5, <1>7, <1>8, Tries

\* What the stragglers may still cost is a round each.
LEMMA StakeType ==
    ASSUME TypeInv, StoreInv, NEW d \in Deliveries
    PROVE  Stake(d) \in Nat /\ Stake(d) <= LoopAttempts * late
<1> DEFINE n == Cardinality(Stragglers(d))
           u == Cardinality(Unsent(d))
           k == LoopAttempts - 1
<1>1. n \in Nat /\ u \in Nat /\ u <= n /\ k \in Nat /\ late \in Nat
    BY FiniteLoops, Tries, Constants DEF TypeInv, TypeOK
<1>2. n <= late
    BY DEF StoreInv, FewStragglers
<1>3. Stake(d) = k * n + u
    BY DEF Stake
<1>4. LoopAttempts = k + 1
    BY Tries
<1> HIDE DEF n, u, k
<1>5. (k + 1) * n = k * n + n /\ k * n \in Nat
    BY <1>1
<1>6. (k + 1) * n <= (k + 1) * late
    <2>1. k + 1 \in Nat
        BY <1>1
    <2> QED
        BY <1>1, <1>2, <2>1, TimesMore
<1>7. Stake(d) \in Nat /\ Stake(d) <= (k + 1) * n /\ (k + 1) * n \in Nat
    BY <1>1, <1>3, <1>5
<1>8. (k + 1) * late \in Nat
    <2>1. k + 1 \in Nat
        BY <1>1
    <2> QED
        BY <1>1, <2>1, Times
<1> QED
    BY <1>4, <1>6, <1>7, <1>8

\* A straggler's POST takes one from it, and its commit the rest.
LEMMA StakeShrinks ==
    ASSUME NEW d \in Deliveries, NEW w,
           Stragglers(d)' \subseteq Stragglers(d), Unsent(d)' \subseteq Unsent(d)
    PROVE  /\ Stake(d) \in Nat /\ Stake(d)' \in Nat /\ Stake(d)' <= Stake(d)
           /\ w \in Unsent(d) /\ w \notin Unsent(d)' => Stake(d)' + 1 <= Stake(d)
           /\ w \in Stragglers(d) /\ w \notin Stragglers(d)' =>
                 Stake(d)' + LoopAttempts <= Stake(d) + 1
<1> DEFINE n == Cardinality(Stragglers(d))
           u == Cardinality(Unsent(d))
           m == Cardinality(Stragglers(d)')
           v == Cardinality(Unsent(d)')
           k == LoopAttempts - 1
<1>1. n \in Nat /\ u \in Nat /\ k \in Nat /\ LoopAttempts = k + 1
    BY FiniteLoops, Tries
<1>2. IsFiniteSet(Stragglers(d)) /\ IsFiniteSet(Unsent(d))
    BY FiniteLoops
<1>3. IsFiniteSet(Stragglers(d)') /\ IsFiniteSet(Unsent(d)') /\ m <= n /\ v <= u
    BY <1>2, FS_Subset
<1>4. m \in Nat /\ v \in Nat
    BY <1>3, FS_CardinalityType
<1>5. ASSUME w \in Unsent(d), w \notin Unsent(d)'
      PROVE  v + 1 <= u
    <2>1. Unsent(d)' \subseteq Unsent(d) \ {w}
        BY <1>5
    <2>2. Cardinality(Unsent(d) \ {w}) = u - 1 /\ IsFiniteSet(Unsent(d) \ {w})
        BY <1>2, <1>5, FS_RemoveElement
    <2>3. v <= Cardinality(Unsent(d) \ {w})
        BY <2>1, <2>2, FS_Subset
    <2> QED
        BY <1>1, <1>4, <2>2, <2>3
<1>6. ASSUME w \in Stragglers(d), w \notin Stragglers(d)'
      PROVE  m + 1 <= n
    <2>1. Stragglers(d)' \subseteq Stragglers(d) \ {w}
        BY <1>6
    <2>2. Cardinality(Stragglers(d) \ {w}) = n - 1 /\ IsFiniteSet(Stragglers(d) \ {w})
        BY <1>2, <1>6, FS_RemoveElement
    <2>3. m <= Cardinality(Stragglers(d) \ {w})
        BY <2>1, <2>2, FS_Subset
    <2> QED
        BY <1>1, <1>4, <2>2, <2>3
<1>7. Stake(d) = k * n + u /\ Stake(d)' = k * m + v
    BY DEF Stake
<1> HIDE DEF n, u, m, v, k
<1>8. k * m <= k * n /\ k * m \in Nat /\ k * n \in Nat
    BY <1>1, <1>3, <1>4, TimesMore
<1>9. m + 1 <= n => k * m + k <= k * n
    <2>1. ASSUME m + 1 <= n
          PROVE  k * m + k <= k * n
        <3>1. m + 1 \in Nat
            BY <1>4
        <3>2. k * (m + 1) <= k * n
            BY <1>1, <2>1, <3>1, TimesMore
        <3>3. k * (m + 1) = k * m + k
            BY <1>1, <1>4, Times
        <3> QED
            BY <3>2, <3>3
    <2> QED
        BY <2>1
<1> QED
    BY <1>1, <1>3, <1>4, <1>5, <1>6, <1>7, <1>8, <1>9

\* A late batch adds a round to it, less the attempt that it has made.
LEMMA StakeGrows ==
    ASSUME NEW d \in Deliveries, NEW w, w \notin Stragglers(d),
           Stragglers(d)' \subseteq Stragglers(d) \cup {w}, Unsent(d)' \subseteq Unsent(d) \cup {w}
    PROVE  /\ Stake(d) \in Nat /\ Stake(d)' \in Nat
           /\ Stake(d)' <= Stake(d) + LoopAttempts
           /\ Unsent(d)' \subseteq Unsent(d) => Stake(d)' + 1 <= Stake(d) + LoopAttempts
<1> DEFINE n == Cardinality(Stragglers(d))
           u == Cardinality(Unsent(d))
           m == Cardinality(Stragglers(d)')
           v == Cardinality(Unsent(d)')
           k == LoopAttempts - 1
<1>1. n \in Nat /\ u \in Nat /\ k \in Nat /\ LoopAttempts = k + 1
    BY FiniteLoops, Tries
<1>2. IsFiniteSet(Stragglers(d)) /\ IsFiniteSet(Unsent(d)) /\ w \notin Unsent(d)
    BY FiniteLoops DEF Unsent
<1>3. /\ IsFiniteSet(Stragglers(d) \cup {w}) /\ Cardinality(Stragglers(d) \cup {w}) = n + 1
      /\ IsFiniteSet(Unsent(d) \cup {w}) /\ Cardinality(Unsent(d) \cup {w}) = u + 1
    BY <1>2, FS_AddElement
<1>4. IsFiniteSet(Stragglers(d)') /\ m <= n + 1
    BY <1>3, FS_Subset
<1>5. IsFiniteSet(Unsent(d)') /\ v <= u + 1
    BY <1>3, FS_Subset
<1>6. Unsent(d)' \subseteq Unsent(d) => v <= u
    BY <1>2, FS_Subset
<1>7. m \in Nat /\ v \in Nat
    BY <1>4, <1>5, FS_CardinalityType
<1>8. Stake(d) = k * n + u /\ Stake(d)' = k * m + v
    BY DEF Stake
<1> HIDE DEF n, u, m, v, k
<1>9. k * m <= k * n + k /\ k * m \in Nat /\ k * n \in Nat
    <2>1. n + 1 \in Nat
        BY <1>1
    <2>2. k * m <= k * (n + 1) /\ k * m \in Nat
        BY <1>1, <1>4, <1>7, <2>1, TimesMore
    <2>3. k * (n + 1) = k * n + k /\ k * n \in Nat
        BY <1>1, Times
    <2> QED
        BY <2>2, <2>3
<1> QED
    BY <1>1, <1>5, <1>6, <1>7, <1>8, <1>9

\* A dispatch makes the first POST of a delivery.
LEMMA DispatchPosts ==
    ASSUME TypeInv, StoreInv, NEW e \in Dispatches, Dispatch(e), NEW d \in Deliveries, PostOK(d)
    PROVE  PostOK(d)'
<1>1. TypeOK /\ Dispatching(e) /\ e \in Actors /\ Next
    BY Disjoint DEF TypeInv, Next
<1>2. /\ \A w \in Workers : Same(w)
      /\ \A m \in Manual : task'[m] = task[m]
    BY <1>1, DispatchAlone, Disjoint DEF Same
<1>3. hook' = hook /\ manual' = manual /\ crashes' = crashes /\ late' = late /\ lock' = lock
    BY DispatchRows
<1>4. Asking(d)' = Asking(d)
    BY <1>2 DEF Asking
<1>5. crashes \in Nat /\ manual[d] \in Nat /\ posts[d] \in Nat /\ Stake(d) \in Nat
    BY <1>1, Constants, StakeType DEF TypeOK
<1>6. /\ Allowed(d)' >= Allowed(d) /\ Allowed(d)' \in Nat /\ Allowed(d) \in Nat
      /\ Allowed(d) >= 1 + Stake(d)
    <2>1. Cardinality(Asking(d)) <= manual[d]
        BY DEF PostOK
    <2>2. Allowed(d)' >= Allowed(d) /\ Allowed(d)' \in Nat
        BY <1>1, <1>3, <1>4, <1>5, <2>1, AllowedStays
    <2>3. /\ Allowed(d) \in Nat /\ LoopAttempts * late \in Nat
          /\ Allowed(d) >= 1 + manual[d] + LoopAttempts * late
        BY <2>1, AllowedType
    <2>4. Stake(d) <= LoopAttempts * late
        BY StakeType
    <2> QED
        BY <1>5, <2>2, <2>3, <2>4
<1>7. /\ Uncommitted(d)' = Uncommitted(d) /\ Uncommitted(d) \in {0, 1} /\ Stake(d)' = Stake(d)
      /\ \A w \in Workers : old'[w][d] = old[w][d]
    BY <1>2, <1>3, NotTheLoops, AllowedType DEF PostOK
<1>8. Left(row[d]) \in Nat
    BY <1>1, LeftType DEF TypeOK
<1>9. CASE SendFirst(e) \/ SendFirstFails(e)
    <2>1. row' = row
        BY <1>9 DEF SendFirst, SendFirstFails
    <2>2. FirstOf(batch[e]) \in batch[e] /\ FirstOf(batch[e]) \in Deliveries
        BY <1>1, <1>9, FirstIsOne DEF TypeOK, SendFirst, SendFirstFails
    <2>3. posts' = [posts EXCEPT ![FirstOf(batch[e])] = @ + 1] /\ pc[e] = "send"
        BY <1>9 DEF SendFirst, SendFirstFails, CountPost
    <2>4. CASE d = FirstOf(batch[e])
        <3>1. d \in Targets[e] /\ d \in batch[e]
            BY <1>1, <2>2, <2>4 DEF Dispatching
        <3>2. row[d] = None /\ posts[d] = 0 /\ \A w \in Workers : old[w][d] = None
            BY <2>3, <3>1 DEF StoreInv, Unstored, StillToStore
        <3>3. posts'[d] = 1
            BY <1>1, <2>3, <2>4, <3>2 DEF TypeOK
        <3>4. Left(row'[d]) = 0 /\ (lock' \in Workers => old'[lock'][d] = None)
            BY <1>3, <1>7, <2>1, <3>2, LeftType
        <3>5. 1 + 0 + Stake(d)' <= Allowed(d)' + Uncommitted(d)'
            BY <1>5, <1>6, <1>7
        <3> QED
            BY <1>3, <1>4, <3>3, <3>4, <3>5 DEF PostOK
    <2>5. CASE d # FirstOf(batch[e])
        <3>1. posts'[d] = posts[d] /\ row'[d] = row[d]
            BY <1>1, <2>1, <2>3, <2>5 DEF TypeOK
        <3>2. \A w \in Workers : old[w][d] # None => Left(old[w][d]) \in Nat
            BY <1>1, Disjoint, LeftType DEF TypeOK
        <3> QED
            BY <1>3, <1>4, <1>5, <1>6, <1>7, <1>8, <3>1, <3>2 DEF PostOK
    <2> QED
        BY <2>4, <2>5
<1>10. CASE ListWebhooks(e) \/ InsertDeliveries(e)
    <2>1. posts' = posts
        BY <1>10 DEF ListWebhooks, InsertDeliveries
    <2>2. Left(row'[d]) <= Left(row[d]) /\ Left(row'[d]) \in Nat
        <3>1. CASE row'[d] = row[d]
            BY <1>8, <3>1
        <3>2. CASE InsertDeliveries(e) /\ new[e][d] # None /\ row'[d] = new[e][d]
            <4>1. d \in Targets[e] /\ pc[e] = "send"
                BY <1>1, <3>2 DEF Dispatching, InsertDeliveries
            <4>2. row'[d].success
                BY <3>2, <4>1 DEF StoreInv, Unstored, StillToStore
            <4>3. Left(row'[d]) = 0
                BY <4>2 DEF Left
            <4> QED
                BY <1>8, <4>3
        <3> QED
            BY <3>1, <3>2, DispatchRows
    <2>3. \A w \in Workers : old[w][d] # None => Left(old[w][d]) \in Nat
        BY <1>1, Disjoint, LeftType DEF TypeOK
    <2> QED
        BY <1>3, <1>4, <1>5, <1>6, <1>7, <1>8, <2>1, <2>2, <2>3 DEF PostOK
<1> QED
    BY <1>9, <1>10 DEF Dispatch

\* A POST of the loop with the lock uses up one of the attempts that the row
\* has left.
LEMMA HolderPosts ==
    ASSUME TypeInv, StoreInv, NEW w \in Workers, lock = w, Retry(w) \/ Crash(w),
           NEW d \in Deliveries, PostOK(d)
    PROVE  PostOK(d)'
<1>1. TypeOK /\ Retrying(w) /\ w \in Actors /\ Next
    BY Disjoint DEF TypeInv, Next
<1>2. manual' = manual /\ Asking(d)' = Asking(d)
    <2>1. \A m \in Manual : task'[m] = task[m]
        BY <1>1, RetryAlone, Disjoint DEF Same
    <2> QED
        BY <2>1, RetryRows DEF Asking
<1>3. /\ crashes \in Nat /\ crashes' \in Nat /\ crashes' >= crashes
      /\ manual[d] \in Nat /\ posts[d] \in Nat
    BY <1>1, Constants DEF TypeOK, Retry, Crash, SelectPending, RowIsGone, LookUp,
       Answer, CommitBatch
<1>4. late' = late /\ lock' = w
    BY Constants, CatchesUp
<1>5. /\ Allowed(d)' >= Allowed(d) /\ Allowed(d)' \in Nat /\ Allowed(d) \in Nat
      /\ Uncommitted(d) \in {0, 1} /\ Cardinality(Asking(d)) <= manual[d]
    BY <1>1, <1>2, <1>3, <1>4, AllowedStays, AllowedType DEF PostOK
<1>6. /\ Uncommitted(d) = IF Posted(w, d) THEN 1 ELSE 0
      /\ Uncommitted(d)' = IF Posted(w, d)' THEN 1 ELSE 0
    BY <1>4 DEF Uncommitted
<1>7. Stake(d) \in Nat /\ Stake(d)' \in Nat /\ Stake(d)' <= Stake(d)
    <2>1. Stragglers(d)' \subseteq Stragglers(d) /\ Unsent(d)' \subseteq Unsent(d)
        BY CatchesUp
    <2> QED
        BY <2>1, StakeShrinks
<1>8. Left(row[d]) \in Nat /\ Left(old[w][d]) \in Nat /\ Left(None) = 0
    BY <1>1, LeftType DEF TypeOK
<1>9. /\ posts[d] + Left(row[d]) + Stake(d) <= Allowed(d) + Uncommitted(d)
      /\ old[w][d] # None => posts[d] + Left(old[w][d]) + Stake(d) <= Allowed(d) + Uncommitted(d)
    BY DEF PostOK
<1>10. SUFFICES /\ posts'[d] + Left(row'[d]) + Stake(d)' <= Allowed(d)' + Uncommitted(d)'
                /\ old'[w][d] # None =>
                      posts'[d] + Left(old'[w][d]) + Stake(d)' <= Allowed(d)' + Uncommitted(d)'
    BY <1>2, <1>4, <1>5 DEF PostOK
<1>11. CASE Keeps(w, d) \/ Attempts(w, d)
    BY <1>3, <1>5, <1>6, <1>7, <1>8, <1>9, <1>11 DEF Keeps, Attempts
<1>12. CASE Selects(w, d)
    BY <1>3, <1>5, <1>6, <1>7, <1>8, <1>9, <1>12 DEF Selects
<1>13. CASE Commits(w, d)
    <2>1. posts'[d] = posts[d] /\ old'[w][d] = None /\ Uncommitted(d)' = 0
        BY <1>6, <1>13 DEF Commits, Posted
    <2>2. CASE row'[d] = row[d] /\ ~Posted(w, d)
        BY <1>3, <1>5, <1>6, <1>7, <1>8, <1>9, <2>1, <2>2
    <2>3. ASSUME row[d] \in Rows, old[w][d] \in Rows,
                 row'[d] = Merged(row[d], old[w][d], new[w][d])
          PROVE  /\ old[w][d] # None /\ ~old[w][d].success /\ old[w][d].due
                 /\ posts[d] + Left(old[w][d]) + Stake(d) <= Allowed(d) + Uncommitted(d)
        BY <1>1, <1>9, <2>3, NotNone DEF Retrying
    <2>4. CASE /\ row[d] \in Rows /\ old[w][d] \in Rows
               /\ row'[d] = Merged(row[d], old[w][d], new[w][d])
               /\ new[w][d] = Dropped(old[w][d]) /\ ~Posted(w, d)
        <3>1. Left(row'[d]) = 0
            BY <2>3, <2>4, LeftAfterDrop
        <3> QED
            BY <1>3, <1>5, <1>6, <1>7, <1>8, <1>9, <2>1, <2>4, <3>1
    <2>5. CASE /\ row[d] \in Rows /\ old[w][d] \in Rows
               /\ row'[d] = Merged(row[d], old[w][d], new[w][d])
               /\ \E ok \in BOOLEAN : new[w][d] = Retried(old[w][d], ok) /\ Posted(w, d)
        <3>1. Left(row'[d]) <= Left(old[w][d]) - 1 /\ Left(row'[d]) \in Nat
            BY <2>3, <2>5, LeftAfterRetry
        <3>2. Uncommitted(d) = 1
            BY <1>6, <2>5
        <3> QED
            BY <1>3, <1>5, <1>7, <1>8, <2>1, <2>3, <2>5, <3>1, <3>2
    <2> QED
        BY <1>13, <2>2, <2>4, <2>5 DEF Commits
<1>14. CASE Loses(w, d)
    <2>1. posts'[d] = posts[d] /\ row'[d] = row[d] /\ old'[w][d] = None /\ Uncommitted(d)' = 0
        BY <1>6, <1>14 DEF Loses, Posted
    <2>2. Allowed(d)' >= Allowed(d) + 1
        <3>1. crashes' >= crashes + 1 \/ Cardinality(Lost)' >= Cardinality(Lost) + 1
            <4>1. CASE Crash(w)
                BY <1>3, <4>1 DEF Crash
            <4>2. CASE RowIsGone(w)
                <5>1. Cardinality(Lost) + 1 <= Cardinality(Lost')
                    BY <4>2, LostToo
                <5> QED
                    BY <5>1, Finite, FiniteNext
            <4> QED
                BY <1>14, <4>1, <4>2 DEF Loses
        <3> QED
            BY <1>1, <1>2, <1>3, <1>4, <1>5, <3>1, AllowedStays
    <2> QED
        BY <1>3, <1>5, <1>7, <1>8, <1>9, <2>1, <2>2
<1> QED
    BY <1>11, <1>12, <1>13, <1>14, RetryEffect

\* A straggler's POST and commit are what it has at stake.
LEMMA StragglerPosts ==
    ASSUME TypeInv, StoreInv, NEW w \in Workers, lock # w,
           AcquireLock(w) \/ Retry(w) \/ Crash(w), NEW d \in Deliveries, PostOK(d)
    PROVE  PostOK(d)'
<1>1. TypeOK /\ Retrying(w) /\ w \in Actors /\ Next
    BY Disjoint DEF TypeInv, Next
<1>2. manual' = manual /\ Asking(d)' = Asking(d)
    <2>1. \A m \in Manual : task'[m] = task[m]
        BY <1>1, RetryAlone, Disjoint DEF Same
    <2> QED
        BY <2>1, RetryRows DEF Asking
<1>3. /\ crashes \in Nat /\ crashes' \in Nat /\ crashes' >= crashes
      /\ manual[d] \in Nat /\ posts[d] \in Nat
    BY <1>1, Constants DEF TypeOK, AcquireLock, Retry, Crash, SelectPending, RowIsGone, LookUp,
       Answer, CommitBatch
<1>4. /\ late' = late
      /\ lock' = lock \/ (AcquireLock(w) /\ lock = None /\ lock' = w)
      /\ \A v \in Workers \ {w} : old'[v] = old[v] /\ (Posted(v, d)' <=> Posted(v, d))
      /\ Stragglers(d)' \subseteq Stragglers(d) /\ Unsent(d)' \subseteq Unsent(d)
      /\ Attempts(w, d) => w \in Unsent(d) /\ w \notin Unsent(d)'
      /\ old[w][d] # None /\ old'[w][d] = None => w \in Stragglers(d) /\ w \notin Stragglers(d)'
    BY CatchesUp
<1>5. /\ Allowed(d)' >= Allowed(d) /\ Allowed(d)' \in Nat /\ Allowed(d) \in Nat
      /\ Uncommitted(d) \in {0, 1} /\ Cardinality(Asking(d)) <= manual[d]
    BY <1>1, <1>2, <1>3, <1>4, AllowedStays, AllowedType DEF PostOK
<1>6. /\ Uncommitted(d)' = Uncommitted(d)
      /\ lock' \in Workers /\ old'[lock'][d] # None =>
            lock \in Workers /\ lock' = lock /\ old'[lock'][d] = old[lock][d] /\ old[lock][d] # None
    <2>1. CASE lock' = lock
        BY <1>4, <2>1 DEF Uncommitted
    <2>2. CASE AcquireLock(w) /\ lock = None /\ lock' = w
        <3>1. old[w][d] = None /\ old' = old
            BY <2>2, IdleHoldsNothing DEF AcquireLock, session
        <3> QED
            BY <2>2, <3>1, Constants DEF Uncommitted, Posted
    <2> QED
        BY <1>4, <2>1, <2>2
<1>7. /\ Stake(d) \in Nat /\ Stake(d)' \in Nat /\ Stake(d)' <= Stake(d)
      /\ w \in Unsent(d) /\ w \notin Unsent(d)' => Stake(d)' + 1 <= Stake(d)
      /\ w \in Stragglers(d) /\ w \notin Stragglers(d)' => Stake(d)' + LoopAttempts <= Stake(d) + 1
    BY <1>4, StakeShrinks
<1>8. Left(row[d]) \in Nat /\ \A v \in Workers : Left(old[v][d]) \in Nat
    BY <1>1, Disjoint, LeftType DEF TypeOK
<1>9. /\ posts[d] + Left(row[d]) + Stake(d) <= Allowed(d) + Uncommitted(d)
      /\ lock \in Workers /\ old[lock][d] # None =>
            posts[d] + Left(old[lock][d]) + Stake(d) <= Allowed(d) + Uncommitted(d)
    BY DEF PostOK
<1>10. ASSUME posts'[d] + Stake(d)' <= posts[d] + Stake(d), posts'[d] \in Nat
       PROVE  lock' \in Workers /\ old'[lock'][d] # None =>
                 posts'[d] + Left(old'[lock'][d]) + Stake(d)' <= Allowed(d)' + Uncommitted(d)'
    BY <1>3, <1>5, <1>6, <1>7, <1>8, <1>9, <1>10
<1>11. CASE row'[d] = row[d]
    <2>1. posts'[d] + Stake(d)' <= posts[d] + Stake(d) /\ posts'[d] \in Nat
        BY <1>3, <1>4, <1>7, RetryEffect DEF Keeps, Selects, Attempts, Commits, Loses
    <2>2. posts'[d] + Left(row'[d]) + Stake(d)' <= Allowed(d)' + Uncommitted(d)'
        BY <1>3, <1>5, <1>6, <1>7, <1>8, <1>9, <1>11, <2>1
    <2> QED
        BY <1>2, <1>5, <1>10, <2>1, <2>2 DEF PostOK
<1>12. ASSUME row'[d] # row[d]
       PROVE  /\ posts'[d] = posts[d] /\ old'[w][d] = None
              /\ old[w][d] \in Rows /\ row[d] \in Rows
              /\ row'[d] = Merged(row[d], old[w][d], new[w][d])
              /\ \/ new[w][d] = Dropped(old[w][d])
                 \/ \E ok \in BOOLEAN : new[w][d] = Retried(old[w][d], ok)
    BY <1>12, RetryEffect DEF Keeps, Selects, Attempts, Commits, Loses
<1>13. CASE row'[d] # row[d]
    <2>1. /\ old[w][d] # None /\ ~old[w][d].success /\ old[w][d].due /\ old[w][d].retries >= 1
        BY <1>1, <1>12, <1>13, NotNone DEF Retrying, StoreInv, DueCounted
    <2>2. Stake(d)' + LoopAttempts <= Stake(d) + 1
        BY <1>4, <1>7, <1>12, <1>13, <2>1
    <2>3. Left(row'[d]) <= LoopAttempts - 1 /\ Left(row'[d]) \in Nat
        <3>1. CASE new[w][d] = Dropped(old[w][d])
            <4>1. Left(row'[d]) = 0
                BY <1>12, <1>13, <2>1, <3>1, LeftAfterDrop
            <4> QED
                BY <4>1, Tries
        <3>2. CASE \E ok \in BOOLEAN : new[w][d] = Retried(old[w][d], ok)
            <4>1. Left(row'[d]) <= Left(old[w][d]) - 1 /\ Left(row'[d]) \in Nat
                BY <1>12, <1>13, <2>1, <3>2, LeftAfterRetry
            <4>2. Left(old[w][d]) <= LoopAttempts
                BY <1>12, <1>13, <2>1, LeftAfterOne
            <4> QED
                BY <1>8, <4>1, <4>2, Tries
        <3> QED
            BY <1>12, <1>13, <3>1, <3>2
    <2>4. posts'[d] + Left(row'[d]) + Stake(d)' <= Allowed(d)' + Uncommitted(d)'
        BY <1>3, <1>5, <1>6, <1>7, <1>8, <1>9, <1>12, <1>13, <2>2, <2>3, Tries
    <2>5. posts'[d] + Stake(d)' <= posts[d] + Stake(d) /\ posts'[d] \in Nat
        BY <1>3, <1>7, <1>12, <1>13
    <2> QED
        BY <1>2, <1>5, <1>10, <2>4, <2>5 DEF PostOK
<1> QED
    BY <1>11, <1>13

LEMMA RetryPosts ==
    ASSUME TypeInv, StoreInv, NEW w \in Workers, AcquireLock(w) \/ Retry(w) \/ Crash(w),
           NEW d \in Deliveries, PostOK(d)
    PROVE  PostOK(d)'
<1>1. AcquireLock(w) => lock # w
    BY Constants DEF AcquireLock
<1> QED
    BY <1>1, HolderPosts, StragglerPosts

\* An administrator's POST is allowed for when it is made, and the loop's
\* attempts after it when it is answered.
LEMMA RedeliverPosts ==
    ASSUME TypeInv, StoreInv, NEW m \in Manual, Redeliver(m), NEW d \in Deliveries, PostOK(d)
    PROVE  PostOK(d)'
<1>1. TypeOK /\ Redelivering(m) /\ m \in Actors /\ Next
    BY Disjoint DEF TypeInv, Next
<1>2. /\ \A w \in Workers : Same(w)
      /\ \A n \in Manual \ {m} : task'[n] = task[n]
    BY <1>1, RedeliverAlone, Disjoint DEF Same
<1>3. hook' = hook /\ crashes' = crashes /\ late' = late /\ lock' = lock
    BY RedeliverRows
<1>4. /\ Uncommitted(d)' = Uncommitted(d) /\ Uncommitted(d) \in {0, 1} /\ Stake(d)' = Stake(d)
      /\ \A w \in Workers : old'[w][d] = old[w][d]
    BY <1>2, <1>3, NotTheLoops, AllowedType DEF PostOK
<1>5. /\ crashes \in Nat /\ manual[d] \in Nat /\ posts[d] \in Nat /\ Allowed(d) \in Nat
      /\ Stake(d) \in Nat /\ LoopAttempts * late \in Nat
    BY <1>1, Constants, AllowedType, StakeType DEF TypeOK, PostOK
<1>6. Left(row[d]) \in Nat /\ \A w \in Workers : Left(old[w][d]) \in Nat
    BY <1>1, Disjoint, LeftType DEF TypeOK
<1>7. CASE Asking(d)' = Asking(d) /\ manual'[d] = manual[d] /\ posts'[d] = posts[d] /\ row'[d] = row[d]
    <2>1. Allowed(d)' >= Allowed(d) /\ Allowed(d)' \in Nat
        BY <1>1, <1>3, <1>5, <1>7, AllowedStays DEF PostOK
    <2> QED
        BY <1>3, <1>4, <1>5, <1>6, <1>7, <2>1 DEF PostOK
<1>8. /\ Cardinality(Lost) \in Nat /\ Cardinality(Lost)' \in Nat
      /\ Cardinality(Lost) <= Cardinality(Lost)'
      /\ IsFiniteSet(Asking(d)) /\ Cardinality(Asking(d)) \in Nat
      /\ Cardinality(Asking(d)) <= manual[d]
    BY <1>1, Finite, FiniteNext, LostIsMore DEF PostOK
<1>9. CASE LoadDelivery(m)
    <2>1. PICK c \in Deliveries :
              /\ row[c] # None
              /\ task' = [task EXCEPT ![m] = c]
              /\ posts' = [posts EXCEPT ![c] = @ + 1]
              /\ manual' = [manual EXCEPT ![c] = @ + 1]
        BY <1>9 DEF LoadDelivery, CountPost
    <2>2. row' = row /\ task[m] = None /\ task'[m] = c /\ d # None
        BY <1>1, <1>9, <2>1, Constants DEF TypeOK, Redelivering, LoadDelivery
    <2>3. CASE d # c
        <3>1. Asking(d)' = Asking(d)
            BY <1>2, <2>2, <2>3 DEF Asking
        <3>2. manual'[d] = manual[d] /\ posts'[d] = posts[d]
            BY <1>1, <2>1, <2>3 DEF TypeOK
        <3> QED
            BY <1>7, <2>2, <3>1, <3>2
    <2>4. CASE d = c
        <3>1. Asking(d)' = Asking(d) \cup {m} /\ m \notin Asking(d)
            BY <1>2, <2>2, <2>4 DEF Asking
        <3>2. Cardinality(Asking(d))' = Cardinality(Asking(d)) + 1
            BY <1>8, <3>1, FS_AddElement
        <3>3. manual'[d] = manual[d] + 1 /\ posts'[d] = posts[d] + 1
            BY <1>1, <2>1, <2>4 DEF TypeOK
        <3>4. manual'[d] - Cardinality(Asking(d))' = manual[d] - Cardinality(Asking(d))
            BY <1>5, <1>8, <3>2, <3>3
        <3> DEFINE credit == LoopAttempts * (manual[d] - Cardinality(Asking(d)))
        <3>5. credit \in Nat
            <4>1. manual[d] - Cardinality(Asking(d)) \in Nat
                BY <1>5, <1>8
            <4> QED
                BY <4>1, Tries, Times
        <3> DEFINE round == LoopAttempts * late
        <3>6. Allowed(d) = 1 + manual[d] + credit + round + crashes + Cardinality(Lost)
            BY DEF Allowed
        <3>7. Allowed(d)' = 1 + manual'[d] + credit + round + crashes' + Cardinality(Lost)'
            BY <1>3, <3>4 DEF Allowed
        <3>9. round \in Nat
            BY <1>5
        <3> HIDE DEF credit, round
        <3>8. Allowed(d)' >= Allowed(d) + 1 /\ Allowed(d)' \in Nat
            BY <1>3, <1>5, <1>8, <3>3, <3>5, <3>6, <3>7, <3>9
        <3> QED
            BY <1>3, <1>4, <1>5, <1>6, <1>8, <2>2, <3>2, <3>3, <3>8 DEF PostOK
    <2> QED
        BY <2>3, <2>4
<1>10. CASE AnswerManual(m)
    <2>1. task' = task /\ manual' = manual /\ posts' = posts /\ row' = row
        BY <1>10 DEF AnswerManual
    <2> QED
        BY <1>7, <2>1 DEF Asking
<1>11. CASE CommitManual(m)
    <2>1. task'[m] = None /\ manual' = manual /\ posts' = posts /\ d # None
        BY <1>1, <1>11, Closed, Constants DEF CommitManual
    <2>2. CASE d # task[m]
        <3>1. Asking(d)' = Asking(d)
            BY <1>2, <2>1, <2>2 DEF Asking
        <3>2. row'[d] = row[d]
            BY <2>2, RedeliverRows
        <3> QED
            BY <1>7, <2>1, <3>1, <3>2
    <2>3. CASE d = task[m]
        <3>1. Asking(d)' = Asking(d) \ {m} /\ m \in Asking(d)
            BY <1>2, <2>1, <2>3 DEF Asking
        <3>2. Cardinality(Asking(d))' = Cardinality(Asking(d)) - 1
            BY <1>8, <3>1, FS_RemoveElement
        <3> DEFINE answered == manual[d] - Cardinality(Asking(d))
                   round == LoopAttempts * late
        <3>3. manual'[d] - Cardinality(Asking(d))' = answered + 1 /\ answered \in Nat
            BY <1>5, <1>8, <2>1, <3>2
        <3>4. Allowed(d) = 1 + manual[d] + LoopAttempts * answered + round + crashes + Cardinality(Lost)
            BY DEF Allowed
        <3>5. Allowed(d)' = 1 + manual'[d] + LoopAttempts * (answered + 1) + round + crashes'
                              + Cardinality(Lost)'
            BY <1>3, <3>3 DEF Allowed
        <3>12. round \in Nat
            BY <1>5
        <3> HIDE DEF answered, round
        <3>6. /\ LoopAttempts * (answered + 1) = LoopAttempts * answered + LoopAttempts
              /\ LoopAttempts * answered \in Nat
            BY <3>3, Tries, Times
        <3>7. Allowed(d)' >= Allowed(d) + LoopAttempts /\ Allowed(d)' \in Nat
            BY <1>3, <1>5, <1>8, <2>1, <3>3, <3>4, <3>5, <3>6, <3>12, Tries
        <3>8. Left(row'[d]) <= Left(row[d]) + LoopAttempts /\ Left(row'[d]) \in Nat
            <4>1. CASE row'[d] = row[d]
                BY <1>6, <4>1, Tries
            <4>2. CASE /\ row[d] \in Rows /\ old[m][d] \in Rows /\ new[m][d] \in Rows
                       /\ row'[d] = Merged(row[d], old[m][d], new[m][d])
                <5>1. PICK ok \in BOOLEAN : new[m][d] = Redelivered(old[m][d], ok)
                    BY <1>11, <2>3 DEF StoreInv, Asked, CommitManual
                <5>2. Left(row'[d]) <= LoopAttempts
                    BY <4>2, <5>1, LeftAfterAsking
                <5>3. Left(row'[d]) \in Nat
                    <6>1. row'[d] \in Rows
                        BY <4>2, RowsOfMerges
                    <6> QED
                        BY <6>1, LeftType
                <5> QED
                    BY <1>6, <5>2, <5>3, Tries
            <4> QED
                BY <4>1, <4>2, RedeliverRows
        <3>9. Cardinality(Asking(d))' <= manual'[d]
            BY <1>5, <1>8, <2>1, <3>2
        <3>10. posts'[d] + Left(row'[d]) + Stake(d)' <= Allowed(d)' + Uncommitted(d)'
            BY <1>4, <1>5, <1>6, <2>1, <3>7, <3>8, Tries DEF PostOK
        <3>11. ASSUME lock' \in Workers, old'[lock'][d] # None
               PROVE  posts'[d] + Left(old'[lock'][d]) + Stake(d)' <= Allowed(d)' + Uncommitted(d)'
            BY <1>3, <1>4, <1>5, <1>6, <2>1, <3>7, <3>11, Tries DEF PostOK
        <3> QED
            BY <3>9, <3>10, <3>11 DEF PostOK
    <2> QED
        BY <2>2, <2>3
<1> QED
    BY <1>9, <1>10, <1>11 DEF Redeliver

LEMMA HookPosts ==
    ASSUME TypeInv, StoreInv, \E h \in Hooks : Toggle(h) \/ Delete(h),
           NEW d \in Deliveries, PostOK(d)
    PROVE  PostOK(d)'
<1>1. Next /\ UNCHANGED <<lock, pc, session, posts, manual, crashes, late>>
    BY DEF Next, Toggle, Delete
<1>2. Asking(d)' = Asking(d) /\ \A w \in Workers : Same(w)
    BY <1>1 DEF Asking, Same, session
<1>3. /\ Uncommitted(d)' = Uncommitted(d) /\ Uncommitted(d) \in {0, 1} /\ Stake(d)' = Stake(d)
      /\ \A w \in Workers : old'[w][d] = old[w][d]
    BY <1>1, <1>2, NotTheLoops, AllowedType DEF PostOK
<1>4. /\ crashes \in Nat /\ manual[d] \in Nat /\ posts[d] \in Nat /\ Allowed(d) \in Nat
      /\ Stake(d) \in Nat
    BY Constants, AllowedType, StakeType DEF TypeInv, TypeOK, PostOK
<1>5. Allowed(d)' >= Allowed(d) /\ Allowed(d)' \in Nat
    BY <1>1, <1>2, <1>4, AllowedStays DEF PostOK
<1>6. /\ Left(row[d]) \in Nat /\ Left(None) = 0
      /\ \A w \in Workers : Left(old[w][d]) \in Nat
    BY Disjoint, LeftType DEF TypeInv, TypeOK
<1>7. row'[d] = row[d] \/ row'[d] = None
    BY DEF Toggle, Delete
<1>8. Left(row'[d]) <= Left(row[d]) /\ Left(row'[d]) \in Nat
    BY <1>6, <1>7
<1> QED
    BY <1>1, <1>2, <1>3, <1>4, <1>5, <1>6, <1>8 DEF PostOK

\* A batch that outlives the lock is allowed a round of attempts.
LEMMA LatePosts ==
    ASSUME TypeInv, StoreInv, LockExpires, NEW d \in Deliveries, PostOK(d)
    PROVE  PostOK(d)'
<1>1. Next /\ UNCHANGED <<row, pc, session, posts, manual, crashes>> /\ lock' = None
    BY DEF Next, LockExpires
<1>2. Asking(d)' = Asking(d)
    BY <1>1 DEF Asking, session
<1>3. /\ crashes \in Nat /\ manual[d] \in Nat /\ posts[d] \in Nat /\ Allowed(d) \in Nat
      /\ Uncommitted(d) \in {0, 1} /\ Left(row[d]) \in Nat /\ LoopAttempts \in Nat
    BY Constants, AllowedType, LeftType, Tries DEF TypeInv, TypeOK, PostOK
<1>4. Uncommitted(d)' = 0
    BY <1>1, Constants DEF Uncommitted
<1>5. /\ posts[d] + Left(row[d]) + Stake(d) <= Allowed(d) + Uncommitted(d)
      /\ Cardinality(Asking(d)) <= manual[d]
    BY DEF PostOK
<1>6. SUFFICES posts[d] + Left(row[d]) + Stake(d)' <= Allowed(d)' + 0
    BY <1>1, <1>2, <1>3, <1>4, <1>5, Constants DEF PostOK
<1>7. CASE /\ late' = late /\ lock \in Workers /\ ~Posted(lock, d)
           /\ Stragglers(d)' = Stragglers(d) /\ Unsent(d)' = Unsent(d)
    <2>1. Stake(d)' = Stake(d) /\ Stake(d) \in Nat /\ Uncommitted(d) = 0
        BY <1>7, StakeType DEF Stake, Uncommitted
    <2>2. Allowed(d)' >= Allowed(d) /\ Allowed(d)' \in Nat
        BY <1>1, <1>2, <1>3, <1>5, <1>7, AllowedStays
    <2> QED
        BY <1>3, <1>5, <2>1, <2>2
<1>8. CASE /\ late' = late + 1 /\ lock \in Workers
           /\ lock \notin Stragglers(d)
           /\ Stragglers(d)' \subseteq Stragglers(d) \cup {lock}
           /\ Unsent(d)' \subseteq Unsent(d) \cup {lock}
           /\ Posted(lock, d) => Unsent(d)' \subseteq Unsent(d)
    <2>1. /\ Stake(d) \in Nat /\ Stake(d)' \in Nat
          /\ Stake(d)' <= Stake(d) + LoopAttempts
          /\ Unsent(d)' \subseteq Unsent(d) => Stake(d)' + 1 <= Stake(d) + LoopAttempts
        BY <1>8, StakeGrows
    <2>2. Allowed(d)' >= Allowed(d) + LoopAttempts /\ Allowed(d)' \in Nat
        BY <1>1, <1>2, <1>3, <1>5, <1>8, AllowedStays
    <2>3. CASE Posted(lock, d)
        <3>1. Uncommitted(d) = 1
            BY <1>8, <2>3 DEF Uncommitted
        <3> QED
            BY <1>3, <1>5, <1>8, <2>1, <2>2, <2>3, <3>1
    <2>4. CASE ~Posted(lock, d)
        <3>1. Uncommitted(d) = 0
            BY <2>4 DEF Uncommitted
        <3> QED
            BY <1>3, <1>5, <2>1, <2>2, <3>1
    <2> QED
        BY <2>3, <2>4
<1> QED
    BY <1>7, <1>8, OutlivesTheLock

LEMMA InitPost == Init => PostInv
<1> SUFFICES ASSUME Init, NEW d \in Deliveries PROVE PostOK(d)
    BY DEF PostInv
<1>1. Asking(d) = {} /\ Cardinality({}) = 0
    BY Disjoint, Constants, FS_EmptySet DEF Init, Asking
<1>2. Lost = {}
    BY DEF Init, Lost
<1>3. \A w \in Workers : old[w][d] = None
    BY Disjoint DEF Init, NoRows
<1>4. Uncommitted(d) = 0
    BY <1>3 DEF Uncommitted, Posted
<1>9. Stake(d) = 0
    <2>1. Stragglers(d) = {} /\ Unsent(d) = {}
        BY <1>3, Disjoint DEF Init, Stragglers, Unsent
    <2> QED
        BY <1>1, <2>1, Tries DEF Stake
<1>5. Allowed(d) = 1 + manual[d] + LoopAttempts * manual[d]
    BY <1>1, <1>2, Tries DEF Init, Allowed
<1>6. CASE d \in Waiting
    <2>1. posts[d] = 2 /\ manual[d] = 1 /\ row[d] = [success |-> FALSE, retries |-> 1, due |-> TRUE]
        BY <1>6 DEF Init
    <2>2. [success |-> FALSE, retries |-> 1, due |-> TRUE] \in Rows
        BY DEF Rows
    <2>3. Left(row[d]) <= LoopAttempts /\ Left(row[d]) \in Nat
        BY <2>1, <2>2, LeftAfterOne, LeftType
    <2>4. Allowed(d) = 2 + LoopAttempts
        BY <1>5, <2>1, Tries
    <2> QED
        BY <1>1, <1>3, <1>4, <1>9, <2>1, <2>3, <2>4, Tries DEF PostOK
<1>7. CASE d \notin Waiting
    <2>1. posts[d] \in {0, 1} /\ manual[d] = 0
        BY <1>7 DEF Init
    <2>2. row[d] = None \/ row[d] = [success |-> TRUE, retries |-> 0, due |-> FALSE]
        BY <1>7 DEF Init
    <2>3. Left(row[d]) = 0
        BY <2>2 DEF Left
    <2>4. Allowed(d) = 1
        BY <1>5, <2>1, Tries
    <2> QED
        BY <1>1, <1>3, <1>4, <1>9, <2>1, <2>3, <2>4 DEF PostOK
<1> QED
    BY <1>6, <1>7

LEMMA PostStep == TypeInv /\ StoreInv /\ PostInv /\ [Next]_vars => PostInv'
<1> SUFFICES ASSUME TypeInv, StoreInv, PostInv, [Next]_vars, NEW d \in Deliveries
             PROVE  PostOK(d)'
    BY DEF PostInv
<1>1. PostOK(d)
    BY DEF PostInv
<1>2. CASE UNCHANGED vars
    BY <1>1, <1>2 DEF PostOK, Asking, Allowed, Lost, Uncommitted, Posted, Left, Stake, Stragglers,
       Unsent, vars, session
<1>3. CASE Next
    BY <1>1, <1>3, DispatchPosts, RetryPosts, RedeliverPosts, HookPosts, LatePosts DEF Next
<1> QED
    BY <1>2, <1>3

LEMMA PostsAreBounded == TypeInv /\ StoreInv /\ PostInv => BoundedPosts
<1> SUFFICES ASSUME TypeInv, StoreInv, PostInv, NEW d \in Deliveries
             PROVE  posts[d] <= 1 + manual[d] + LoopAttempts * (manual[d] + late)
                                  + crashes + Cardinality({h \in Hooks : hook[h] = "deleted"})
    BY DEF BoundedPosts
<1>1. PostOK(d)
    BY DEF PostInv
<1>2. /\ TypeOK /\ posts[d] \in Nat /\ manual[d] \in Nat /\ crashes \in Nat /\ late \in Nat
      /\ Stake(d) \in Nat
    BY Constants, StakeType DEF TypeInv, TypeOK
<1>3. Allowed(d) \in Nat
    BY <1>1, AllowedType DEF PostOK
<1>4. posts[d] <= Allowed(d)
    <2>1. CASE lock \in Workers /\ Posted(lock, d)
        <3>1. old[lock][d] # None /\ Retrying(lock)
            BY <2>1 DEF Posted, TypeInv
        <3>2. old[lock][d] \in Rows /\ ~old[lock][d].success /\ old[lock][d].due
            BY <1>2, <2>1, <3>1, Copies DEF Retrying
        <3>3. Left(old[lock][d]) >= 1 /\ Left(old[lock][d]) \in Nat
            BY <3>2, LeftOfDue, LeftType
        <3>4. posts[d] + Left(old[lock][d]) + Stake(d) <= Allowed(d) + 1
            BY <1>1, <2>1, <3>1 DEF PostOK, Uncommitted
        <3> QED
            BY <1>2, <1>3, <3>3, <3>4
    <2>2. CASE ~(lock \in Workers /\ Posted(lock, d))
        <3>1. posts[d] + Left(row[d]) + Stake(d) <= Allowed(d) + 0
            BY <1>1, <2>2 DEF PostOK, Uncommitted
        <3>2. Left(row[d]) \in Nat
            BY <1>2, LeftType DEF TypeOK
        <3> QED
            BY <1>2, <1>3, <3>1, <3>2
    <2> QED
        BY <2>1, <2>2
<1>5. /\ LoopAttempts * (manual[d] - Cardinality(Asking(d))) + LoopAttempts * late
             <= LoopAttempts * (manual[d] + late)
      /\ LoopAttempts * (manual[d] - Cardinality(Asking(d))) \in Nat
      /\ LoopAttempts * late \in Nat /\ LoopAttempts * (manual[d] + late) \in Nat
    <2>1. Cardinality(Asking(d)) \in Nat /\ Cardinality(Asking(d)) <= manual[d]
        BY <1>1, Finite DEF PostOK
    <2>2. PICK n \in Nat : n = manual[d] - Cardinality(Asking(d)) /\ n <= manual[d]
        BY <1>2, <2>1
    <2>3. LoopAttempts * n <= LoopAttempts * manual[d] /\ LoopAttempts * n \in Nat
        BY <1>2, <2>2, Tries, TimesMore
    <2>4. /\ LoopAttempts * (manual[d] + late) = LoopAttempts * manual[d] + LoopAttempts * late
          /\ LoopAttempts * manual[d] \in Nat /\ LoopAttempts * late \in Nat
        BY <1>2, Tries
    <2> QED
        BY <2>2, <2>3, <2>4
<1>6. Cardinality(Lost) <= Cardinality({h \in Hooks : hook[h] = "deleted"})
    <2> DEFINE gone == {h \in Hooks : hook[h] = "deleted"}
    <2>1. Lost \subseteq gone /\ gone \subseteq Hooks /\ IsFiniteSet(Hooks)
        BY WebhooksAssumption DEF Lost
    <2> HIDE DEF gone
    <2>2. IsFiniteSet(gone)
        BY <2>1, FS_Subset
    <2>3. Cardinality(Lost) <= Cardinality(gone)
        BY <2>1, <2>2, FS_Subset
    <2> QED
        BY <2>3 DEF gone
<1>7. Cardinality({h \in Hooks : hook[h] = "deleted"}) \in Nat
    <2>1. IsFiniteSet(Hooks)
        BY WebhooksAssumption
    <2>2. IsFiniteSet({h \in Hooks : hook[h] = "deleted"})
        BY <2>1, FS_Subset
    <2> QED
        BY <2>2, FS_CardinalityType
<1>8. Cardinality(Lost) \in Nat
    BY Finite
<1> QED
    BY <1>2, <1>3, <1>4, <1>5, <1>6, <1>7, <1>8 DEF Allowed

\* An endpoint gets a bounded number of POSTs for one event, for any number of
\* administrators, replicas, crashes, deletions and batches that outlive
\* their lock.
THEOREM EndpointsAreSpared == Spec => []BoundedPosts
BY InitType, TypeStep, InitStore, StoreStep, InitPost, PostStep, PostsAreBounded, PTL DEF Spec

----------------------------------------------------------------------------
(* Every attempt is counted. *)

LEMMA StaysUndisturbed ==
    ASSUME TypeInv, Next, Undisturbed'
    PROVE  /\ Undisturbed
           /\ \A w \in Workers : ~Crash(w)
           /\ \A m \in Manual : ~Redeliver(m)
           /\ \A h \in Hooks : ~Delete(h)
<1>1. TypeOK /\ crashes \in Nat /\ crashes' = 0
    BY Constants DEF TypeInv, TypeOK, Undisturbed
<1>2. \A w \in Workers : ~Crash(w)
    BY <1>1 DEF Crash
<1>3. ASSUME NEW m \in Manual, Redeliver(m)
      PROVE  FALSE
    <2>1. m \in Actors /\ pc'[m] = "idle"
        BY Disjoint DEF Undisturbed
    <2>2. pc'[m] \in {"wait", "commit", "done"}
        BY <1>1, <1>3, <2>1 DEF TypeOK, Redeliver, LoadDelivery, AnswerManual, CommitManual,
           Close, Goto
    <2> QED
        BY <2>1, <2>2
<1>4. \A h \in Hooks : ~Delete(h)
    BY <1>1, SMTT(40) DEF TypeOK, Delete, Undisturbed
<1>5. crashes = 0
    BY <1>1, <1>2, <1>3, <1>4 DEF Next, Dispatch, ListWebhooks, SendFirst, SendFirstFails,
       InsertDeliveries, AcquireLock, Retry, SelectPending, RowIsGone, LookUp, Answer, CommitBatch,
       Toggle, LockExpires
<1>6. \A h \in Hooks : hook[h] # "deleted"
    <2>1. CASE hook' = hook
        BY <2>1 DEF Undisturbed
    <2>2. CASE \E g \in Hooks : Toggle(g)
        BY <1>1, <2>2, SMTT(40) DEF TypeOK, Toggle, Undisturbed
    <2>3. hook' = hook \/ \E g \in Hooks : Toggle(g)
        BY <1>3, <1>4 DEF Next, Dispatch, ListWebhooks, SendFirst, SendFirstFails, InsertDeliveries,
           AcquireLock, Retry, Crash, SelectPending, RowIsGone, LookUp, Answer, CommitBatch,
           LockExpires
    <2> QED
        BY <2>1, <2>2, <2>3
<1>7. \A m \in Manual : pc[m] = "idle"
    <2>1. \A m \in Manual : Same(m)
        BY <1>1, <1>3, OwnStep, Disjoint
    <2> QED
        BY <2>1 DEF Undisturbed, Same
<1> QED
    BY <1>2, <1>3, <1>4, <1>5, <1>6, <1>7 DEF Undisturbed

\* A dispatch stores a delivery with a count of its first POST,
LEMMA DispatchCounts ==
    ASSUME TypeInv, StoreInv, NEW e \in Dispatches, Dispatch(e), NEW d \in Deliveries, CountOK(d)
    PROVE  CountOK(d)'
<1>1. TypeOK /\ Dispatching(e) /\ e \in Actors
    BY Disjoint DEF TypeInv
<1>2. /\ \A w \in Workers : Same(w)
      /\ late' = late /\ lock' = lock
    BY <1>1, DispatchAlone, DispatchRows, Disjoint
<1>3. /\ \A w \in Workers : old'[w][d] = old[w][d]
      /\ Stragglers(d)' = Stragglers(d) /\ Posters(d)' = Posters(d)
    BY <1>2, NotTheLoops
<1>4. Slack(d)' = Slack(d)
    BY <1>2, <1>3 DEF Slack
<1>5. CASE InsertDeliveries(e) /\ new[e][d] # None /\ row'[d] = new[e][d]
    <2>1. d \in Targets[e] /\ pc[e] = "send" /\ posts' = posts
        BY <1>1, <1>5 DEF Dispatching, InsertDeliveries
    <2>2. /\ posts[d] = 1 /\ \A w \in Workers : old[w][d] = None
          /\ row'[d] = [success |-> TRUE, retries |-> 0, due |-> FALSE]
        BY <1>5, <2>1 DEF StoreInv, Unstored, StillToStore
    <2>3. Behind(d)' <= Slack(d) + 0
        <3>1. /\ Cardinality(Stragglers(d)) \in Nat /\ late \in Nat /\ Cardinality(Posters(d)) \in Nat
              /\ Cardinality(Stragglers(d)) <= late
            BY <1>1, FiniteLoops, Constants DEF TypeOK, StoreInv, FewStragglers
        <3>2. /\ LoopAttempts * Cardinality(Stragglers(d)) <= LoopAttempts * late
              /\ LoopAttempts * Cardinality(Stragglers(d)) \in Nat /\ LoopAttempts * late \in Nat
            BY <3>1, Tries, TimesMore
        <3>3. Behind(d)' = 1 + LoopAttempts * Cardinality(Stragglers(d))
            BY <1>3, <2>1, <2>2 DEF Behind
        <3> QED
            BY <3>1, <3>2, <3>3 DEF Slack
    <2> QED
        BY <1>2, <1>3, <1>4, <2>2, <2>3, Tries DEF CountOK
<1>6. CASE row'[d] = row[d]
    <2>1. ASSUME row[d] # None \/ \E w \in Workers : old[w][d] # None
          PROVE  posts'[d] = posts[d]
        <3>1. CASE SendFirst(e) \/ SendFirstFails(e)
            <4>1. FirstOf(batch[e]) \in batch[e] /\ pc[e] = "send"
                BY <1>1, <3>1, FirstIsOne DEF TypeOK, SendFirst, SendFirstFails
            <4>2. /\ row[FirstOf(batch[e])] = None
                  /\ \A w \in Workers : old[w][FirstOf(batch[e])] = None
                BY <1>1, <4>1 DEF StoreInv, Unstored, StillToStore, Dispatching
            <4> QED
                BY <1>1, <2>1, <3>1, <4>2 DEF TypeOK, SendFirst, SendFirstFails, CountPost
        <3>2. CASE ListWebhooks(e) \/ InsertDeliveries(e)
            BY <3>2 DEF ListWebhooks, InsertDeliveries
        <3> QED
            BY <3>1, <3>2 DEF Dispatch
    <2>2. row[d] # None \/ (\E w \in Workers : old[w][d] # None) => Behind(d)' = Behind(d)
        BY <1>3, <2>1 DEF Behind
    <2> QED
        BY <1>2, <1>3, <1>4, <1>6, <2>2 DEF CountOK
<1> QED
    BY <1>5, <1>6, DispatchRows

\* A loop's POST makes it one of the posters, and its commit ends that.
LEMMA PostersStep ==
    ASSUME TypeInv, StoreInv, NEW w \in Workers, AcquireLock(w) \/ Retry(w) \/ Crash(w),
           NEW d \in Deliveries
    PROVE  /\ Cardinality(Posters(d)) \in Nat /\ Cardinality(Posters(d))' \in Nat
           /\ (Posted(w, d)' <=> Posted(w, d)) => Cardinality(Posters(d))' = Cardinality(Posters(d))
           /\ Posted(w, d)' /\ ~Posted(w, d) =>
                 Cardinality(Posters(d))' = Cardinality(Posters(d)) + 1
           /\ ~Posted(w, d)' /\ Posted(w, d) =>
                 Cardinality(Posters(d))' = Cardinality(Posters(d)) - 1
<1>1. \A v \in Workers \ {w} : Posted(v, d)' <=> Posted(v, d)
    BY CatchesUp
<1>2. IsFiniteSet(Posters(d)) /\ Cardinality(Posters(d)) \in Nat
    BY FiniteLoops
<1>3. CASE Posted(w, d)' <=> Posted(w, d)
    <2>1. Posters(d)' = Posters(d)
        BY <1>1, <1>3 DEF Posters
    <2> QED
        BY <1>2, <1>3, <2>1
<1>4. CASE Posted(w, d)' /\ ~Posted(w, d)
    <2>1. Posters(d)' = Posters(d) \cup {w} /\ w \notin Posters(d)
        BY <1>1, <1>4 DEF Posters
    <2>2. Cardinality(Posters(d))' = Cardinality(Posters(d)) + 1
        BY <1>2, <2>1, FS_AddElement
    <2> QED
        BY <1>2, <1>4, <2>2
<1>5. CASE ~Posted(w, d)' /\ Posted(w, d)
    <2>1. Posters(d)' = Posters(d) \ {w} /\ w \in Posters(d)
        BY <1>1, <1>5 DEF Posters
    <2>2. Cardinality(Posters(d))' = Cardinality(Posters(d)) - 1
        BY <1>2, <2>1, FS_RemoveElement
    <2>3. IsFiniteSet(Posters(d)')
        BY <1>2, <2>1, FS_Subset
    <2>4. Cardinality(Posters(d))' \in Nat
        BY <2>3, FS_CardinalityType
    <2> QED
        BY <1>2, <1>5, <2>2, <2>4
<1> QED
    BY <1>3, <1>4, <1>5

\* and how far the count is behind.
LEMMA BehindStep ==
    ASSUME TypeInv, StoreInv, NEW w \in Workers, AcquireLock(w) \/ Retry(w) \/ Crash(w),
           NEW d \in Deliveries
    PROVE  /\ Behind(d) \in Nat /\ Behind(d)' \in Nat /\ Slack(d) \in Nat /\ Slack(d)' \in Nat
           /\ posts'[d] = posts[d] => Behind(d)' <= Behind(d)
           /\ posts'[d] = posts[d] + 1 => Behind(d)' <= Behind(d) + 1
           /\ posts'[d] = posts[d] /\ lock # w /\ old[w][d] # None /\ old'[w][d] = None =>
                 Behind(d)' + LoopAttempts <= Behind(d)
           /\ (Posted(w, d)' <=> Posted(w, d)) => Slack(d)' = Slack(d)
           /\ Posted(w, d)' /\ ~Posted(w, d) => Slack(d)' = Slack(d) + 1
           /\ ~Posted(w, d)' /\ Posted(w, d) => Slack(d)' = Slack(d) - 1
<1> DEFINE n == Cardinality(Stragglers(d))
           m == Cardinality(Stragglers(d)')
<1>1. posts[d] \in Nat /\ posts'[d] \in Nat /\ late \in Nat
    BY RetryTypeOK, Constants DEF TypeInv, TypeOK
<1>2. /\ late' = late /\ Stragglers(d)' \subseteq Stragglers(d)
      /\ lock # w /\ old[w][d] # None /\ old'[w][d] = None =>
            w \in Stragglers(d) /\ w \notin Stragglers(d)'
    BY CatchesUp
<1>3. IsFiniteSet(Stragglers(d)) /\ n \in Nat
    BY FiniteLoops
<1>4. m \in Nat /\ m <= n
    <2>1. IsFiniteSet(Stragglers(d)') /\ m <= n
        BY <1>2, <1>3, FS_Subset
    <2> QED
        BY <2>1, FS_CardinalityType
<1>5. ASSUME w \in Stragglers(d), w \notin Stragglers(d)'
      PROVE  m + 1 <= n
    <2>1. Stragglers(d)' \subseteq Stragglers(d) \ {w}
        BY <1>2, <1>5
    <2>2. Cardinality(Stragglers(d) \ {w}) = n - 1 /\ IsFiniteSet(Stragglers(d) \ {w})
        BY <1>3, <1>5, FS_RemoveElement
    <2>3. m <= Cardinality(Stragglers(d) \ {w})
        BY <2>1, <2>2, FS_Subset
    <2> QED
        BY <1>3, <1>4, <2>2, <2>3
<1>6. Behind(d) = posts[d] + LoopAttempts * n /\ Behind(d)' = posts'[d] + LoopAttempts * m
    BY DEF Behind
<1> HIDE DEF n, m
<1>7. LoopAttempts * m <= LoopAttempts * n /\ LoopAttempts * m \in Nat /\ LoopAttempts * n \in Nat
    BY <1>3, <1>4, Tries, TimesMore
<1>8. m + 1 <= n => LoopAttempts * m + LoopAttempts <= LoopAttempts * n
    <2>1. ASSUME m + 1 <= n
          PROVE  LoopAttempts * m + LoopAttempts <= LoopAttempts * n
        <3>1. m + 1 \in Nat
            BY <1>4
        <3>2. LoopAttempts * (m + 1) <= LoopAttempts * n
            BY <1>3, <2>1, <3>1, Tries, TimesMore
        <3>3. LoopAttempts * (m + 1) = LoopAttempts * m + LoopAttempts
            BY <1>4, Tries, Times
        <3> QED
            BY <3>2, <3>3
    <2> QED
        BY <2>1
<1>9. /\ Behind(d) \in Nat /\ Behind(d)' \in Nat
      /\ posts'[d] = posts[d] => Behind(d)' <= Behind(d)
      /\ posts'[d] = posts[d] + 1 => Behind(d)' <= Behind(d) + 1
      /\ posts'[d] = posts[d] /\ m + 1 <= n => Behind(d)' + LoopAttempts <= Behind(d)
    BY <1>1, <1>6, <1>7, <1>8, Tries
<1>10. /\ Slack(d) = 1 + Cardinality(Posters(d)) + LoopAttempts * late
       /\ Slack(d)' = 1 + Cardinality(Posters(d))' + LoopAttempts * late
       /\ LoopAttempts * late \in Nat
    BY <1>1, <1>2, Tries, Times DEF Slack
<1>11. /\ Slack(d) \in Nat /\ Slack(d)' \in Nat
       /\ (Posted(w, d)' <=> Posted(w, d)) => Slack(d)' = Slack(d)
       /\ Posted(w, d)' /\ ~Posted(w, d) => Slack(d)' = Slack(d) + 1
       /\ ~Posted(w, d)' /\ Posted(w, d) => Slack(d)' = Slack(d) - 1
    BY <1>10, PostersStep
<1> QED
    BY <1>2, <1>5, <1>9, <1>11

\* An attempt that is counted: the loop stops in time.
LEMMA CountedRow ==
    ASSUME NEW cur \in Rows, NEW was \in Rows, NEW ok \in BOOLEAN, was.due,
           was.retries >= 1, was.retries <= LoopAttempts
    PROVE  /\ Merged(cur, was, Retried(was, ok)).retries = was.retries + 1
           /\ Merged(cur, was, Retried(was, ok)).due =>
                 Merged(cur, was, Retried(was, ok)).retries <= LoopAttempts
<1>1. /\ Merged(cur, was, Retried(was, ok)).retries = was.retries + 1
      /\ Merged(cur, was, Retried(was, ok)).due = (~ok /\ was.retries + 1 < MaxRetries)
    BY DEF Merged, Retried, Rows
<1>2. was.retries \in Nat /\ MaxRetries \in Nat
    BY Constants DEF Rows
<1>3. was.retries + 1 < MaxRetries => was.retries + 1 <= LoopAttempts
    BY <1>2 DEF LoopAttempts
<1> QED
    BY <1>1, <1>3

\* and a loop counts its attempts, or has a round for it.
LEMMA RetryCounts ==
    ASSUME TypeInv, StoreInv, NEW w \in Workers, AcquireLock(w) \/ Retry(w), ~Crash(w),
           Undisturbed, NEW d \in Deliveries, CountOK(d)
    PROVE  CountOK(d)'
<1>1. TypeOK /\ Retrying(w) /\ w \in Actors
    BY Disjoint DEF TypeInv
<1>2. /\ \A v \in Workers \ {w} : old'[v] = old[v]
      /\ lock' = lock \/ (AcquireLock(w) /\ lock = None /\ lock' = w)
    BY CatchesUp
<1>3. /\ Behind(d) \in Nat /\ Behind(d)' \in Nat /\ Slack(d) \in Nat /\ Slack(d)' \in Nat
      /\ posts'[d] = posts[d] => Behind(d)' <= Behind(d)
      /\ posts'[d] = posts[d] + 1 => Behind(d)' <= Behind(d) + 1
      /\ posts'[d] = posts[d] /\ lock # w /\ old[w][d] # None /\ old'[w][d] = None =>
            Behind(d)' + LoopAttempts <= Behind(d)
      /\ (Posted(w, d)' <=> Posted(w, d)) => Slack(d)' = Slack(d)
      /\ Posted(w, d)' /\ ~Posted(w, d) => Slack(d)' = Slack(d) + 1
      /\ ~Posted(w, d)' /\ Posted(w, d) => Slack(d)' = Slack(d) - 1
    BY BehindStep
<1>4. /\ row[d] # None => /\ Behind(d) <= Slack(d) + row[d].retries
                          /\ row[d].retries <= LoopAttempts + 1
                          /\ row[d].due => row[d].retries <= LoopAttempts
      /\ \A v \in Workers : old[v][d] # None => old[v][d].retries <= LoopAttempts
      /\ lock \in Workers /\ old[lock][d] # None => Behind(d) <= Slack(d) + old[lock][d].retries
    BY DEF CountOK
<1>5. /\ row[d] # None => row[d].retries \in Nat
      /\ \A v \in Workers : old[v][d] # None => old[v][d].retries \in Nat
    BY <1>1, Disjoint DEF TypeOK, Rows
<1>6. ~RowIsGone(w)
    <2>1. ASSUME RowIsGone(w)
          PROVE  FALSE
        <3>1. PICK c \in Deliveries : new[w][c] # old[w][c] /\ row[c] = None
            BY <2>1 DEF RowIsGone, Dirty, Changed
        <3>2. old[w][c] # None /\ HookOf[c] \in Hooks
            BY <1>1, <3>1, Constants DEF Retrying
        <3> QED
            BY <3>1, <3>2 DEF StoreInv, GoneIsDeleted, Undisturbed
    <2> QED
        BY <2>1
\* The copy of another loop, when this one's step leaves no more behind.
<1>7. ASSUME Behind(d)' + Slack(d) <= Behind(d) + Slack(d)',
             old'[w][d] = old[w][d] \/ old'[w][d] = None
      PROVE  /\ \A v \in Workers : old'[v][d] # None => old'[v][d].retries <= LoopAttempts
             /\ lock' \in Workers /\ old'[lock'][d] # None =>
                   Behind(d)' <= Slack(d)' + old'[lock'][d].retries
    <2>1. \A v \in Workers : old'[v][d] # None => old'[v][d] = old[v][d]
        BY <1>2, <1>7
    <2>2. AcquireLock(w) => old[w][d] = None
        BY IdleHoldsNothing DEF AcquireLock
    <2>3. \A v \in Workers : lock' = v /\ old'[v][d] # None => lock = v /\ old[v][d] # None
        BY <1>2, <2>1, <2>2
    <2>4. ASSUME NEW v \in Workers, lock' = v, old'[v][d] # None
          PROVE  Behind(d)' <= Slack(d)' + old'[v][d].retries
        <3>1. lock = v /\ old[v][d] # None /\ old'[v][d] = old[v][d]
            BY <2>1, <2>3, <2>4
        <3>2. Behind(d) <= Slack(d) + old[v][d].retries /\ old[v][d].retries \in Nat
            BY <1>4, <1>5, <3>1
        <3> QED
            BY <1>3, <1>7, <3>1, <3>2
    <2> QED
        BY <1>4, <2>1, <2>4
<1>8. CASE Keeps(w, d) \/ Attempts(w, d)
    <2>1. Behind(d)' + Slack(d) <= Behind(d) + Slack(d)' /\ row'[d] = row[d] /\ old'[w][d] = old[w][d]
        BY <1>3, <1>8 DEF Keeps, Attempts
    <2>2. row[d] # None => Behind(d)' <= Slack(d)' + row[d].retries
        BY <1>3, <1>4, <1>5, <2>1
    <2> QED
        BY <1>4, <1>7, <2>1, <2>2 DEF CountOK
<1>9. CASE Selects(w, d) /\ old[w][d] = None
    <2>1. /\ Behind(d)' <= Behind(d) /\ Slack(d)' = Slack(d) /\ row'[d] = row[d]
          /\ row[d] # None /\ old'[w][d] = row[d]
        BY <1>3, <1>9 DEF Selects
    <2>2. Behind(d)' <= Slack(d)' + row[d].retries
        BY <1>3, <1>4, <1>5, <2>1
    <2>3. SelectPending(w)
        <3>1. old'[w][d] # None
            BY <2>1
        <3>2. ~CommitBatch(w)
            <4>1. ASSUME CommitBatch(w)
                  PROVE  FALSE
                <5>1. old'[w] = NoRows
                    BY <1>1, <4>1, Closed DEF CommitBatch
                <5> QED
                    BY <3>1, <5>1 DEF NoRows
            <4> QED
                BY <4>1
        <3>3. ~(AcquireLock(w) \/ LookUp(w) \/ Answer(w))
            BY <1>9, <3>1 DEF AcquireLock, LookUp, Answer, session
        <3> QED
            BY <1>6, <3>2, <3>3 DEF Retry
    <2>4. row[d].due /\ lock' = lock
        BY <1>1, <2>1, <2>3, Constants DEF TypeOK, SelectPending
    <2>5. \A v \in Workers : old'[v][d] # None => old'[v][d].retries <= LoopAttempts
        BY <1>2, <1>4, <2>1, <2>4
    <2>6. ASSUME NEW v \in Workers, lock' = v, old'[v][d] # None
          PROVE  Behind(d)' <= Slack(d)' + old'[v][d].retries
        <3>1. CASE v = w
            BY <2>1, <2>2, <3>1
        <3>2. CASE v # w
            <4>1. lock = v /\ old'[v][d] = old[v][d]
                BY <1>2, <2>4, <2>6, <3>2
            <4> QED
                BY <1>3, <1>4, <1>5, <2>1, <2>6, <4>1
        <3> QED
            BY <3>1, <3>2
    <2> QED
        BY <1>4, <2>1, <2>2, <2>5, <2>6 DEF CountOK
<1>10. CASE Commits(w, d) /\ row'[d] = row[d] /\ ~Posted(w, d)
    <2>1. Behind(d)' <= Behind(d) /\ Slack(d)' = Slack(d) /\ old'[w][d] = None
        BY <1>3, <1>10 DEF Commits, Posted
    <2>2. row[d] # None => Behind(d)' <= Slack(d)' + row[d].retries
        BY <1>3, <1>4, <1>5, <2>1
    <2> QED
        BY <1>3, <1>4, <1>7, <1>10, <2>1, <2>2 DEF CountOK
<1>11. CASE /\ Commits(w, d) /\ row[d] \in Rows /\ old[w][d] \in Rows
            /\ row'[d] = Merged(row[d], old[w][d], new[w][d])
            /\ new[w][d] = Dropped(old[w][d]) /\ ~Posted(w, d)
    <2>1. Behind(d)' <= Behind(d) /\ Slack(d)' = Slack(d) /\ old'[w][d] = None
        BY <1>3, <1>11 DEF Commits, Posted
    <2>2. row[d] # None /\ old[w][d] # None
        BY <1>11, NotNone
    <2>3. row'[d].retries = row[d].retries /\ ~row'[d].due
        BY <1>1, <1>11, <2>2 DEF Merged, Dropped, Retrying
    <2>4. Behind(d)' <= Slack(d)' + row[d].retries
        BY <1>3, <1>4, <1>5, <2>1, <2>2
    <2> QED
        BY <1>3, <1>4, <1>7, <2>1, <2>2, <2>3, <2>4 DEF CountOK
<1>12. CASE /\ Commits(w, d) /\ row[d] \in Rows /\ old[w][d] \in Rows
            /\ row'[d] = Merged(row[d], old[w][d], new[w][d])
            /\ \E ok \in BOOLEAN : new[w][d] = Retried(old[w][d], ok) /\ Posted(w, d)
    <2>1. /\ posts'[d] = posts[d] /\ old'[w][d] = None /\ Slack(d)' = Slack(d) - 1
        BY <1>3, <1>12 DEF Commits, Posted
    <2>2. row[d] # None /\ old[w][d] # None
        BY <1>12, NotNone
    <2>3. old[w][d].due /\ old[w][d].retries >= 1 /\ old[w][d].retries <= LoopAttempts
        BY <1>1, <1>4, <2>2 DEF Retrying, StoreInv, DueCounted
    <2>4. /\ row'[d].retries = old[w][d].retries + 1
          /\ row'[d].due => row'[d].retries <= LoopAttempts
        BY <1>12, <2>3, CountedRow
    <2>5. CASE lock = w
        <3>1. Behind(d)' <= Behind(d) /\ Behind(d) <= Slack(d) + old[w][d].retries
            BY <1>3, <1>4, <2>1, <2>2, <2>5
        <3>2. Behind(d)' <= Slack(d)' + row'[d].retries /\ row'[d].retries <= LoopAttempts + 1
            BY <1>3, <1>5, <2>1, <2>2, <2>3, <2>4, <3>1, Tries
        <3>3. lock' \in Workers => old'[lock'][d] = None
            BY <1>2, <2>1, <2>5, Constants
        <3>4. \A v \in Workers : old'[v][d] # None => old'[v][d].retries <= LoopAttempts
            BY <1>2, <1>4, <2>1
        <3> QED
            BY <2>4, <3>2, <3>3, <3>4 DEF CountOK
    <2>6. CASE lock # w
        <3>1. Behind(d)' + LoopAttempts <= Behind(d)
            BY <1>3, <2>1, <2>2, <2>6
        <3>2. /\ Behind(d)' + Slack(d) <= Behind(d) + Slack(d)'
              /\ Behind(d)' <= Slack(d)' + row'[d].retries /\ row'[d].retries <= LoopAttempts + 1
            BY <1>3, <1>4, <1>5, <2>1, <2>2, <2>3, <2>4, <3>1, Tries
        <3> QED
            BY <1>7, <2>1, <2>4, <3>2 DEF CountOK
    <2> QED
        BY <2>5, <2>6
<1>13. Selects(w, d) => old[w][d] = None \/ Keeps(w, d)
    <2>1. ASSUME Selects(w, d), old[w][d] # None
          PROVE  Keeps(w, d)
        <3>1. ~SelectPending(w)
            BY <2>1, IdleHoldsNothing DEF SelectPending
        <3>2. old'[w][d] # None
            BY <2>1 DEF Selects
        <3>3. ~CommitBatch(w)
            <4>1. ASSUME CommitBatch(w)
                  PROVE  FALSE
                <5>1. old'[w] = NoRows
                    BY <1>1, <4>1, Closed DEF CommitBatch
                <5> QED
                    BY <3>2, <5>1 DEF NoRows
            <4> QED
                BY <4>1
        <3>4. old' = old
            BY <1>6, <3>1, <3>3 DEF Retry, AcquireLock, LookUp, Answer, session
        <3> QED
            BY <2>1, <3>4 DEF Selects, Keeps
    <2> QED
        BY <2>1
<1> QED
    BY <1>6, <1>8, <1>9, <1>10, <1>11, <1>12, <1>13, RetryEffect DEF Loses, Commits

\* A batch that outlives the lock gets a round.
LEMMA LateCounts ==
    ASSUME TypeInv, StoreInv, LockExpires, NEW d \in Deliveries, CountOK(d)
    PROVE  CountOK(d)'
<1> DEFINE n == Cardinality(Stragglers(d))
           m == Cardinality(Stragglers(d)')
           p == Cardinality(Posters(d))
<1>1. UNCHANGED <<row, old, new, task, posts>> /\ lock' = None
    BY DEF LockExpires, session
<1>2. Posters(d)' = Posters(d)
    BY <1>1 DEF Posters, Posted
<1>3. IsFiniteSet(Stragglers(d)) /\ n \in Nat /\ p \in Nat /\ late \in Nat /\ posts[d] \in Nat
    BY FiniteLoops, Constants DEF TypeInv, TypeOK
<1>4. \/ late' = late /\ m = n
      \/ late' = late + 1 /\ m <= n + 1 /\ m \in Nat
    <2>1. CASE late' = late /\ Stragglers(d)' = Stragglers(d)
        BY <2>1
    <2>2. CASE late' = late + 1 /\ Stragglers(d)' \subseteq Stragglers(d) \cup {lock}
        <3>1. /\ IsFiniteSet(Stragglers(d) \cup {lock})
              /\ Cardinality(Stragglers(d) \cup {lock}) <= n + 1
            BY <1>3, OneMore
        <3>2. /\ IsFiniteSet(Stragglers(d)')
              /\ m <= Cardinality(Stragglers(d) \cup {lock})
            BY <2>2, <3>1, FS_Subset
        <3>3. m \in Nat /\ Cardinality(Stragglers(d) \cup {lock}) \in Nat
            BY <3>1, <3>2, FS_CardinalityType
        <3> QED
            BY <1>3, <2>2, <3>1, <3>2, <3>3
    <2> QED
        BY <2>1, <2>2, OutlivesTheLock
<1>5. /\ Behind(d) = posts[d] + LoopAttempts * n /\ Behind(d)' = posts[d] + LoopAttempts * m
      /\ Slack(d) = 1 + p + LoopAttempts * late /\ Slack(d)' = 1 + p + LoopAttempts * late'
    BY <1>1, <1>2 DEF Behind, Slack
<1> HIDE DEF n, m, p
<1>6. /\ LoopAttempts * n \in Nat /\ LoopAttempts * late \in Nat
      /\ LoopAttempts * (n + 1) = LoopAttempts * n + LoopAttempts
      /\ LoopAttempts * (late + 1) = LoopAttempts * late + LoopAttempts
    BY <1>3, Tries, Times
<1>7. Behind(d)' + Slack(d) <= Behind(d) + Slack(d)' /\ Behind(d)' \in Nat /\ Slack(d)' \in Nat
    <2>1. CASE late' = late /\ m = n
        BY <1>3, <1>5, <1>6, <2>1
    <2>2. CASE late' = late + 1 /\ m <= n + 1 /\ m \in Nat
        <3>1. n + 1 \in Nat
            BY <1>3
        <3>2. LoopAttempts * m <= LoopAttempts * (n + 1) /\ LoopAttempts * m \in Nat
            BY <2>2, <3>1, Tries, TimesMore
        <3>3. LoopAttempts * late' = LoopAttempts * late + LoopAttempts
            BY <1>6, <2>2
        <3> QED
            BY <1>3, <1>5, <1>6, <3>2, <3>3, Tries
    <2> QED
        BY <1>4, <2>1, <2>2
<1>8. Behind(d) \in Nat /\ Slack(d) \in Nat
    BY <1>3, <1>5, <1>6
<1>9. row[d] # None => Behind(d) <= Slack(d) + row[d].retries /\ row[d].retries \in Nat
    BY DEF CountOK, TypeInv, TypeOK, Rows
<1>10. row'[d] # None => Behind(d)' <= Slack(d)' + row'[d].retries
    BY <1>1, <1>7, <1>8, <1>9
<1> QED
    BY <1>1, <1>10, Constants DEF CountOK

LEMMA CountStep == TypeInv /\ StoreInv /\ CountInv /\ [Next]_vars => CountInv'
<1> SUFFICES ASSUME TypeInv, StoreInv, CountInv, [Next]_vars, Undisturbed', NEW d \in Deliveries
             PROVE  CountOK(d)'
    BY DEF CountInv
<1>1. CASE UNCHANGED vars
    BY <1>1 DEF CountInv, CountOK, Undisturbed, Behind, Slack, Stragglers, Posters, Posted, vars, session
<1>2. CASE Next
    <2>1. Undisturbed /\ CountOK(d)
        BY <1>2, StaysUndisturbed DEF CountInv
    <2>2. CASE \E e \in Dispatches : Dispatch(e)
        BY <2>1, <2>2, DispatchCounts
    <2>3. CASE \E w \in Workers : AcquireLock(w) \/ Retry(w)
        BY <1>2, <2>1, <2>3, StaysUndisturbed, RetryCounts
    <2>4. CASE \E h \in Hooks : Toggle(h)
        BY <2>1, <2>4 DEF CountOK, Behind, Slack, Stragglers, Posters, Posted, Toggle, session
    <2>5. CASE LockExpires
        BY <2>1, <2>5, LateCounts
    <2> QED
        BY <1>2, <2>2, <2>3, <2>4, <2>5, StaysUndisturbed DEF Next
<1> QED
    BY <1>1, <1>2

LEMMA InitCount == Init => CountInv
<1> SUFFICES ASSUME Init, NEW d \in Deliveries PROVE CountOK(d)
    BY DEF CountInv
<1>1. \A w \in Workers : old[w][d] = None
    BY Disjoint DEF Init, NoRows
<1>2. Stragglers(d) = {} /\ Posters(d) = {} /\ lock \notin Workers
    BY <1>1, Disjoint, Constants DEF Init, Stragglers, Posters, Posted
<1>3. Behind(d) = posts[d] + 0 /\ Slack(d) = 1
    BY <1>2, FS_EmptySet, Tries DEF Behind, Slack, Init
<1>4. row[d] # None => posts[d] = 1 + row[d].retries /\ row[d].retries \in {0, 1}
    BY Constants DEF Init
<1> QED
    BY <1>1, <1>2, <1>3, <1>4, Tries DEF CountOK

\* The attempts under way are the ones of the posters.
LEMMA UnderWayIs ==
    ASSUME TypeInv, NEW d \in Deliveries, Undisturbed
    PROVE  UnderWay(d) = Posters(d)
<1>1. \A e \in Dispatches : old[e][d] = None
    BY DEF TypeInv, Dispatching, NoRows
<1>2. \A m \in Manual : old[m][d] = None
    <2>1. \A m \in Manual : task[m] = None
        BY DEF TypeInv, Redelivering, Undisturbed
    <2> QED
        BY <2>1, Constants DEF TypeInv, Redelivering
<1> QED
    BY <1>1, <1>2 DEF UnderWay, Posters, Posted, Actors

LEMMA CountsAccount == TypeInv /\ StoreInv /\ CountInv => AccountedFor
<1> SUFFICES ASSUME TypeInv, StoreInv, CountInv, Undisturbed, NEW d \in Deliveries, row[d] # None
             PROVE  posts[d] <= 1 + row[d].retries + Cardinality(UnderWay(d)) + LoopAttempts * late
    BY DEF AccountedFor
<1>1. Behind(d) <= Slack(d) + row[d].retries
    BY DEF CountInv, CountOK
<1>2. Cardinality(UnderWay(d)) = Cardinality(Posters(d)) /\ Cardinality(Posters(d)) \in Nat
    BY UnderWayIs, FiniteLoops
<1>3. posts[d] \in Nat /\ row[d].retries \in Nat /\ late \in Nat
    BY Constants DEF TypeInv, TypeOK, Rows
<1>4. LoopAttempts * late \in Nat /\ LoopAttempts * Cardinality(Stragglers(d)) \in Nat
    BY <1>3, FiniteLoops, Tries, Times
<1> QED
    BY <1>1, <1>2, <1>3, <1>4 DEF Behind, Slack

\* retry_count accounts for every POST of the loops, in any number of
\* replicas, but for a round of attempts for each batch that has outlived its
\* lock.
THEOREM AttemptsAreCounted == Spec => []AccountedFor
BY InitType, TypeStep, InitStore, StoreStep, InitCount, CountStep, CountsAccount, PTL DEF Spec
=============================================================================
