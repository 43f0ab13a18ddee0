--------------------------- MODULE SubnetBridge ---------------------------
(***************************************************************************)
(* The bridge from the API to the miners of the Bittensor subnet.          *)
(*                                                                         *)
(* An estimate asks all active miners at once, except those whose circuit  *)
(* breaker is open, and falls back to the local calculators when the       *)
(* subnet fails; several failures in a row open a breaker of the bridge    *)
(* itself.  The miners' breakers are kept by the place of a miner in the   *)
(* list of active miners.                                                  *)
(*                                                                         *)
(* The query blocks the event loop, so that an estimate is one step; only  *)
(* time passes in it.  The state is the memory of one process.             *)
(***************************************************************************)
EXTENDS Consensus

CONSTANTS
    Miners,          \* the UIDs of the metagraph
    MinerThreshold,  \* _PER_MINER_FAILURE_THRESHOLD
    MinerRecovery,   \* _PER_MINER_RECOVERY_TIMEOUT
    GlobalThreshold, \* _GLOBAL_CB_FAILURE_THRESHOLD
    GlobalRecovery,  \* _GLOBAL_CB_RECOVERY_TIMEOUT
    Durations,       \* how long a query may take, up to its timeout
    Reports,         \* the valid reports a miner may send, [total, final]
    Failed,          \* no answer, no emissions, or an error report
    Unreadable,      \* emissions that the scoring cannot read
    Moods,           \* what the miners may be about to answer
    MaxChanges,      \* bound on how often the set of active miners changes
    Horizon,         \* bound on time
    None

ASSUME SubnetBridgeAssumption ==
    /\ IsFiniteSet(Miners) /\ Miners \subseteq Nat
    /\ {MinerThreshold, MinerRecovery, GlobalThreshold, GlobalRecovery} \subseteq Nat \ {0}
    /\ Durations \subseteq Nat
    /\ {MaxChanges, Horizon} \subseteq Nat
    /\ Reports \subseteq [total : Nat, final : Nat]
    /\ Failed # Unreadable /\ {Failed, Unreadable} \cap Reports = {}
    /\ Moods \subseteq [Miners -> Reports \cup {Failed, Unreadable}]

VARIABLES
    now,
    active,    \* the miners that are active and have no validator permit
    minerCb,   \* [Places -> the failures, and when the breaker opened last]
    globalCb,  \* the same for the bridge
    result,    \* what the estimate that has just ended returns, or None
    \* what has happened, which the properties compare with the state:
    streak,    \* [Miners -> failures since its last success]
    restUntil, \* [Miners -> MinerRecovery after the last of MinerThreshold failures or more]
    burst,     \* failed estimates in short succession since a success, and the last one's time
    lastBad,   \* when a miner or the library failed, or none was active, for the last time
    changes

memory  == <<minerCb, globalCb>>
history == <<streak, restUntil, burst, lastBad>>
vars    == <<now, active, memory, result, history, changes>>

Places == 0..(Cardinality(Miners) - 1)
Closed == [failures |-> 0, opened_at |-> 0]
Breaker == [failures : Nat, opened_at : Nat]

\* uid_idx: the place of an active miner in the list of the active ones.
Place(m) == Cardinality({k \in active : k < m})

\* Wrong on purpose: a breaker is open for one tick more.
IsOpenLonger(cb, threshold, recovery) ==
    cb.failures >= threshold /\ now - cb.opened_at <= recovery

IsOpen(cb, threshold, recovery) ==
    cb.failures >= threshold /\ now - cb.opened_at < recovery

MinerIsOpen(p) == IsOpen(minerCb[p], MinerThreshold, MinerRecovery)
GlobalIsOpen   == IsOpen(globalCb, GlobalThreshold, GlobalRecovery)
Askable        == {m \in active : ~MinerIsOpen(Place(m))}

\* Wrong on purpose: a miner that fails again after its breaker's time does not
\* open it again, or the breaker opens one failure too late.
RecordFailureOnce(cb, threshold, t) ==
    [failures  |-> cb.failures + 1,
     opened_at |-> IF cb.failures + 1 = threshold THEN t ELSE cb.opened_at]
RecordFailureLate(cb, threshold, t) ==
    [failures  |-> cb.failures + 1,
     opened_at |-> IF cb.failures > threshold THEN t ELSE cb.opened_at]

\* An entry is made with the first failure and dropped by a success; one that
\* is not there reads as Closed.
RecordFailure(cb, threshold, t) ==
    [failures  |-> cb.failures + 1,
     opened_at |-> IF cb.failures + 1 >= threshold THEN t ELSE cb.opened_at]

\* Wrong on purpose: the failures are kept.
HalfOpenedKept == globalCb

\* The bridge's breaker after it has let an estimate pass: once its time is
\* over, the failures are forgotten.
HalfOpened == IF globalCb.failures >= GlobalThreshold THEN Closed ELSE globalCb

\* What an estimate returns, with the miners it has asked.
Result(from, asked) == [from |-> from, asked |-> asked]
Consented(asked, valid) ==
    [from |-> "subnet", asked |-> asked, valid |-> valid, chosen |-> Selected(valid),
     agreeing |-> Agreeing(valid, Selected(valid))]

NoBurst   == [size |-> 0, last |-> 0]

\* A failed estimate continues a burst of them when it comes less than
\* GlobalRecovery after the last.
Continue(b, t) ==
    [size |-> IF b.size > 0 /\ t - b.last < GlobalRecovery THEN b.size + 1 ELSE 1,
     last |-> t]

----------------------------------------------------------------------------
Init ==
    /\ now = 0
    /\ active \in SUBSET Miners
    /\ minerCb = [p \in Places |-> Closed]
    /\ globalCb = Closed
    /\ result = None
    /\ streak = [m \in Miners |-> 0]
    /\ restUntil = [m \in Miners |-> 0]
    /\ burst = NoBurst
    /\ lastBad = 0
    /\ changes = 0

\* The estimate ends without an answer of the subnet and is made locally.
FallBack(asked, t) ==
    /\ globalCb' = RecordFailure(HalfOpened, GlobalThreshold, t)
    /\ result' = Result("local", asked)
    /\ burst' = Continue(burst, t)

\* Nothing else runs in the process before the estimate has returned.
Begin == result = None

\* The bridge's breaker is open.
Refuse ==
    /\ Begin /\ GlobalIsOpen
    /\ result' = Result("local", {})
    /\ UNCHANGED <<now, active, memory, history, changes>>

\* The subnet's library cannot read the metagraph or query the miners.  A
\* RuntimeError counts as a failure; anything else is neither counted nor
\* answered by a local estimate.
SubnetRaises ==
    /\ Begin /\ ~GlobalIsOpen
    /\ FallBack({}, now)
    /\ lastBad' = now
    /\ UNCHANGED <<now, active, minerCb, streak, restUntil, changes>>

Unreachable ==
    /\ Begin /\ ~GlobalIsOpen
    /\ globalCb' = HalfOpened
    /\ result' = Result("error", {})
    /\ UNCHANGED <<now, active, minerCb, history, changes>>

\* No miner is active, or all of their breakers are open.
NobodyToAsk ==
    /\ Begin /\ ~GlobalIsOpen
    /\ Askable = {}
    /\ FallBack({}, now)
    /\ lastBad' = IF active = {} THEN now ELSE lastBad
    /\ UNCHANGED <<now, active, minerCb, streak, restUntil, changes>>

\* The answers are looked at in the order of the query, up to the first that
\* cannot be scored.
LookedAt(answer) ==
    {m \in DOMAIN answer : \A k \in DOMAIN answer : k < m => answer[k] # Unreadable}

Valid(answer) ==
    LET reporting == {m \in DOMAIN answer : answer[m] \in Reports}
    IN  [p \in {Place(m) : m \in reporting} |->
            answer[CHOOSE m \in reporting : Place(m) = p]]

\* What the answers do to the miners' breakers, and the history's view of it.
CountAnswers(answer, t) ==
    LET failed == {m \in LookedAt(answer) : answer[m] = Failed}
        fine   == LookedAt(answer) \ failed
        tired  == {m \in failed : streak[m] + 1 >= MinerThreshold}
    IN  /\ minerCb' = [p \in Places |->
               IF \E m \in failed : Place(m) = p
               THEN RecordFailure(minerCb[p], MinerThreshold, t)
               ELSE IF \E m \in fine : Place(m) = p THEN Closed ELSE minerCb[p]]
        /\ streak' = [m \in Miners |->
               IF m \in failed THEN streak[m] + 1 ELSE IF m \in fine THEN 0 ELSE streak[m]]
        /\ restUntil' = [m \in Miners |->
               IF m \in tired THEN t + MinerRecovery ELSE IF m \in fine THEN 0 ELSE restUntil[m]]
        /\ lastBad' = IF failed = {} THEN lastBad ELSE t

\* The miners are asked, and one report is chosen if there are any.
Query(answer, t) ==
    /\ Begin /\ ~GlobalIsOpen
    /\ DOMAIN answer # {}
    /\ now' = t
    /\ CountAnswers(answer, t)
    /\ \/ /\ \E m \in DOMAIN answer : answer[m] = Unreadable
          /\ globalCb' = HalfOpened
          /\ result' = Result("error", DOMAIN answer)
          /\ burst' = burst
       \/ /\ \A m \in DOMAIN answer : answer[m] = Failed
          /\ FallBack(DOMAIN answer, t)
       \/ /\ \A m \in DOMAIN answer : answer[m] # Unreadable
          /\ \E m \in DOMAIN answer : answer[m] # Failed
          /\ globalCb' = Closed
          /\ result' = Consented(DOMAIN answer, Valid(answer))
          /\ burst' = NoBurst
    /\ UNCHANGED <<active, changes>>

\* The caller goes on with what it got.
Return ==
    /\ result # None
    /\ result' = None
    /\ UNCHANGED <<now, active, memory, history, changes>>

Tick ==
    /\ Begin /\ now < Horizon
    /\ now' = now + 1
    /\ UNCHANGED <<active, memory, result, history, changes>>

\* Miners register, leave, fall inactive or get a permit.
Change ==
    /\ Begin /\ changes < MaxChanges
    /\ active' \in SUBSET Miners \ {active}
    /\ changes' = changes + 1
    /\ UNCHANGED <<now, memory, result, history>>

Restart ==
    /\ Begin
    /\ minerCb' = [p \in Places |-> Closed] /\ globalCb' = Closed
    /\ streak' = [m \in Miners |-> 0] /\ restUntil' = [m \in Miners |-> 0]
    /\ burst' = NoBurst
    /\ UNCHANGED <<now, active, result, lastBad, changes>>

Next ==
    \/ Refuse \/ SubnetRaises \/ Unreachable \/ NobodyToAsk
    \/ \E d \in Durations :
          /\ now + d <= Horizon
          /\ \E mood \in Moods : Query([m \in Askable |-> mood[m]], now + d)
    \/ Return \/ Tick \/ Change \/ Restart

Spec == Init /\ [][Next]_vars

----------------------------------------------------------------------------
\* Types; the bridge's breaker never counts beyond its threshold, because the
\* estimate that would count the next failure has found it half-open.
TypeOK ==
    /\ now \in Nat
    /\ active \subseteq Miners
    /\ minerCb \in [Places -> Breaker]
    /\ globalCb \in Breaker /\ globalCb.failures <= GlobalThreshold
    /\ result = None \/ result.from \in {"subnet", "local", "error"}
    /\ streak \in [Miners -> Nat] /\ restUntil \in [Miners -> Nat]
    /\ burst \in [size : 0..GlobalThreshold, last : Nat]
    /\ lastBad \in Nat
    /\ changes \in 0..MaxChanges

\* While the network does not change, a query leaves out those miners, and
\* only those, that have failed MinerThreshold times in a row or more and
\* whose last failure is not MinerRecovery ago (_miner_cb_is_open).
MinersAreSpared ==
    [][ Begin /\ ~Begin' /\ result'.asked # {} /\ changes = 0
        => result'.asked = {m \in active : restUntil[m] <= now} ]_vars

\* After GlobalThreshold failed estimates in a row, each less than
\* GlobalRecovery after the one before, the subnet is left alone for
\* GlobalRecovery (_global_cb_is_open).
SubnetIsSpared ==
    [][ /\ Begin /\ ~Begin' /\ result'.asked # {}
        /\ burst.size = GlobalThreshold
        => now - burst.last >= GlobalRecovery ]_vars

\* However the two kinds of breakers have opened each other, all of them let
\* queries pass once nothing has gone wrong in the subnet for as long as the
\* two recovery times together.
Recovers ==
    now >= lastBad + MinerRecovery + GlobalRecovery =>
        /\ ~GlobalIsOpen
        /\ \A p \in Places : ~MinerIsOpen(p)

\* When more than half of the reports have their totals in lo..hi, and one of
\* those is of sufficient quality, the report chosen is not further away from
\* lo..hi than that is wide, whatever the others say; and reports that are
\* equal to it count as agreeing (_select_by_consensus: "robust against a
\* small number of outlier miners").
OutliersDoNotDecide ==
    result # None /\ result.from = "subnet" /\ Cardinality(DOMAIN result.valid) >= 3 =>
        LET valid == result.valid
            within(lo, hi) == {p \in DOMAIN valid : valid[p].total \in lo..hi}
        IN  \A a, b \in DOMAIN valid :
                LET lo == valid[a].total
                    hi == valid[b].total
                    most == within(lo, hi)
                IN  /\ 2 * Cardinality(most) > Cardinality(DOMAIN valid)
                    /\ \E p \in most : valid[p].final >= MinQuality
                    => /\ valid[result.chosen].total \in (2 * lo - hi)..(2 * hi - lo)
                       /\ lo = hi => most \subseteq result.agreeing

=============================================================================
