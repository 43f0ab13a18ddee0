----------------------------- MODULE MinerAxon -----------------------------
(***************************************************************************)
(* Which requests a miner lets in: those of validators, and of each of     *)
(* them a bounded number within a window of time.  The times of requests   *)
(* are kept for a bounded number of callers, the most recent ones.         *)
(*                                                                         *)
(* Time is counted up to MaxTime.  The times of a caller's requests are in *)
(* order, so that dropping the first ones drops the old ones: they are a   *)
(* set here, in which a number tells those of one moment apart.            *)
(***************************************************************************)
EXTENDS Integers, Sequences, SequencesExt, FiniteSets

CONSTANTS
    Callers,
    Metagraphs,  \* the sets of callers that may have a permit
    RateMax,     \* _RATE_LIMIT_MAX
    RateWindow,  \* _RATE_LIMIT_WINDOW
    MaxTracked,  \* _MAX_TRACKED_HOTKEYS
    MaxTime,     \* bound on the clock
    MaxSyncs     \* bound on changes of the metagraph

ASSUME AxonAssumption ==
    /\ IsFiniteSet(Callers) /\ Metagraphs \subseteq SUBSET Callers
    /\ MaxTracked \in Nat \ {0}
    /\ {RateMax, RateWindow, MaxTime, MaxSyncs} \subseteq Nat

VARIABLES
    serving,       \* the axon runs
    permits,       \* the callers that are registered with a validator's permit
    syncs,
    now,
    request_times, \* sequence of [caller, times], the least recently used first
    \* what the property compares the table with:
    passed,        \* [Callers -> of the requests let in within the window, the last RateMax + 1]
    called         \* [Callers -> when it last called within the window, or Never]

axonVars == <<serving, permits, syncs, now, request_times, passed, called>>

Never == -1 - RateWindow

Stamps == (0..MaxTime) \X (0..2 * RateMax)

Within(times, time) == {t \in times : t[1] >= time - RateWindow}
Recent(times) == Within(times, now)

\* A request of this moment that is none of these.
Stamp(times) == CHOOSE t \in {now} \X (0..2 * RateMax) : t \notin times

AxonTypeOK ==
    /\ serving \in BOOLEAN /\ permits \subseteq Callers
    /\ syncs \in 0..MaxSyncs /\ now \in 0..MaxTime
    /\ request_times \in Seq([caller : Callers, times : SUBSET Stamps])
    /\ \A i, j \in DOMAIN request_times :
          request_times[i].caller = request_times[j].caller => i = j
    /\ Len(request_times) <= MaxTracked
    /\ passed \in [Callers -> SUBSET Stamps]
    /\ called \in [Callers -> 0..MaxTime \cup {Never}]

AxonInit ==
    /\ serving = TRUE /\ permits = Callers /\ syncs = 0 /\ now = 0
    /\ request_times = <<>>
    /\ passed = [c \in Callers |-> {}]
    /\ called = [c \in Callers |-> Never]

Tracked(c) == {i \in DOMAIN request_times : request_times[i].caller = c}

Place(c) == CHOOSE i \in Tracked(c) : TRUE

TimesOf(c) == IF Tracked(c) = {} THEN {} ELSE request_times[Place(c)].times

\* The other entries once c's is in use: without it, or without the least
\* recently used if there is no place for it.
Others(c) ==
    IF Tracked(c) # {} THEN RemoveAt(request_times, Place(c))
    ELSE IF Len(request_times) < MaxTracked THEN request_times
    ELSE Tail(request_times)

\* Wrong on purpose: an entry stays where it was first put.
TouchInPlace(c, times) ==
    IF Tracked(c) = {} THEN Append(Others(c), [caller |-> c, times |-> times])
    ELSE [i \in DOMAIN request_times |->
             IF request_times[i].caller = c THEN [caller |-> c, times |-> times] ELSE request_times[i]]

\* The table with c's entry the most recently used.
Touch(c, times) == Append(Others(c), [caller |-> c, times |-> times])

Kept(times) ==
    IF Cardinality(times) <= RateMax + 1 THEN times
    ELSE LET oldest == {t \in times : \A s \in times : t[1] <= s[1]}
         IN  times \ {CHOOSE t \in oldest : \A s \in oldest : s[2] <= t[2]}

\* blacklist, for a caller with a permit.
Blacklist(c) ==
    LET times == Recent(TimesOf(c))
        lets  == Cardinality(times) < RateMax
        this  == Stamp(times \cup passed[c])
    IN /\ serving /\ c \in permits
       /\ request_times' = Touch(c, IF lets THEN times \cup {this} ELSE times)
       /\ passed' = [passed EXCEPT ![c] = IF lets THEN Kept(passed[c] \cup {this}) ELSE passed[c]]
       /\ called' = [called EXCEPT ![c] = now]
       /\ UNCHANGED <<serving, permits, syncs, now>>

\* The loop reads the metagraph: who has a permit may change, and the
\* miner may find itself no longer registered and stop.
Sync ==
    /\ serving /\ syncs < MaxSyncs
    /\ syncs' = syncs + 1
    /\ permits' \in Metagraphs
    /\ serving' \in BOOLEAN
    /\ UNCHANGED <<now, request_times, passed, called>>

Tick ==
    /\ now < MaxTime
    /\ now' = now + 1
    /\ passed' = [c \in Callers |-> Within(passed[c], now + 1)]
    /\ called' = [c \in Callers |-> IF called[c] < now + 1 - RateWindow THEN Never ELSE called[c]]
    /\ UNCHANGED <<serving, permits, syncs, request_times>>

AxonNext == (\E c \in Callers : Blacklist(c)) \/ Sync \/ Tick

AxonSpec == AxonInit /\ [][AxonNext]_axonVars

-----------------------------------------------------------------------------
\* As long as no more validators call within a window than the table has
\* places for, none gets more than RateMax requests in within a window,
\* although entries are evicted.
RateIsBounded ==
    Cardinality({c \in Callers : called[c] # Never}) <= MaxTracked
        => \A c \in Callers : Cardinality(passed[c]) <= RateMax
=============================================================================
