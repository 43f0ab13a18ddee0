------------------------------- MODULE Alerts -------------------------------
(***************************************************************************)
(* The alerts of one company, and the events that tell its browsers of     *)
(* them.  Each replica checks once an hour, if it gets a lock in Redis;    *)
(* an administrator may check at any time.  Both compare the last two      *)
(* reports; the hourly check drops alerts for a report that the latest     *)
(* alerts name already.  Events are queues in the memory of one replica.   *)
(*                                                                         *)
(* Alerts beyond the Window that a check reads are dropped from the state. *)
(* The lock expires at any time, as a check may outlast it.                *)
(***************************************************************************)
EXTENDS Integers, Sequences, SequencesExt, FiniteSets

CONSTANTS
    Replicas,
    Admin,         \* the request of an administrator
    Browsers,      \* the connections to /events/subscribe
    HostOf,        \* [Browsers -> the replica it is connected to]
    ReportRows,    \* the reports that may come: [total : Nat, confidence : Nat]
    MaxReports,    \* bound on the reports
    Increase,      \* EMISSION_INCREASE_THRESHOLD, in hundredths
    Drop,          \* CONFIDENCE_DROP_THRESHOLD, in hundredths
    Window,        \* the rows that _get_latest_alert_report_ids reads
    QueueSize,     \* maxsize of a subscriber's queue
    Gone,          \* a browser that is not connected
    MaxIncidents   \* bound on the checks that fail

ASSUME AlertsAssumption ==
    /\ IsFiniteSet(Replicas) /\ Admin \notin Replicas
    /\ HostOf \in [Browsers -> Replicas]
    /\ MaxReports \in Nat /\ Window \in Nat \ {0} /\ QueueSize \in Nat \ {0}
    /\ MaxIncidents \in Nat

VARIABLES
    reports,     \* the reports, oldest first
    dropped,     \* those that are soft-deleted, by their place
    alerts,      \* the latest alerts, latest first
    named,       \* the reports that an increase alert has ever named
    lock,        \* who holds carbonscope:lock:alert_check, or Admin for nobody
    check,       \* [Replicas and Admin -> how far the check is]
    inbox,       \* [Browsers -> the events in its queue, or Gone]
    incidents

alertVars == <<reports, dropped, alerts, named, lock, check, inbox, incidents>>

Waiting == [at |-> "idle"]
Checkers == Replicas \cup {Admin}
Places == 1..MaxReports

\* A drop of confidence does not say which report it is about.
AlertRows == [type : {"emission_increase"}, report : Places]
             \cup [type : {"confidence_drop"}]

AlertsInit ==
    /\ reports = <<>> /\ dropped = {}
    /\ alerts = <<>> /\ named = {}
    /\ lock = Admin
    /\ check = [c \in Checkers |-> Waiting]
    /\ inbox = [b \in Browsers |-> Gone]
    /\ incidents = 0

-----------------------------------------------------------------------------
\* Reports of the company

Live == {p \in DOMAIN reports : p \notin dropped}

ReportArrives(row) ==
    /\ Len(reports) < MaxReports
    /\ reports' = Append(reports, row)
    /\ UNCHANGED <<dropped, alerts, named, lock, check, inbox, incidents>>

ReportDeleted(p) ==
    /\ p \in Live
    /\ dropped' = dropped \cup {p}
    /\ UNCHANGED <<reports, alerts, named, lock, check, inbox, incidents>>

Latest == CHOOSE p \in Live : \A q \in Live : q <= p
Previous == CHOOSE p \in Live \ {Latest} : \A q \in Live \ {Latest} : q <= p

\* The total has grown by more than the threshold, from something.
Increased ==
    /\ Cardinality(Live) >= 2
    /\ LET old == reports[Previous].total
           new == reports[Latest].total
       IN  old > 0 /\ (new - old) * 100 > Increase * old

LessConfident ==
    /\ Cardinality(Live) >= 2
    /\ reports[Previous].confidence - reports[Latest].confidence > Drop

\* check_company_alerts
Found == (IF Increased THEN {[type |-> "emission_increase", report |-> Latest]} ELSE {})
         \cup (IF LessConfident THEN {[type |-> "confidence_drop"]} ELSE {})

-----------------------------------------------------------------------------
\* The event bus

\* Wrong on purpose: a full queue takes one more
PublishToAll(h) == inbox' = [b \in Browsers |-> IF HostOf[b] = h /\ inbox[b] # Gone THEN inbox[b] + 1 ELSE inbox[b]]

\* Browsers of this replica, unless their queue is full
Publish(h) ==
    inbox' = [b \in Browsers |-> IF HostOf[b] = h /\ inbox[b] # Gone /\ inbox[b] < QueueSize
                                 THEN inbox[b] + 1 ELSE inbox[b]]

Subscribe(b) ==
    /\ inbox[b] = Gone
    /\ inbox' = [inbox EXCEPT ![b] = 0]
    /\ UNCHANGED <<reports, dropped, alerts, named, lock, check, incidents>>

Receive(b) ==
    /\ inbox[b] \notin {Gone, 0}
    /\ inbox' = [inbox EXCEPT ![b] = @ - 1]
    /\ UNCHANGED <<reports, dropped, alerts, named, lock, check, incidents>>

Disconnect(b) ==
    /\ inbox[b] # Gone
    /\ inbox' = [inbox EXCEPT ![b] = Gone]
    /\ UNCHANGED <<reports, dropped, alerts, named, lock, check, incidents>>

-----------------------------------------------------------------------------
\* Checks

AtStep(c, step) == check' = [check EXCEPT ![c] = step]

Commit(new) ==
    /\ alerts' = SubSeq(SetToSeq(new) \o alerts, 1, IF Len(alerts) + Cardinality(new) < Window
                                                    THEN Len(alerts) + Cardinality(new) ELSE Window)
    /\ named' = named \cup {a.report : a \in {x \in new : x.type = "emission_increase"}}

\* _get_latest_alert_report_ids: what the latest alerts name
Known == {alerts[n].report : n \in {k \in DOMAIN alerts : alerts[k].type = "emission_increase"}}

\* Wrong on purpose: any alert that is there stands for the ones to come
FreshAny(a) == alerts = <<>>

\* Drops of confidence are never recognised as told before.
Fresh(a) == a.type = "emission_increase" => a.report \notin Known

\* The ids and the reports are read one after the other: what others commit
\* in between is as if it came before both, or after the check.  The event
\* goes out before the commit.  With nothing to tell, nothing is committed.
HourlyChecks(r) ==
    /\ check[r] = Waiting
    /\ LET kept == {a \in Found : Fresh(a)}
       IN  IF kept = {} THEN UNCHANGED <<check, inbox>>
           ELSE /\ AtStep(r, [at |-> "kept", new |-> kept])
                /\ Publish(r)
    /\ UNCHANGED <<reports, dropped, alerts, named, incidents>>

WithLock(r) == lock = Admin /\ lock' = r /\ HourlyChecks(r)

\* Without Redis, or when it cannot be reached, the check goes on.
FailsOpen(r) == HourlyChecks(r) /\ UNCHANGED lock

LockRunsOut ==
    /\ lock # Admin
    /\ lock' = Admin
    /\ UNCHANGED <<reports, dropped, alerts, named, check, inbox, incidents>>

HourlyCommits(r) ==
    /\ check[r].at = "kept"
    /\ Commit(check[r].new)
    /\ AtStep(r, Waiting)
    /\ UNCHANGED <<reports, dropped, lock, inbox, incidents>>

\* trigger_alert_check: no duplicates are looked for, and the commit is first.
AdminChecks ==
    /\ check[Admin] = Waiting /\ Found # {}
    /\ AtStep(Admin, [at |-> "kept", new |-> Found])
    /\ UNCHANGED <<reports, dropped, alerts, named, lock, inbox, incidents>>

AdminCommits(h) ==
    /\ check[Admin].at = "kept"
    /\ Commit(check[Admin].new)
    /\ AtStep(Admin, Waiting)
    /\ Publish(h)
    /\ UNCHANGED <<reports, dropped, lock, incidents>>

\* An error of the database ends the check, and not the loop.
CheckFails(c) ==
    /\ check[c].at = "kept"
    /\ incidents < MaxIncidents
    /\ incidents' = incidents + 1
    /\ AtStep(c, Waiting)
    /\ UNCHANGED <<reports, dropped, alerts, named, lock, inbox>>

\* A redis.RedisError that is no OSError ends the loop; one replica survives.
LoopDies(r) ==
    /\ check[r] = Waiting
    /\ \E q \in Replicas \ {r} : check[q].at # "dead"
    /\ AtStep(r, [at |-> "dead"])
    /\ UNCHANGED <<reports, dropped, alerts, named, lock, inbox, incidents>>

\* acknowledge_alert: is_read is left out, for nothing else depends on it
Acknowledge(h) ==
    /\ alerts # <<>>
    /\ Publish(h)
    /\ UNCHANGED <<reports, dropped, alerts, named, lock, check, incidents>>

HourlyCheck(r) == WithLock(r) \/ HourlyCommits(r)

AlertsNext ==
    \/ \E row \in ReportRows : ReportArrives(row)
    \/ \E p \in Places : ReportDeleted(p)
    \/ \E b \in Browsers : Subscribe(b) \/ Receive(b) \/ Disconnect(b)
    \/ \E r \in Replicas : HourlyCheck(r) \/ FailsOpen(r) \/ LoopDies(r) \/ AdminCommits(r) \/ Acknowledge(r)
    \/ LockRunsOut \/ AdminChecks
    \/ \E c \in Checkers : CheckFails(c)

AlertsSpec == AlertsInit /\ [][AlertsNext]_alertVars

-----------------------------------------------------------------------------
AlertsTypeOK ==
    /\ reports \in Seq(ReportRows) /\ Len(reports) <= MaxReports
    /\ dropped \subseteq DOMAIN reports
    /\ alerts \in Seq(AlertRows) /\ Len(alerts) <= Window
    /\ named \subseteq Places
    /\ lock \in Checkers
    /\ DOMAIN check = Checkers
    /\ \A c \in Checkers :
          \/ check[c] \in {Waiting, [at |-> "dead"]}
          \/ check[c] \in [at : {"kept"}, new : SUBSET AlertRows]
    /\ incidents \in 0..MaxIncidents
    /\ inbox \in [Browsers -> 0..QueueSize \cup {Gone}]

\* A report whose total has grown by too much is named by an alert before
\* long, unless it stops being the latest, or being compared with the same
\* one, first.  Nothing that a check drops as a duplicate, and no check that
\* fails or finds the lock taken, keeps it silent for good.
IncreaseIsAlerted ==
    \A p \in Places : (Increased /\ Latest = p) ~> (p \in named \/ ~ Increased \/ Latest # p)
=============================================================================
