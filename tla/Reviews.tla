------------------------------ MODULE Reviews ------------------------------
(***************************************************************************)
(* The review of an emission report: drafted, submitted by anybody of the  *)
(* company, approved or rejected by an administrator.  A request loads the *)
(* review without a lock, checks its status and commits the columns that   *)
(* it has changed.                                                         *)
(***************************************************************************)
EXTENDS Integers, FiniteSets

CONSTANTS
    Desks,      \* the requests that may be in progress at once
    Staff,      \* the users of the company
    Chiefs,     \* those of them with the role admin
    ReviewIds,  \* the ids that reviews of the report may get
    NoReview,   \* there is no such row
    Nobody      \* the column is null

ASSUME ReviewsAssumption ==
    /\ IsFiniteSet(Desks) /\ Chiefs \subseteq Staff
    /\ Nobody \notin Staff

VARIABLES
    reviews,    \* [ReviewIds -> the row, or NoReview]
    desk,       \* what each request has loaded, or Away
    decisions   \* how often each review has been decided since it was submitted

reviewVars == <<reviews, desk, decisions>>

Away == [op |-> "idle"]

\* in_review is never set by the code.
ReviewStatus == {"draft", "submitted", "approved", "rejected"}
ReviewRows == [status : ReviewStatus, submitter : Staff \cup {Nobody}, reviewer : Staff \cup {Nobody}]

ASSUME NoReviewIsNoRow == NoReview \notin ReviewRows

ReviewsInit ==
    /\ reviews = [i \in ReviewIds |-> NoReview]
    /\ desk = [d \in Desks |-> Away]
    /\ decisions = [i \in ReviewIds |-> 0]

Present == {i \in ReviewIds : reviews[i] # NoReview}

\* Wrong on purpose: only the columns that differ are left of the row
MergeDrops(row, old, new) == [f \in {g \in DOMAIN row : new[g] # old[g]} |-> new[f]]

\* The columns that differ from what was loaded are written, and no others.
Merge(row, old, new) == [f \in DOMAIN row |-> IF new[f] = old[f] THEN row[f] ELSE new[f]]

Takes(d, request) ==
    /\ desk[d] = Away
    /\ desk' = [desk EXCEPT ![d] = request]
    /\ UNCHANGED <<reviews, decisions>>

Leaves(d) == desk' = [desk EXCEPT ![d] = Away]

\* No key keeps two requests from creating a review of the same report.
CreateChecks(d) == Present = {} /\ Takes(d, [op |-> "create"])

CreateCommits(d, i) ==
    /\ desk[d].op = "create"
    /\ i \notin Present
    /\ reviews' = [reviews EXCEPT ![i] = [status |-> "draft", submitter |-> Nobody, reviewer |-> Nobody]]
    /\ Leaves(d)
    /\ UNCHANGED decisions

SubmitLoads(d, i, user) ==
    /\ reviews[i].status \in {"draft", "rejected"}
    /\ Takes(d, [op |-> "submit", id |-> i, old |-> reviews[i],
                 new |-> [status |-> "submitted", submitter |-> user, reviewer |-> Nobody]])

\* Wrong on purpose: whatever is not a draft can be decided
DecideLoadsAny(d, i, user, verdict) ==
    /\ user \in Chiefs
    /\ reviews[i].status # "draft"
    /\ Takes(d, [op |-> "decide", id |-> i, old |-> reviews[i],
                 new |-> [reviews[i] EXCEPT !.status = verdict, !.reviewer = user]])

DecideLoads(d, i, user, verdict) ==
    /\ user \in Chiefs
    /\ reviews[i].status = "submitted"
    /\ Takes(d, [op |-> "decide", id |-> i, old |-> reviews[i],
                 new |-> [reviews[i] EXCEPT !.status = verdict, !.reviewer = user]])

ActionCommits(d) ==
    /\ desk[d].op \in {"submit", "decide"}
    /\ LET i == desk[d].id
       IN  /\ reviews' = [reviews EXCEPT ![i] = Merge(@, desk[d].old, desk[d].new)]
           /\ decisions' = [decisions EXCEPT ![i] = IF desk[d].op = "submit" THEN 0 ELSE @ + 1]
    /\ Leaves(d)

\* The request dies before its commit.
ReviewFails(d) ==
    /\ desk[d] # Away
    /\ Leaves(d)
    /\ UNCHANGED <<reviews, decisions>>

ReviewsNext ==
    \E d \in Desks :
       \/ CreateChecks(d) \/ \E i \in ReviewIds : CreateCommits(d, i)
       \/ \E i \in Present, user \in Staff :
             SubmitLoads(d, i, user) \/ \E verdict \in {"approved", "rejected"} : DecideLoads(d, i, user, verdict)
       \/ ActionCommits(d)
       \/ ReviewFails(d)

ReviewsSpec == ReviewsInit /\ [][ReviewsNext]_reviewVars

-----------------------------------------------------------------------------
ReviewsTypeOK ==
    /\ reviews \in [ReviewIds -> ReviewRows \cup {NoReview}]
    /\ DOMAIN desk = Desks
    /\ \A d \in Desks :
          \/ desk[d] \in {Away} \cup [op : {"create"}]
          \/ desk[d] \in [op : {"submit", "decide"}, id : ReviewIds, old : ReviewRows, new : ReviewRows]
    /\ decisions \in [ReviewIds -> Nat]

\* A submission is decided once, but that requests at the same time may all
\* have loaded it undecided: it never gets more decisions than there are
\* requests at a time, and a review that is settled gets no more.
DecisionsAreBounded == \A i \in ReviewIds : decisions[i] <= Cardinality(Desks)
=============================================================================
