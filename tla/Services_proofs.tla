--------------------------- MODULE Services_proofs ---------------------------
(***************************************************************************)
(* Machine-checked proofs about Reviews, for any number of requests, users *)
(* and reviews; about Questionnaires, for any number of requests; about    *)
(* MinerAxon, for any number of callers and any limits; about SupplyChain, *)
(* for any suppliers and amounts; and about Estimation, for any datasets.  *)
(* They share no state; the last theorem is about all of them.             *)
(***************************************************************************)
EXTENDS MCServices, Functions, FiniteSetTheorems, SequenceTheorems,
        WellFoundedInduction, TLAPS

(* Least numbers *)

\* Of some numbers one is the least.
LEMMA HasLeast ==
    ASSUME NEW S \in SUBSET Nat, S # {}
    PROVE  \E n \in S : \A m \in S : n <= m
<1>1. PICK n \in S : \A m \in S : ~ (<<m, n>> \in OpToRel(<, Nat))
    BY NatLessThanWellFounded, WFMin
<1>2. ASSUME NEW m \in S
      PROVE  ~ (m < n)
    BY <1>1, <1>2, Zenon DEF OpToRel
<1> QED
    BY <1>2

-----------------------------------------------------------------------------
(* Reviews *)

\* The requests that have loaded review i to decide it.
Deciding(i) == {d \in Desks : desk[d].op = "decide" /\ desk[d].id = i}

\* What a request has loaded: a review that is there, in a status that its
\* action starts from, and will write another one.
Loaded(d) ==
    desk[d].op \in {"submit", "decide"} =>
        /\ reviews[desk[d].id] # NoReview
        /\ desk[d].op = "submit" => /\ desk[d].old.status # "submitted"
                                    /\ desk[d].new.status = "submitted"
        /\ desk[d].op = "decide" => /\ desk[d].old.status = "submitted"
                                    /\ desk[d].new.status \in {"approved", "rejected"}

\* A review that waits for its decision has none yet, and those that have
\* loaded it undecided count as if they had decided.
Counted(i) ==
    /\ reviews[i] # NoReview /\ reviews[i].status = "submitted" => decisions[i] = 0
    /\ decisions[i] + Cardinality(Deciding(i)) <= Cardinality(Desks)

ReviewInv ==
    /\ ReviewsTypeOK
    /\ \A d \in Desks : Loaded(d)
    /\ \A i \in ReviewIds : Counted(i)

\* There are finitely many deciders, as there are requests.
LEMMA DecidersAreFew ==
    ASSUME NEW i
    PROVE  /\ IsFiniteSet(Deciding(i)) /\ Cardinality(Deciding(i)) \in Nat
           /\ Cardinality(Desks) \in Nat /\ Cardinality(Deciding(i)) <= Cardinality(Desks)
<1>1. IsFiniteSet(Desks) /\ Deciding(i) \subseteq Desks
  BY ReviewsAssumption DEF Deciding
<1>2. QED
  BY <1>1, FS_Subset, FS_CardinalityType

\* A merged row is a row, and has the new status if that differs.
LEMMA MergeIsRow ==
    ASSUME NEW row \in ReviewRows, NEW old \in ReviewRows, NEW new \in ReviewRows
    PROVE  /\ Merge(row, old, new) \in ReviewRows
           /\ new.status # old.status => Merge(row, old, new).status = new.status
<1>1. DOMAIN row = {"status", "submitter", "reviewer"}
  BY DEF ReviewRows
<1> DEFINE m == Merge(row, old, new)
<1>2. m = [f \in {"status", "submitter", "reviewer"} |-> IF new[f] = old[f] THEN row[f] ELSE new[f]]
  BY <1>1 DEF Merge
<1>3. /\ m.status = IF new.status = old.status THEN row.status ELSE new.status
      /\ m.submitter = IF new.submitter = old.submitter THEN row.submitter ELSE new.submitter
      /\ m.reviewer = IF new.reviewer = old.reviewer THEN row.reviewer ELSE new.reviewer
  BY <1>2
<1>4. m = [status |-> m.status, submitter |-> m.submitter, reviewer |-> m.reviewer]
  BY <1>2
<1>5. m.status \in ReviewStatus /\ m.submitter \in Staff \cup {Nobody} /\ m.reviewer \in Staff \cup {Nobody}
  BY <1>3 DEF ReviewRows
<1> HIDE DEF m
<1>6. QED
  BY <1>3, <1>4, <1>5 DEF ReviewRows, m

LEMMA ReviewInit == ReviewsInit => ReviewInv
<1> SUFFICES ASSUME ReviewsInit PROVE ReviewInv
  OBVIOUS
<1>1. ReviewsTypeOK /\ \A d \in Desks : Loaded(d)
  BY DEF ReviewsInit, ReviewsTypeOK, Loaded, Away
<1>2. ASSUME NEW i \in ReviewIds PROVE Counted(i)
  <2>1. decisions[i] = 0
    BY DEF ReviewsInit
  <2>2. QED
    BY <2>1, DecidersAreFew DEF Counted
<1>3. QED
  BY <1>1, <1>2 DEF ReviewInv

\* A step of request d changes what d is at, and d only.
LEMMA Moved ==
    ASSUME ReviewInv, NEW d \in Desks, NEW next, desk' = [desk EXCEPT ![d] = next]
    PROVE  /\ desk'[d] = next /\ DOMAIN desk' = Desks
           /\ \A e \in Desks \ {d} : desk'[e] = desk[e]
           /\ \A i : Deciding(i)' \subseteq Deciding(i) \cup {d}
           /\ \A i : ~ (next.op = "decide" /\ next.id = i) => Deciding(i)' = Deciding(i) \ {d}
<1>1. desk'[d] = next /\ DOMAIN desk' = Desks /\ \A e \in Desks \ {d} : desk'[e] = desk[e]
  BY DEF ReviewInv, ReviewsTypeOK
<1>2. QED
  BY <1>1 DEF Deciding

\* What a request may be at.
Places == {Away} \cup [op : {"create"}]
              \cup [op : {"submit", "decide"}, id : ReviewIds, old : ReviewRows, new : ReviewRows]

LEMMA PlacesDiffer ==
    ASSUME NEW p \in Places
    PROVE  /\ p.op \in {"idle", "create", "submit", "decide"}
           /\ p.op \in {"submit", "decide"} =>
                 p.id \in ReviewIds /\ p.old \in ReviewRows /\ p.new \in ReviewRows
BY DEF Places, Away

\* A step of d that leaves the rows and the counts alone, and gives d
\* nothing to decide but a review that has been submitted.
LEMMA RowsKept ==
    ASSUME ReviewInv, NEW d \in Desks, NEW next \in Places, desk' = [desk EXCEPT ![d] = next],
           UNCHANGED <<reviews, decisions>>, Loaded(d)',
           next.op = "decide" => reviews[next.id] # NoReview /\ reviews[next.id].status = "submitted"
    PROVE  ReviewInv'
<1>1. /\ desk'[d] = next /\ DOMAIN desk' = Desks
      /\ \A e \in Desks \ {d} : desk'[e] = desk[e]
      /\ \A i : ~ (next.op = "decide" /\ next.id = i) => Deciding(i)' = Deciding(i) \ {d}
  <2>1. desk'[d] = next /\ DOMAIN desk' = Desks /\ \A e \in Desks \ {d} : desk'[e] = desk[e]
    BY Moved
  <2>2. QED
    BY <2>1 DEF Deciding
<1>2. ReviewsTypeOK'
  BY <1>1 DEF ReviewInv, ReviewsTypeOK, Places
<1>3. \A e \in Desks : Loaded(e)'
  BY <1>1 DEF ReviewInv, Loaded
<1>4. ASSUME NEW i \in ReviewIds PROVE Counted(i)'
  <2>1. Counted(i) /\ decisions[i] \in Nat /\ decisions'[i] = decisions[i] /\ reviews'[i] = reviews[i]
    BY DEF ReviewInv, ReviewsTypeOK
  <2>2. /\ Cardinality(Deciding(i)) \in Nat /\ IsFiniteSet(Deciding(i)) /\ Cardinality(Desks) \in Nat
        /\ Cardinality(Deciding(i)') \in Nat /\ Cardinality(Deciding(i)') <= Cardinality(Desks)
    <3>1. IsFiniteSet(Desks) /\ Deciding(i)' \subseteq Desks
      BY ReviewsAssumption DEF Deciding
    <3>2. QED
      BY <3>1, DecidersAreFew, FS_Subset, FS_CardinalityType
  <2>3. CASE next.op = "decide" /\ next.id = i
    BY <2>1, <2>2, <2>3 DEF Counted
  <2>4. CASE ~ (next.op = "decide" /\ next.id = i)
    <3>1. Cardinality(Deciding(i)') <= Cardinality(Deciding(i))
      BY <1>1, <2>2, <2>4, FS_Subset
    <3>2. QED
      BY <2>1, <2>2, <3>1 DEF Counted
  <2>5. QED
    BY <2>3, <2>4
<1>5. QED
  BY <1>2, <1>3, <1>4 DEF ReviewInv

\* A review that is there stays there.
LEMMA CommitKeeps ==
    ASSUME ReviewInv, NEW d \in Desks, ActionCommits(d)
    PROVE  ReviewInv'
<1> DEFINE p == desk[d]
           i == p.id
<1>1. p \in Places /\ p.op \in {"submit", "decide"} /\ Loaded(d)
  BY DEF ActionCommits, ReviewInv, ReviewsTypeOK, Places
<1>2. i \in ReviewIds /\ p.old \in ReviewRows /\ p.new \in ReviewRows
  BY <1>1, PlacesDiffer
<1>3. reviews[i] \in ReviewRows /\ p.new.status # p.old.status
  BY <1>1, <1>2 DEF Loaded, ReviewInv, ReviewsTypeOK
<1> DEFINE m == Merge(reviews[i], p.old, p.new)
<1>4. m \in ReviewRows /\ m.status = p.new.status
  BY <1>2, <1>3, MergeIsRow
<1>5. /\ reviews' = [reviews EXCEPT ![i] = m]
      /\ decisions' = [decisions EXCEPT ![i] = IF p.op = "submit" THEN 0 ELSE decisions[i] + 1]
      /\ desk' = [desk EXCEPT ![d] = Away]
  BY DEF ActionCommits, Leaves
<1> HIDE DEF m
<1>6. /\ reviews'[i] = m /\ decisions'[i] = IF p.op = "submit" THEN 0 ELSE decisions[i] + 1
      /\ \A j \in ReviewIds \ {i} : reviews'[j] = reviews[j] /\ decisions'[j] = decisions[j]
      /\ reviews' \in [ReviewIds -> ReviewRows \cup {NoReview}] /\ decisions' \in [ReviewIds -> Nat]
  BY <1>2, <1>4, <1>5 DEF ReviewInv, ReviewsTypeOK
<1>7. /\ desk'[d] = Away /\ DOMAIN desk' = Desks /\ \A e \in Desks \ {d} : desk'[e] = desk[e]
      /\ \A j : Deciding(j)' = Deciding(j) \ {d}
  <2>1. Away.op # "decide"
    BY DEF Away
  <2>2. QED
    BY <1>5, <2>1, Moved
<1>8. ReviewsTypeOK'
  BY <1>6, <1>7 DEF ReviewInv, ReviewsTypeOK
<1>9. ASSUME NEW e \in Desks PROVE Loaded(e)'
  <2>1. CASE e = d
    BY <1>7, <2>1 DEF Loaded, Away
  <2>2. CASE e # d
    <3>1. desk'[e] = desk[e] /\ Loaded(e) /\ desk[e] \in Places
      BY <1>7, <2>2 DEF ReviewInv, ReviewsTypeOK, Places
    <3>2. \A j \in ReviewIds : reviews[j] # NoReview => reviews'[j] # NoReview
      BY <1>4, <1>6, NoReviewIsNoRow
    <3>3. QED
      BY <3>1, <3>2, PlacesDiffer DEF Loaded
  <2>3. QED
    BY <2>1, <2>2
<1>10. ASSUME NEW j \in ReviewIds PROVE Counted(j)'
  <2>1. /\ Counted(j) /\ decisions[j] \in Nat /\ Cardinality(Desks) \in Nat
        /\ IsFiniteSet(Deciding(j)) /\ Cardinality(Deciding(j)) \in Nat
    BY DecidersAreFew DEF ReviewInv, ReviewsTypeOK
  <2>2. /\ Cardinality(Deciding(j)') \in Nat /\ Cardinality(Deciding(j)') <= Cardinality(Desks)
        /\ Cardinality(Deciding(j)') =
              IF d \in Deciding(j) THEN Cardinality(Deciding(j)) - 1 ELSE Cardinality(Deciding(j))
    <3>1. Deciding(j)' = Deciding(j) \ {d} /\ Deciding(j) \subseteq Desks
      BY <1>7 DEF Deciding
    <3>2. IsFiniteSet(Deciding(j) \ {d}) /\ Deciding(j) \ {d} \subseteq Desks
      BY <2>1, <3>1, FS_RemoveElement
    <3>3. QED
      BY <2>1, <3>1, <3>2, FS_RemoveElement, FS_Subset, FS_CardinalityType, ReviewsAssumption
  <2>3. CASE j # i
    BY <1>6, <2>1, <2>2, <2>3 DEF Counted
  <2>4. CASE j = i /\ p.op = "submit"
    BY <1>6, <2>1, <2>2, <2>4 DEF Counted
  <2>5. CASE j = i /\ p.op = "decide"
    <3>1. d \in Deciding(j)
      BY <2>5 DEF Deciding
    <3>2. m.status # "submitted"
      BY <1>1, <1>4, <2>5 DEF Loaded
    <3>3. QED
      BY <1>6, <2>1, <2>2, <2>5, <3>1, <3>2 DEF Counted
  <2>6. QED
    BY <1>1, <2>3, <2>4, <2>5
<1>11. QED
  BY <1>8, <1>9, <1>10 DEF ReviewInv

\* A new row is a draft, and nobody had loaded it.
LEMMA CreateKeeps ==
    ASSUME ReviewInv, NEW d \in Desks, NEW i \in ReviewIds, CreateCommits(d, i)
    PROVE  ReviewInv'
<1> DEFINE row == [status |-> "draft", submitter |-> Nobody, reviewer |-> Nobody]
<1>1. row \in ReviewRows /\ row.status = "draft"
  BY DEF ReviewRows, ReviewStatus
<1>2. /\ reviews' = [reviews EXCEPT ![i] = row] /\ decisions' = decisions
      /\ desk' = [desk EXCEPT ![d] = Away]
  BY DEF CreateCommits, Leaves
<1> HIDE DEF row
<1>3. /\ reviews'[i] = row /\ \A j \in ReviewIds \ {i} : reviews'[j] = reviews[j]
      /\ reviews' \in [ReviewIds -> ReviewRows \cup {NoReview}]
  BY <1>1, <1>2 DEF ReviewInv, ReviewsTypeOK
<1>4. /\ desk'[d] = Away /\ DOMAIN desk' = Desks /\ \A e \in Desks \ {d} : desk'[e] = desk[e]
      /\ \A j : Deciding(j)' = Deciding(j) \ {d}
  <2>1. Away.op # "decide"
    BY DEF Away
  <2>2. QED
    BY <1>2, <2>1, Moved
<1>5. ReviewsTypeOK'
  BY <1>2, <1>3, <1>4 DEF ReviewInv, ReviewsTypeOK
<1>6. ASSUME NEW e \in Desks PROVE Loaded(e)'
  <2>1. CASE e = d
    BY <1>4, <2>1 DEF Loaded, Away
  <2>2. CASE e # d
    <3>1. desk'[e] = desk[e] /\ Loaded(e) /\ desk[e] \in Places
      BY <1>4, <2>2 DEF ReviewInv, ReviewsTypeOK, Places
    <3>2. \A j \in ReviewIds : reviews[j] # NoReview => reviews'[j] # NoReview
      BY <1>1, <1>3, NoReviewIsNoRow
    <3>3. QED
      BY <3>1, <3>2, PlacesDiffer DEF Loaded
  <2>3. QED
    BY <2>1, <2>2
<1>7. ASSUME NEW j \in ReviewIds PROVE Counted(j)'
  <2>1. /\ Counted(j) /\ decisions[j] \in Nat /\ Cardinality(Desks) \in Nat
        /\ IsFiniteSet(Deciding(j)) /\ Cardinality(Deciding(j)) \in Nat
    BY DecidersAreFew DEF ReviewInv, ReviewsTypeOK
  <2>2. Cardinality(Deciding(j)') \in Nat /\ Cardinality(Deciding(j)') <= Cardinality(Deciding(j))
    BY <1>4, <2>1, FS_Subset, FS_CardinalityType
  <2>3. reviews'[j] # NoReview /\ reviews'[j].status = "submitted" => decisions[j] = 0
    BY <1>1, <1>3, <2>1 DEF Counted
  <2>4. QED
    BY <1>2, <2>1, <2>2, <2>3 DEF Counted
<1>8. QED
  BY <1>5, <1>6, <1>7 DEF ReviewInv

\* Every step keeps the counts.
LEMMA ReviewNext == ReviewInv /\ [ReviewsNext]_reviewVars => ReviewInv'
<1> SUFFICES ASSUME ReviewInv, [ReviewsNext]_reviewVars PROVE ReviewInv'
  OBVIOUS
<1>1. CASE UNCHANGED reviewVars
  BY <1>1 DEF reviewVars, ReviewInv, ReviewsTypeOK, Loaded, Counted, Deciding
<1>2. ASSUME NEW d \in Desks, NEW next \in Places, desk' = [desk EXCEPT ![d] = next],
             UNCHANGED <<reviews, decisions>>, next.op \in {"idle", "create"}
      PROVE  ReviewInv'
  <2>1. desk'[d] = next
    BY <1>2, Moved
  <2>2. Loaded(d)'
    BY <1>2, <2>1 DEF Loaded
  <2>3. QED
    BY <1>2, <2>2, RowsKept
<1>3. ASSUME NEW d \in Desks, CreateChecks(d) PROVE ReviewInv'
  <2> DEFINE next == [op |-> "create"]
  <2>1. desk' = [desk EXCEPT ![d] = next] /\ UNCHANGED <<reviews, decisions>> /\ next \in Places
    BY <1>3 DEF CreateChecks, Takes, Places
  <2>2. QED
    BY <1>2, <2>1
<1>4. ASSUME NEW d \in Desks, ReviewFails(d) PROVE ReviewInv'
  <2>1. desk' = [desk EXCEPT ![d] = Away] /\ UNCHANGED <<reviews, decisions>> /\ Away \in Places
    BY <1>4 DEF ReviewFails, Leaves, Places
  <2>2. QED
    BY <1>2, <2>1 DEF Away
<1>5. ASSUME NEW d \in Desks, NEW i \in Present, NEW user \in Staff, SubmitLoads(d, i, user)
      PROVE  ReviewInv'
  <2> DEFINE new == [status |-> "submitted", submitter |-> user, reviewer |-> Nobody]
             next == [op |-> "submit", id |-> i, old |-> reviews[i], new |-> new]
  <2>1. i \in ReviewIds /\ reviews[i] # NoReview /\ reviews[i] \in ReviewRows
    BY DEF Present, ReviewInv, ReviewsTypeOK
  <2>2. new \in ReviewRows
    BY DEF ReviewRows, ReviewStatus
  <2>3. next \in Places
    BY <2>1, <2>2 DEF Places
  <2>4. desk' = [desk EXCEPT ![d] = next] /\ UNCHANGED <<reviews, decisions>>
    BY <1>5 DEF SubmitLoads, Takes
  <2>5. desk'[d] = next
    BY <2>4, Moved
  <2>6. reviews[i].status # "submitted"
    BY <1>5 DEF SubmitLoads
  <2>7. Loaded(d)'
    BY <2>1, <2>4, <2>5, <2>6 DEF Loaded
  <2>8. QED
    BY <2>3, <2>4, <2>7, RowsKept
<1>6. ASSUME NEW d \in Desks, NEW i \in Present, NEW user \in Staff,
             NEW verdict \in {"approved", "rejected"}, DecideLoads(d, i, user, verdict)
      PROVE  ReviewInv'
  <2> DEFINE new == [reviews[i] EXCEPT !.status = verdict, !.reviewer = user]
             next == [op |-> "decide", id |-> i, old |-> reviews[i], new |-> new]
  <2>1. i \in ReviewIds /\ reviews[i] # NoReview /\ reviews[i] \in ReviewRows
    BY DEF Present, ReviewInv, ReviewsTypeOK
  <2>2. new \in ReviewRows /\ new.status = verdict
    BY <2>1 DEF ReviewRows, ReviewStatus
  <2> HIDE DEF new
  <2>3. next \in Places
    BY <2>1, <2>2 DEF Places
  <2>4. desk' = [desk EXCEPT ![d] = next] /\ UNCHANGED <<reviews, decisions>>
    BY <1>6 DEF DecideLoads, Takes, new
  <2>5. desk'[d] = next
    BY <2>4, Moved
  <2>6. reviews[i].status = "submitted"
    BY <1>6 DEF DecideLoads
  <2>7. Loaded(d)'
    BY <2>1, <2>2, <2>4, <2>5, <2>6 DEF Loaded
  <2>8. QED
    BY <2>1, <2>3, <2>4, <2>6, <2>7, RowsKept
<1>7. QED
  BY <1>1, <1>3, <1>4, <1>5, <1>6, CommitKeeps, CreateKeeps DEF ReviewsNext

\* A submission never gets more decisions than there are requests at a
\* time, though nobody locks the review.
THEOREM DecisionsBounded == ReviewsSpec => []DecisionsAreBounded
<1>1. ReviewInv => DecisionsAreBounded
  <2> SUFFICES ASSUME ReviewInv, NEW i \in ReviewIds PROVE decisions[i] <= Cardinality(Desks)
    BY DEF DecisionsAreBounded
  <2>1. Counted(i) /\ decisions[i] \in Nat
    BY DEF ReviewInv, ReviewsTypeOK
  <2>2. QED
    BY <2>1, DecidersAreFew DEF Counted
<1>2. QED
  BY <1>1, ReviewInit, ReviewNext, PTL DEF ReviewsSpec

-----------------------------------------------------------------------------
(* Questionnaires *)

\* Everything that a request may have loaded.
Loads == {Resting} \cup [op : {"checked", "asking", "delete"}] \cup [op : {"answer"}, set : Sets]
             \cup [op : {"writing"}, deletes : SUBSET Sets]
             \cup [op : {"update"}, status : QuestionnaireStatus, old : QuestionnaireStatus]

Extracting(r) == reader[r].op \in {"asking", "writing"}

\* An extraction that is about to write replaces the template, and the set
\* that it has written before; the template is alone while it is stored, and
\* no set is stored twice.
SetsInOrder ==
    /\ \A r \in Readers : reader[r].op = "writing" =>
          \A s \in Stored : s \in {r, Template} => s \in reader[r].deletes
    /\ \A q, p \in questions : q.set = p.set => q = p
    /\ Template \in Stored => Stored = {Template}

\* Whoever has loaded something has loaded it from a questionnaire.
FormInv ==
    /\ QuestionnairesTypeOK
    /\ form = NoForm => questions = {} /\ \A r \in Readers : reader[r] = Resting
    /\ form # NoForm /\ form.status = "extracting" /\ ~ cutOff => \E r \in Readers : Extracting(r)
    /\ SetsInOrder

LEMMA LoadsDiffer ==
    ASSUME NEW l \in Loads
    PROVE  /\ l.op \in {"idle", "checked", "asking", "delete", "answer", "writing", "update"}
           /\ l.op = "idle" => l = Resting
           /\ l.op = "answer" => l.set \in Sets
           /\ l.op = "writing" => l.deletes \subseteq Sets
           /\ l.op = "update" => l.status \in QuestionnaireStatus
BY DEF Loads, Resting

LEMMA FormInit == QuestionnairesInit => FormInv
BY DEF QuestionnairesInit, FormInv, QuestionnairesTypeOK, SetsInOrder, Stored, Resting

\* The type invariant in terms of Loads.
LEMMA LoadTypes ==
    ASSUME QuestionnairesTypeOK
    PROVE  DOMAIN reader = Readers /\ \A r \in Readers : reader[r] \in Loads
BY DEF QuestionnairesTypeOK, Loads

\* A step of r that takes up l.
LEMMA Reading ==
    ASSUME QuestionnairesTypeOK, NEW r \in Readers, NEW l \in Loads, reader' = [reader EXCEPT ![r] = l]
    PROVE  /\ reader'[r] = l /\ DOMAIN reader' = Readers
           /\ \A q \in Readers \ {r} : reader'[q] = reader[q]
           /\ \A q \in Readers : reader'[q] \in Loads
BY LoadTypes

LEMMA TypeStep ==
    ASSUME form' \in Forms \cup {NoForm}, questions' \subseteq [set : Sets, answered : BOOLEAN],
           DOMAIN reader' = Readers, \A r \in Readers : reader'[r] \in Loads, cutOff' \in BOOLEAN
    PROVE  QuestionnairesTypeOK'
BY DEF QuestionnairesTypeOK, Loads

\* A step of r that stores nothing, and takes up nothing to write.
LEMMA QuietStep ==
    ASSUME FormInv, NEW r \in Readers, NEW l \in Loads, reader' = [reader EXCEPT ![r] = l],
           questions' = questions, form # NoForm, form' \in Forms, cutOff' \in BOOLEAN,
           l.op # "writing", cutOff => cutOff',
           form'.status = "extracting" /\ ~ cutOff' =>
               \/ l.op = "asking"
               \/ form.status = "extracting" /\ ~ Extracting(r)
    PROVE  FormInv'
<1>1. /\ reader'[r] = l /\ DOMAIN reader' = Readers
      /\ \A q \in Readers \ {r} : reader'[q] = reader[q]
      /\ \A q \in Readers : reader'[q] \in Loads
  BY Reading DEF FormInv
<1>2. QuestionnairesTypeOK'
  BY <1>1, TypeStep DEF FormInv, QuestionnairesTypeOK
<1>3. SetsInOrder'
  BY <1>1 DEF FormInv, SetsInOrder, Stored
<1>4. form' # NoForm
  BY NoFormIsNoRow
<1>5. form'.status = "extracting" /\ ~ cutOff' => \E q \in Readers : Extracting(q)'
  BY <1>1 DEF FormInv, Extracting
<1>6. QED
  BY <1>2, <1>3, <1>4, <1>5 DEF FormInv

\* The questions that are stored when an extraction deletes are those that
\* it will replace.
LEMMA DeleteStep ==
    ASSUME FormInv, NEW r \in Readers, ExtractDeletes(r)
    PROVE  FormInv'
<1> DEFINE l == [op |-> "writing", deletes |-> Stored]
<1>1. l \in Loads
  BY DEF FormInv, QuestionnairesTypeOK, Stored, Loads
<1>2. /\ reader' = [reader EXCEPT ![r] = l] /\ reader[r].op = "asking"
      /\ UNCHANGED <<form, questions, cutOff>>
  BY DEF ExtractDeletes
<1>3. l.op = "writing" /\ l.deletes = Stored
  OBVIOUS
<1> HIDE DEF l
<1>4. /\ reader'[r] = l /\ DOMAIN reader' = Readers
      /\ \A q \in Readers \ {r} : reader'[q] = reader[q]
      /\ \A q \in Readers : reader'[q] \in Loads
  BY <1>1, <1>2, Reading DEF FormInv
<1>5. form # NoForm
  BY <1>2 DEF FormInv, Resting
<1>6. QuestionnairesTypeOK'
  BY <1>2, <1>4, TypeStep DEF FormInv, QuestionnairesTypeOK
<1>7. SetsInOrder'
  BY <1>2, <1>3, <1>4 DEF FormInv, SetsInOrder, Stored
<1>8. form'.status = "extracting" /\ ~ cutOff' => \E q \in Readers : Extracting(q)'
  BY <1>3, <1>4 DEF Extracting
<1>9. QED
  BY <1>2, <1>5, <1>6, <1>7, <1>8 DEF FormInv

\* An extraction replaces the template and its own older questions.
LEMMA CommitStep ==
    ASSUME FormInv, NEW r \in Readers, ExtractCommits(r)
    PROVE  FormInv'
<1> DEFINE kept == {q \in questions : q.set \notin reader[r].deletes}
           new  == [set |-> r, answered |-> FALSE]
<1>1. /\ reader' = [reader EXCEPT ![r] = Resting] /\ reader[r].op = "writing"
      /\ questions' = kept \cup {new} /\ form' = [form EXCEPT !.status = "extracted"]
      /\ cutOff' = cutOff
  BY DEF ExtractCommits, Rests
<1>2. form \in Forms
  BY <1>1 DEF FormInv, QuestionnairesTypeOK, Resting
<1>3. form' \in Forms /\ form'.status = "extracted"
  BY <1>1, <1>2 DEF Forms, QuestionnaireStatus
<1>4. /\ reader'[r] = Resting /\ DOMAIN reader' = Readers
      /\ \A q \in Readers \ {r} : reader'[q] = reader[q]
      /\ \A q \in Readers : reader'[q] \in Loads
  <2>1. Resting \in Loads
    BY DEF Loads
  <2>2. QED
    BY <1>1, <2>1, Reading DEF FormInv
<1>5. new \in [set : Sets, answered : BOOLEAN] /\ new.set = r
  BY DEF Sets
<1>6. QuestionnairesTypeOK'
  BY <1>1, <1>3, <1>4, <1>5, TypeStep DEF FormInv, QuestionnairesTypeOK
<1>7. \A q \in kept : q \in questions /\ q.set # r /\ q.set # Template
  BY <1>1 DEF FormInv, SetsInOrder, Stored
<1> HIDE DEF kept, new
<1>8. SetsInOrder'
  <2>1. r # Template
    BY QuestionnairesAssumption
  <2>2. \A q \in questions' : q = new \/ q \in kept
    BY <1>1
  <2>3. Template \notin Stored'
    BY <1>5, <1>7, <2>1, <2>2 DEF Stored
  <2>4. \A q, p \in questions' : q.set = p.set => q = p
    BY <1>5, <1>7, <2>2 DEF FormInv, SetsInOrder
  <2>5. ASSUME NEW e \in Readers, reader'[e].op = "writing", NEW s \in Stored', s \in {e, Template}
        PROVE  s \in reader'[e].deletes
    <3>1. e # r
      BY <1>4, <2>5 DEF Resting
    <3>2. s = e
      BY <2>3, <2>5
    <3>3. s \in Stored
      BY <1>5, <1>7, <2>2, <2>5, <3>1, <3>2 DEF Stored
    <3>4. QED
      BY <1>4, <2>5, <3>1, <3>2, <3>3 DEF FormInv, SetsInOrder
  <2>6. QED
    BY <2>3, <2>4, <2>5 DEF SetsInOrder
<1>9. QED
  BY <1>3, <1>6, <1>8, NoFormIsNoRow DEF FormInv

\* An answer changes no set.
LEMMA AnswerStep ==
    ASSUME FormInv, NEW r \in Readers, AnswerCommits(r)
    PROVE  FormInv'
<1> DEFINE answer(q) == IF q.set = reader[r].set THEN [q EXCEPT !.answered = TRUE] ELSE q
<1>1. /\ reader' = [reader EXCEPT ![r] = Resting] /\ reader[r].op = "answer"
      /\ questions' = {answer(q) : q \in questions} /\ UNCHANGED <<form, cutOff>>
  BY DEF AnswerCommits, Rests
<1>2. \A q \in questions : answer(q) \in [set : Sets, answered : BOOLEAN] /\ answer(q).set = q.set
  BY DEF FormInv, QuestionnairesTypeOK
<1> HIDE DEF answer
<1>3. /\ reader'[r] = Resting /\ DOMAIN reader' = Readers
      /\ \A q \in Readers \ {r} : reader'[q] = reader[q]
      /\ \A q \in Readers : reader'[q] \in Loads
  <2>1. Resting \in Loads
    BY DEF Loads
  <2>2. QED
    BY <1>1, <2>1, Reading DEF FormInv
<1>4. QuestionnairesTypeOK'
  BY <1>1, <1>2, <1>3, TypeStep DEF FormInv, QuestionnairesTypeOK
<1>5. Stored' = Stored
  BY <1>1, <1>2 DEF Stored
<1>6. \A q, p \in questions' : q.set = p.set => q = p
  BY <1>1, <1>2 DEF FormInv, SetsInOrder
<1>7. SetsInOrder'
  BY <1>3, <1>5, <1>6 DEF FormInv, SetsInOrder, Resting
<1>8. form # NoForm /\ form' = form
  BY <1>1 DEF FormInv, Resting
<1>9. form'.status = "extracting" /\ ~ cutOff' => \E q \in Readers : Extracting(q)'
  BY <1>1, <1>3, <1>8 DEF FormInv, Extracting
<1>10. QED
  BY <1>4, <1>7, <1>8, <1>9 DEF FormInv

\* Every step keeps the sets in order.
LEMMA FormNext == FormInv /\ [QuestionnairesNext]_formVars => FormInv'
<1> SUFFICES ASSUME FormInv, [QuestionnairesNext]_formVars PROVE FormInv'
  OBVIOUS
<1>1. CASE UNCHANGED formVars
  BY <1>1 DEF formVars, FormInv, QuestionnairesTypeOK, SetsInOrder, Stored, Extracting
<1>2. ASSUME NEW file \in Files, Upload(file) PROVE FormInv'
  <2>1. form' \in Forms /\ form'.status = "uploaded"
    BY <1>2 DEF Upload, Forms, QuestionnaireStatus
  <2>2. UNCHANGED <<questions, reader, cutOff>> /\ form = NoForm
    BY <1>2 DEF Upload
  <2>3. QuestionnairesTypeOK'
    BY <2>1, <2>2, LoadTypes, TypeStep DEF FormInv, QuestionnairesTypeOK
  <2>4. SetsInOrder'
    BY <2>2 DEF FormInv, SetsInOrder, Stored
  <2>5. QED
    BY <2>1, <2>3, <2>4, NoFormIsNoRow DEF FormInv
<1>3. ASSUME ApplyTemplate PROVE FormInv'
  <2> DEFINE new == [set |-> Template, answered |-> FALSE]
  <2>1. form' \in Forms /\ form'.status = "extracted"
    BY <1>3 DEF ApplyTemplate, Forms, QuestionnaireStatus
  <2>2. UNCHANGED <<reader, cutOff>> /\ form = NoForm /\ questions' = {new}
    BY <1>3 DEF ApplyTemplate
  <2>3. new \in [set : Sets, answered : BOOLEAN] /\ new.set = Template
    BY DEF Sets
  <2> HIDE DEF new
  <2>4. QuestionnairesTypeOK'
    BY <2>1, <2>2, <2>3, LoadTypes, TypeStep DEF FormInv, QuestionnairesTypeOK
  <2>5. \A r \in Readers : reader'[r].op # "writing"
    BY <2>2 DEF FormInv, Resting
  <2>6. SetsInOrder'
    BY <2>2, <2>3, <2>5 DEF SetsInOrder, Stored
  <2>7. QED
    BY <2>1, <2>4, <2>6, NoFormIsNoRow DEF FormInv
<1>4. ASSUME NEW r \in Readers, NEW l \in Loads, Reads(r, l), l.op # "writing" PROVE FormInv'
  <2>1. /\ reader' = [reader EXCEPT ![r] = l] /\ UNCHANGED <<form, questions, cutOff>>
        /\ form # NoForm /\ reader[r] = Resting
    BY <1>4 DEF Reads, There
  <2>2. form' \in Forms /\ cutOff' \in BOOLEAN /\ ~ Extracting(r)
    BY <2>1 DEF FormInv, QuestionnairesTypeOK, Extracting, Resting
  <2>3. QED
    BY <1>4, <2>1, <2>2, QuietStep
<1>5. ASSUME NEW r \in Readers,
             ExtractChecks(r) \/ DeleteLoads(r) \/ (\E q \in questions : AnswerLoads(r, q))
               \/ (\E status \in QuestionnaireStatus : UpdateLoads(r, status))
      PROVE  FormInv'
  <2>1. CASE ExtractChecks(r)
    <3>1. [op |-> "checked"] \in Loads
      BY DEF Loads
    <3>2. QED
      BY <1>4, <2>1, <3>1 DEF ExtractChecks
  <2>2. CASE DeleteLoads(r)
    <3>1. [op |-> "delete"] \in Loads
      BY DEF Loads
    <3>2. QED
      BY <1>4, <2>2, <3>1 DEF DeleteLoads
  <2>3. ASSUME NEW q \in questions, AnswerLoads(r, q) PROVE FormInv'
    <3>1. q.set \in Sets
      BY DEF FormInv, QuestionnairesTypeOK
    <3>2. [op |-> "answer", set |-> q.set] \in Loads
      BY <3>1 DEF Loads
    <3>3. QED
      BY <1>4, <2>3, <3>2 DEF AnswerLoads
  <2>4. ASSUME NEW status \in QuestionnaireStatus, UpdateLoads(r, status) PROVE FormInv'
    <3>1. form.status \in QuestionnaireStatus
      BY <2>4 DEF FormInv, QuestionnairesTypeOK, Forms, UpdateLoads, Reads, There
    <3>2. [op |-> "update", status |-> status, old |-> form.status] \in Loads
      BY <3>1 DEF Loads
    <3>3. QED
      BY <1>4, <2>4, <3>2 DEF UpdateLoads
  <2>5. QED
    BY <1>5, <2>1, <2>2, <2>3, <2>4
<1>6. ASSUME NEW r \in Readers, reader[r] # Resting
      PROVE  form # NoForm /\ form \in Forms /\ cutOff \in BOOLEAN /\ Resting \in Loads
             /\ Resting.op = "idle" /\ [op |-> "asking"] \in Loads /\ reader[r] \in Loads
  BY <1>6, LoadTypes DEF FormInv, QuestionnairesTypeOK, Resting, Loads
<1>7. ASSUME NEW r \in Readers, ExtractMarks(r) PROVE FormInv'
  <2>1. /\ reader' = [reader EXCEPT ![r] = [op |-> "asking"]] /\ reader[r].op = "checked"
        /\ form' = [form EXCEPT !.status = "extracting"] /\ UNCHANGED <<questions, cutOff>>
    BY <1>7 DEF ExtractMarks
  <2>2. form # NoForm /\ form \in Forms /\ cutOff \in BOOLEAN /\ [op |-> "asking"] \in Loads
    BY <1>6, <2>1 DEF Resting
  <2>3. form' \in Forms
    BY <2>1, <2>2 DEF Forms, QuestionnaireStatus
  <2>4. QED
    BY <2>1, <2>2, <2>3, QuietStep
<1>8. ASSUME NEW r \in Readers, UpdateCommits(r) PROVE FormInv'
  <2>1. /\ reader' = [reader EXCEPT ![r] = Resting] /\ reader[r].op = "update"
        /\ form' = form \/ form' = [form EXCEPT !.status = reader[r].status]
        /\ questions' = questions /\ cutOff' = (cutOff \/ reader[r].status # reader[r].old)
        /\ reader[r].status = reader[r].old => form' = form
    BY <1>8 DEF UpdateCommits, Rests
  <2>2. /\ form # NoForm /\ form \in Forms /\ Resting \in Loads /\ Resting.op = "idle"
        /\ reader[r].status \in QuestionnaireStatus /\ cutOff \in BOOLEAN
    BY <1>6, <2>1, LoadsDiffer DEF Resting
  <2>3. form' \in Forms
    BY <2>1, <2>2 DEF Forms
  <2>4. /\ cutOff' \in BOOLEAN /\ (cutOff => cutOff') /\ ~ Extracting(r)
        /\ ~ cutOff' => form' = form
    BY <2>1, <2>2 DEF Extracting
  <2>5. QED
    BY <2>1, <2>2, <2>3, <2>4, QuietStep
<1>9. ASSUME NEW r \in Readers, FormDeleted(r) PROVE FormInv'
  <2>1. /\ reader' = [reader EXCEPT ![r] = Resting] /\ reader[r].op = "delete"
        /\ form' = [form EXCEPT !.deleted = TRUE] /\ UNCHANGED <<questions, cutOff>>
    BY <1>9 DEF FormDeleted, Rests
  <2>2. form # NoForm /\ form \in Forms /\ cutOff \in BOOLEAN /\ Resting \in Loads /\ Resting.op = "idle"
    BY <1>6, <2>1 DEF Resting
  <2>3. form' \in Forms /\ form'.status = form.status
    BY <2>1, <2>2 DEF Forms
  <2>4. QED
    BY <2>1, <2>2, <2>3, QuietStep DEF Extracting
<1>10. ASSUME NEW r \in Readers, ReadingDies(r) PROVE FormInv'
  <2>1. /\ reader' = [reader EXCEPT ![r] = Resting] /\ reader[r] # Resting
        /\ cutOff' = (cutOff \/ Extracting(r)) /\ UNCHANGED <<form, questions>>
    BY <1>10 DEF ReadingDies, Rests, Extracting
  <2>2. form # NoForm /\ form \in Forms /\ cutOff \in BOOLEAN /\ Resting \in Loads /\ Resting.op = "idle"
    BY <1>6, <2>1
  <2>3. cutOff' \in BOOLEAN /\ (cutOff => cutOff') /\ (~ cutOff' => ~ Extracting(r))
    BY <2>1
  <2>4. QED
    BY <2>1, <2>2, <2>3, QuietStep
<1>11. QED
  BY <1>1, <1>2, <1>3, <1>5, <1>7, <1>8, <1>9, <1>10, DeleteStep, CommitStep, AnswerStep
     DEF QuestionnairesNext

\* As many sets of questions as there are requests at the most: each has
\* the name of one, or is the template.
LEMMA SetsAreFew ==
    ASSUME FormInv
    PROVE  Cardinality(questions) <= Cardinality(Readers)
<1>1. IsFiniteSet(Readers) /\ Cardinality(Readers) \in Nat /\ Cardinality(Readers) # 0
  BY QuestionnairesAssumption, FS_CardinalityType, FS_EmptySet
<1>2. \A q \in questions : q.set \in Readers \cup {Template}
  BY DEF FormInv, QuestionnairesTypeOK, Sets
<1>3. \A q, p \in questions : q.set = p.set => q = p
  BY DEF FormInv, SetsInOrder
<1>4. CASE Template \in Stored
  <2>1. PICK q \in questions : q.set = Template
    BY <1>4 DEF Stored
  <2>2. questions = {q}
    <3>1. \A p \in questions : p.set = Template
      BY <1>4 DEF FormInv, SetsInOrder, Stored
    <3>2. QED
      BY <1>3, <2>1, <3>1
  <2>3. QED
    BY <1>1, <2>2, FS_Singleton
<1>5. CASE Template \notin Stored
  <2> DEFINE f == [q \in questions |-> q.set]
  <2>1. f \in [questions -> Readers]
    BY <1>2, <1>5 DEF Stored
  <2>2. f \in Injection(questions, Readers)
    BY <1>3, <2>1 DEF Injection, IsInjective
  <2>3. QED
    BY <1>1, <2>2, FS_Injection
<1>6. QED
  BY <1>4, <1>5

\* Extractions end in order, and leave no more sets of questions behind
\* than there are requests at a time, however they interleave.
THEOREM ExtractionsInOrder == QuestionnairesSpec => []ExtractionInOrder
<1>1. FormInv => ExtractionInOrder
  BY SetsAreFew DEF FormInv, ExtractionInOrder, Extracting
<1>2. QED
  BY <1>1, FormInit, FormNext, PTL DEF QuestionnairesSpec

-----------------------------------------------------------------------------
(* A miner's gate *)

Entries == [caller : Callers, times : SUBSET Stamps]

\* The callers that have called at that time or later.
Since(calls, t) == {c \in Callers : calls[c] >= t}

\* c has an entry in the table that records this request.
Listed(table, c, t) == \E i \in DOMAIN table : table[i].caller = c /\ t \in table[i].times

\* The table is in the order of the last calls; every entry is within the
\* limit; and if a request that was let in is missing from its caller's entry,
\* more callers than there are places have called since.
AxonInv ==
    /\ AxonTypeOK
    /\ \A i, j \in DOMAIN request_times :
          i < j => called[request_times[i].caller] <= called[request_times[j].caller]
    /\ \A i \in DOMAIN request_times : Cardinality(request_times[i].times) <= RateMax
    /\ \A c \in Callers :
          /\ called[c] <= now
          /\ Cardinality(passed[c]) <= RateMax + 1
          /\ \A t \in passed[c] : now - RateWindow <= t[1] /\ t[1] <= called[c]
          /\ \A t \in passed[c] : Listed(request_times, c, t) \/ MaxTracked < Cardinality(Since(called, t[1]))

LEMMA AxonLimits ==
    /\ IsFiniteSet(Callers) /\ MaxTracked \in Nat \ {0}
    /\ RateMax \in Nat /\ RateWindow \in Nat /\ MaxTime \in Nat /\ MaxSyncs \in Nat
    /\ Never \in Int /\ Never < 0 /\ Never + RateWindow < 0
    /\ \A m \in Metagraphs : m \subseteq Callers
BY AxonAssumption DEF Never

LEMMA StampsAreFinite ==
    /\ IsFiniteSet(Stamps)
    /\ \A t \in Stamps : t[1] \in 0..MaxTime
    /\ \A S \in SUBSET Stamps : IsFiniteSet(S) /\ Cardinality(S) \in Nat
<1>1. IsFiniteSet(Stamps)
    <2>1. 2 * RateMax \in Int /\ MaxTime \in Int
        BY AxonLimits
    <2>2. IsFiniteSet(0..MaxTime) /\ IsFiniteSet(0..2 * RateMax)
        BY <2>1, FS_Interval
    <2> QED
        BY <2>2, FS_Product DEF Stamps
<1>2. \A t \in Stamps : t[1] \in 0..MaxTime
    BY DEF Stamps
<1> QED
    BY <1>1, <1>2, FS_Subset, FS_CardinalityType

\* There is always a number left for one more request.
LEMMA StampIsNew ==
    ASSUME NEW S \in SUBSET Stamps, Cardinality(S) <= 2 * RateMax, now \in 0..MaxTime
    PROVE  Stamp(S) \in Stamps /\ Stamp(S) \notin S /\ Stamp(S)[1] = now
<1> DEFINE N == {now} \X (0..2 * RateMax)
<1>1. \E t \in N : t \notin S
    <2>1. IsFiniteSet(0..2 * RateMax) /\ Cardinality(0..2 * RateMax) = 2 * RateMax + 1
        BY AxonLimits, FS_Interval
    <2>2. IsFiniteSet({now}) /\ Cardinality({now}) = 1
        BY FS_Singleton
    <2>3. Cardinality(N) = 1 * (2 * RateMax + 1)
        BY <2>1, <2>2, FS_Product, ZenonT(60)
    <2>4. SUFFICES ASSUME N \subseteq S PROVE FALSE
        OBVIOUS
    <2>5. Cardinality(N) <= Cardinality(S)
        BY <2>4, StampsAreFinite, FS_Subset
    <2> HIDE DEF N
    <2> QED
        BY <2>3, <2>5, AxonLimits, StampsAreFinite
<1>2. Stamp(S) \in N /\ Stamp(S) \notin S
    BY <1>1 DEF Stamp
<1> QED
    BY <1>2 DEF Stamps

\* Of one request too many, an oldest is forgotten.
LEMMA KeptIs ==
    ASSUME NEW S \in SUBSET Stamps, Cardinality(S) <= RateMax + 2
    PROVE  Kept(S) \subseteq S /\ Cardinality(Kept(S)) <= RateMax + 1
<1> DEFINE oldest == {t \in S : \A s \in S : t[1] <= s[1]}
           dropped == CHOOSE t \in oldest : \A s \in oldest : s[2] <= t[2]
<1>1. CASE Cardinality(S) <= RateMax + 1
    BY <1>1 DEF Kept
<1>2. CASE Cardinality(S) = RateMax + 2
    <2>1. Kept(S) = S \ {dropped}
        BY <1>2, AxonLimits DEF Kept
    <2>2. S # {} /\ IsFiniteSet(S)
        BY <1>2, AxonLimits, StampsAreFinite, FS_EmptySet
    <2>3. oldest # {}
        <3> DEFINE times == {t[1] : t \in S}
        <3>1. \A t \in S : t[1] \in Nat
            BY StampsAreFinite, AxonLimits
        <3>2. times \in SUBSET Nat /\ times # {}
            BY <2>2, <3>1
        <3>3. PICK n \in times : \A m \in times : n <= m
            BY <3>2, HasLeast
        <3> QED
            BY <3>3
    <2>4. dropped \in oldest
        <3> DEFINE numbers == {2 * RateMax - t[2] : t \in oldest}
        <3>1. \A t \in Stamps : t[2] \in 0..2 * RateMax /\ 2 * RateMax - t[2] \in Nat
            BY AxonLimits DEF Stamps
        <3>2. numbers \in SUBSET Nat /\ numbers # {}
            BY <2>3, <3>1
        <3>3. PICK n \in numbers : \A m \in numbers : n <= m
            BY <3>2, HasLeast
        <3>4. PICK t \in oldest : n = 2 * RateMax - t[2]
            OBVIOUS
        <3>5. \A s \in oldest : s[2] <= t[2]
            <4> SUFFICES ASSUME NEW s \in oldest PROVE s[2] <= t[2]
                OBVIOUS
            <4>1. 2 * RateMax - t[2] <= 2 * RateMax - s[2]
                BY <3>3, <3>4
            <4> QED
                BY <3>1, <4>1, AxonLimits
        <3> HIDE DEF oldest
        <3> QED
            BY <3>5
    <2> HIDE DEF dropped
    <2>5. Cardinality(S \ {dropped}) = Cardinality(S) - 1
        BY <2>2, <2>4, FS_RemoveElement
    <2> QED
        BY <1>2, <2>1, <2>5, AxonLimits
<1> QED
    BY <1>1, <1>2, AxonLimits, StampsAreFinite

LEMMA PlaceIs ==
    ASSUME NEW c, Tracked(c) # {}
    PROVE  Place(c) \in DOMAIN request_times /\ request_times[Place(c)].caller = c
BY DEF Place, Tracked

\* What the other entries are: c's is not among them, there is room for one
\* more, they are in their order, and none is missing but the first when c
\* takes its place.
LEMMA OthersAre ==
    ASSUME AxonTypeOK, NEW c \in Callers
    PROVE  /\ Others(c) \in Seq(Entries) /\ Len(Others(c)) \in Nat
           /\ Len(Others(c)) < MaxTracked
           /\ \A i \in DOMAIN Others(c) : Others(c)[i].caller # c
           /\ \A i, j \in DOMAIN Others(c) :
                 \E k, l \in DOMAIN request_times :
                    /\ Others(c)[i] = request_times[k] /\ Others(c)[j] = request_times[l]
                    /\ i < j <=> k < l
           /\ \A k \in DOMAIN request_times :
                 \/ request_times[k].caller = c
                 \/ \E i \in DOMAIN Others(c) : Others(c)[i] = request_times[k]
                 \/ k = 1 /\ Len(request_times) = MaxTracked /\ Tracked(c) = {}
<1> DEFINE T == request_times
           O == Others(c)
<1>1. /\ T \in Seq(Entries) /\ Len(T) \in Nat /\ DOMAIN T = 1..Len(T)
      /\ Len(T) <= MaxTracked
      /\ \A i, j \in DOMAIN T : T[i].caller = T[j].caller => i = j
      /\ MaxTracked \in Nat \ {0}
    BY AxonLimits DEF AxonTypeOK, Entries
<1>2. CASE Tracked(c) # {}
    <2> DEFINE p == Place(c)
    <2>1. p \in 1..Len(T) /\ T[p].caller = c
        BY <1>1, <1>2, PlaceIs
    <2>2. O = SubSeq(T, 1, p - 1) \o SubSeq(T, p + 1, Len(T))
        BY <1>2 DEF Others, RemoveAt
    <2> HIDE DEF T, p, O
    <2>3. /\ SubSeq(T, 1, p - 1) \in Seq(Entries) /\ Len(SubSeq(T, 1, p - 1)) = p - 1
          /\ \A i \in 1..p - 1 : SubSeq(T, 1, p - 1)[i] = T[i]
        BY <1>1, <2>1, SubSeqProperties
    <2>4. /\ SubSeq(T, p + 1, Len(T)) \in Seq(Entries) /\ Len(SubSeq(T, p + 1, Len(T))) = Len(T) - p
          /\ \A i \in 1..Len(T) - p : SubSeq(T, p + 1, Len(T))[i] = T[p + i]
        <3>1. PICK n \in Nat : n = Len(T)
            BY <1>1
        <3>2. p \in 1..n
            BY <2>1, <3>1
        <3>3. p + 1 \in Int /\ (p + 1 <= n \/ n - p = 0) /\ n - (p + 1) + 1 = n - p
            BY <3>2
        <3>4. \A i \in p + 1..n : T[i] \in Entries
            <4>1. \A i \in 1..n : T[i] \in Entries
                BY <1>1, <3>1, ElementOfSeq
            <4> QED
                BY <3>2, <4>1
        <3>5. /\ SubSeq(T, p + 1, n) \in Seq(Entries)
              /\ Len(SubSeq(T, p + 1, n)) = IF p + 1 <= n THEN n - (p + 1) + 1 ELSE 0
              /\ \A i \in 1..n - (p + 1) + 1 : SubSeq(T, p + 1, n)[i] = T[p + 1 + i - 1]
            BY <3>3, <3>4, SubSeqProperties
        <3>6. \A i \in 1..n - p : p + 1 + i - 1 = p + i
            BY <3>2
        <3> QED
            BY <3>1, <3>3, <3>5, <3>6, SMTT(40)
    <2>5. /\ O \in Seq(Entries) /\ Len(O) = Len(T) - 1
          /\ \A i \in 1..Len(T) - 1 : O[i] = IF i < p THEN T[i] ELSE T[i + 1]
        <3>1. /\ O \in Seq(Entries) /\ Len(O) = (p - 1) + (Len(T) - p)
              /\ \A i \in 1..(p - 1) + (Len(T) - p) :
                    O[i] = IF i <= p - 1 THEN SubSeq(T, 1, p - 1)[i] ELSE SubSeq(T, p + 1, Len(T))[i - (p - 1)]
            BY <2>2, <2>3, <2>4, ConcatProperties, SMTT(40)
        <3>2. ASSUME NEW i \in 1..Len(T) - 1
              PROVE  O[i] = IF i < p THEN T[i] ELSE T[i + 1]
            <4>1. CASE i < p
                BY <1>1, <2>1, <2>3, <3>1, <4>1
            <4>2. CASE ~ (i < p)
                <5>1. i - (p - 1) \in 1..Len(T) - p /\ p + (i - (p - 1)) = i + 1
                    BY <1>1, <2>1, <4>2
                <5>2. O[i] = SubSeq(T, p + 1, Len(T))[i - (p - 1)]
                    BY <1>1, <2>1, <3>1, <4>2
                <5> QED
                    BY <2>4, <4>2, <5>1, <5>2
            <4> QED
                BY <4>1, <4>2
        <3> QED
            BY <1>1, <2>1, <3>1, <3>2
    <2> DEFINE At(i) == IF i < p THEN i ELSE i + 1
    <2>6. DOMAIN O = 1..Len(T) - 1
        BY <1>1, <2>1, <2>5, LenProperties
    <2>7. \A i \in DOMAIN O : At(i) \in DOMAIN T /\ O[i] = T[At(i)] /\ At(i) # p
        BY <1>1, <2>1, <2>5, <2>6
    <2>8. \A i, j \in DOMAIN O : i < j <=> At(i) < At(j)
        BY <1>1, <2>1, <2>6
    <2>9. \A k \in DOMAIN T : k = p \/ \E i \in DOMAIN O : At(i) = k
        <3> SUFFICES ASSUME NEW k \in DOMAIN T, k # p
                     PROVE  \E i \in DOMAIN O : At(i) = k
            OBVIOUS
        <3>1. CASE k < p
            BY <1>1, <2>1, <2>6, <3>1
        <3>2. CASE k > p
            <4>1. k - 1 \in DOMAIN O /\ At(k - 1) = k
                BY <1>1, <2>1, <2>6, <3>2
            <4> QED
                BY <4>1
        <3> QED
            BY <1>1, <2>1, <3>1, <3>2
    <2> HIDE DEF At
    <2>10. \A i \in DOMAIN O : O[i].caller # c
        BY <1>1, <2>1, <2>7
    <2>11. \A k \in DOMAIN T : T[k].caller = c \/ \E i \in DOMAIN O : O[i] = T[k]
        BY <2>1, <2>7, <2>9
    <2>12. \A i, j \in DOMAIN O : \E k, l \in DOMAIN T : O[i] = T[k] /\ O[j] = T[l] /\ (i < j <=> k < l)
        BY <2>7, <2>8
    <2>13. Len(O) \in Nat /\ Len(O) < MaxTracked
        BY <1>1, <2>1, <2>5, SMTT(40)
    <2> USE DEF T, O
    <2> QED
        BY <2>5, <2>10, <2>11, <2>12, <2>13
<1>3. CASE Tracked(c) = {} /\ Len(T) < MaxTracked
    <2>1. O = T
        BY <1>3 DEF Others
    <2>2. \A i \in DOMAIN T : T[i].caller # c
        BY <1>3 DEF Tracked
    <2> QED
        BY <1>1, <1>3, <2>1, <2>2
<1>4. CASE Tracked(c) = {} /\ Len(T) = MaxTracked
    <2>1. O = Tail(T)
        BY <1>4 DEF Others
    <2>2. \A i \in DOMAIN T : T[i].caller # c
        BY <1>4 DEF Tracked
    <2> HIDE DEF T, O
    <2>3. T # <<>>
        BY <1>1, <1>4
    <2>4. /\ O \in Seq(Entries) /\ Len(O) = Len(T) - 1
          /\ \A i \in 1..Len(O) : O[i] = T[i + 1]
        BY <1>1, <2>1, <2>3, HeadTailProperties
    <2>5. DOMAIN O = 1..Len(T) - 1
        BY <2>4, LenProperties
    <2>6. \A i \in DOMAIN O : i + 1 \in DOMAIN T /\ O[i] = T[i + 1]
        BY <1>1, <2>4, <2>5
    <2>7. \A i \in DOMAIN O : O[i].caller # c
        BY <2>2, <2>6
    <2>8. ASSUME NEW i \in DOMAIN O, NEW j \in DOMAIN O
          PROVE  \E k, l \in DOMAIN T : O[i] = T[k] /\ O[j] = T[l] /\ (i < j <=> k < l)
        <3>1. i + 1 \in DOMAIN T /\ j + 1 \in DOMAIN T /\ (i < j <=> i + 1 < j + 1)
            BY <1>1, <2>5, <2>6
        <3> QED
            BY <2>6, <3>1
    <2>9. ASSUME NEW k \in DOMAIN T, k # 1
          PROVE  \E i \in DOMAIN O : O[i] = T[k]
        <3>1. k - 1 \in DOMAIN O /\ (k - 1) + 1 = k
            BY <1>1, <2>5, <2>9
        <3> QED
            BY <2>6, <3>1
    <2>10. Len(O) \in Nat /\ Len(O) < MaxTracked
        BY <1>1, <1>4, <2>4
    <2> USE DEF T, O
    <2> QED
        BY <1>4, <2>4, <2>7, <2>8, <2>9, <2>10
<1>5. Len(T) < MaxTracked \/ Len(T) = MaxTracked
    <2>1. Len(T) \in Nat /\ Len(T) <= MaxTracked /\ MaxTracked \in Nat
        BY <1>1
    <2> QED
        BY <2>1
<1> QED
    BY <1>2, <1>3, <1>4, <1>5

LEMMA CrowdIsFinite ==
    ASSUME NEW calls, NEW t
    PROVE  IsFiniteSet(Since(calls, t)) /\ Cardinality(Since(calls, t)) \in Nat
<1>1. Since(calls, t) \subseteq Callers
    BY DEF Since
<1> QED
    BY <1>1, AxonLimits, FS_Subset, FS_CardinalityType

LEMMA AxonInvInit == AxonInit => AxonInv
<1> SUFFICES ASSUME AxonInit PROVE AxonInv
    OBVIOUS
<1>1. AxonTypeOK
    BY AxonLimits DEF AxonInit, AxonTypeOK
<1>2. request_times = <<>> /\ DOMAIN request_times = {} /\ now = 0
    BY DEF AxonInit
<1>3. \A c \in Callers : called[c] = Never /\ passed[c] = {}
    BY DEF AxonInit
<1>4. Cardinality({}) = 0
    BY FS_EmptySet
<1>5. Never <= 0 /\ 0 <= RateMax + 1
    BY AxonLimits
<1>6. \A c \in Callers : called[c] <= now /\ Cardinality(passed[c]) <= RateMax + 1
    BY <1>2, <1>3, <1>4, <1>5
<1> QED
    BY <1>1, <1>2, <1>3, <1>6 DEF AxonInv

\* What a request writes.
LEMMA BlacklistWrites ==
    ASSUME AxonInv, NEW c \in Callers, Blacklist(c)
    PROVE  \E nt, np \in SUBSET Stamps :
              /\ request_times' = Append(Others(c), [caller |-> c, times |-> nt])
              /\ passed' = [passed EXCEPT ![c] = np]
              /\ called' = [called EXCEPT ![c] = now]
              /\ UNCHANGED <<serving, permits, syncs, now>>
              /\ Cardinality(nt) <= RateMax /\ Cardinality(np) <= RateMax + 1
              /\ Recent(TimesOf(c)) \subseteq nt
              /\ \A t \in np : t \in passed[c] \/ (t \in nt /\ t[1] = now)
<1> DEFINE times == Recent(TimesOf(c))
           this == Stamp(times \cup passed[c])
<1>1. /\ now \in 0..MaxTime /\ passed[c] \in SUBSET Stamps
      /\ request_times \in Seq(Entries)
      /\ Cardinality(passed[c]) <= RateMax + 1
    BY DEF AxonInv, AxonTypeOK, Entries
<1>2. TimesOf(c) \in SUBSET Stamps /\ Cardinality(TimesOf(c)) <= RateMax
    <2>1. CASE Tracked(c) = {}
        BY <2>1, FS_EmptySet, AxonLimits DEF TimesOf
    <2>2. CASE Tracked(c) # {}
        <3>1. Place(c) \in DOMAIN request_times /\ TimesOf(c) = request_times[Place(c)].times
            BY <2>2, PlaceIs DEF TimesOf
        <3>2. request_times[Place(c)] \in Entries
            BY <1>1, <3>1
        <3>3. Cardinality(request_times[Place(c)].times) <= RateMax
            BY <3>1 DEF AxonInv
        <3> QED
            BY <3>1, <3>2, <3>3 DEF Entries
    <2> QED
        BY <2>1, <2>2
<1>3. times \subseteq TimesOf(c)
    BY DEF Recent, Within
<1>4. /\ IsFiniteSet(times) /\ IsFiniteSet(passed[c])
      /\ Cardinality(times) \in Nat /\ Cardinality(passed[c]) \in Nat
      /\ Cardinality(times) <= RateMax
    <2>1. Cardinality(times) <= Cardinality(TimesOf(c))
        BY <1>2, <1>3, StampsAreFinite, FS_Subset
    <2> HIDE DEF times
    <2> QED
        BY <1>1, <1>2, <1>3, <2>1, StampsAreFinite, AxonLimits
<1>5. /\ request_times' = Append(Others(c), [caller |-> c, times |-> IF Cardinality(times) < RateMax THEN times \cup {this} ELSE times])
      /\ passed' = [passed EXCEPT ![c] = IF Cardinality(times) < RateMax THEN Kept(passed[c] \cup {this}) ELSE passed[c]]
      /\ called' = [called EXCEPT ![c] = now]
      /\ UNCHANGED <<serving, permits, syncs, now>>
    BY DEF Blacklist, Touch
<1>6. CASE Cardinality(times) < RateMax
    <2> DEFINE nt == times \cup {this}
               np == Kept(passed[c] \cup {this})
    <2>1. Cardinality(times \cup passed[c]) <= 2 * RateMax
        <3>1. /\ Cardinality(times \cup passed[c]) = Cardinality(times) + Cardinality(passed[c]) - Cardinality(times \cap passed[c])
              /\ Cardinality(times \cap passed[c]) \in Nat
            BY <1>4, FS_Union, FS_Intersection, FS_CardinalityType
        <3> HIDE DEF times
        <3> QED
            BY <1>1, <1>4, <1>6, <3>1, AxonLimits
    <2>2. this \in Stamps /\ this \notin times \cup passed[c] /\ this[1] = now
        BY <1>1, <1>2, <1>3, <2>1, StampIsNew
    <2> HIDE DEF this, times
    <2>3. Cardinality(nt) = Cardinality(times) + 1 /\ Cardinality(passed[c] \cup {this}) = Cardinality(passed[c]) + 1
        BY <1>4, <2>2, FS_AddElement
    <2>4. nt \in SUBSET Stamps /\ passed[c] \cup {this} \in SUBSET Stamps
        BY <1>1, <1>2, <1>3, <2>2
    <2>5. Cardinality(nt) <= RateMax /\ Cardinality(passed[c] \cup {this}) <= RateMax + 2
        BY <1>1, <1>4, <1>6, <2>3, AxonLimits
    <2>6. np \subseteq passed[c] \cup {this} /\ Cardinality(np) <= RateMax + 1
        BY <2>4, <2>5, KeptIs
    <2>7. request_times' = Append(Others(c), [caller |-> c, times |-> nt]) /\ passed' = [passed EXCEPT ![c] = np]
        BY <1>5, <1>6
    <2>8. times \subseteq nt /\ \A t \in np : t \in passed[c] \/ (t \in nt /\ t[1] = now)
        BY <2>2, <2>6
    <2>9. np \in SUBSET Stamps
        BY <2>4, <2>6
    <2> HIDE DEF nt, np
    <2>10. Recent(TimesOf(c)) \subseteq nt
        BY <2>8 DEF times
    <2> QED
        BY <1>5, <2>4, <2>5, <2>6, <2>7, <2>8, <2>9, <2>10
<1>7. CASE ~ (Cardinality(times) < RateMax)
    <2>1. request_times' = Append(Others(c), [caller |-> c, times |-> times]) /\ passed' = [passed EXCEPT ![c] = passed[c]]
        BY <1>5, <1>7
    <2>2. times \in SUBSET Stamps /\ Recent(TimesOf(c)) \subseteq times
        BY <1>2, <1>3
    <2> HIDE DEF times
    <2> QED
        BY <1>1, <1>4, <1>5, <2>1, <2>2
<1> QED
    BY <1>6, <1>7

\* When the entry of d makes place for c's, all the callers in the table have
\* called since d has.
LEMMA CrowdEvicts ==
    ASSUME AxonInv, NEW c \in Callers, Tracked(c) = {}, Len(request_times) = MaxTracked,
           NEW calls, calls = [called EXCEPT ![c] = now],
           NEW t \in Int, t <= called[request_times[1].caller]
    PROVE  MaxTracked < Cardinality(Since(calls, t))
<1> DEFINE T == request_times
           f == [i \in 1..MaxTracked + 1 |-> IF i <= MaxTracked THEN T[i].caller ELSE c]
<1>1. /\ DOMAIN T = 1..MaxTracked /\ MaxTracked \in Nat \ {0}
      /\ \A i \in 1..MaxTracked : T[i].caller \in Callers /\ T[i].caller # c
      /\ \A i, j \in 1..MaxTracked : T[i].caller = T[j].caller => i = j
      /\ \A i \in 1..MaxTracked : called[T[1].caller] <= called[T[i].caller]
      /\ called \in [Callers -> Int] /\ now \in Int /\ \A d \in Callers : called[d] <= now
    <2>1. T \in Seq(Entries) /\ DOMAIN T = 1..MaxTracked /\ MaxTracked \in Nat \ {0}
        BY AxonLimits DEF AxonInv, AxonTypeOK, Entries
    <2>2. ASSUME NEW i \in 1..MaxTracked
          PROVE  T[i].caller \in Callers /\ T[i].caller # c
        <3>1. T[i] \in Entries
            BY <2>1
        <3>2. i \in DOMAIN request_times
            BY <2>1
        <3> QED
            BY <3>1, <3>2 DEF Tracked, Entries
    <2>3. called \in [Callers -> Int] /\ now \in Int /\ \A d \in Callers : called[d] <= now
        BY AxonLimits DEF AxonInv, AxonTypeOK
    <2>4. ASSUME NEW i \in 1..MaxTracked
          PROVE  called[T[1].caller] <= called[T[i].caller]
        <3>1. CASE i = 1
            BY <2>1, <2>2, <2>3, <3>1
        <3>2. CASE i # 1
            BY <2>1, <3>2 DEF AxonInv
        <3> QED
            BY <3>1, <3>2
    <2> QED
        BY <2>1, <2>2, <2>3, <2>4 DEF AxonInv, AxonTypeOK
<1> HIDE DEF T
<1>2. t <= called[T[1].caller]
    BY DEF T
<1>3. \A i \in 1..MaxTracked : T[i].caller \in Since(calls, t)
    BY <1>1, <1>2 DEF Since
<1>4. c \in Since(calls, t)
    <2>1. called[T[1].caller] <= now /\ called[T[1].caller] \in Int
        BY <1>1
    <2>2. t <= now
        BY <1>1, <1>2, <2>1
    <2> QED
        BY <1>1, <2>2 DEF Since
<1>5. f \in [1..MaxTracked + 1 -> Since(calls, t)]
    <2>1. ASSUME NEW i \in 1..MaxTracked + 1
          PROVE  (IF i <= MaxTracked THEN T[i].caller ELSE c) \in Since(calls, t)
        <3>1. CASE i <= MaxTracked
            <4>1. i \in 1..MaxTracked
                BY <1>1, <3>1
            <4>2. T[i].caller \in Since(calls, t)
                BY <1>3, <4>1
            <4> QED
                BY <3>1, <4>2
        <3>2. CASE ~ (i <= MaxTracked)
            BY <1>4, <3>2
        <3> QED
            BY <3>1, <3>2
    <2> QED
        BY <2>1
<1>6. ASSUME NEW i \in 1..MaxTracked + 1, NEW j \in 1..MaxTracked + 1, f[i] = f[j]
      PROVE  i = j
    BY <1>1, <1>6
<1>7. f \in Injection(1..MaxTracked + 1, Since(calls, t))
    BY <1>5, <1>6 DEF Injection, IsInjective
<1> HIDE DEF f
<1>8. Cardinality(1..MaxTracked + 1) <= Cardinality(Since(calls, t))
    BY <1>7, CrowdIsFinite, FS_Injection
<1>9. Cardinality(1..MaxTracked + 1) = MaxTracked + 1
    <2>1. MaxTracked + 1 \in Int /\ 1 <= MaxTracked + 1 /\ MaxTracked + 1 - 1 + 1 = MaxTracked + 1
        BY <1>1
    <2> QED
        BY <2>1, FS_Interval
<1> QED
    BY <1>1, <1>8, <1>9, CrowdIsFinite

LEMMA BlacklistKeeps ==
    ASSUME AxonInv, NEW c \in Callers, Blacklist(c)
    PROVE  AxonInv'
<1>1. PICK nt, np \in SUBSET Stamps :
          /\ request_times' = Append(Others(c), [caller |-> c, times |-> nt])
          /\ passed' = [passed EXCEPT ![c] = np]
          /\ called' = [called EXCEPT ![c] = now]
          /\ UNCHANGED <<serving, permits, syncs, now>>
          /\ Cardinality(nt) <= RateMax /\ Cardinality(np) <= RateMax + 1
          /\ Recent(TimesOf(c)) \subseteq nt
          /\ \A t \in np : t \in passed[c] \/ (t \in nt /\ t[1] = now)
    BY BlacklistWrites
<1> DEFINE T == request_times
           O == Others(c)
           e == [caller |-> c, times |-> nt]
           n == Len(O) + 1
           U == Append(O, e)
<1>2. /\ AxonTypeOK
      /\ T \in Seq(Entries) /\ now \in 0..MaxTime /\ now \in Int
      /\ called \in [Callers -> Int] /\ passed \in [Callers -> SUBSET Stamps]
    BY AxonLimits DEF AxonInv, AxonTypeOK, Entries
<1>3. /\ O \in Seq(Entries) /\ Len(O) \in Nat /\ Len(O) < MaxTracked
      /\ \A i \in DOMAIN O : O[i].caller # c
      /\ \A i, j \in DOMAIN O : \E k, l \in DOMAIN T : O[i] = T[k] /\ O[j] = T[l] /\ (i < j <=> k < l)
      /\ \A k \in DOMAIN T : \/ T[k].caller = c
                             \/ \E i \in DOMAIN O : O[i] = T[k]
                             \/ k = 1 /\ Len(T) = MaxTracked /\ Tracked(c) = {}
    BY <1>2, OthersAre
<1>4. e \in Entries /\ e.caller = c /\ e.times = nt
    BY DEF Entries
<1>5. request_times' = U
    BY <1>1
<1> HIDE DEF e, O
<1>6. /\ U \in Seq(Entries) /\ Len(U) = n /\ DOMAIN U = 1..n /\ n \in 1..MaxTracked
      /\ U[n] = e
      /\ DOMAIN O = 1..n - 1 /\ \A i \in DOMAIN O : U[i] = O[i]
    <2>1. /\ U \in Seq(Entries) /\ Len(U) = Len(O) + 1 /\ U[Len(O) + 1] = e
          /\ \A i \in 1..Len(O) : U[i] = O[i]
        BY <1>3, <1>4, AppendProperties
    <2>2. DOMAIN U = 1..Len(U) /\ DOMAIN O = 1..Len(O)
        BY <1>3, <2>1, LenProperties
    <2>3. n \in 1..MaxTracked /\ n - 1 = Len(O)
        BY <1>3, AxonLimits
    <2> HIDE DEF U
    <2> QED
        BY <2>1, <2>2, <2>3
<1> HIDE DEF U, n
<1>7. \A i \in DOMAIN U : i = n \/ i \in DOMAIN O
    BY <1>6
<1>8. \A d \in Callers : called'[d] = IF d = c THEN now ELSE called[d]
    BY <1>1, <1>2
<1>9. \A d \in Callers : passed'[d] = IF d = c THEN np ELSE passed[d]
    BY <1>1, <1>2
<1>10. \A i \in DOMAIN O : O[i].caller \in Callers /\ called'[O[i].caller] = called[O[i].caller]
    <2>1. \A i \in DOMAIN O : O[i] \in Entries
        BY <1>3
    <2> QED
        BY <1>3, <1>8, <2>1 DEF Entries
<1>11. AxonTypeOK'
    <2>1. \A i, j \in DOMAIN U : U[i].caller = U[j].caller => i = j
        <3> SUFFICES ASSUME NEW i \in DOMAIN U, NEW j \in DOMAIN U, U[i].caller = U[j].caller
                     PROVE  i = j
            OBVIOUS
        <3>1. CASE i = n \/ j = n
            BY <1>3, <1>4, <1>6, <1>7, <3>1
        <3>2. CASE i \in DOMAIN O /\ j \in DOMAIN O
            <4>1. PICK k, l \in DOMAIN T : O[i] = T[k] /\ O[j] = T[l] /\ (i < j <=> k < l)
                BY <1>3, <3>2
            <4>2. PICK p, q \in DOMAIN T : O[j] = T[p] /\ O[i] = T[q] /\ (j < i <=> p < q)
                BY <1>3, <3>2
            <4>3. k = l /\ p = q
                BY <1>2, <1>6, <3>2, <4>1, <4>2 DEF AxonTypeOK
            <4>4. ~ (i < j) /\ ~ (j < i)
                <5>1. \A x \in DOMAIN T : x \in Nat
                    BY <1>2
                <5> QED
                    BY <4>1, <4>2, <4>3, <5>1
            <4>5. i \in Int /\ j \in Int
                BY <1>3, <3>2
            <4> QED
                BY <4>4, <4>5
        <3> QED
            BY <1>7, <3>1, <3>2
    <2>2. called' \in [Callers -> 0..MaxTime \cup {Never}]
        BY <1>1, <1>2 DEF AxonTypeOK
    <2>3. passed' \in [Callers -> SUBSET Stamps]
        BY <1>1, <1>2
    <2>4. request_times' \in Seq([caller : Callers, times : SUBSET Stamps]) /\ Len(request_times') <= MaxTracked
        BY <1>5, <1>6, AxonLimits DEF Entries
    <2> QED
        BY <1>1, <1>2, <1>5, <2>1, <2>2, <2>3, <2>4 DEF AxonTypeOK
<1>12. ASSUME NEW i \in DOMAIN U, NEW j \in DOMAIN U, i < j
       PROVE  called'[U[i].caller] <= called'[U[j].caller]
    <2>1. i \in DOMAIN O
        BY <1>6, <1>7, <1>12
    <2>2. CASE j = n
        <3>1. called'[U[j].caller] = now
            BY <1>4, <1>6, <1>8, <2>2
        <3>2. called'[U[i].caller] <= now
            BY <1>6, <1>10, <2>1 DEF AxonInv
        <3> QED
            BY <3>1, <3>2
    <2>3. CASE j \in DOMAIN O
        <3>1. PICK k, l \in DOMAIN T : O[i] = T[k] /\ O[j] = T[l] /\ k < l
            BY <1>3, <1>12, <2>1, <2>3
        <3>2. called[T[k].caller] <= called[T[l].caller]
            BY <3>1 DEF AxonInv
        <3> QED
            BY <1>6, <1>10, <2>1, <2>3, <3>1, <3>2
    <2> QED
        BY <1>7, <2>2, <2>3
<1>13. ASSUME NEW i \in DOMAIN U
       PROVE  Cardinality(U[i].times) <= RateMax
    <2>1. CASE i = n
        BY <1>1, <1>4, <1>6, <2>1
    <2>2. CASE i \in DOMAIN O
        <3>1. PICK k \in DOMAIN T : O[i] = T[k]
            BY <1>3, <2>2
        <3> QED
            BY <1>6, <2>2, <3>1 DEF AxonInv
    <2> QED
        BY <1>7, <2>1, <2>2
<1>14. ASSUME NEW d \in Callers
       PROVE  called'[d] <= now' /\ Cardinality(passed'[d]) <= RateMax + 1
    <2>1. called[d] <= now /\ Cardinality(passed[d]) <= RateMax + 1
        BY DEF AxonInv
    <2> QED
        BY <1>1, <1>2, <1>8, <1>9, <2>1
<1>15. ASSUME NEW d \in Callers, NEW t \in passed'[d]
       PROVE  /\ t \in Stamps /\ t[1] \in Int
              /\ now' - RateWindow <= t[1] /\ t[1] <= called'[d]
              /\ t \in passed[d] \/ (d = c /\ t \in nt)
    <2>1. t \in Stamps /\ t[1] \in Int
        <3>1. t \in Stamps
            BY <1>2, <1>9, <1>15
        <3> QED
            BY <3>1, StampsAreFinite, AxonLimits
    <2>2. CASE t \in passed[d]
        <3>1. now - RateWindow <= t[1] /\ t[1] <= called[d] /\ called[d] <= now
            BY <2>2 DEF AxonInv
        <3> QED
            BY <1>1, <1>2, <1>8, <2>1, <2>2, <3>1
    <2>3. CASE t \notin passed[d]
        <3>1. d = c /\ t \in nt /\ t[1] = now
            BY <1>1, <1>9, <1>15, <2>3
        <3> QED
            BY <1>1, <1>2, <1>8, <2>1, <3>1, AxonLimits
    <2> QED
        BY <2>2, <2>3
<1>16. ASSUME NEW d \in Callers, NEW t \in passed'[d]
       PROVE  Listed(U, d, t) \/ MaxTracked < Cardinality(Since(called', t[1]))
    <2>1. ASSUME t \in passed[d], MaxTracked < Cardinality(Since(called, t[1]))
          PROVE  MaxTracked < Cardinality(Since(called', t[1]))
        <3>1. t[1] <= now /\ t[1] \in Int
            <4>1. t[1] <= called[d] /\ called[d] <= now
                BY <2>1 DEF AxonInv
            <4> QED
                BY <1>2, <1>15, <1>16, <4>1
        <3>2. Since(called, t[1]) \subseteq Since(called', t[1])
            BY <1>2, <1>8, <3>1 DEF Since
        <3>3. Cardinality(Since(called, t[1])) <= Cardinality(Since(called', t[1]))
            BY <3>2, CrowdIsFinite, FS_Subset
        <3> QED
            BY <2>1, <3>3, CrowdIsFinite, AxonLimits
    <2>2. CASE d = c /\ t \in nt
        <3>1. n \in DOMAIN U
            BY <1>6
        <3> QED
            BY <1>4, <1>6, <2>2, <3>1 DEF Listed
    <2>3. CASE d = c /\ t \notin nt
        <3>1. t \in passed[c]
            BY <1>15, <1>16, <2>3
        <3>2. t[1] >= now - RateWindow
            BY <1>1, <1>2, <1>15, <1>16, AxonLimits
        <3>3. t \notin TimesOf(c)
            BY <1>1, <2>3, <3>2 DEF Recent, Within
        <3>4. ~ Listed(T, c, t)
            BY <1>2, <3>3, PlaceIs DEF Listed, TimesOf, Tracked, AxonTypeOK
        <3> QED
            BY <2>1, <2>3, <3>1, <3>4 DEF AxonInv
    <2>4. CASE d # c
        <3>1. t \in passed[d]
            BY <1>15, <1>16, <2>4
        <3>2. CASE MaxTracked < Cardinality(Since(called, t[1]))
            BY <2>1, <3>1, <3>2
        <3>3. CASE Listed(T, d, t)
            <4>1. PICK k \in DOMAIN T : T[k].caller = d /\ t \in T[k].times
                BY <3>3 DEF Listed
            <4>2. CASE \E i \in DOMAIN O : O[i] = T[k]
                <5>1. PICK i \in DOMAIN O : O[i] = T[k]
                    BY <4>2
                <5>2. i \in DOMAIN U /\ U[i] = T[k]
                    BY <1>3, <1>6, <5>1
                <5> QED
                    BY <4>1, <5>2 DEF Listed
            <4>3. CASE k = 1 /\ Len(T) = MaxTracked /\ Tracked(c) = {}
                <5>1. t[1] \in Int /\ t[1] <= called[request_times[1].caller]
                    BY <1>15, <1>16, <3>1, <4>1, <4>3 DEF AxonInv
                <5> QED
                    BY <1>1, <4>3, <5>1, CrowdEvicts
            <4> QED
                BY <1>3, <2>4, <4>1, <4>2, <4>3
        <3> QED
            BY <3>1, <3>2, <3>3 DEF AxonInv
    <2> QED
        BY <2>2, <2>3, <2>4
<1> QED
    BY <1>5, <1>11, <1>12, <1>13, <1>14, <1>15, <1>16 DEF AxonInv

LEMMA TickKeeps ==
    ASSUME AxonInv, Tick
    PROVE  AxonInv'
<1>1. /\ now \in Int /\ now' = now + 1 /\ now' \in 0..MaxTime
      /\ called \in [Callers -> Int] /\ passed \in [Callers -> SUBSET Stamps]
      /\ UNCHANGED <<serving, permits, syncs, request_times>>
      /\ AxonTypeOK
    BY AxonLimits DEF AxonInv, AxonTypeOK, Tick
<1>2. \A c \in Callers : called'[c] = IF called[c] < now + 1 - RateWindow THEN Never ELSE called[c]
    BY DEF Tick
<1>3. \A c \in Callers : \A t : t \in passed'[c] <=> t \in passed[c] /\ t[1] >= (now + 1) - RateWindow
    <2>1. \A c \in Callers : passed'[c] = Within(passed[c], now + 1)
        BY DEF Tick
    <2> QED
        BY <2>1 DEF Within
<1>4. AxonTypeOK'
    <2>1. called' \in [Callers -> 0..MaxTime \cup {Never}]
        BY <1>1 DEF Tick, AxonTypeOK
    <2>2. passed' \in [Callers -> SUBSET Stamps]
        BY <1>1 DEF Tick, Within
    <2> QED
        BY <1>1, <2>1, <2>2 DEF AxonTypeOK
<1>5. ASSUME NEW c \in Callers, NEW d \in Callers, called[c] <= called[d]
      PROVE  called'[c] <= called'[d]
    <2>1. Never <= called[c]
        <3>1. called[c] \in 0..MaxTime \cup {Never}
            BY <1>1 DEF AxonTypeOK
        <3> QED
            BY <3>1, AxonLimits
    <2>2. called[c] \in Int /\ called[d] \in Int /\ Never \in Int /\ RateWindow \in Int
        BY <1>1, AxonLimits
    <2>3. called'[c] = IF called[c] < now + 1 - RateWindow THEN Never ELSE called[c]
        BY <1>2
    <2>4. called'[d] = IF called[d] < now + 1 - RateWindow THEN Never ELSE called[d]
        BY <1>2
    <2> QED
        BY <1>1, <1>5, <2>1, <2>2, <2>3, <2>4
<1>6. \A i \in DOMAIN request_times : request_times[i].caller \in Callers
    <2>1. request_times \in Seq(Entries)
        BY <1>1 DEF AxonTypeOK, Entries
    <2>2. \A i \in DOMAIN request_times : request_times[i] \in Entries
        BY <2>1
    <2> QED
        BY <2>2 DEF Entries
<1>7. ASSUME NEW c \in Callers
      PROVE  called'[c] <= now' /\ Cardinality(passed'[c]) <= RateMax + 1
    <2>1. called[c] <= now /\ Cardinality(passed[c]) <= RateMax + 1
        BY DEF AxonInv
    <2>2. called'[c] <= now'
        BY <1>1, <1>2, <2>1, AxonLimits
    <2>3. passed'[c] \subseteq passed[c] /\ passed[c] \in SUBSET Stamps
        BY <1>1, <1>3
    <2>4. Cardinality(passed'[c]) <= Cardinality(passed[c])
        BY <2>3, StampsAreFinite, FS_Subset
    <2> QED
        BY <2>1, <2>2, <2>3, <2>4, StampsAreFinite, AxonLimits
<1>8. ASSUME NEW c \in Callers, NEW t \in passed'[c]
      PROVE  /\ now' - RateWindow <= t[1] /\ t[1] <= called'[c]
             /\ Listed(request_times, c, t) \/ MaxTracked < Cardinality(Since(called', t[1]))
    <2>1. t \in passed[c] /\ t[1] >= (now + 1) - RateWindow /\ t \in Stamps /\ t[1] \in Int
        <3>1. t \in passed[c] /\ t[1] >= (now + 1) - RateWindow /\ t \in Stamps
            BY <1>1, <1>3, <1>8
        <3> QED
            BY <3>1, StampsAreFinite, AxonLimits
    <2>2. t[1] <= called[c]
        BY <2>1 DEF AxonInv
    <2>3. \A d \in Callers : t[1] <= called[d] => called'[d] = called[d]
        BY <1>1, <1>2, <2>1, AxonLimits
    <2>4. Since(called, t[1]) \subseteq Since(called', t[1])
        BY <1>1, <2>1, <2>3 DEF Since
    <2>5. Cardinality(Since(called, t[1])) <= Cardinality(Since(called', t[1]))
        BY <2>4, CrowdIsFinite, FS_Subset
    <2>6. Listed(request_times, c, t) \/ MaxTracked < Cardinality(Since(called, t[1]))
        BY <2>1 DEF AxonInv
    <2>7. Listed(request_times, c, t) \/ MaxTracked < Cardinality(Since(called', t[1]))
        BY <2>5, <2>6, CrowdIsFinite, AxonLimits
    <2>8. now' - RateWindow <= t[1] /\ t[1] <= called'[c]
        BY <1>1, <2>1, <2>2, <2>3, AxonLimits
    <2> QED
        BY <2>7, <2>8
<1>9. \A i, j \in DOMAIN request_times :
         i < j => called'[request_times[i].caller] <= called'[request_times[j].caller]
    BY <1>5, <1>6 DEF AxonInv
<1>10. \A i \in DOMAIN request_times : Cardinality(request_times[i].times) <= RateMax
    BY DEF AxonInv
<1> QED
    BY <1>1, <1>4, <1>7, <1>8, <1>9, <1>10 DEF AxonInv

LEMMA AxonInvNext == AxonInv /\ [AxonNext]_axonVars => AxonInv'
<1> SUFFICES ASSUME AxonInv, [AxonNext]_axonVars PROVE AxonInv'
    OBVIOUS
<1>1. CASE Sync
    <2>1. /\ UNCHANGED <<now, request_times, passed, called>>
          /\ serving' \in BOOLEAN /\ permits' \subseteq Callers /\ syncs' \in 0..MaxSyncs
        BY <1>1, AxonLimits DEF Sync, AxonInv, AxonTypeOK
    <2>2. AxonTypeOK'
        BY <2>1 DEF AxonInv, AxonTypeOK
    <2> QED
        BY <2>1, <2>2 DEF AxonInv
<1>2. CASE UNCHANGED axonVars
    BY <1>2 DEF axonVars, AxonInv, AxonTypeOK
<1> QED
    BY <1>1, <1>2, BlacklistKeeps, TickKeeps DEF AxonNext

\* The miner's gate is well typed in every reachable state.
THEOREM AxonTypeCorrect == AxonSpec => []AxonTypeOK
<1>1. AxonInv => AxonTypeOK
    BY DEF AxonInv
<1> QED
    BY <1>1, AxonInvInit, AxonInvNext, PTL DEF AxonSpec

\* As long as no more validators call within a window than the table has
\* places for, none gets more than RateMax requests in within a window, for any
\* limits and any number of callers.
THEOREM CallersAreLimited == AxonSpec => []RateIsBounded
<1>1. AxonInv => RateIsBounded
    <2> DEFINE Active == {c \in Callers : called[c] # Never}
    <2> SUFFICES ASSUME AxonInv, Cardinality(Active) <= MaxTracked, NEW c \in Callers
                 PROVE  Cardinality(passed[c]) <= RateMax
        BY DEF RateIsBounded
    <2>1. /\ request_times \in Seq(Entries) /\ passed[c] \in SUBSET Stamps
          /\ called \in [Callers -> Int]
        BY AxonLimits DEF AxonInv, AxonTypeOK, Entries
    <2>2. IsFiniteSet(Active) /\ Cardinality(Active) \in Nat
        <3>1. Active \subseteq Callers
            OBVIOUS
        <3> QED
            BY <3>1, AxonLimits, FS_Subset, FS_CardinalityType
    <2>3. ASSUME NEW t \in passed[c]
          PROVE  Listed(request_times, c, t)
        <3>1. t[1] \in Int /\ 0 <= t[1]
            BY <2>1, StampsAreFinite, AxonLimits
        <3>2. Since(called, t[1]) \subseteq Active
            BY <2>1, <3>1, AxonLimits DEF Since
        <3> HIDE DEF Active
        <3>3. Cardinality(Since(called, t[1])) <= Cardinality(Active)
            BY <2>2, <3>2, FS_Subset
        <3>4. ~ (MaxTracked < Cardinality(Since(called, t[1])))
            BY <2>2, <3>3, CrowdIsFinite, AxonLimits
        <3> QED
            BY <3>4 DEF AxonInv
    <2>4. CASE passed[c] = {}
        BY <2>4, FS_EmptySet, AxonLimits
    <2>5. CASE passed[c] # {}
        <3>1. PICK i \in DOMAIN request_times : request_times[i].caller = c
            BY <2>3, <2>5 DEF Listed
        <3>2. passed[c] \subseteq request_times[i].times
            BY <2>3, <3>1 DEF Listed, AxonInv, AxonTypeOK
        <3>3. request_times[i].times \in SUBSET Stamps
            <4>1. request_times[i] \in Entries
                BY <2>1
            <4> QED
                BY <4>1 DEF Entries
        <3>4. Cardinality(passed[c]) <= Cardinality(request_times[i].times)
            BY <3>2, <3>3, StampsAreFinite, FS_Subset
        <3>5. Cardinality(request_times[i].times) <= RateMax
            BY DEF AxonInv
        <3> QED
            BY <2>1, <3>3, <3>4, <3>5, StampsAreFinite, AxonLimits
    <2> QED
        BY <2>4, <2>5
<1> QED
    BY <1>1, AxonInvInit, AxonInvNext, PTL DEF AxonSpec
-----------------------------------------------------------------------------
(* Sums over finite sets *)

\* The element that a sum goes on with, the sums over all subsets of S, and
\* the sum over S.
Pick(S) == CHOOSE x \in S : TRUE

IsSum(f, w, S) ==
    f = [T \in SUBSET S |-> IF T = {} THEN 0 ELSE w[Pick(T)] + f[T \ {Pick(T)}]]

Sum(w, S) == (CHOOSE f : IsSum(f, w, S))[S]

\* Of some subsets of a finite set, one has none of the others in it: what
\* takes the place of induction on finite sets.
LEMMA Smallest ==
    ASSUME NEW S, IsFiniteSet(S), NEW Bad \in SUBSET (SUBSET S), Bad # {}
    PROVE  \E T \in Bad : \A U \in Bad : U \subseteq T => U = T
<1> DEFINE sizes == {Cardinality(T) : T \in Bad}
<1>1. \A T \in Bad : IsFiniteSet(T) /\ Cardinality(T) \in Nat
    BY FS_Subset, FS_CardinalityType
<1>2. sizes \in SUBSET Nat /\ sizes # {}
    BY <1>1
<1>3. PICK n \in sizes : \A m \in sizes : n <= m
    BY <1>2, HasLeast
<1>4. PICK T \in Bad : n = Cardinality(T)
    OBVIOUS
<1>5. ASSUME NEW U \in Bad, U \subseteq T
      PROVE  U = T
    <2>1. Cardinality(U) <= Cardinality(T) /\ (Cardinality(T) = Cardinality(U) => T = U)
        BY <1>1, <1>5, FS_Subset
    <2>2. Cardinality(T) <= Cardinality(U)
        BY <1>3, <1>4
    <2> QED
        BY <1>1, <2>1, <2>2
<1> QED
    BY <1>5

LEMMA PickIs ==
    ASSUME NEW S, S # {}
    PROVE  Pick(S) \in S
BY DEF Pick

\* Sums over the same elements are the same, whichever set they are taken in.
LEMMA SumsAgree ==
    ASSUME NEW S, IsFiniteSet(S), NEW T, NEW w, NEW f, NEW g, IsSum(f, w, S), IsSum(g, w, T),
           NEW U \in SUBSET S, U \in SUBSET T
    PROVE  f[U] = g[U]
<1> DEFINE bad == {V \in SUBSET U : f[V] # g[V]}
<1> SUFFICES ASSUME bad # {} PROVE FALSE
    OBVIOUS
<1>1. PICK V \in bad : \A W \in bad : W \subseteq V => W = V
    <2>1. bad \in SUBSET (SUBSET S)
        OBVIOUS
    <2> HIDE DEF bad
    <2> QED
        BY <2>1, Smallest
<1>2. V \in SUBSET S /\ V \in SUBSET T /\ V \in SUBSET U
    OBVIOUS
<1>3. /\ f[V] = IF V = {} THEN 0 ELSE w[Pick(V)] + f[V \ {Pick(V)}]
      /\ g[V] = IF V = {} THEN 0 ELSE w[Pick(V)] + g[V \ {Pick(V)}]
    BY <1>2, Zenon DEF IsSum
<1>4. V # {} => f[V \ {Pick(V)}] = g[V \ {Pick(V)}]
    BY <1>1, <1>2, PickIs
<1> QED
    BY <1>3, <1>4

LEMMA SumsExist ==
    ASSUME NEW S, IsFiniteSet(S), NEW w
    PROVE  \E f : IsSum(f, w, S)
<1> DEFINE bad == {T \in SUBSET S : ~ \E f : IsSum(f, w, T)}
<1> SUFFICES ASSUME bad # {} PROVE FALSE
    OBVIOUS
<1>1. PICK T \in bad : \A U \in bad : U \subseteq T => U = T
    <2>1. bad \in SUBSET (SUBSET S)
        OBVIOUS
    <2> HIDE DEF bad
    <2> QED
        BY <2>1, Smallest
<1> DEFINE f == [U \in SUBSET T |-> IF U # T THEN Sum(w, U)
                                    ELSE IF T = {} THEN 0 ELSE w[Pick(T)] + Sum(w, T \ {Pick(T)})]
<1>2. ASSUME NEW U \in SUBSET T
      PROVE  f[U] = IF U = {} THEN 0 ELSE w[Pick(U)] + f[U \ {Pick(U)}]
    <2>1. CASE U = T
        <3>1. T # {} => T \ {Pick(T)} # T /\ T \ {Pick(T)} \in SUBSET T
            BY PickIs
        <3> QED
            BY <2>1, <3>1
    <2>2. CASE U # T
        <3>1. /\ IsSum(CHOOSE g : IsSum(g, w, U), w, U)
            BY <1>1, <2>2
        <3>2. Sum(w, U) = IF U = {} THEN 0 ELSE w[Pick(U)] + (CHOOSE g : IsSum(g, w, U))[U \ {Pick(U)}]
            <4> DEFINE h == CHOOSE g : IsSum(g, w, U)
            <4>1. IsSum(h, w, U) /\ Sum(w, U) = h[U]
                BY <3>1 DEF Sum
            <4> HIDE DEF h
            <4>2. h[U] = IF U = {} THEN 0 ELSE w[Pick(U)] + h[U \ {Pick(U)}]
                BY <4>1, Zenon DEF IsSum
            <4> QED
                BY <4>1, <4>2 DEF h
        <3>3. ASSUME U # {}
              PROVE  (CHOOSE g : IsSum(g, w, U))[U \ {Pick(U)}] = f[U \ {Pick(U)}]
            <4> DEFINE W == U \ {Pick(U)}
            <4>1. W \in SUBSET U /\ W # T /\ W \in SUBSET S /\ W \in SUBSET T
                BY <3>3, PickIs
            <4>2. IsSum(CHOOSE g : IsSum(g, w, W), w, W)
                <5>1. W \notin bad
                    BY <1>1, <4>1
                <5>2. \E g : IsSum(g, w, W)
                    BY <4>1, <5>1
                <5> QED
                    BY <5>2, Zenon
            <4>3. IsFiniteSet(U)
                BY FS_Subset
            <4>4. (CHOOSE g : IsSum(g, w, U))[W] = (CHOOSE g : IsSum(g, w, W))[W]
                <5> DEFINE h == CHOOSE g : IsSum(g, w, U)
                           k == CHOOSE g : IsSum(g, w, W)
                <5>1. IsSum(h, w, U) /\ IsSum(k, w, W)
                    BY <3>1, <4>2
                <5> HIDE DEF h, k, W
                <5>2. h[W] = k[W]
                    BY <4>1, <4>3, <5>1, SumsAgree
                <5> QED
                    BY <5>2 DEF h, k
            <4> QED
                BY <4>1, <4>4 DEF Sum
        <3> QED
            BY <2>2, <3>2, <3>3
    <2> QED
        BY <2>1, <2>2
<1>3. IsSum(f, w, T)
    <2>1. f = [U \in SUBSET T |-> f[U]]
        OBVIOUS
    <2> HIDE DEF f
    <2> QED
        BY <1>2, <2>1 DEF IsSum
<1> QED
    BY <1>3

\* Any sums over S give the sum over S.
LEMMA SumIsUnique ==
    ASSUME NEW S, IsFiniteSet(S), NEW w, NEW f, IsSum(f, w, S), NEW T \in SUBSET S
    PROVE  f[T] = Sum(w, T)
<1> DEFINE g == CHOOSE g : IsSum(g, w, T)
<1>1. IsSum(g, w, T)
    BY FS_Subset, SumsExist
<1> HIDE DEF g
<1>2. f[T] = g[T]
    BY <1>1, SumsAgree
<1> QED
    BY <1>2 DEF Sum, g

LEMMA SumIs ==
    ASSUME NEW S, IsFiniteSet(S), NEW w
    PROVE  Sum(w, S) = IF S = {} THEN 0 ELSE w[Pick(S)] + Sum(w, S \ {Pick(S)})
<1>1. PICK f : IsSum(f, w, S)
    BY SumsExist
<1>2. f[S] = IF S = {} THEN 0 ELSE w[Pick(S)] + f[S \ {Pick(S)}]
    BY <1>1, Zenon DEF IsSum
<1>3. f[S] = Sum(w, S) /\ f[S \ {Pick(S)}] = Sum(w, S \ {Pick(S)})
    BY <1>1, SumIsUnique
<1> QED
    BY <1>2, <1>3

LEMMA SumType ==
    ASSUME NEW S, IsFiniteSet(S), NEW w \in [S -> Nat]
    PROVE  \A T \in SUBSET S : Sum(w, T) \in Nat
<1> DEFINE bad == {T \in SUBSET S : Sum(w, T) \notin Nat}
<1> SUFFICES ASSUME bad # {} PROVE FALSE
    OBVIOUS
<1>1. PICK T \in bad : \A U \in bad : U \subseteq T => U = T
    <2>1. bad \in SUBSET (SUBSET S)
        OBVIOUS
    <2> HIDE DEF bad
    <2> QED
        BY <2>1, Smallest
<1>2. IsFiniteSet(T)
    BY FS_Subset
<1>3. T # {} => w[Pick(T)] \in Nat /\ Sum(w, T \ {Pick(T)}) \in Nat
    BY <1>1, PickIs
<1>4. Sum(w, T) = IF T = {} THEN 0 ELSE w[Pick(T)] + Sum(w, T \ {Pick(T)})
    BY <1>2, SumIs
<1> QED
    BY <1>3, <1>4

\* Whichever element is taken first.
LEMMA SumWithout ==
    ASSUME NEW S, IsFiniteSet(S), NEW w \in [S -> Nat]
    PROVE  \A T \in SUBSET S : \A x \in T : Sum(w, T) = w[x] + Sum(w, T \ {x})
<1> DEFINE bad == {T \in SUBSET S : \E x \in T : Sum(w, T) # w[x] + Sum(w, T \ {x})}
<1> SUFFICES ASSUME bad # {} PROVE FALSE
    OBVIOUS
<1>1. PICK T \in bad : \A U \in bad : U \subseteq T => U = T
    <2>1. bad \in SUBSET (SUBSET S)
        OBVIOUS
    <2> HIDE DEF bad
    <2> QED
        BY <2>1, Smallest
<1>2. PICK x \in T : Sum(w, T) # w[x] + Sum(w, T \ {x})
    BY <1>1
<1> DEFINE p == Pick(T)
<1>3. T \in SUBSET S /\ IsFiniteSet(T) /\ p \in T
    BY <1>2, FS_Subset, PickIs
<1>4. Sum(w, T) = w[p] + Sum(w, T \ {p})
    BY <1>3, SumIs
<1>5. p # x
    BY <1>2, <1>4
<1>6. T \ {p} \notin bad /\ T \ {x} \notin bad
    BY <1>1, <1>3
<1> HIDE DEF p
<1>7. Sum(w, T \ {p}) = w[x] + Sum(w, (T \ {p}) \ {x})
    BY <1>3, <1>5, <1>6
<1>8. Sum(w, T \ {x}) = w[p] + Sum(w, (T \ {x}) \ {p})
    BY <1>3, <1>5, <1>6
<1>9. (T \ {p}) \ {x} = (T \ {x}) \ {p}
    OBVIOUS
<1>10. w[p] \in Nat /\ w[x] \in Nat /\ Sum(w, (T \ {x}) \ {p}) \in Nat
    BY <1>3, SumType
<1> QED
    BY <1>2, <1>4, <1>7, <1>8, <1>9, <1>10, SMTT(40)

\* The sum of the same numbers is the same.
LEMMA SumsOfTheSame ==
    ASSUME NEW S, IsFiniteSet(S), NEW v \in [S -> Nat], NEW E, NEW w, S \subseteq E,
           \A x \in S : w[x] = v[x]
    PROVE  Sum(w, S) = Sum(v, S)
<1> DEFINE bad == {T \in SUBSET S : Sum(w, T) # Sum(v, T)}
<1> SUFFICES ASSUME bad # {} PROVE FALSE
    OBVIOUS
<1>1. PICK T \in bad : \A U \in bad : U \subseteq T => U = T
    <2>1. bad \in SUBSET (SUBSET S)
        OBVIOUS
    <2> HIDE DEF bad
    <2> QED
        BY <2>1, Smallest
<1>2. T \in SUBSET S /\ IsFiniteSet(T)
    BY FS_Subset
<1>3. T # {} => Sum(w, T \ {Pick(T)}) = Sum(v, T \ {Pick(T)}) /\ w[Pick(T)] = v[Pick(T)]
    BY <1>1, <1>2, PickIs
<1>4. /\ Sum(w, T) = IF T = {} THEN 0 ELSE w[Pick(T)] + Sum(w, T \ {Pick(T)})
      /\ Sum(v, T) = IF T = {} THEN 0 ELSE v[Pick(T)] + Sum(v, T \ {Pick(T)})
    BY <1>2, SumIs
<1> QED
    BY <1>3, <1>4

\* What is zero adds nothing.
LEMMA ZerosAddNothing ==
    ASSUME NEW S, IsFiniteSet(S), NEW w \in [S -> Nat], NEW Z \in SUBSET S,
           \A x \in S \ Z : w[x] = 0
    PROVE  Sum(w, S) = Sum(w, Z)
<1> DEFINE bad == {T \in SUBSET S : Z \subseteq T /\ Sum(w, T) # Sum(w, Z)}
<1> SUFFICES ASSUME bad # {} PROVE FALSE
    BY DEF bad
<1>1. PICK T \in bad : \A U \in bad : U \subseteq T => U = T
    <2>1. bad \in SUBSET (SUBSET S)
        OBVIOUS
    <2> HIDE DEF bad
    <2> QED
        BY <2>1, Smallest
<1>2. T \in SUBSET S /\ Z \subseteq T /\ T # Z
    OBVIOUS
<1>3. PICK x \in T : x \notin Z
    BY <1>2
<1>4. Sum(w, T \ {x}) = Sum(w, Z)
    BY <1>1, <1>2, <1>3
<1>5. Sum(w, T) = w[x] + Sum(w, T \ {x}) /\ w[x] = 0
    BY <1>2, <1>3, SumWithout
<1>6. Sum(w, Z) \in Nat
    BY SumType
<1> QED
    BY <1>1, <1>4, <1>5, <1>6

\* Shares of what is spent, at most M of each part of D, and the whole of the
\* others, are together no more than M and the others.
LEMMA SharesAre ==
    ASSUME NEW S, IsFiniteSet(S), NEW K \in SUBSET S, NEW D \in Nat, NEW M \in Nat,
           NEW a \in [S -> Nat], NEW p \in [S -> Nat],
           NEW E, IsFiniteSet(E), S \subseteq E, NEW e \in [E -> Nat],
           \A s \in K : D * a[s] <= M * p[s],
           \A s \in S \ K : a[s] = e[s]
    PROVE  D * Sum(a, S) <= M * Sum(p, S) + D * Sum(e, S \ K)
<1> DEFINE Holds(T) == D * Sum(a, T) <= M * Sum(p, T) + D * Sum(e, T \ K)
           bad == {T \in SUBSET S : ~ Holds(T)}
<1> SUFFICES ASSUME bad # {} PROVE FALSE
    OBVIOUS
<1>1. PICK T \in bad : \A U \in bad : U \subseteq T => U = T
    <2>1. bad \in SUBSET (SUBSET S)
        OBVIOUS
    <2> HIDE DEF bad
    <2> QED
        BY <2>1, Smallest
<1>2. T \in SUBSET S
    OBVIOUS
<1>3. CASE T = {}
    <2>1. T \ K = {} /\ IsFiniteSet({})
        BY <1>3, FS_EmptySet
    <2>2. Sum(a, T) = 0 /\ Sum(p, T) = 0 /\ Sum(e, T \ K) = 0
        BY <1>3, <2>1, SumIs
    <2> QED
        BY <2>2
<1>4. CASE T # {}
    <2>1. PICK x : x \in T
        BY <1>4
    <2> DEFINE U == T \ {x}
    <2>2. U \in SUBSET S /\ U \notin bad /\ Holds(U)
        BY <1>1, <2>1
    <2>3. /\ Sum(a, T) = a[x] + Sum(a, U) /\ Sum(p, T) = p[x] + Sum(p, U)
          /\ a[x] \in Nat /\ p[x] \in Nat /\ e[x] \in Nat
        BY <2>1, SumWithout
    <2>4. /\ Sum(a, U) \in Nat /\ Sum(p, U) \in Nat /\ Sum(e, U \ K) \in Nat
        <3>1. U \in SUBSET S /\ U \ K \in SUBSET E
            OBVIOUS
        <3> HIDE DEF U
        <3> QED
            BY <3>1, SumType
    <2>5. CASE x \in K
        <3>1. T \ K = U \ K
            BY <2>5
        <3>2. D * a[x] <= M * p[x]
            BY <2>5
        <3> HIDE DEF U
        <3>3. D * (a[x] + Sum(a, U)) <= M * (p[x] + Sum(p, U)) + D * Sum(e, U \ K)
            BY <2>2, <2>3, <2>4, <3>2
        <3> QED
            BY <2>3, <3>1, <3>3
    <2>6. CASE x \notin K
        <3>1. (T \ K) \ {x} = U \ K /\ x \in T \ K /\ T \ K \in SUBSET E
            BY <2>1, <2>6
        <3>2. Sum(e, T \ K) = e[x] + Sum(e, U \ K)
            BY <3>1, SumWithout
        <3>3. a[x] = e[x]
            BY <2>1, <2>6
        <3> HIDE DEF U
        <3>4. D * (a[x] + Sum(a, U)) <= M * (p[x] + Sum(p, U)) + D * (a[x] + Sum(e, U \ K))
            <4>1. D * (a[x] + Sum(a, U)) = D * a[x] + D * Sum(a, U)
                BY <2>3, <2>4
            <4>2. D * (a[x] + Sum(e, U \ K)) = D * a[x] + D * Sum(e, U \ K)
                BY <2>3, <2>4
            <4>3. M * (p[x] + Sum(p, U)) = M * p[x] + M * Sum(p, U) /\ M * p[x] \in Nat
                BY <2>3, <2>4
            <4>4. D * a[x] \in Nat /\ D * Sum(a, U) \in Nat /\ M * Sum(p, U) \in Nat /\ D * Sum(e, U \ K) \in Nat
                BY <2>3, <2>4
            <4> QED
                BY <2>2, <4>1, <4>2, <4>3, <4>4
        <3> QED
            BY <2>3, <3>2, <3>3, <3>4
    <2> QED
        BY <2>5, <2>6
<1> QED
    BY <1>3, <1>4

LEMMA SumIsAtLeast ==
    ASSUME NEW S, IsFiniteSet(S), NEW w \in [S -> Nat], NEW x \in S
    PROVE  w[x] <= Sum(w, S)
<1>1. Sum(w, S) = w[x] + Sum(w, S \ {x}) /\ Sum(w, S \ {x}) \in Nat /\ w[x] \in Nat
    BY SumWithout, SumType
<1> QED
    BY <1>1

LEMMA LargestIs ==
    ASSUME NEW S, IsFiniteSet(S), NEW w \in [S -> Nat], NEW K \in SUBSET S
    PROVE  /\ Max({0} \cup {w[s] : s \in K}) \in Nat
           /\ \A t \in K : w[t] <= Max({0} \cup {w[s] : s \in K})
<1> DEFINE values(T) == {0} \cup {w[s] : s \in T}
           Has(T) == \E m \in values(T) : \A v \in values(T) : m >= v
           bad == {T \in SUBSET S : ~ Has(T)}
<1>1. bad = {}
    <2> SUFFICES ASSUME bad # {} PROVE FALSE
        OBVIOUS
    <2>1. PICK T \in bad : \A U \in bad : U \subseteq T => U = T
        <3>1. bad \in SUBSET (SUBSET S)
            OBVIOUS
        <3> HIDE DEF bad
        <3> QED
            BY <3>1, Smallest
    <2>2. PICK x : x \in T
        <3>1. Has({})
            OBVIOUS
        <3> QED
            BY <3>1
    <2>3. T \ {x} \in SUBSET S /\ T \ {x} \notin bad
        BY <2>1, <2>2
    <2>4. PICK m \in values(T \ {x}) : \A v \in values(T \ {x}) : m >= v
        BY <2>3
    <2>5. w[x] \in Nat /\ m \in Nat /\ \A v \in values(T) : v \in Nat
        BY <2>2
    <2>6. values(T) = values(T \ {x}) \cup {w[x]}
        BY <2>2
    <2>7. ~ Has(T)
        OBVIOUS
    <2> HIDE DEF values, bad
    <2>8. CASE m >= w[x]
        BY <2>4, <2>5, <2>6, <2>7, <2>8
    <2>9. CASE m < w[x]
        <3>1. \A v \in values(T) : w[x] >= v
            BY <2>4, <2>5, <2>6, <2>9
        <3> QED
            BY <2>6, <2>7, <3>1
    <2> QED
        BY <2>5, <2>8, <2>9
<1>2. PICK m \in values(K) : \A v \in values(K) : m >= v
    BY <1>1
<1>3. Max(values(K)) \in values(K) /\ \A v \in values(K) : Max(values(K)) >= v
    <2> HIDE DEF values
    <2> QED
        BY <1>2 DEF Max
<1>4. \A v \in values(K) : v \in Nat
    OBVIOUS
<1> QED
    BY <1>3, <1>4

LEMMA FoldIsSum ==
    ASSUME NEW S, IsFiniteSet(S), NEW w
    PROVE  SumFunctionOnSet(w, S) = Sum(w, S)
<1> DEFINE Is(f) == f = [T \in SUBSET S |->
                     IF T = {} THEN 0 ELSE w[CHOOSE x \in T : TRUE] + f[T \ {CHOOSE x \in T : TRUE}]]
           it == CHOOSE f : Is(f)
<1>1. SumFunctionOnSet(w, S) = it[S]
    BY Zenon DEF SumFunctionOnSet, FoldFunctionOnSet, MapThenFoldSet
<1>2. \A f : Is(f) <=> IsSum(f, w, S)
    BY Zenon DEF IsSum, Pick
<1> HIDE DEF Is
<1>3. IsSum(it, w, S)
    BY <1>2, SumsExist
<1> HIDE DEF it
<1>4. it[S] = Sum(w, S)
    BY <1>3, SumIsUnique
<1> QED
    BY <1>1, <1>4

LEMMA FoldsAre ==
    ASSUME NEW S, IsFiniteSet(S), NEW w \in [S -> Nat]
    PROVE  SumFunction(w) = Sum(w, S)
<1>1. DOMAIN w = S
    OBVIOUS
<1> QED
    BY <1>1, FoldIsSum DEF SumFunction

-----------------------------------------------------------------------------
(* SupplyChain *)

\* What a clerk has loaded for a change is a link, which is never taken out
\* of the table.
SupplyInv ==
    /\ SupplyTypeOK
    /\ \A k \in Clerks : clerk[k].op \in {"status", "remove"} => links[clerk[k].of] # NoLink

LEMMA SupplyInvInit == SupplyInit => SupplyInv
BY DEF SupplyInit, SupplyInv, SupplyTypeOK, Free

LEMMA SupplyInvNext == SupplyInv /\ [SupplyNext]_supplyVars => SupplyInv'
<1> SUFFICES ASSUME SupplyInv, [SupplyNext]_supplyVars PROVE SupplyInv'
    OBVIOUS
<1> USE DEF SupplyInv, SupplyTypeOK
<1> DEFINE Well(request) ==
               \/ request \in {Free} \cup [op : {"create"}, of : Suppliers, spend : SpendChoices]
               \/ request \in [op : {"status"}, of : Suppliers, status : LinkStatus, changed : BOOLEAN]
               \/ request \in [op : {"remove"}, of : Suppliers]
<1>1. ASSUME NEW k \in Clerks, NEW s \in Suppliers, NEW spend \in SpendChoices, LinkChecks(k, s, spend)
      PROVE  SupplyInv'
    BY <1>1 DEF LinkChecks, Opens, Free
<1>2. ASSUME NEW k \in Clerks, NEW s \in Suppliers, NEW status \in LinkStatus, StatusLoads(k, s, status)
      PROVE  SupplyInv'
    BY <1>2 DEF StatusLoads, Opens, Linked, Free
<1>3. ASSUME NEW k \in Clerks, NEW s \in Suppliers, RemoveLoads(k, s)
      PROVE  SupplyInv'
    BY <1>3 DEF RemoveLoads, Opens, Linked, Free
<1>4. ASSUME NEW k \in Clerks, LinkCommits(k)
      PROVE  SupplyInv'
    BY <1>4, SupplyAssumption DEF LinkCommits, Closes, Free, LinkRows, LinkStatus
<1>5. ASSUME NEW k \in Clerks, StatusCommits(k)
      PROVE  SupplyInv'
    BY <1>5, SupplyAssumption DEF StatusCommits, Closes, Free, LinkRows
<1>6. ASSUME NEW k \in Clerks, LinkRemoved(k)
      PROVE  SupplyInv'
    <2>1. clerk[k].of \in Suppliers /\ links[clerk[k].of] \in LinkRows
        BY <1>6 DEF LinkRemoved, Free
    <2>2. links' = [links EXCEPT ![clerk[k].of] = [links[clerk[k].of] EXCEPT !.deleted = TRUE]]
        BY <1>6 DEF LinkRemoved
    <2>3. [links[clerk[k].of] EXCEPT !.deleted = TRUE] \in LinkRows
        BY <2>1 DEF LinkRows
    <2> DEFINE row == [links[clerk[k].of] EXCEPT !.deleted = TRUE]
    <2>4. row # NoLink
        BY <2>3, SupplyAssumption
    <2> HIDE DEF row
    <2>5. links' \in [Suppliers -> LinkRows \cup {NoLink}] /\ \A s \in Suppliers : links[s] # NoLink => links'[s] # NoLink
        BY <2>1, <2>2, <2>3, <2>4 DEF row
    <2>6. emissions' = emissions /\ clerk' = [clerk EXCEPT ![k] = Free]
        BY <1>6 DEF LinkRemoved, Closes
    <2> QED
        BY <2>5, <2>6 DEF Free
<1>7. ASSUME NEW k \in Clerks, LinkFails(k)
      PROVE  SupplyInv'
    BY <1>7 DEF LinkFails, Closes, Free
<1>8. CASE UNCHANGED supplyVars
    BY <1>8 DEF supplyVars
<1> QED
    BY <1>1, <1>2, <1>3, <1>4, <1>5, <1>6, <1>7, <1>8 DEF SupplyNext

\* The supply chain is well typed in every reachable state.
THEOREM SupplyTypeCorrect == SupplySpec => []SupplyTypeOK
<1>1. SupplyInv => SupplyTypeOK
    BY DEF SupplyInv
<1> QED
    BY <1>1, SupplyInvInit, SupplyInvNext, PTL DEF SupplySpec

\* However spend is told and changed, a buyer is attributed no more of its
\* suppliers' emissions than the largest of those it has told its spend on
\* and all of the others.
THEOREM AttributionIsBounded == SupplySpec => []SharesAddUp
<1>1. SupplyInv => SharesAddUp
    <2> DEFINE known == {s \in Verified : Spent[s] > 0}
               M == Max({0} \cup {Reported[t] : t \in known})
               others == Sum(Reported, Verified \ known)
    <2> SUFFICES ASSUME SupplyInv PROVE SharesAddUp
        OBVIOUS
    <2>1. /\ Verified \in SUBSET Suppliers /\ IsFiniteSet(Suppliers) /\ IsFiniteSet(Verified)
          /\ known \in SUBSET Verified
        BY SupplyAssumption, FS_Subset DEF Verified, Linked
    <2>2. Spent \in [Verified -> Nat] /\ Reported \in [Suppliers -> Nat]
        <3>1. ASSUME NEW s \in Verified
              PROVE  links[s].spend \in Nat \cup {NoSpend}
            BY <3>1, SupplyAssumption DEF SupplyInv, SupplyTypeOK, Verified, Linked, LinkRows
        <3>2. emissions \in [Suppliers -> Nat \cup {NoReport}]
            BY SupplyAssumption DEF SupplyInv, SupplyTypeOK
        <3> QED
            BY <2>1, <3>1, <3>2 DEF Spent, Reported
    <2>3. TotalSpend = Sum(Spent, Verified) /\ TotalSpend \in Nat
        BY <2>1, <2>2, FoldsAre, SumType DEF TotalSpend
    <2>4. Attributed \in [Verified -> Nat]
        <3>1. \A m \in Nat, n \in Nat, d \in Nat : d > 0 => (m * n) \div d \in Nat
            OBVIOUS
        <3> QED
            BY <2>1, <2>2, <2>3, <3>1 DEF Attributed
    <2>5. Scope3FromSuppliers = Sum(Attributed, Verified) /\ Sum(Attributed, Verified) \in Nat
        BY <2>1, <2>4, FoldsAre, SumType DEF Scope3FromSuppliers
    <2>6. M \in Nat /\ \A s \in known : Reported[s] <= M
        BY <2>1, <2>2, LargestIs
    <2>7. /\ SumFunctionOnSet(Reported, Verified \ known) = others /\ others \in Nat
        <3>1. Verified \ known \in SUBSET Suppliers /\ IsFiniteSet(Verified \ known)
            BY <2>1, FS_Subset
        <3> HIDE DEF known
        <3> QED
            BY <2>1, <2>2, <3>1, FoldIsSum, SumType
    <2>8. \A s \in Verified \ known : Attributed[s] = Reported[s]
        BY <2>2 DEF Attributed
    <2>9. Sum(Attributed, Verified) <= M + others
        <3>1. CASE TotalSpend > 0
            <4>1. ASSUME NEW s \in known
                  PROVE  TotalSpend * Attributed[s] <= M * Spent[s]
                <5>1. Attributed[s] = (Reported[s] * Spent[s]) \div TotalSpend
                    BY <2>1, <3>1 DEF Attributed
                <5>2. /\ Reported[s] \in Nat /\ Spent[s] \in Nat /\ Reported[s] <= M
                    BY <2>1, <2>2, <2>6
                <5>3. \A n \in Nat : TotalSpend * (n \div TotalSpend) <= n
                    BY <2>3, <3>1
                <5>4. Reported[s] * Spent[s] \in Nat /\ Reported[s] * Spent[s] <= M * Spent[s]
                    <6> HIDE DEF M
                    <6>1. \A x, y, z \in Nat : x <= y => x * z \in Nat /\ x * z <= y * z
                        OBVIOUS
                    <6> QED
                        BY <2>6, <5>2, <6>1
                <5> HIDE DEF M
                <5>5. TotalSpend * Attributed[s] <= Reported[s] * Spent[s]
                    BY <5>1, <5>3, <5>4
                <5> QED
                    BY <2>1, <2>3, <2>4, <2>6, <5>2, <5>4, <5>5
            <4> HIDE DEF M, known
            <4>2. TotalSpend * Sum(Attributed, Verified) <= M * TotalSpend + TotalSpend * Sum(Reported, Verified \ known)
                BY <2>1, <2>2, <2>3, <2>4, <2>6, <2>8, <4>1, SharesAre
            <4> HIDE DEF others
            <4>3. \A d, x, y, z \in Nat : d > 0 /\ d * x <= y * d + d * z => x <= y + z
                OBVIOUS
            <4> QED
                BY <2>3, <2>5, <2>6, <2>7, <3>1, <4>2, <4>3 DEF others
        <3>2. CASE TotalSpend = 0
            <4>1. known = {}
                <5> SUFFICES ASSUME NEW s \in known PROVE FALSE
                    OBVIOUS
                <5>1. Spent[s] <= Sum(Spent, Verified) /\ Spent[s] \in Nat /\ Spent[s] > 0
                    BY <2>1, <2>2, SumIsAtLeast
                <5> QED
                    BY <2>3, <3>2, <5>1
            <4> HIDE DEF M, known
            <4>2. 1 * Sum(Attributed, Verified) <= M * Sum(Spent, Verified) + 1 * Sum(Reported, Verified \ known)
                BY <2>1, <2>2, <2>4, <2>6, <2>8, <4>1, SharesAre
            <4> QED
                BY <2>3, <2>5, <2>6, <2>7, <3>2, <4>2
        <3> QED
            BY <2>3, <3>1, <3>2
    <2> QED
        BY <2>5, <2>7, <2>9 DEF SharesAddUp
<1> QED
    BY <1>1, SupplyInvInit, SupplyInvNext, PTL DEF SupplySpec

-----------------------------------------------------------------------------
(* Estimation *)

\* A table of finitely many numbers.
IsTable(f) == f \in [DOMAIN f -> Nat] /\ IsFiniteSet(DOMAIN f)

\* The same numbers but for zeros.
Alike(f, g) == IsTable(f) /\ IsTable(g) /\ \A k : Lookup(f, k, 0) = Lookup(g, k, 0)

LEMMA TotalIs ==
    ASSUME NEW f, IsTable(f)
    PROVE  Total(f) = Sum(f, DOMAIN f) /\ Total(f) \in Nat
BY FoldsAre, SumType DEF IsTable, Total

LEMMA TotalsAgree ==
    ASSUME NEW f, NEW g, Alike(f, g)
    PROVE  Total(f) = Total(g)
<1> DEFINE S == DOMAIN f
           T == DOMAIN g
           h == [k \in S \cup T |-> Lookup(f, k, 0)]
<1>1. /\ IsFiniteSet(S) /\ IsFiniteSet(T) /\ IsFiniteSet(S \cup T)
      /\ f \in [S -> Nat] /\ g \in [T -> Nat]
    BY FS_Union DEF Alike, IsTable
<1>2. h \in [S \cup T -> Nat]
    BY <1>1 DEF Lookup
<1>3. \A k \in S : h[k] = f[k]
    BY DEF Lookup
<1>4. \A k \in T : h[k] = g[k]
    BY DEF Lookup, Alike
<1>5. (\A k \in (S \cup T) \ S : h[k] = 0) /\ (\A k \in (S \cup T) \ T : h[k] = 0)
    BY DEF Lookup, Alike
<1> HIDE DEF h
<1>6. Sum(h, S) = Sum(f, S) /\ Sum(h, T) = Sum(g, T)
    <2>1. S \subseteq S \cup T /\ T \subseteq S \cup T
        OBVIOUS
    <2> HIDE DEF S, T
    <2> QED
        BY <1>1, <1>3, <1>4, <2>1, SumsOfTheSame
<1>7. Sum(h, S \cup T) = Sum(h, S) /\ Sum(h, S \cup T) = Sum(h, T)
    <2>1. S \in SUBSET (S \cup T) /\ T \in SUBSET (S \cup T)
        OBVIOUS
    <2> HIDE DEF S, T
    <2> QED
        BY <1>1, <1>2, <1>5, <2>1, ZerosAddNothing
<1> QED
    BY <1>6, <1>7, TotalIs DEF Alike

LEMMA FillAlike ==
    ASSUME NEW f, NEW g, Alike(f, g), NEW category, NEW share \in Nat, NEW expected \in Nat
    PROVE  Alike(Fill(f, category, share, expected), Fill(g, category, share, expected))
<1> DEFINE Value(t) == AtMost((expected \div 100) * share, Positive(expected - t))
           t == Total(f)
           value == Value(t)
           With(h) == [c \in DOMAIN h \cup {category} |-> IF c = category THEN value ELSE h[c]]
<1>1. Total(g) = t /\ t \in Nat
    BY TotalsAgree, TotalIs DEF Alike
<1>2. value \in Nat
    <2>1. expected \div 100 \in Nat
        OBVIOUS
    <2>2. (expected \div 100) * share \in Nat
        <3>1. \A x \in Nat, y \in Nat : x * y \in Nat
            OBVIOUS
        <3> QED
            BY <2>1, <3>1
    <2> HIDE DEF t
    <2> QED
        BY <1>1, <2>2 DEF AtMost, Positive
<1>3. Lookup(f, category, 0) = Lookup(g, category, 0)
    BY DEF Alike
<1>4. /\ Fill(f, category, share, expected) = IF Lookup(f, category, 0) > 0 \/ value = 0 THEN f ELSE With(f)
      /\ Fill(g, category, share, expected) = IF Lookup(f, category, 0) > 0 \/ value = 0 THEN g ELSE With(g)
    BY <1>1, <1>3 DEF Fill
<1> HIDE DEF value
<1>5. IsTable(With(f)) /\ IsTable(With(g))
    <2>1. ASSUME NEW h, IsTable(h)
          PROVE  IsTable(With(h))
        <3>1. IsFiniteSet(DOMAIN h \cup {category})
            BY <2>1, FS_AddElement DEF IsTable
        <3> QED
            BY <1>2, <2>1, <3>1 DEF IsTable
    <2> QED
        BY <2>1 DEF Alike
<1>6. ASSUME NEW k
      PROVE  Lookup(With(f), k, 0) = Lookup(With(g), k, 0)
    <2>1. Lookup(f, k, 0) = Lookup(g, k, 0)
        BY DEF Alike
    <2> QED
        BY <2>1 DEF Lookup
<1> HIDE DEF With
<1>7. Alike(With(f), With(g))
    BY <1>5, <1>6 DEF Alike
<1> QED
    BY <1>4, <1>7

\* A run over n categories.
Filling(h, detail, material, expected, n) ==
    h = [i \in 0..n |-> IF i = 0 THEN detail ELSE Fill(h[i - 1], material[i][1], material[i][2], expected)]

LEMMA FillingsExist ==
    ASSUME NEW detail, NEW material, NEW expected, NEW n \in Nat
    PROVE  \E h : Filling(h, detail, material, expected, n)
<1> DEFINE bad == {m \in Nat : ~ \E h : Filling(h, detail, material, expected, m)}
<1> SUFFICES ASSUME bad # {} PROVE FALSE
    OBVIOUS
<1>1. PICK m \in bad : \A k \in bad : m <= k
    <2>1. bad \in SUBSET Nat
        OBVIOUS
    <2> HIDE DEF bad
    <2> QED
        BY <2>1, HasLeast
<1>2. m \in Nat /\ ~ \E h : Filling(h, detail, material, expected, m)
    OBVIOUS
<1>3. CASE m = 0
    <2> DEFINE h == [i \in 0..0 |-> detail]
    <2>1. Filling(h, detail, material, expected, 0)
        BY DEF Filling
    <2> QED
        BY <1>2, <1>3, <2>1
<1>4. CASE m # 0
    <2>1. m - 1 \in Nat /\ m - 1 \notin bad
        BY <1>1, <1>2, <1>4
    <2>2. PICK g : Filling(g, detail, material, expected, m - 1)
        BY <2>1
    <2> HIDE DEF bad
    <2> DEFINE h == [i \in 0..m |-> IF i = m THEN Fill(g[m - 1], material[m][1], material[m][2], expected) ELSE g[i]]
    <2>3. ASSUME NEW i \in 0..m
          PROVE  h[i] = IF i = 0 THEN detail ELSE Fill(h[i - 1], material[i][1], material[i][2], expected)
        <3>1. CASE i = m
            BY <1>2, <1>4, <3>1
        <3>2. CASE i # m
            <4>1. i \in 0..(m - 1)
                BY <1>2, <3>2
            <4>2. g[i] = IF i = 0 THEN detail ELSE Fill(g[i - 1], material[i][1], material[i][2], expected)
                BY <2>2, <4>1, Zenon DEF Filling
            <4>3. i # 0 => h[i - 1] = g[i - 1]
                BY <1>2, <4>1
            <4> QED
                BY <3>2, <4>2, <4>3
        <3> QED
            BY <3>1, <3>2
    <2>4. h = [i \in 0..m |-> h[i]]
        OBVIOUS
    <2> HIDE DEF h
    <2>5. Filling(h, detail, material, expected, m)
        BY <2>3, <2>4 DEF Filling
    <2> QED
        BY <1>2, <2>5
<1> QED
    BY <1>3, <1>4

\* Filling up two breakdowns that are alike makes them alike.
LEMMA FilledAlike ==
    ASSUME NEW f, NEW g, Alike(f, g), NEW industry, NEW revenue, NEW employees,
           get_industry_profile(industry).materiality \in Seq(STRING \X Nat),
           ExpectedScope3(get_industry_profile(industry), revenue, employees) \in Nat
    PROVE  Alike(fill_industry_defaults(f, industry, revenue, employees),
                 fill_industry_defaults(g, industry, revenue, employees))
<1> DEFINE material == get_industry_profile(industry).materiality
           expected == ExpectedScope3(get_industry_profile(industry), revenue, employees)
           N == Len(material)
           Run(detail) == CHOOSE h : Filling(h, detail, material, expected, N)
           F == Run(f)
           G == Run(g)
<1>1. /\ fill_industry_defaults(f, industry, revenue, employees) = F[N]
      /\ fill_industry_defaults(g, industry, revenue, employees) = G[N]
    BY Zenon DEF fill_industry_defaults, Filling
<1>2. N \in Nat /\ expected \in Nat /\ \A i \in 1..N : material[i][2] \in Nat
    OBVIOUS
<1> HIDE DEF material, expected, N
<1>3. Filling(F, f, material, expected, N) /\ Filling(G, g, material, expected, N)
    BY <1>2, FillingsExist
<1> HIDE DEF F, G
<1> DEFINE bad == {n \in 0..N : ~ Alike(F[n], G[n])}
<1>4. bad = {}
    <2> SUFFICES ASSUME bad # {} PROVE FALSE
        OBVIOUS
    <2>1. PICK m \in bad : \A k \in bad : m <= k
        <3>1. bad \in SUBSET Nat
            BY <1>2
        <3> HIDE DEF bad
        <3> QED
            BY <3>1, HasLeast
    <2>2. m \in 0..N /\ ~ Alike(F[m], G[m])
        OBVIOUS
    <2>3. /\ F[m] = IF m = 0 THEN f ELSE Fill(F[m - 1], material[m][1], material[m][2], expected)
          /\ G[m] = IF m = 0 THEN g ELSE Fill(G[m - 1], material[m][1], material[m][2], expected)
        BY <1>3, <2>2, Zenon DEF Filling
    <2>4. m # 0
        BY <2>2, <2>3
    <2>5. m - 1 \in 0..N /\ m - 1 \notin bad /\ m \in 1..N
        BY <1>2, <2>1, <2>2, <2>4, SMTT(40)
    <2>6. Alike(F[m - 1], G[m - 1])
        BY <2>5
    <2> QED
        BY <1>2, <2>2, <2>3, <2>4, <2>5, <2>6, FillAlike
<1> QED
    BY <1>1, <1>2, <1>4

\* Fuel and electricity are never without emissions.
LEMMA FactorsAre ==
    /\ \A fuel : get_fuel_factor(fuel) \in Nat \ {0}
    /\ \A region : get_grid_factor(region) \in Nat \ {0}
    /\ \A mode : get_transport_factor(mode) \in Nat
<1>1. ASSUME NEW fuel
      PROVE  get_fuel_factor(fuel) \in Nat \ {0}
    BY DatasetsAssumption, ZenonT(60) DEF get_fuel_factor, Lookup
<1>2. ASSUME NEW region
      PROVE  get_grid_factor(region) \in Nat \ {0}
    <2>1. /\ \A k \in DOMAIN Subregions : Subregions[k] \in Nat \ {0}
          /\ \A k \in DOMAIN Countries : Countries[k] \in Nat \ {0}
          /\ \A k \in DOMAIN WorldRegions : WorldRegions[k] \in Nat \ {0}
          /\ WorldAverage \in Nat \ {0}
          /\ \A k \in DOMAIN StateSubregion : StateSubregion[k] \in DOMAIN Subregions
        <3>1. /\ WorldAverage \in Nat \ {0}
              /\ StateSubregion \in [DOMAIN StateSubregion -> DOMAIN Subregions]
              /\ \A table \in {Fuels, Subregions, Countries, WorldRegions} :
                    \A k \in DOMAIN table : table[k] \in Nat \ {0}
            BY DatasetsAssumption, Zenon
        <3> QED
            BY <3>1
    <2>2. Lookup(WorldRegions, region, WorldAverage) \in Nat \ {0}
        BY <2>1 DEF Lookup
    <2> QED
        BY <2>1, <2>2, Zenon DEF get_grid_factor
<1>3. ASSUME NEW mode
      PROVE  get_transport_factor(mode) \in Nat
    BY DatasetsAssumption DEF get_transport_factor, Lookup
<1> QED
    BY <1>1, <1>2, <1>3

LEMMA ProfilesAre ==
    ASSUME NEW industry
    PROVE  LET profile == get_industry_profile(industry)
           IN  /\ profile.split[3] \in Nat /\ profile.spend_factor \in Nat
               /\ profile.per_million \in Nat /\ profile.per_employee \in Nat
               /\ profile.materiality \in Seq(STRING \X Nat)
<1>1. PICK i \in DOMAIN Profiles : get_industry_profile(industry) = Profiles[i]
    BY DatasetsAssumption, ZenonT(60) DEF get_industry_profile, Lookup
<1>2. /\ Profiles[i].split \in [1..3 -> Nat] /\ Profiles[i].spend_factor \in Nat
      /\ Profiles[i].per_million \in Nat /\ Profiles[i].per_employee \in Nat
      /\ Profiles[i].materiality \in Seq(STRING \X Nat)
    BY DatasetsAssumption, Zenon
<1>3. Profiles[i].split[3] \in Nat
    BY <1>2
<1> QED
    BY <1>1, <1>2, <1>3

LEMMA ProductsAre == \A x \in Nat, y \in Nat : x * y \in Nat /\ (x = 0 => x * y = 0) /\ (x > 0 /\ y > 0 => x * y > 0)
OBVIOUS

\* No emissions without an amount, and some for an amount of fuel or of electricity.
LEMMA CalculationsAre ==
    ASSUME NEW n \in Nat
    PROVE  /\ \A fuel : /\ calc_stationary_combustion(fuel, n) \in Nat
                        /\ calc_stationary_combustion(fuel, n) = 0 <=> n = 0
           /\ \A region : /\ calc_location_based(n, region) \in Nat
                          /\ calc_location_based(n, region) = 0 <=> n = 0
           /\ \A vehicle : /\ calc_mobile_combustion(vehicle, n) \in Nat
                           /\ n = 0 => calc_mobile_combustion(vehicle, n) = 0
           /\ \A refrigerant : /\ calc_fugitive_emissions(refrigerant, n) \in Nat
                               /\ n = 0 => calc_fugitive_emissions(refrigerant, n) = 0
           /\ \A industry : /\ calc_cat1_purchased_goods(n, industry) \in Nat
                            /\ n = 0 => calc_cat1_purchased_goods(n, industry) = 0
           /\ \A mode : /\ calc_cat4_transport(n, mode) \in Nat
                        /\ n = 0 => calc_cat4_transport(n, mode) = 0
           /\ calc_cat5_waste(n) \in Nat
           /\ n = 0 => calc_cat5_waste(n) = 0
           /\ \A region : /\ calc_cat7_commuting(n, region) \in Nat
                          /\ n = 0 => calc_cat7_commuting(n, region) = 0
           /\ \A industry : \A spend \in Nat :
                 /\ calc_cat6_business_travel(n, industry, spend) \in Nat
                 /\ n = 0 /\ spend = 0 => calc_cat6_business_travel(n, industry, spend) = 0
<1>1. Positive(n) = n
    BY DEF Positive
<1>2. ASSUME NEW fuel
      PROVE  /\ calc_stationary_combustion(fuel, n) \in Nat
             /\ calc_stationary_combustion(fuel, n) = 0 <=> n = 0
    <2>1. get_fuel_factor(fuel) \in Nat /\ get_fuel_factor(fuel) > 0
        BY FactorsAre
    <2> QED
        BY <1>1, <2>1, ProductsAre DEF calc_stationary_combustion
<1>3. ASSUME NEW region
      PROVE  /\ calc_location_based(n, region) \in Nat
             /\ calc_location_based(n, region) = 0 <=> n = 0
    <2>1. get_grid_factor(region) \in Nat /\ get_grid_factor(region) > 0
        BY FactorsAre
    <2> QED
        BY <1>1, <2>1, ProductsAre DEF calc_location_based
<1>4. ASSUME NEW vehicle
      PROVE  /\ calc_mobile_combustion(vehicle, n) \in Nat
             /\ n = 0 => calc_mobile_combustion(vehicle, n) = 0
    <2>1. Lookup(Vehicles, vehicle, Vehicles["heavy_truck_diesel"]) \in Nat
        BY DatasetsAssumption, ZenonT(60) DEF Lookup
    <2> QED
        BY <1>1, <2>1, ProductsAre DEF calc_mobile_combustion
<1>5. ASSUME NEW refrigerant
      PROVE  /\ calc_fugitive_emissions(refrigerant, n) \in Nat
             /\ n = 0 => calc_fugitive_emissions(refrigerant, n) = 0
    <2>1. /\ \A k \in DOMAIN Refrigerants : Refrigerants[k] \in Nat
          /\ \A k \in DOMAIN Gases : Gases[k] \in Nat
        BY DatasetsAssumption
    <2>2. Lookup(Gases, refrigerant, 1530) \in Nat
        BY <2>1 DEF Lookup
    <2>3. Lookup(Refrigerants, refrigerant, Lookup(Gases, refrigerant, 1530)) \in Nat
        BY <2>1, <2>2 DEF Lookup
    <2> QED
        BY <1>1, <2>3, ProductsAre DEF calc_fugitive_emissions
<1>6. ASSUME NEW industry
      PROVE  /\ calc_cat1_purchased_goods(n, industry) \in Nat
             /\ n = 0 => calc_cat1_purchased_goods(n, industry) = 0
    <2>1. get_industry_profile(industry).spend_factor \in Nat
        BY ProfilesAre
    <2>2. /\ n * get_industry_profile(industry).spend_factor \in Nat
          /\ n = 0 => n * get_industry_profile(industry).spend_factor = 0
        BY <2>1, ProductsAre
    <2>3. \A x \in Nat : x \div 10 \in Nat /\ (x = 0 => x \div 10 = 0)
        OBVIOUS
    <2> QED
        BY <1>1, <2>2, <2>3 DEF calc_cat1_purchased_goods
<1>7. ASSUME NEW mode
      PROVE  /\ calc_cat4_transport(n, mode) \in Nat
             /\ n = 0 => calc_cat4_transport(n, mode) = 0
    <2>1. get_transport_factor(mode) \in Nat
        BY FactorsAre
    <2> QED
        BY <1>1, <2>1, ProductsAre DEF calc_cat4_transport
<1>8. calc_cat5_waste(n) \in Nat /\ (n = 0 => calc_cat5_waste(n) = 0)
    BY <1>1 DEF calc_cat5_waste
<1>9. ASSUME NEW region
      PROVE  /\ calc_cat7_commuting(n, region) \in Nat
             /\ n = 0 => calc_cat7_commuting(n, region) = 0
    <2>1. Lookup(CommutingAverages, region, CommutingAverages["global"]) \in Nat
        BY DatasetsAssumption DEF Lookup
    <2> QED
        BY <1>1, <2>1, ProductsAre DEF calc_cat7_commuting
<1>10. ASSUME NEW industry, NEW spend \in Nat
       PROVE  /\ calc_cat6_business_travel(n, industry, spend) \in Nat
              /\ n = 0 /\ spend = 0 => calc_cat6_business_travel(n, industry, spend) = 0
    <2>1. Lookup(TravelAverages, industry, TravelAverages["global_average"]) \in Nat
        BY DatasetsAssumption DEF Lookup
    <2>2. /\ n * Lookup(TravelAverages, industry, TravelAverages["global_average"]) \in Nat
          /\ n = 0 => n * Lookup(TravelAverages, industry, TravelAverages["global_average"]) = 0
        BY <2>1, ProductsAre
    <2> QED
        BY <1>1, <2>2 DEF calc_cat6_business_travel
<1> QED
    BY <1>2, <1>3, <1>4, <1>5, <1>6, <1>7, <1>8, <1>9, <1>10

LEMMA ExpectedIs ==
    ASSUME NEW industry, NEW revenue \in Nat, NEW employees \in Nat
    PROVE  ExpectedScope3(get_industry_profile(industry), revenue, employees) \in Nat
<1> DEFINE profile == get_industry_profile(industry)
           third == profile.split[3]
           million == profile.per_million
           each == profile.per_employee
           all == IF revenue > 0 THEN revenue * million ELSE employees * each * 1000
<1>1. third \in Nat /\ million \in Nat /\ each \in Nat
    BY ProfilesAre
<1>2. ExpectedScope3(profile, revenue, employees) = (all \div 100) * third
    BY DEF ExpectedScope3, Positive
<1> HIDE DEF profile, third, million, each
<1>3. revenue * million \in Nat /\ employees * each \in Nat /\ (employees * each) * 1000 \in Nat
    BY <1>1, ProductsAre
<1>4. all \in Nat
    BY <1>3
<1> HIDE DEF all
<1>5. all \div 100 \in Nat
    BY <1>4
<1> QED
    BY <1>1, <1>2, <1>5, ProductsAre DEF profile

\* A query with numbers for its amounts.
HasAmounts(q) == \A f \in Amounts : q.data[f] \in Nat

LEMMA InputHasAmounts ==
    ASSUME NEW q, QuestionnaireInput(q)
    PROVE  HasAmounts(q)
<1>1. \A f \in Amounts : ProvidedDataInput[f] \in Nat
    BY DEF Amounts, ProvidedDataInput
<1>2. ASSUME NEW f \in Amounts
      PROVE  q.data[f] \in Nat
    <2>1. q.data[f] \in 0..ProvidedDataInput[f] /\ ProvidedDataInput[f] \in Nat
        BY <1>1 DEF QuestionnaireInput
    <2> HIDE DEF ProvidedDataInput
    <2> QED
        BY <2>1
<1> QED
    BY <1>2 DEF HasAmounts

LEMMA AmountsAre ==
    ASSUME NEW q, HasAmounts(q)
    PROVE  LET d == q.data
           IN  /\ d.fuel_use_liters \in Nat /\ d.natural_gas_m3 \in Nat /\ d.electricity_kwh \in Nat
               /\ d.vehicle_km \in Nat /\ d.employee_count \in Nat /\ d.revenue_usd \in Nat
               /\ d.supplier_spend_usd \in Nat /\ d.shipping_ton_km \in Nat
               /\ d.business_travel_usd \in Nat /\ d.waste_kg \in Nat
               /\ d.refrigerant_kg_leaked \in Nat
<1>1. /\ "fuel_use_liters" \in Amounts /\ "natural_gas_m3" \in Amounts /\ "electricity_kwh" \in Amounts
      /\ "vehicle_km" \in Amounts /\ "employee_count" \in Amounts /\ "revenue_usd" \in Amounts
      /\ "supplier_spend_usd" \in Amounts /\ "shipping_ton_km" \in Amounts
      /\ "business_travel_usd" \in Amounts /\ "waste_kg" \in Amounts /\ "refrigerant_kg_leaked" \in Amounts
    BY DEF Amounts, ProvidedDataInput
<1> QED
    BY <1>1 DEF HasAmounts

\* What a line adds to a total.
Adds(line) == IF line.given THEN line.value ELSE 0

LEMMA AddsIs ==
    ASSUME NEW given, NEW value
    PROVE  (given => Adds(Line(given, value)) = value) /\ (~ given => Adds(Line(given, value)) = 0)
<1>1. Line(given, value).given = given /\ Line(given, value).value = value
    BY Zenon DEF Line
<1> QED
    BY <1>1, Zenon DEF Adds

\* A breakdown leaves nothing out but zeros.
LEMMA BreakdownAlike ==
    ASSUME NEW lines, NEW Keys, IsFiniteSet(Keys), DOMAIN lines = Keys,
           NEW f \in [Keys -> Nat], \A c \in Keys : f[c] = Adds(lines[c])
    PROVE  Alike(Breakdown(lines), f)
<1>1. IsTable(f) /\ DOMAIN f = Keys
    BY DEF IsTable
<1>2. IsTable(Breakdown(lines))
    <2> DEFINE S == {k \in Keys : lines[k].given}
    <2>1. IsFiniteSet(S)
        BY FS_Subset
    <2>2. Breakdown(lines) = [c \in S |-> lines[c].value]
        BY DEF Breakdown
    <2>3. \A c \in S : lines[c].value \in Nat
        BY DEF Adds
    <2> QED
        BY <2>1, <2>2, <2>3 DEF IsTable
<1>3. ASSUME NEW k
      PROVE  Lookup(Breakdown(lines), k, 0) = Lookup(f, k, 0)
    BY <1>1 DEF Lookup, Breakdown, Adds
<1> QED
    BY <1>1, <1>2, <1>3 DEF Alike

LEMMA ThreeAreFinite ==
    ASSUME NEW x, NEW y, NEW z
    PROVE  IsFiniteSet({x, y, z})
<1>1. {z} = {} \cup {z} /\ {y, z} = {z} \cup {y} /\ {x, y, z} = {y, z} \cup {x}
    OBVIOUS
<1>2. IsFiniteSet({z}) /\ IsFiniteSet({y, z})
    BY <1>1, FS_AddElement, FS_EmptySet
<1> QED
    BY <1>1, <1>2, FS_AddElement

LEMMA TableOfThree ==
    ASSUME NEW x, NEW y, NEW z, NEW f \in [{x, y, z} -> Nat]
    PROVE  IsTable(f) /\ DOMAIN f = {x, y, z}
<1>1. IsFiniteSet({x, y, z})
    BY ThreeAreFinite
<1> DEFINE S == {x, y, z}
<1>2. f \in [S -> Nat] /\ IsFiniteSet(S)
    BY <1>1
<1> HIDE DEF S
<1>3. DOMAIN f = S
    BY <1>2
<1>4. f \in [DOMAIN f -> Nat]
    BY <1>2, <1>3, Zenon
<1>5. IsTable(f) /\ DOMAIN f = S
    BY <1>2, <1>3, <1>4, Zenon DEF IsTable
<1> QED
    BY <1>5, Zenon DEF S

LEMMA TotalOfThree ==
    ASSUME NEW f, IsTable(f), NEW x, NEW y, NEW z, x # y, x # z, y # z, DOMAIN f = {x, y, z}
    PROVE  Total(f) = f[x] + f[y] + f[z]
<1> USE DEF IsTable
<1>1. IsFiniteSet({x, y, z})
    BY ThreeAreFinite
<1>2. /\ Sum(f, {x, y, z}) = f[x] + Sum(f, {y, z})
      /\ Sum(f, {y, z}) = f[y] + Sum(f, {z})
      /\ Sum(f, {z}) = f[z] + Sum(f, {})
    <2>1. /\ {x, y, z} \ {x} = {y, z} /\ {y, z} \ {y} = {z} /\ {z} \ {z} = {}
          /\ {y, z} \in SUBSET {x, y, z} /\ {z} \in SUBSET {x, y, z} /\ {x, y, z} \in SUBSET {x, y, z}
        OBVIOUS
    <2> QED
        BY <1>1, <2>1, SumWithout
<1>3. Sum(f, {}) = 0
    BY FS_EmptySet, SumIs
<1>4. f[x] \in Nat /\ f[y] \in Nat /\ f[z] \in Nat
    OBVIOUS
<1>5. IsTable(f) /\ DOMAIN f = {x, y, z}
    BY <1>1 DEF IsTable
<1> QED
    BY <1>2, <1>3, <1>4, <1>5, TotalIs

\* The miner's scope 1 is the generator's, and fuel or gas make it positive.
LEMMA Scope1Agrees ==
    ASSUME NEW q, HasAmounts(q)
    PROVE  /\ Total(estimate_scope1(q)) = compute_ground_truth(q).scope1
           /\ Total(estimate_scope1(q)) \in Nat
           /\ q.data.fuel_use_liters + q.data.natural_gas_m3 > 0 => Total(estimate_scope1(q)) > 0
<1> DEFINE d == q.data
           fuel == calc_stationary_combustion(FuelType(q), d.fuel_use_liters)
           gas  == calc_stationary_combustion("natural_gas", d.natural_gas_m3)
           km   == calc_mobile_combustion(VehicleType(q), d.vehicle_km)
           leak == calc_fugitive_emissions(q.names.refrigerant_type, d.refrigerant_kg_leaked)
           lost == IF q.names.refrigerant_type = "" THEN 0 ELSE leak
           line1 == Line(d.fuel_use_liters > 0 \/ d.natural_gas_m3 > 0, fuel + gas)
           line2 == Line(d.vehicle_km > 0, km)
           line3 == Line(q.names.refrigerant_type # "" /\ d.refrigerant_kg_leaked > 0, leak)
           lines == [stationary_combustion |-> line1, mobile_combustion |-> line2, fugitive_emissions |-> line3]
           x == "stationary_combustion"
           y == "mobile_combustion"
           z == "fugitive_emissions"
           f == [c \in {x, y, z} |-> IF c = x THEN fuel + gas ELSE IF c = y THEN km ELSE lost]
<1>1. /\ d.fuel_use_liters \in Nat /\ d.natural_gas_m3 \in Nat /\ d.vehicle_km \in Nat
      /\ d.refrigerant_kg_leaked \in Nat
    BY AmountsAre
<1>2. /\ fuel \in Nat /\ (fuel = 0 <=> d.fuel_use_liters = 0)
      /\ gas \in Nat /\ (gas = 0 <=> d.natural_gas_m3 = 0)
      /\ km \in Nat /\ (d.vehicle_km = 0 => km = 0)
      /\ leak \in Nat /\ (d.refrigerant_kg_leaked = 0 => leak = 0)
    BY <1>1, CalculationsAre
<1>3. compute_ground_truth(q).scope1 = fuel + gas + km + lost
    BY DEF compute_ground_truth
<1>4. estimate_scope1(q) = Breakdown(lines)
    BY Zenon DEF estimate_scope1
<1> HIDE DEF d, fuel, gas, km, leak
<1>5. Adds(line1) = fuel + gas
    <2>1. /\ (d.fuel_use_liters > 0 \/ d.natural_gas_m3 > 0) => Adds(line1) = fuel + gas
          /\ ~ (d.fuel_use_liters > 0 \/ d.natural_gas_m3 > 0) => Adds(line1) = 0
        BY AddsIs, Zenon
    <2> HIDE DEF line1
    <2> QED
        BY <1>1, <1>2, <2>1
<1>6. Adds(line2) = km
    <2>1. (d.vehicle_km > 0 => Adds(line2) = km) /\ (~ (d.vehicle_km > 0) => Adds(line2) = 0)
        BY AddsIs, Zenon
    <2> HIDE DEF line2
    <2> QED
        BY <1>1, <1>2, <2>1
<1>7. Adds(line3) = lost
    <2>1. /\ q.names.refrigerant_type # "" /\ d.refrigerant_kg_leaked > 0 => Adds(line3) = leak
          /\ ~ (q.names.refrigerant_type # "" /\ d.refrigerant_kg_leaked > 0) => Adds(line3) = 0
        BY AddsIs, Zenon
    <2> HIDE DEF line3
    <2>2. CASE q.names.refrigerant_type = ""
        BY <2>1, <2>2
    <2>3. CASE q.names.refrigerant_type # ""
        <3>1. lost = leak
            BY <2>3
        <3>2. d.refrigerant_kg_leaked > 0 \/ d.refrigerant_kg_leaked = 0
            BY <1>1
        <3>3. CASE d.refrigerant_kg_leaked > 0
            BY <2>1, <2>3, <3>1, <3>3, Zenon
        <3>4. CASE d.refrigerant_kg_leaked = 0
            <4>1. ~ (d.refrigerant_kg_leaked > 0)
                BY <3>4
            <4> QED
                BY <1>2, <2>1, <3>1, <3>4, <4>1, Zenon
        <3> QED
            BY <3>2, <3>3, <3>4
    <2> QED
        BY <2>2, <2>3
<1>8. lost \in Nat
    BY <1>2
<1> HIDE DEF line1, line2, line3, lost
<1>9. DOMAIN lines = {x, y, z} /\ lines[x] = line1 /\ lines[y] = line2 /\ lines[z] = line3
    OBVIOUS
<1>10. /\ f \in [{x, y, z} -> Nat] /\ f[x] = fuel + gas /\ f[y] = km /\ f[z] = lost
    BY <1>2, <1>8
<1>11. x # y /\ x # z /\ y # z
    OBVIOUS
<1> HIDE DEF f, x, y, z, lines
<1>12. IsTable(f) /\ Total(f) = fuel + gas + km + lost
    <2>1. IsTable(f) /\ DOMAIN f = {x, y, z}
        BY <1>10, TableOfThree, Zenon
    <2>2. Total(f) = f[x] + f[y] + f[z]
        BY <1>11, <2>1, TotalOfThree
    <2> QED
        BY <1>2, <1>8, <1>10, <2>1, <2>2
<1>13. Alike(Breakdown(lines), f)
    <2>1. IsFiniteSet({x, y, z})
        BY ThreeAreFinite
    <2> QED
        BY <1>5, <1>6, <1>7, <1>9, <1>10, <2>1, BreakdownAlike
<1>14. Total(estimate_scope1(q)) = fuel + gas + km + lost
    BY <1>4, <1>12, <1>13, TotalsAgree
<1>15. fuel + gas + km + lost \in Nat
    BY <1>2, <1>8
<1>16. d.fuel_use_liters + d.natural_gas_m3 > 0 => fuel + gas + km + lost > 0
    <2>1. d.fuel_use_liters + d.natural_gas_m3 > 0 => fuel > 0 \/ gas > 0
        BY <1>1, <1>2
    <2> QED
        BY <1>2, <1>8, <2>1
<1> QED
    BY <1>3, <1>14, <1>15, <1>16 DEF d

LEMMA Scope2Agrees ==
    ASSUME NEW q, HasAmounts(q)
    PROVE  LET s2 == Scope2(estimate_scope2(q))
           IN  /\ s2 = compute_ground_truth(q).scope2 /\ s2 \in Nat
               /\ q.data.electricity_kwh > 0 <=> s2 > 0
<1> DEFINE n == q.data.electricity_kwh
           kg == calc_location_based(n, q.region)
<1>1. n \in Nat
    BY AmountsAre
<1>2. kg \in Nat /\ (kg = 0 <=> n = 0)
    BY <1>1, CalculationsAre
<1>3. compute_ground_truth(q).scope2 = kg
    BY DEF compute_ground_truth
<1>4. Scope2(estimate_scope2(q)) = IF n > 0 THEN kg ELSE 0
    BY DEF Scope2, estimate_scope2, Breakdown, Line, Lookup
<1> QED
    BY <1>1, <1>2, <1>3, <1>4

\* Waste has a line of the miner's breakdown, and none of the generator's.
LEMMA Scope3Agrees ==
    ASSUME NEW q, HasAmounts(q)
    PROVE  /\ q.data.waste_kg = 0 => Total(estimate_scope3(q)) = compute_ground_truth(q).scope3
           /\ Total(estimate_scope3(q)) \in Nat /\ compute_ground_truth(q).scope3 \in Nat
<1> DEFINE d == q.data
           goods  == calc_cat1_purchased_goods(d.supplier_spend_usd, q.industry)
           truck  == calc_cat4_transport(d.shipping_ton_km, "road")
           waste  == calc_cat5_waste(d.waste_kg)
           travel == calc_cat6_business_travel(d.employee_count, q.industry, d.business_travel_usd)
           home   == calc_cat7_commuting(d.employee_count, q.region)
           line1 == Line(d.supplier_spend_usd > 0, goods)
           line4 == Line(d.shipping_ton_km > 0, truck)
           line5 == Line(d.waste_kg > 0, waste)
           line6 == Line(d.business_travel_usd > 0 \/ d.employee_count > 0, travel)
           line7 == Line(d.employee_count > 0, home)
           lines == [cat1_purchased_goods |-> line1, cat4_upstream_transport |-> line4, cat5_waste |-> line5,
                     cat6_business_travel |-> line6, cat7_commuting |-> line7]
           given  == [cat1_purchased_goods |-> goods, cat4_upstream_transport |-> truck,
                     cat6_business_travel |-> travel, cat7_commuting |-> home]
           Four == {"cat1_purchased_goods", "cat4_upstream_transport", "cat6_business_travel", "cat7_commuting"}
           Five == Four \cup {"cat5_waste"}
           values == [c \in Five |-> IF c = "cat5_waste" THEN waste ELSE given[c]]
<1>1. /\ d.supplier_spend_usd \in Nat /\ d.shipping_ton_km \in Nat /\ d.waste_kg \in Nat
      /\ d.employee_count \in Nat /\ d.business_travel_usd \in Nat /\ d.revenue_usd \in Nat
    BY AmountsAre
<1>2. /\ goods \in Nat /\ (d.supplier_spend_usd = 0 => goods = 0)
      /\ truck \in Nat /\ (d.shipping_ton_km = 0 => truck = 0)
      /\ waste \in Nat /\ (d.waste_kg = 0 => waste = 0)
      /\ travel \in Nat /\ (d.employee_count = 0 /\ d.business_travel_usd = 0 => travel = 0)
      /\ home \in Nat /\ (d.employee_count = 0 => home = 0)
    <2>1. /\ goods \in Nat /\ (d.supplier_spend_usd = 0 => goods = 0)
          /\ truck \in Nat /\ (d.shipping_ton_km = 0 => truck = 0)
        BY <1>1, CalculationsAre
    <2>2. waste \in Nat /\ (d.waste_kg = 0 => waste = 0)
        BY <1>1, CalculationsAre
    <2>3. /\ travel \in Nat /\ (d.employee_count = 0 /\ d.business_travel_usd = 0 => travel = 0)
          /\ home \in Nat /\ (d.employee_count = 0 => home = 0)
        BY <1>1, CalculationsAre
    <2> QED
        BY <2>1, <2>2, <2>3
<1>3. /\ compute_ground_truth(q).scope3
             = Total(fill_industry_defaults(given, q.industry, d.revenue_usd, d.employee_count))
      /\ estimate_scope3(q)
             = fill_industry_defaults(Breakdown(lines), q.industry, d.revenue_usd, d.employee_count)
    BY Zenon DEF compute_ground_truth, estimate_scope3
<1> HIDE DEF d, goods, truck, waste, travel, home
<1>4. /\ Adds(line1) = goods /\ Adds(line4) = truck /\ Adds(line5) = waste
      /\ Adds(line6) = travel /\ Adds(line7) = home
    <2>1. /\ d.supplier_spend_usd > 0 => Adds(line1) = goods
          /\ ~ (d.supplier_spend_usd > 0) => Adds(line1) = 0
          /\ d.shipping_ton_km > 0 => Adds(line4) = truck
          /\ ~ (d.shipping_ton_km > 0) => Adds(line4) = 0
          /\ d.waste_kg > 0 => Adds(line5) = waste
          /\ ~ (d.waste_kg > 0) => Adds(line5) = 0
        BY AddsIs, Zenon
    <2>2. /\ (d.business_travel_usd > 0 \/ d.employee_count > 0) => Adds(line6) = travel
          /\ ~ (d.business_travel_usd > 0 \/ d.employee_count > 0) => Adds(line6) = 0
          /\ d.employee_count > 0 => Adds(line7) = home
          /\ ~ (d.employee_count > 0) => Adds(line7) = 0
        BY AddsIs, Zenon
    <2> HIDE DEF line1, line4, line5, line6, line7
    <2> QED
        BY <1>1, <1>2, <2>1, <2>2
<1> HIDE DEF line1, line4, line5, line6, line7
<1>5. /\ given \in [Four -> Nat] /\ DOMAIN lines = Five /\ values \in [Five -> Nat]
      /\ \A c \in Five : values[c] = Adds(lines[c])
      /\ \A c \in Four : values[c] = given[c]
      /\ values["cat5_waste"] = waste
    <2>1. given \in [Four -> Nat] /\ DOMAIN lines = Five
        BY <1>2
    <2>2. /\ given["cat1_purchased_goods"] = goods /\ given["cat4_upstream_transport"] = truck
          /\ given["cat6_business_travel"] = travel /\ given["cat7_commuting"] = home
          /\ lines["cat1_purchased_goods"] = line1 /\ lines["cat4_upstream_transport"] = line4
          /\ lines["cat5_waste"] = line5 /\ lines["cat6_business_travel"] = line6
          /\ lines["cat7_commuting"] = line7
        OBVIOUS
    <2> HIDE DEF given, lines
    <2>3. \A c \in Four : values[c] = given[c] /\ values[c] \in Nat
        BY <2>1
    <2>4. values["cat5_waste"] = waste
        OBVIOUS
    <2> HIDE DEF values
    <2>5. \A c \in Five : values[c] = Adds(lines[c])
        BY <1>4, <2>2, <2>3, <2>4
    <2>6. values \in [Five -> Nat]
        BY <1>2, <2>3, <2>4 DEF values
    <2> QED
        BY <2>1, <2>3, <2>4, <2>5, <2>6
<1> HIDE DEF lines, given, values
<1>6. IsFiniteSet(Four) /\ IsFiniteSet(Five)
    <2> DEFINE Three == {"cat1_purchased_goods", "cat4_upstream_transport", "cat6_business_travel"}
    <2>1. Four = Three \cup {"cat7_commuting"}
        OBVIOUS
    <2>2. IsFiniteSet(Three)
        BY ThreeAreFinite
    <2> HIDE DEF Four, Three
    <2> QED
        BY <2>1, <2>2, FS_AddElement
<1>7. Alike(Breakdown(lines), values) /\ Alike(given, given)
    <2>1. Alike(Breakdown(lines), values)
        <3> HIDE DEF Five
        <3> QED
            BY <1>5, <1>6, BreakdownAlike
    <2>2. IsTable(given)
        BY <1>5, <1>6 DEF IsTable
    <2> QED
        BY <2>1, <2>2 DEF Alike
<1>8. ASSUME d.waste_kg = 0
      PROVE  Alike(Breakdown(lines), given)
    <2>1. IsTable(given) /\ DOMAIN given = Four /\ DOMAIN values = Five /\ values["cat5_waste"] = 0
        BY <1>2, <1>5, <1>6, <1>8 DEF IsTable
    <2>3. ASSUME NEW k
          PROVE  Lookup(values, k, 0) = Lookup(given, k, 0)
        BY <1>5, <2>1 DEF Lookup
    <2> QED
        BY <1>7, <2>1, <2>3 DEF Alike
<1>9. /\ get_industry_profile(q.industry).materiality \in Seq(STRING \X Nat)
      /\ ExpectedScope3(get_industry_profile(q.industry), d.revenue_usd, d.employee_count) \in Nat
    BY <1>1, ProfilesAre, ExpectedIs
<1> DEFINE Filled(f) == fill_industry_defaults(f, q.industry, d.revenue_usd, d.employee_count)
<1>10. \A f, g : Alike(f, g) => Alike(Filled(f), Filled(g))
    BY <1>9, FilledAlike
<1> HIDE DEF Filled
<1>11. Total(Filled(Breakdown(lines))) \in Nat /\ Total(Filled(given)) \in Nat
    BY <1>7, <1>10, TotalIs DEF Alike
<1>12. d.waste_kg = 0 => Total(Filled(Breakdown(lines))) = Total(Filled(given))
    BY <1>8, <1>10, TotalsAgree
<1> QED
    BY <1>3, <1>11, <1>12 DEF d, Filled

Fields == {"fuel_use_liters", "fuel_type", "natural_gas_m3", "electricity_kwh", "employee_count",
           "revenue_usd", "supplier_spend_usd", "shipping_ton_km", "office_sqm", "vehicle_km",
           "business_travel_usd", "waste_kg"}

LEMMA FieldsAreFinite == IsFiniteSet(Fields)
<1> DEFINE A == {"fuel_use_liters", "fuel_type", "natural_gas_m3"}
           B == {"electricity_kwh", "employee_count", "revenue_usd"}
           C == {"supplier_spend_usd", "shipping_ton_km", "office_sqm"}
           D == {"vehicle_km", "business_travel_usd", "waste_kg"}
<1>1. IsFiniteSet(A) /\ IsFiniteSet(B) /\ IsFiniteSet(C) /\ IsFiniteSet(D)
    BY ThreeAreFinite
<1>2. Fields = (A \cup B) \cup (C \cup D)
    BY DEF Fields
<1> HIDE DEF A, B, C, D
<1> QED
    BY <1>1, <1>2, FS_Union

LEMMA WeightsAre ==
    ASSUME NEW industry \in VALID_INDUSTRIES
    PROVE  FIELD_WEIGHTS[industry] \in [Fields -> Nat] /\ FIELD_WEIGHTS[industry]["fuel_type"] > 0
<1>1. CASE industry = "manufacturing"
    BY <1>1 DEF FIELD_WEIGHTS, Fields
<1>2. CASE industry = "transportation"
    BY <1>2 DEF FIELD_WEIGHTS, Fields
<1>3. CASE industry = "technology"
    BY <1>3 DEF FIELD_WEIGHTS, Fields
<1>4. CASE industry = "retail"
    BY <1>4 DEF FIELD_WEIGHTS, Fields
<1>5. CASE industry = "energy"
    BY <1>5 DEF FIELD_WEIGHTS, Fields
<1>6. CASE industry = "financial_services"
    BY <1>6 DEF FIELD_WEIGHTS, Fields
<1>7. CASE industry = "construction"
    BY <1>7 DEF FIELD_WEIGHTS, Fields
<1>8. CASE industry = "food_beverage"
    BY <1>8 DEF FIELD_WEIGHTS, Fields
<1>9. CASE industry = "healthcare"
    BY <1>9 DEF FIELD_WEIGHTS, Fields
<1> QED
    BY <1>1, <1>2, <1>3, <1>4, <1>5, <1>6, <1>7, <1>8, <1>9 DEF VALID_INDUSTRIES

\* What the field weights give is no negative number.
LEMMA CompletenessIs ==
    ASSUME NEW q, QuestionnaireInput(q)
    PROVE  calc_data_completeness(q) \in Nat
<1> DEFINE weights == FIELD_WEIGHTS[q.industry]
           Given == {f \in DOMAIN weights \ {"fuel_type"} : q.data[f] > 0} \cup {"fuel_type"}
           given == Sum(weights, Given)
           whole == Sum(weights, Fields)
<1>1. weights \in [Fields -> Nat] /\ weights["fuel_type"] > 0 /\ "fuel_type" \in Fields
    BY WeightsAre DEF QuestionnaireInput, Fields
<1> HIDE DEF weights
<1>2. IsFiniteSet(Fields) /\ Given \in SUBSET Fields /\ IsFiniteSet(Given) /\ DOMAIN weights = Fields
    <2>1. Given \in SUBSET Fields /\ DOMAIN weights = Fields
        BY <1>1
    <2> HIDE DEF Given
    <2> QED
        BY <2>1, FieldsAreFinite, FS_Subset
<1>3. calc_data_completeness(q) = (SumFunctionOnSet(weights, Given) * 1000) \div SumFunctionOnSet(weights, DOMAIN weights)
    BY Zenon DEF calc_data_completeness, weights
<1> HIDE DEF Given
<1>4. SumFunctionOnSet(weights, Given) = given /\ SumFunctionOnSet(weights, DOMAIN weights) = whole
    BY <1>2, FoldIsSum
<1>5. given \in Nat /\ whole \in Nat
    BY <1>1, <1>2, SumType
<1>6. weights["fuel_type"] <= whole /\ weights["fuel_type"] \in Nat
    BY <1>1, <1>2, SumIsAtLeast
<1> HIDE DEF given, whole
<1>7. whole > 0
    BY <1>1, <1>5, <1>6
<1>8. \A n \in Nat, m \in Nat : m > 0 => (n * 1000) \div m \in Nat
    OBVIOUS
<1> QED
    BY <1>3, <1>4, <1>5, <1>7, <1>8

\* The amounts are thirteen.
LEMMA AmountsAreFinite == IsFiniteSet(Amounts)
<1> DEFINE A == {"fuel_use_liters", "natural_gas_m3", "electricity_kwh"}
           B == {"vehicle_km", "employee_count", "revenue_usd"}
           C == {"supplier_spend_usd", "shipping_ton_km", "office_sqm"}
           D == {"business_travel_usd", "waste_kg", "refrigerant_kg_leaked"}
           E == {"rec_kwh", "waste_kg", "refrigerant_kg_leaked"}
<1>1. IsFiniteSet(A) /\ IsFiniteSet(B) /\ IsFiniteSet(C) /\ IsFiniteSet(D) /\ IsFiniteSet(E)
    BY ThreeAreFinite
<1>2. Amounts = ((A \cup B) \cup (C \cup D)) \cup E
    BY DEF Amounts, ProvidedDataInput
<1> HIDE DEF A, B, C, D, E
<1>3. IsFiniteSet(A \cup B) /\ IsFiniteSet(C \cup D)
    BY <1>1, FS_Union
<1>4. IsFiniteSet((A \cup B) \cup (C \cup D))
    BY <1>3, FS_Union
<1> QED
    BY <1>1, <1>2, <1>4, FS_Union

LEMMA InputRatioIs ==
    ASSUME NEW q
    PROVE  InputRatio(q) \in Nat
<1> DEFINE S == {f \in Amounts : q.data[f] > 0}
           extra == IF q.names.refrigerant_type = "" THEN 0 ELSE 1
           given == Cardinality(S) + extra
<1>1. S \subseteq Amounts
    OBVIOUS
<1> HIDE DEF S
<1>2. Cardinality(S) \in Nat
    BY <1>1, AmountsAreFinite, FS_Subset, FS_CardinalityType
<1>3. given \in Nat
    <2>1. extra \in Nat
        OBVIOUS
    <2> HIDE DEF extra
    <2> QED
        BY <1>2, <2>1
<1>4. InputRatio(q) = AtMost((given * 1000) \div 13, 1000)
    BY Zenon DEF InputRatio, S
<1> HIDE DEF given
<1>5. (given * 1000) \div 13 \in Nat
    BY <1>3
<1> QED
    BY <1>4, <1>5 DEF AtMost

\* What the synapse makes of an estimate.
LEMMA SynapseIs ==
    ASSUME NEW e, NEW detail, NEW confidence
    PROVE  LET answer == CarbonSynapse([emissions |-> e, breakdown |-> detail, confidence |-> confidence,
                                        sources |-> TRUE, assumptions |-> TRUE])
           IN  /\ answer.emissions = [k \in DOMAIN e |-> Positive(e[k])]
               /\ answer.breakdown = detail
               /\ answer.confidence = IF confidence >= 0 THEN AtMost(confidence, 1000) ELSE confidence
               /\ answer.sources = TRUE /\ answer.assumptions = TRUE
BY DEF CarbonSynapse

\* No error in an estimate that is the truth.
LEMMA NoError ==
    ASSUME NEW truth \in Nat
    PROVE  /\ ScopeError(truth, truth) = 0 /\ Apart(truth, truth) = 0
           /\ ~ Mismatch(truth, truth)
<1>1. Apart(truth, truth) = 0
    BY DEF Apart
<1>2. Share(0, truth) = 0 \/ truth = 0
    <2>1. CASE truth > 0 /\ truth < 1000000
        BY <2>1 DEF Share
    <2>2. CASE truth >= 1000000
        <3>1. truth \div 1000 \in Nat /\ truth \div 1000 > 0
            BY <2>2
        <3>2. 0 \div (truth \div 1000) = 0
            BY <3>1
        <3> QED
            BY <2>2, <3>2 DEF Share, AtMost
    <2> QED
        BY <2>1, <2>2
<1>3. Max({truth, truth}) = truth
    BY DEF Max
<1>4. ~ Mismatch(truth, truth)
    <2>1. truth \div 50 \in Nat
        OBVIOUS
    <2> QED
        BY <1>1, <1>3, <2>1 DEF Mismatch
<1> QED
    BY <1>1, <1>2, <1>4 DEF ScopeError, If

LEMMA AccuracyOfTruth ==
    ASSUME NEW est, NEW truth,
           \A s \in Scopes : est[s] = truth[s] /\ truth[s] \in Nat
    PROVE  calc_accuracy_score(est, truth) = 1000
<1> DEFINE weights == [scope1 |-> 30, scope2 |-> 20, scope3 |-> 50]
           f == [s \in Scopes |-> weights[s] * ScopeError(est[s], truth[s])]
<1>1. \A s \in Scopes : f[s] = 0
    <2>1. ASSUME NEW s \in Scopes
          PROVE  ScopeError(est[s], truth[s]) = 0 /\ weights[s] \in Nat
        BY NoError DEF Scopes
    <2> QED
        BY <2>1, ProductsAre
<1>2. Scopes = {"scope1", "scope2", "scope3"}
    BY DEF Scopes
<1>3. f \in [{"scope1", "scope2", "scope3"} -> Nat]
    BY <1>1, <1>2
<1>4. calc_accuracy_score(est, truth) = 1000 - SumFunction(f) \div 100
    BY Zenon DEF calc_accuracy_score
<1>5. f["scope1"] = 0 /\ f["scope2"] = 0 /\ f["scope3"] = 0
    BY <1>1, <1>2
<1> HIDE DEF f
<1>6. Total(f) = f["scope1"] + f["scope2"] + f["scope3"]
    <2> DEFINE x == "scope1"
               y == "scope2"
               z == "scope3"
    <2>1. x # y /\ x # z /\ y # z
        OBVIOUS
    <2>2. f \in [{x, y, z} -> Nat]
        BY <1>3
    <2> HIDE DEF x, y, z
    <2>3. IsTable(f) /\ DOMAIN f = {x, y, z}
        BY <2>2, TableOfThree, Zenon
    <2>4. Total(f) = f[x] + f[y] + f[z]
        BY <2>1, <2>3, TotalOfThree
    <2> QED
        BY <2>4 DEF x, y, z
<1>7. SumFunction(f) = 0
    BY <1>5, <1>6 DEF Total
<1> QED
    BY <1>4, <1>7

LEMMA ComplianceOfTruth ==
    ASSUME NEW q, NEW e, NEW detail,
           DOMAIN e = {"scope1", "scope2", "scope3", "total"},
           e.scope1 \in Nat, e.scope2 \in Nat, e.scope3 \in Nat,
           e.total = e.scope1 + e.scope2 + e.scope3,
           e.scope1 = Total(detail.scope1_detail),
           e.scope2 = Lookup(detail.scope2_detail, "location_based", 0),
           e.scope3 = Total(detail.scope3_detail),
           q.data.fuel_use_liters + q.data.natural_gas_m3 > 0 => e.scope1 > 0,
           q.data.electricity_kwh > 0 => e.scope2 > 0,
           HasDetails(detail)
    PROVE  check_ghg_compliance(e, detail, q) = 1000
<1> DEFINE expected == e.scope1 + e.scope2 + e.scope3
           sum == If(expected > 0 /\ Apart(e.total, expected) > expected \div 100, 250)
           below == Cardinality({k \in DOMAIN e : e[k] < 0})
           burnt == If(q.data.fuel_use_liters + q.data.natural_gas_m3 > 0 /\ e.scope1 = 0, 150)
           power == If(q.data.electricity_kwh > 0 /\ e.scope2 = 0, 150)
           hidden == If(e.total > 0 /\ detail = NoBreakdown, 100)
           shown == IF e.total > 0 /\ HasDetails(detail) THEN BreakdownFaults(e, detail) ELSE 0
<1>1. check_ghg_compliance(e, detail, q) = Positive(1000 - (sum + 200 * below + burnt + power + hidden + shown))
    BY Zenon DEF check_ghg_compliance
<1>2. expected \in Nat /\ e.total = expected
    OBVIOUS
<1>3. sum = 0
    <2>1. Apart(e.total, expected) = 0 /\ expected \div 100 \in Nat
        BY <1>2, NoError
    <2>2. ~ (Apart(e.total, expected) > expected \div 100)
        BY <2>1
    <2> QED
        BY <2>2, Zenon DEF If
<1>4. below = 0
    <2>1. {k \in DOMAIN e : e[k] < 0} = {}
        OBVIOUS
    <2> QED
        BY <2>1, FS_EmptySet
<1>5. burnt = 0
    <2>1. ~ (q.data.fuel_use_liters + q.data.natural_gas_m3 > 0 /\ e.scope1 = 0)
        OBVIOUS
    <2> QED
        BY <2>1, Zenon DEF If
<1>6. power = 0
    <2>1. ~ (q.data.electricity_kwh > 0 /\ e.scope2 = 0)
        OBVIOUS
    <2> QED
        BY <2>1, Zenon DEF If
<1>7. BreakdownFaults(e, detail) = 0
    <2>1. /\ ~ Mismatch(Total(detail.scope1_detail), e.scope1)
          /\ ~ Mismatch(Lookup(detail.scope2_detail, "location_based", 0), e.scope2)
          /\ ~ Mismatch(Total(detail.scope3_detail), e.scope3)
        BY NoError
    <2>2. /\ If(Mismatch(Total(detail.scope1_detail), e.scope1), 100) = 0
          /\ If(Mismatch(Lookup(detail.scope2_detail, "location_based", 0), e.scope2), 50) = 0
          /\ If(Mismatch(Total(detail.scope3_detail), e.scope3), 100) = 0
        BY <2>1, Zenon DEF If
    <2> QED
        BY <2>2 DEF BreakdownFaults
<1>8. shown = 0
    BY <1>2, <1>7
<1>9. hidden = 0
    BY Zenon DEF If, HasDetails
<1> HIDE DEF sum, below, burnt, power, hidden, shown
<1> QED
    BY <1>1, <1>3, <1>4, <1>5, <1>6, <1>8, <1>9 DEF Positive

LEMMA CompletenessOfTruth ==
    ASSUME NEW answer, HasDetails(answer.breakdown), answer.confidence \in 0..1000,
           answer.sources, answer.assumptions
    PROVE  calc_completeness_score(answer) = 1000
<1>1. /\ If(HasDetails(answer.breakdown), 200) = 200
      /\ If(answer.confidence \in 0..1000, 200) = 200
      /\ If(answer.sources, 200) = 200
      /\ If(answer.assumptions, 200) = 200
    BY Zenon DEF If
<1>2. calc_completeness_score(answer)
        = 200 + If(HasDetails(answer.breakdown), 200) + If(answer.confidence \in 0..1000, 200)
              + If(answer.sources, 200) + If(answer.assumptions, 200)
    BY Zenon DEF calc_completeness_score
<1>3. calc_completeness_score(answer) = 200 + 200 + 200 + 200 + 200
    BY <1>1, <1>2, ZenonT(60)
<1> QED
    BY <1>3

\* Of any query without waste, whatever its region and its texts.
LEMMA TruthPasses ==
    ASSUME NEW q, QuestionnaireInput(q), q.data.waste_kg = 0
    PROVE  LET true == CarbonSynapse(forward(q))
           IN  /\ calc_accuracy_score(true.emissions, compute_ground_truth(q)) = 1000
               /\ check_ghg_compliance(true.emissions, true.breakdown, q) = 1000
               /\ calc_completeness_score(true) = 1000
<1> DEFINE detail == [scope1_detail |-> estimate_scope1(q), scope2_detail |-> estimate_scope2(q),
                      scope3_detail |-> estimate_scope3(q)]
           truth == compute_ground_truth(q)
           s1 == Total(estimate_scope1(q))
           s2 == Scope2(estimate_scope2(q))
           s3 == Total(estimate_scope3(q))
           confidence == (calc_data_completeness(q) * 6 + InputRatio(q) * 4) \div 10
           e == [scope1 |-> s1, scope2 |-> s2, scope3 |-> s3, total |-> s1 + s2 + s3]
           true == CarbonSynapse(forward(q))
           E == true.emissions
<1>1. forward(q) = [emissions |-> e, breakdown |-> detail, confidence |-> confidence,
                    sources |-> TRUE, assumptions |-> TRUE]
    <2>1. forward(q) = estimate(q)
        BY DEF forward
    <2>2. /\ Total(detail.scope1_detail) = s1 /\ Scope2(detail.scope2_detail) = s2
          /\ Total(detail.scope3_detail) = s3
        OBVIOUS
    <2>3. estimate(q) =
            [emissions |-> [scope1 |-> Total(detail.scope1_detail), scope2 |-> Scope2(detail.scope2_detail),
                            scope3 |-> Total(detail.scope3_detail),
                            total |-> Total(detail.scope1_detail) + Scope2(detail.scope2_detail)
                                        + Total(detail.scope3_detail)],
             breakdown |-> detail, confidence |-> confidence, sources |-> TRUE, assumptions |-> TRUE]
        BY Zenon DEF estimate
    <2> HIDE DEF detail, s1, s2, s3, confidence
    <2> QED
        BY <2>1, <2>2, <2>3
<1>2. /\ s1 \in Nat /\ s1 = truth.scope1 /\ (q.data.fuel_use_liters + q.data.natural_gas_m3 > 0 => s1 > 0)
      /\ s2 \in Nat /\ s2 = truth.scope2 /\ (q.data.electricity_kwh > 0 => s2 > 0)
      /\ s3 \in Nat /\ s3 = truth.scope3
    BY InputHasAmounts, Scope1Agrees, Scope2Agrees, Scope3Agrees
<1>3. confidence \in Nat
    BY CompletenessIs, InputRatioIs
<1>4. /\ s1 = Total(detail.scope1_detail) /\ s3 = Total(detail.scope3_detail)
      /\ s2 = Lookup(detail.scope2_detail, "location_based", 0)
    BY DEF Scope2
<1>5. HasDetails(detail)
    BY DEF HasDetails, NoBreakdown, EmptyBreakdown
<1> HIDE DEF detail, truth, s1, s2, s3, confidence
<1>6. /\ E = [k \in DOMAIN e |-> Positive(e[k])]
      /\ true.breakdown = detail
      /\ true.confidence = IF confidence >= 0 THEN AtMost(confidence, 1000) ELSE confidence
      /\ true.sources = TRUE /\ true.assumptions = TRUE
    <2> DEFINE answer == CarbonSynapse([emissions |-> e, breakdown |-> detail, confidence |-> confidence,
                                        sources |-> TRUE, assumptions |-> TRUE])
    <2>1. true = answer
        BY <1>1, Zenon
    <2> HIDE DEF e
    <2>2. /\ answer.emissions = [k \in DOMAIN e |-> Positive(e[k])]
          /\ answer.breakdown = detail
          /\ answer.confidence = IF confidence >= 0 THEN AtMost(confidence, 1000) ELSE confidence
          /\ answer.sources = TRUE /\ answer.assumptions = TRUE
        BY SynapseIs, Zenon
    <2> HIDE DEF true, answer
    <2> QED
        BY <2>1, <2>2
<1>7. /\ DOMAIN E = {"scope1", "scope2", "scope3", "total"}
      /\ E.scope1 = s1 /\ E.scope2 = s2 /\ E.scope3 = s3 /\ E.total = s1 + s2 + s3
    BY <1>2, <1>6 DEF Positive
<1>8. true.confidence \in 0..1000
    BY <1>3, <1>6 DEF AtMost
<1> HIDE DEF e, true, E
<1>9. calc_accuracy_score(E, truth) = 1000
    BY <1>2, <1>7, AccuracyOfTruth DEF Scopes
<1>10. check_ghg_compliance(E, detail, q) = 1000
    BY <1>2, <1>4, <1>5, <1>7, ComplianceOfTruth
<1>11. calc_completeness_score(true) = 1000
    BY <1>5, <1>6, <1>8, CompletenessOfTruth
<1> QED
    BY <1>6, <1>9, <1>10, <1>11 DEF true, E, truth

\* For any datasets without zeros for fuel and electricity, and on any query
\* without waste: the miner's estimate is the ground truth, computed by other
\* code, and gets full marks for accuracy, compliance and completeness.
THEOREM EstimatesAgree == EstimationSpec => []TrueAnswersPass
<1>1. TrueAnswersPass
    BY TruthPasses DEF TrueAnswersPass
<1> QED
    BY <1>1, PTL

-----------------------------------------------------------------------------
(* Marks *)

\* A quotient is no larger than the bound its dividend keeps.
LEMMA QuotientsAre ==
    /\ \A a \in Nat, b \in Nat : b > 0 => a \div b \in Nat
    /\ \A a \in Nat, b \in Nat : a < b => (a * 1000) \div b \in 0..1000
<1>1. ASSUME NEW a \in Nat, NEW b \in Nat, b > 0
      PROVE  a \div b \in Nat
    BY <1>1
<1>2. ASSUME NEW a \in Nat, NEW b \in Nat, a < b
      PROVE  (a * 1000) \div b \in 0..1000
    <2> DEFINE n == (a * 1000) \div b
    <2>1. n \in Nat
        BY <1>2
    <2>2. b * n <= a * 1000
        BY <1>2
    <2> HIDE DEF n
    <2>3. n <= 1000
        <3> SUFFICES ASSUME n > 1000 PROVE FALSE
            BY <2>1
        <3>1. b * n >= b * 1001
            BY <2>1
        <3> QED
            BY <1>2, <2>1, <2>2, <3>1
    <2> QED
        BY <2>1, <2>3 DEF n
<1> QED
    BY <1>1, <1>2

LEMMA ShareIs ==
    ASSUME NEW a \in Nat, NEW b \in Nat
    PROVE  Share(a, b) \in 0..1000
<1>1. CASE a >= b
    BY <1>1, SMT DEF Share
<1>2. CASE a < b /\ b < 1000000
    BY <1>2, QuotientsAre, SMT DEF Share
<1>3. CASE a < b /\ b >= 1000000
    <2>1. b \div 1000 \in Nat /\ b \div 1000 > 0
        BY <1>3, SMT
    <2>2. a \div (b \div 1000) \in Nat
        BY <2>1, QuotientsAre
    <2>3. Share(a, b) = AtMost(a \div (b \div 1000), 1000)
        BY <1>3, SMT DEF Share
    <2> QED
        BY <2>2, <2>3 DEF AtMost
<1> QED
    BY <1>1, <1>2, <1>3, SMT

LEMMA ApartIs ==
    ASSUME NEW a \in Nat, NEW b \in Nat
    PROVE  Apart(a, b) \in Nat
BY DEF Apart

LEMMA ErrorIs ==
    ASSUME NEW est \in Nat, NEW truth \in Nat
    PROVE  ScopeError(est, truth) \in 0..1000
<1>1. Share(Apart(est, truth), truth) \in 0..1000
    BY ApartIs, ShareIs, ZenonT(60)
<1>2. If(est # 0, 1000) \in {0, 1000}
    BY Zenon DEF If
<1> QED
    BY <1>1, <1>2, SMT DEF ScopeError

LEMMA IfIs ==
    ASSUME NEW fails, NEW points \in Nat
    PROVE  /\ If(fails, points) \in {0, points}
           /\ fails => If(fails, points) = points
           /\ ~ fails => If(fails, points) = 0
BY Zenon DEF If

LEMMA WeightedIs ==
    \A a \in Nat, b \in Nat, c \in Nat :
        a <= 1000 /\ b <= 1000 /\ c <= 1000 => 1000 - (30 * a + 20 * b + 50 * c) \div 100 \in 0..1000
<1> SUFFICES ASSUME NEW a \in Nat, NEW b \in Nat, NEW c \in Nat, a <= 1000, b <= 1000, c <= 1000
             PROVE  1000 - (30 * a + 20 * b + 50 * c) \div 100 \in 0..1000
    OBVIOUS
<1>1. \A n \in Nat : n <= 100000 => 1000 - n \div 100 \in 0..1000
    BY SMT
<1>2. 30 * a + 20 * b + 50 * c \in Nat /\ 30 * a + 20 * b + 50 * c <= 100000
    BY SMT
<1> QED
    BY <1>1, <1>2, SMT

\* The mark for accuracy, by the errors of the scopes.
LEMMA AccuracyIs ==
    ASSUME NEW est, NEW truth,
           \A s \in Scopes : est[s] \in Nat /\ truth[s] \in Nat
    PROVE  /\ \A s \in Scopes : ScopeError(est[s], truth[s]) \in 0..1000
           /\ calc_accuracy_score(est, truth)
                = 1000 - (30 * ScopeError(est["scope1"], truth["scope1"])
                            + 20 * ScopeError(est["scope2"], truth["scope2"])
                            + 50 * ScopeError(est["scope3"], truth["scope3"])) \div 100
           /\ calc_accuracy_score(est, truth) \in 0..1000
<1> DEFINE weights == [scope1 |-> 30, scope2 |-> 20, scope3 |-> 50]
           f == [s \in Scopes |-> weights[s] * ScopeError(est[s], truth[s])]
           x == "scope1"
           y == "scope2"
           z == "scope3"
           e1 == ScopeError(est[x], truth[x])
           e2 == ScopeError(est[y], truth[y])
           e3 == ScopeError(est[z], truth[z])
<1>1. \A s \in Scopes : ScopeError(est[s], truth[s]) \in 0..1000
    BY ErrorIs, ZenonT(60)
<1>2. Scopes = {x, y, z}
    BY DEF Scopes
<1>3. e1 \in 0..1000 /\ e2 \in 0..1000 /\ e3 \in 0..1000
    BY <1>1, <1>2
<1>4. calc_accuracy_score(est, truth) = 1000 - Total(f) \div 100
    BY Zenon DEF calc_accuracy_score, Total
<1>5. f[x] = 30 * e1 /\ f[y] = 20 * e2 /\ f[z] = 50 * e3
    BY <1>2
<1> HIDE DEF e1, e2, e3
<1>6. f \in [{x, y, z} -> Nat]
    BY <1>2, <1>3, <1>5, SMTT(40)
<1>7. x # y /\ x # z /\ y # z
    OBVIOUS
<1> HIDE DEF f, x, y, z
<1>8. IsTable(f) /\ DOMAIN f = {x, y, z}
    BY <1>6, TableOfThree, Zenon
<1>9. Total(f) = f[x] + f[y] + f[z]
    BY <1>7, <1>8, TotalOfThree
<1>10. calc_accuracy_score(est, truth) = 1000 - (30 * e1 + 20 * e2 + 50 * e3) \div 100
    BY <1>4, <1>5, <1>9
<1>11. calc_accuracy_score(est, truth) \in 0..1000
    <2>1. e1 \in Nat /\ e1 <= 1000 /\ e2 \in Nat /\ e2 <= 1000 /\ e3 \in Nat /\ e3 <= 1000
        BY <1>3
    <2>2. 1000 - (30 * e1 + 20 * e2 + 50 * e3) \div 100 \in 0..1000
        BY <2>1, WeightedIs, SMT
    <2> QED
        BY <1>10, <2>2, ZenonT(60)
<1> QED
    BY <1>1, <1>10, <1>11, ZenonT(60) DEF e1, e2, e3, x, y, z

\* An answer's emissions: four numbers.
EmissionKeys == {"scope1", "scope2", "scope3", "total"}
AreEmissions(e) == e \in [EmissionKeys -> Nat]

LEMMA EmissionsAre ==
    ASSUME NEW e, AreEmissions(e)
    PROVE  /\ DOMAIN e = EmissionKeys
           /\ e.scope1 \in Nat /\ e.scope2 \in Nat /\ e.scope3 \in Nat /\ e.total \in Nat
           /\ {k \in DOMAIN e : e[k] < 0} = {}
           /\ ~ \E k \in DOMAIN e : e[k] < 0
           /\ \A s \in Scopes : e[s] \in Nat
BY DEF AreEmissions, EmissionKeys, Scopes

\* The mark for compliance, and what it loses when the total is not the sum
\* and when electricity comes without emissions.
LEMMA ComplianceIs ==
    ASSUME NEW e, AreEmissions(e), NEW detail, NEW q
    PROVE  LET expected == e.scope1 + e.scope2 + e.scope3
               m == check_ghg_compliance(e, detail, q)
           IN  /\ m \in Nat /\ m <= 1000
               /\ expected > 0 /\ Apart(e.total, expected) > expected \div 100 => m <= 750
               /\ q.data.electricity_kwh > 0 /\ e.scope2 = 0 => m <= 850
<1> DEFINE expected == e.scope1 + e.scope2 + e.scope3
           sum == If(expected > 0 /\ Apart(e.total, expected) > expected \div 100, 250)
           below == Cardinality({k \in DOMAIN e : e[k] < 0})
           burnt == If(q.data.fuel_use_liters + q.data.natural_gas_m3 > 0 /\ e.scope1 = 0, 150)
           power == If(q.data.electricity_kwh > 0 /\ e.scope2 = 0, 150)
           hidden == If(e.total > 0 /\ detail = NoBreakdown, 100)
           shown == IF e.total > 0 /\ HasDetails(detail) THEN BreakdownFaults(e, detail) ELSE 0
           m == check_ghg_compliance(e, detail, q)
<1>1. m = Positive(1000 - (sum + 200 * below + burnt + power + hidden + shown))
    BY Zenon DEF check_ghg_compliance
<1>2. below = 0
    BY EmissionsAre, FS_EmptySet
<1>3. BreakdownFaults(e, detail) \in Nat
    <2> DEFINE f1 == If(Mismatch(Total(detail.scope1_detail), e.scope1), 100)
               f2 == If(Mismatch(Lookup(detail.scope2_detail, "location_based", 0), e.scope2), 50)
               f3 == If(Mismatch(Total(detail.scope3_detail), e.scope3), 100)
    <2>1. f1 \in {0, 100} /\ f2 \in {0, 50} /\ f3 \in {0, 100}
        BY Zenon DEF If
    <2>2. BreakdownFaults(e, detail) = f1 + f2 + f3
        BY Zenon DEF BreakdownFaults
    <2> HIDE DEF f1, f2, f3
    <2>3. f1 \in Nat /\ f2 \in Nat /\ f3 \in Nat
        BY <2>1
    <2> QED
        BY <2>2, <2>3
<1>4. shown \in Nat
    BY <1>3
<1>5. /\ sum \in {0, 250} /\ burnt \in {0, 150} /\ power \in {0, 150} /\ hidden \in {0, 100}
      /\ expected > 0 /\ Apart(e.total, expected) > expected \div 100 => sum = 250
      /\ q.data.electricity_kwh > 0 /\ e.scope2 = 0 => power = 150
    BY Zenon DEF If
<1> HIDE DEF expected, sum, below, burnt, power, hidden, shown, m
<1>6. sum \in Nat /\ burnt \in Nat /\ power \in Nat /\ hidden \in Nat
    BY <1>5
<1>7. m \in Nat /\ m <= 1000 /\ m <= Positive(1000 - sum) /\ m <= Positive(1000 - power)
    BY <1>1, <1>2, <1>4, <1>6 DEF Positive
<1>8. (sum = 250 => m <= 750) /\ (power = 150 => m <= 850)
    BY <1>7 DEF Positive
<1>9. /\ m \in Nat /\ m <= 1000
      /\ expected > 0 /\ Apart(e.total, expected) > expected \div 100 => m <= 750
      /\ q.data.electricity_kwh > 0 /\ e.scope2 = 0 => m <= 850
    BY <1>5, <1>7, <1>8
<1> QED
    BY <1>9 DEF m, expected

LEMMA CompletenessMarkIs ==
    ASSUME NEW answer
    PROVE  LET m == calc_completeness_score(answer)
           IN  /\ m \in Nat /\ m <= 1000
               /\ answer.breakdown = NoBreakdown /\ answer.confidence \notin 0..1000 /\ ~ answer.sources => m <= 400
<1> DEFINE shown == If(HasDetails(answer.breakdown), 200)
           sure == If(answer.confidence \in 0..1000, 200)
           known == If(answer.sources, 200)
           said == If(answer.assumptions, 200)
<1>1. calc_completeness_score(answer) = 200 + shown + sure + known + said
    BY Zenon DEF calc_completeness_score
<1>2. /\ shown \in {0, 200} /\ sure \in {0, 200} /\ known \in {0, 200} /\ said \in {0, 200}
      /\ answer.breakdown = NoBreakdown => shown = 0
      /\ answer.confidence \notin 0..1000 => sure = 0
      /\ ~ answer.sources => known = 0
    BY ZenonT(60) DEF If, HasDetails
<1> HIDE DEF shown, sure, known, said
<1>3. shown \in Nat /\ sure \in Nat /\ known \in Nat /\ said \in Nat
    BY <1>2
<1> QED
    BY <1>1, <1>2, <1>3

\* What the sanity checks find, each by itself.
OutOfRange(e, q) ==
    If(q.data.electricity_kwh > 0 /\ e.scope2 > 0
         /\ e.scope2 \notin q.data.electricity_kwh * 5 .. q.data.electricity_kwh * 1350, 200)
TooMuchEach(e, q) ==
    If(q.data.employee_count > 0
         /\ (e.total - 1) \div q.data.employee_count >= UPPER_PER_EMPLOYEE[q.industry], 200)
Filled(q) == {f \in DataFields : q.data[f] > 0}
TooSure(confidence, q) == If(Cardinality(Filled(q)) <= 2 /\ confidence > 900, 150)
Nothing(e, q) ==
    If(Filled(q) \cap {"fuel_use_liters", "natural_gas_m3", "electricity_kwh", "vehicle_km"} # {}
         /\ e.total = 0, 250)

LEMMA SanityIs ==
    ASSUME NEW e, AreEmissions(e), NEW confidence, NEW q
    PROVE  /\ OutOfRange(e, q) \in {0, 200} /\ TooMuchEach(e, q) \in {0, 200}
           /\ TooSure(confidence, q) \in {0, 150} /\ Nothing(e, q) \in {0, 250}
           /\ run_sanity_checks(e, confidence, q)
                = 1000 - (OutOfRange(e, q) + TooMuchEach(e, q) + TooSure(confidence, q) + Nothing(e, q))
           /\ run_sanity_checks(e, confidence, q) \in 0..1000
<1> DEFINE below == If(\E k \in DOMAIN e : e[k] < 0, 300)
           range == OutOfRange(e, q)
           each == TooMuchEach(e, q)
           sure == TooSure(confidence, q)
           empty == Nothing(e, q)
<1>1. run_sanity_checks(e, confidence, q) = Positive(1000 - (below + range + each + sure + empty))
    BY Zenon DEF run_sanity_checks, OutOfRange, TooMuchEach, TooSure, Nothing, Filled
<1>2. below = 0
    BY EmissionsAre, Zenon DEF If
<1>3. range \in {0, 200} /\ each \in {0, 200} /\ sure \in {0, 150} /\ empty \in {0, 250}
    BY ZenonT(60) DEF OutOfRange, TooMuchEach, TooSure, Nothing, If
<1> HIDE DEF below, range, each, sure, empty
<1>4. /\ range \in Nat /\ each \in Nat /\ sure \in Nat /\ empty \in Nat
      /\ range + each + sure + empty <= 800
    BY <1>3
<1>5. run_sanity_checks(e, confidence, q) = 1000 - (range + each + sure + empty)
    BY <1>1, <1>2, <1>4 DEF Positive
<1>6. run_sanity_checks(e, confidence, q) \in 0..1000
    BY <1>4, <1>5
<1> QED
    BY <1>3, <1>5, <1>6, ZenonT(60) DEF range, each, sure, empty

\* The mark for likeness to the industry depends on the scopes only.
LEMMA BenchmarkIs ==
    ASSUME NEW e, NEW industry, e.scope1 \in Nat, e.scope2 \in Nat, e.scope3 \in Nat
    PROVE  /\ check_benchmark_alignment(e, industry) \in Nat
           /\ check_benchmark_alignment(e, industry) <= 1000
           /\ e.scope1 + e.scope2 + e.scope3 = 0 => check_benchmark_alignment(e, industry) = 500
<1> DEFINE scope == <<e.scope1, e.scope2, e.scope3>>
           total == e.scope1 + e.scope2 + e.scope3
           expected == get_industry_profile(industry).split
           Excess(i) == Positive(Apart(Share(scope[i], total), expected[i] * 10) - 150)
           Off(i) == (AtMost((Excess(i) * 10) \div 4, 1000) * 33) \div 100
           f == [i \in 1..3 |-> Off(i)]
           m == check_benchmark_alignment(e, industry)
<1>1. m = IF total <= 0 THEN 500 ELSE Positive(1000 - Total(f))
    BY Zenon DEF check_benchmark_alignment, Total
<1>2. expected \in [1..3 -> Nat]
    <2>1. PICK i \in DOMAIN Profiles : get_industry_profile(industry) = Profiles[i]
        BY DatasetsAssumption, ZenonT(60) DEF get_industry_profile, Lookup
    <2>2. Profiles[i].split \in [1..3 -> Nat]
        BY DatasetsAssumption, Zenon
    <2> QED
        BY <2>1, <2>2
<1>3. total \in Nat
    OBVIOUS
<1> HIDE DEF expected, total
<1>4. \A i \in 1..3 : Off(i) \in Nat
    <2> SUFFICES ASSUME NEW i \in 1..3 PROVE Off(i) \in Nat
        OBVIOUS
    <2> DEFINE share == Share(scope[i], total)
               apart == Apart(share, expected[i] * 10)
               n == AtMost((Excess(i) * 10) \div 4, 1000)
    <2>1. scope[i] \in Nat
        OBVIOUS
    <2> HIDE DEF scope
    <2>2. share \in Nat
        <3>1. share \in 0..1000
            BY <1>3, <2>1, ShareIs, ZenonT(60)
        <3> HIDE DEF share
        <3> QED
            BY <3>1
    <2>3. expected[i] \in Nat /\ expected[i] * 10 \in Nat
        BY <1>2
    <2> HIDE DEF share
    <2>4. apart \in Nat
        BY <2>2, <2>3, ApartIs
    <2>5. Excess(i) = Positive(apart - 150)
        BY Zenon DEF share
    <2> HIDE DEF apart
    <2>6. Excess(i) \in Nat
        BY <2>4, <2>5 DEF Positive
    <2> HIDE DEF Excess
    <2>7. n \in Nat
        BY <2>6, SMT DEF AtMost
    <2> HIDE DEF n
    <2>8. (n * 33) \div 100 \in Nat
        BY <2>7, SMT
    <2> QED
        BY <2>8, Zenon DEF n
<1> HIDE DEF Off
<1>5. Total(f) \in Nat
    <2>1. f \in [{1, 2, 3} -> Nat]
        BY <1>4
    <2> HIDE DEF f
    <2>2. IsTable(f)
        BY <2>1, TableOfThree
    <2> QED
        BY <2>2, TotalIs
<1> HIDE DEF f, m
<1>6. m \in Nat /\ m <= 1000 /\ (total = 0 => m = 500)
    BY <1>1, <1>3, <1>5 DEF Positive
<1> QED
    BY <1>6, ZenonT(60) DEF m, total

\* The amounts and the texts that a query gives.
GivenAmounts(q) == {f \in Amounts : q.data[f] > 0}
GivenTexts(q)   == {f \in Texts : q.names[f] # ""}

LEMMA GivenAre ==
    ASSUME NEW q
    PROVE  /\ IsFiniteSet(GivenAmounts(q)) /\ Cardinality(GivenAmounts(q)) \in Nat
           /\ IsFiniteSet(GivenTexts(q)) /\ Cardinality(GivenTexts(q)) \in Nat
           /\ FieldsProvided(q) = Cardinality(GivenAmounts(q)) + Cardinality(GivenTexts(q))
           /\ FieldsProvided(q) \in Nat
<1>1. IsFiniteSet(Texts)
    BY ThreeAreFinite DEF Texts
<1>2. IsFiniteSet(GivenAmounts(q)) /\ IsFiniteSet(GivenTexts(q))
    BY <1>1, AmountsAreFinite, FS_Subset DEF GivenAmounts, GivenTexts
<1>3. Cardinality(GivenAmounts(q)) \in Nat /\ Cardinality(GivenTexts(q)) \in Nat
    BY <1>2, FS_CardinalityType
<1>4. FieldsProvided(q) = Cardinality(GivenAmounts(q)) + Cardinality(GivenTexts(q))
    BY Zenon DEF FieldsProvided, GivenAmounts, GivenTexts
<1> QED
    BY <1>2, <1>3, <1>4

\* The penalty grows with the confidence.
LEMMA PenaltyIs ==
    ASSUME NEW confidence \in Int, NEW q
    PROVE  LET fields == FieldsProvided(q)
               p == calc_overconfidence_penalty(confidence, q)
           IN  /\ p \in Nat
               /\ confidence < 700 => p = 0
               /\ fields > 5 => p <= 80
               /\ confidence <= 850 => p <= 150
               /\ confidence >= 900 => \A c \in Int : calc_overconfidence_penalty(c, q) <= p
<1> DEFINE fields == FieldsProvided(q)
           Light(c) == If(fields <= 8 /\ c >= 800, 80)
           Penalty(c) == IF c < 700 THEN 0
                         ELSE IF fields <= 3 /\ c > 850 THEN 250
                         ELSE IF fields <= 5 THEN 150
                         ELSE Light(c)
<1>1. \A c : calc_overconfidence_penalty(c, q) = Penalty(c)
    BY Zenon DEF calc_overconfidence_penalty
<1>2. fields \in Nat
    BY GivenAre
<1> HIDE DEF fields
<1>3. ASSUME NEW c \in Int
      PROVE  /\ Light(c) \in {0, 80} /\ (fields <= 8 /\ c >= 800 => Light(c) = 80)
             /\ (~ (fields <= 8 /\ c >= 800) => Light(c) = 0)
    BY ZenonT(60) DEF If
<1> HIDE DEF Light
<1>4. ASSUME NEW c \in Int
      PROVE  /\ Penalty(c) \in Nat
             /\ c < 700 => Penalty(c) = 0
             /\ fields > 5 => Penalty(c) <= 80
             /\ c <= 850 => Penalty(c) <= 150
    BY <1>2, <1>3, SMT
<1>5. ASSUME NEW c \in Int, NEW d \in Int, d >= 900
      PROVE  Penalty(c) <= Penalty(d)
    <2>1. /\ Light(c) \in {0, 80} /\ (~ (fields <= 8 /\ c >= 800) => Light(c) = 0)
          /\ Light(d) \in {0, 80} /\ (fields <= 8 => Light(d) = 80)
        BY <1>3, <1>5, SMT
    <2> QED
        BY <1>2, <1>5, <2>1, SMT
<1> HIDE DEF Penalty
<1> QED
    BY <1>1, <1>4, <1>5, SMT DEF fields

\* A mark is between nothing and all, and is what the parts add up to.
LEMMA MarkIs ==
    ASSUME NEW answer, AreEmissions(answer.emissions), answer.confidence \in Int,
           NEW q, NEW truth, \A s \in Scopes : truth[s] \in Nat
    PROVE  LET e == answer.emissions
               accuracy == calc_accuracy_score(e, truth)
               compliance == check_ghg_compliance(e, answer.breakdown, q)
               complete == calc_completeness_score(answer)
               sanity == run_sanity_checks(e, answer.confidence, q)
               likeness == check_benchmark_alignment(e, q.industry)
               penalty == calc_overconfidence_penalty(answer.confidence, q)
           IN  /\ accuracy \in 0..1000 /\ compliance \in 0..1000 /\ complete \in 0..1000
               /\ sanity \in 0..1000 /\ likeness \in 0..1000 /\ penalty \in Nat
               /\ score_response(answer, q, truth)
                    = Positive((40 * accuracy + 25 * compliance + 15 * complete + 15 * sanity + 5 * likeness) \div 100
                                 - penalty)
               /\ score_response(answer, q, truth) \in 0..1000
<1> DEFINE e == answer.emissions
           accuracy == calc_accuracy_score(e, truth)
           compliance == check_ghg_compliance(e, answer.breakdown, q)
           complete == calc_completeness_score(answer)
           sanity == run_sanity_checks(e, answer.confidence, q)
           likeness == check_benchmark_alignment(e, q.industry)
           penalty == calc_overconfidence_penalty(answer.confidence, q)
           sum == 40 * accuracy + 25 * compliance + 15 * complete + 15 * sanity + 5 * likeness
<1>1. accuracy \in 0..1000
    BY EmissionsAre, AccuracyIs
<1>2. compliance \in 0..1000
    <2>1. compliance \in Nat /\ compliance <= 1000
        BY ComplianceIs
    <2> HIDE DEF compliance
    <2> QED
        BY <2>1
<1>3. complete \in 0..1000
    <2>1. complete \in Nat /\ complete <= 1000
        BY CompletenessMarkIs
    <2> HIDE DEF complete
    <2> QED
        BY <2>1
<1>4. sanity \in 0..1000
    BY SanityIs
<1>5. likeness \in 0..1000
    <2>1. likeness \in Nat /\ likeness <= 1000
        BY EmissionsAre, BenchmarkIs
    <2> HIDE DEF likeness
    <2> QED
        BY <2>1
<1>6. penalty \in Nat
    BY PenaltyIs
<1>7. score_response(answer, q, truth) = Positive(sum \div 100 - penalty)
    BY Zenon DEF score_response
<1> HIDE DEF accuracy, compliance, complete, sanity, likeness, penalty
<1>8. sum \in Nat /\ sum <= 100000
    BY <1>1, <1>2, <1>3, <1>4, <1>5, SMT
<1> HIDE DEF sum
<1>9. sum \div 100 \in 0..1000
    BY <1>8, SMT
<1>10. score_response(answer, q, truth) \in 0..1000
    <2>1. \A n \in Nat, p \in Nat : n <= 1000 => Positive(n - p) \in 0..1000
        BY SMT DEF Positive
    <2> DEFINE whole == sum \div 100
    <2>2. whole \in Nat /\ whole <= 1000
        BY <1>9, SMTT(40)
    <2> HIDE DEF whole
    <2>3. Positive(whole - penalty) \in 0..1000
        BY <1>6, <2>1, <2>2, ZenonT(60)
    <2> QED
        BY <1>7, <2>3, ZenonT(60) DEF whole
<1> QED
    BY <1>1, <1>2, <1>3, <1>4, <1>5, <1>6, <1>7, <1>10, ZenonT(60)
       DEF e, accuracy, compliance, complete, sanity, likeness, penalty, sum

\* Every query has amounts, curated or drawn.
LEMMA QueryHasAmounts ==
    ASSUME NEW industry, NEW region, NEW amounts, NEW texts,
           \A f \in DOMAIN amounts : amounts[f] \in Nat
    PROVE  HasAmounts(Query(industry, region, amounts, texts))
BY DEF HasAmounts, Query, Lookup

LEMMA CuratedHaveAmounts ==
    ASSUME NEW q \in CURATED_CASES
    PROVE  HasAmounts(q)
<1> DEFINE Good(amounts) == \A f \in DOMAIN amounts : amounts[f] \in Nat
           a1 == [fuel_use_liters |-> 1887, electricity_kwh |-> 1200, employee_count |-> 500,
                  revenue_usd |-> 50000, vehicle_km |-> 2000]
           a2 == [natural_gas_m3 |-> 500, electricity_kwh |-> 5000, employee_count |-> 200,
                  revenue_usd |-> 30000, supplier_spend_usd |-> 10000, shipping_ton_km |-> 500]
           a3 == [electricity_kwh |-> 200, employee_count |-> 50, revenue_usd |-> 10000,
                  supplier_spend_usd |-> 500, business_travel_usd |-> 200, office_sqm |-> 1000]
           a4 == [revenue_usd |-> 50000]
           a5 == [vehicle_km |-> 500, electricity_kwh |-> 100, employee_count |-> 30]
           a6 == [electricity_kwh |-> 800, employee_count |-> 2000, revenue_usd |-> 500000,
                  supplier_spend_usd |-> 15000, business_travel_usd |-> 5000, office_sqm |-> 20000]
           a7 == [electricity_kwh |-> 50, rec_kwh |-> 50, employee_count |-> 10,
                  revenue_usd |-> 2000, office_sqm |-> 200]
           a8 == [fuel_use_liters |-> 50000, natural_gas_m3 |-> 20000, electricity_kwh |-> 200000,
                  vehicle_km |-> 30000, employee_count |-> 50000, revenue_usd |-> 5000000,
                  supplier_spend_usd |-> 2000000, shipping_ton_km |-> 500000, waste_kg |-> 10000,
                  business_travel_usd |-> 50000]
           a9 == [fuel_use_liters |-> 200, vehicle_km |-> 800, electricity_kwh |-> 500,
                  employee_count |-> 300, revenue_usd |-> 80000, supplier_spend_usd |-> 40000,
                  waste_kg |-> 500, refrigerant_kg_leaked |-> 50]
<1>1. Good(a1) /\ Good(a2) /\ Good(a3)
    BY SMT
<1>2. Good(a4) /\ Good(a5) /\ Good(a6)
    BY SMT
<1>3. Good(a7)
    BY SMT
<1>4. Good(a8)
    BY SMT
<1>5. Good(a9)
    BY SMT
<1>6. \E industry, region, texts :
         \/ q = Query(industry, region, a1, texts) \/ q = Query(industry, region, a2, texts)
         \/ q = Query(industry, region, a3, texts) \/ q = Query(industry, region, a4, texts)
         \/ q = Query(industry, region, a5, texts) \/ q = Query(industry, region, a6, texts)
         \/ q = Query(industry, region, a7, texts) \/ q = Query(industry, region, a8, texts)
         \/ q = Query(industry, region, a9, texts)
    BY SMTT(40) DEF CURATED_CASES
<1> HIDE DEF a1, a2, a3, a4, a5, a6, a7, a8, a9
<1> QED
    BY <1>1, <1>2, <1>3, <1>4, <1>5, <1>6, QueryHasAmounts, SMT

LEMMA QueriesHaveAmounts ==
    ASSUME NEW q \in Queries
    PROVE  HasAmounts(q)
<1>1. CASE q \in CURATED_CASES
    BY <1>1, CuratedHaveAmounts
<1>2. CASE q \in generate_synthetic_query
    <2> DEFINE Drawn(K) == {Query(i, r, Restrict(a, K \ {"fuel_type"}), t) :
                               i \in Industries, r \in Regions, a \in SomeAmounts, t \in FuelTexts(K)}
    <2>1. q \in UNION {Drawn(K) : K \in UNION {kSubset(n, SyntheticFields) : n \in Sizes}}
        BY <1>2 DEF generate_synthetic_query
    <2>2. PICK n, kept : n \in Sizes /\ kept \in kSubset(n, SyntheticFields) /\ q \in Drawn(kept)
        <3> HIDE DEF Drawn
        <3> QED
            BY <2>1
    <2>3. PICK i \in Industries, r \in Regions, a \in SomeAmounts, t \in FuelTexts(kept) :
              q = Query(i, r, Restrict(a, kept \ {"fuel_type"}), t)
        BY <2>2
    <2>4. kept \subseteq SyntheticFields
        BY <2>2, SMT DEF kSubset
    <2>5. \A f \in kept \ {"fuel_type"} : a[f] \in Nat
        BY <2>4, CasesAssumption
    <2>6. \A f \in DOMAIN Restrict(a, kept \ {"fuel_type"}) : Restrict(a, kept \ {"fuel_type"})[f] \in Nat
        BY <2>5 DEF Restrict
    <2> QED
        BY <2>3, <2>6, QueryHasAmounts, Zenon
<1> QED
    BY <1>1, <1>2 DEF Queries

(* Answers *)

AnswerKeys == {"emissions", "breakdown", "confidence", "sources", "assumptions"}

\* What the synapse makes of an answer.
LEMMA SynapseOf ==
    ASSUME NEW answer, DOMAIN answer = AnswerKeys
    PROVE  LET r == CarbonSynapse(answer)
           IN  /\ r.emissions = [k \in DOMAIN answer.emissions |-> Positive(answer.emissions[k])]
               /\ r.confidence = IF answer.confidence >= 0 THEN AtMost(answer.confidence, 1000) ELSE answer.confidence
               /\ r.breakdown = answer.breakdown /\ r.sources = answer.sources /\ r.assumptions = answer.assumptions
BY DEF CarbonSynapse, AnswerKeys

LEMMA Clamped ==
    ASSUME NEW answer, DOMAIN answer = AnswerKeys,
           answer.emissions \in [EmissionKeys -> Int], answer.confidence \in Int
    PROVE  LET r == CarbonSynapse(answer)
           IN  /\ AreEmissions(r.emissions)
               /\ answer.confidence >= 0 => r.confidence \in 0..1000
               /\ answer.confidence < 0 => r.confidence = answer.confidence
               /\ \A k \in EmissionKeys : r.emissions[k] = Positive(answer.emissions[k])
               /\ answer.emissions \in [EmissionKeys -> Nat] => r.emissions = answer.emissions
<1> DEFINE r == CarbonSynapse(answer)
           e == answer.emissions
           c == answer.confidence
<1>1. /\ r.emissions = [k \in DOMAIN e |-> Positive(e[k])]
      /\ r.confidence = IF c >= 0 THEN AtMost(c, 1000) ELSE c
    BY SynapseOf
<1> HIDE DEF r, e, c
<1>2. e \in [EmissionKeys -> Int] /\ c \in Int /\ DOMAIN e = EmissionKeys
    BY DEF e, c
<1>3. AreEmissions(r.emissions) /\ \A k \in EmissionKeys : r.emissions[k] = Positive(e[k])
    BY <1>1, <1>2, SMT DEF AreEmissions, Positive
<1>4. (c >= 0 => r.confidence \in 0..1000) /\ (c < 0 => r.confidence = c)
    BY <1>1, <1>2, SMT DEF AtMost
<1>5. e \in [EmissionKeys -> Nat] => r.emissions = e
    BY <1>1, <1>2, SMT DEF Positive
<1> QED
    BY <1>3, <1>4, <1>5 DEF r, e, c

\* The parts of an estimate.
Details(q) ==
    [scope1_detail |-> estimate_scope1(q), scope2_detail |-> estimate_scope2(q), scope3_detail |-> estimate_scope3(q)]

Sums(q) ==
    LET s1 == Total(estimate_scope1(q))
        s2 == Scope2(estimate_scope2(q))
        s3 == Total(estimate_scope3(q))
    IN [scope1 |-> s1, scope2 |-> s2, scope3 |-> s3, total |-> s1 + s2 + s3]

Confidence(q) == (calc_data_completeness(q) * 6 + InputRatio(q) * 4) \div 10

LEMMA EstimateIs ==
    ASSUME NEW q
    PROVE  estimate(q) = [emissions |-> Sums(q), breakdown |-> Details(q), confidence |-> Confidence(q),
                          sources |-> TRUE, assumptions |-> TRUE]
<1> DEFINE d == Details(q)
<1>1. /\ Total(d.scope1_detail) = Total(estimate_scope1(q))
      /\ Scope2(d.scope2_detail) = Scope2(estimate_scope2(q))
      /\ Total(d.scope3_detail) = Total(estimate_scope3(q))
    BY DEF Details
<1>2. estimate(q) =
        [emissions |-> [scope1 |-> Total(d.scope1_detail), scope2 |-> Scope2(d.scope2_detail),
                        scope3 |-> Total(d.scope3_detail),
                        total |-> Total(d.scope1_detail) + Scope2(d.scope2_detail) + Total(d.scope3_detail)],
         breakdown |-> d, confidence |-> Confidence(q), sources |-> TRUE, assumptions |-> TRUE]
    BY Zenon DEF estimate, Details, Confidence
<1> HIDE DEF d
<1>3. Sums(q) = [scope1 |-> Total(d.scope1_detail), scope2 |-> Scope2(d.scope2_detail),
                 scope3 |-> Total(d.scope3_detail),
                 total |-> Total(d.scope1_detail) + Scope2(d.scope2_detail) + Total(d.scope3_detail)]
    BY <1>1, Zenon DEF Sums
<1> QED
    BY <1>2, <1>3, Zenon DEF d

\* The sums of an estimate and the ground truth, which agree but for waste.
LEMMA SumsAre ==
    ASSUME NEW q, HasAmounts(q)
    PROVE  LET e == Sums(q)
               truth == compute_ground_truth(q)
           IN  /\ AreEmissions(e)
               /\ e.total = e.scope1 + e.scope2 + e.scope3
               /\ e.scope2 > 0 => q.data.electricity_kwh > 0
               /\ \A s \in Scopes : truth[s] \in Nat
               /\ q.data.waste_kg = 0 => \A s \in Scopes : e[s] = truth[s]
<1> DEFINE e == Sums(q)
           truth == compute_ground_truth(q)
           s1 == Total(estimate_scope1(q))
           s2 == Scope2(estimate_scope2(q))
           s3 == Total(estimate_scope3(q))
<1>1. /\ s1 \in Nat /\ s1 = truth.scope1
      /\ s2 \in Nat /\ s2 = truth.scope2 /\ (q.data.electricity_kwh > 0 <=> s2 > 0)
      /\ s3 \in Nat /\ truth.scope3 \in Nat /\ (q.data.waste_kg = 0 => s3 = truth.scope3)
    BY Scope1Agrees, Scope2Agrees, Scope3Agrees
<1>2. e = [scope1 |-> s1, scope2 |-> s2, scope3 |-> s3, total |-> s1 + s2 + s3]
    BY Zenon DEF Sums
<1> HIDE DEF e, truth, s1, s2, s3
<1>3. AreEmissions(e) /\ e.scope1 = s1 /\ e.scope2 = s2 /\ e.scope3 = s3 /\ e.total = s1 + s2 + s3
    BY <1>1, <1>2 DEF AreEmissions, EmissionKeys
<1>4. \A s \in Scopes : truth[s] \in Nat
    BY <1>1 DEF Scopes
<1>5. q.data.waste_kg = 0 => \A s \in Scopes : e[s] = truth[s]
    BY <1>1, <1>3 DEF Scopes
<1> QED
    BY <1>1, <1>3, <1>4, <1>5 DEF e, truth

\* A scope of an answer, scaled.
Times(v, k) == (v * k) \div 10

LEMMA TimesIs ==
    /\ \A v \in Nat, k \in Int : Times(v, k) \in Int
    /\ \A v \in Nat, k \in Int : k <= 0 => Times(v, k) <= 0
    /\ \A v \in Nat, k \in Int : k >= 20 => Times(v, k) >= 2 * v
    /\ \A k \in Int : Times(0, k) = 0
<1>1. ASSUME NEW v \in Nat, NEW k \in Int
      PROVE  Times(v, k) \in Int
    BY DEF Times
<1>2. ASSUME NEW v \in Nat, NEW k \in Int, k <= 0
      PROVE  Times(v, k) <= 0
    <2>1. v * k <= 0 /\ v * k \in Int
        BY <1>2
    <2> DEFINE n == v * k
    <2> HIDE DEF n
    <2>2. n \div 10 <= 0
        BY <2>1 DEF n
    <2> QED
        BY <2>2, Zenon DEF Times, n
<1>3. ASSUME NEW v \in Nat, NEW k \in Int, k >= 20
      PROVE  Times(v, k) >= 2 * v
    <2> DEFINE n == v * k
    <2>1. n >= 20 * v /\ n \in Int
        BY <1>3
    <2> HIDE DEF n
    <2>2. n \div 10 >= 2 * v
        BY <2>1
    <2> QED
        BY <2>2, Zenon DEF Times, n
<1>4. ASSUME NEW k \in Int
      PROVE  Times(0, k) = 0
    BY DEF Times
<1> QED
    BY <1>1, <1>2, <1>3, <1>4

LEMMA ScaledIs ==
    ASSUME NEW q, HasAmounts(q), NEW S \in SUBSET Scopes, NEW k \in Int
    PROVE  /\ DOMAIN Scaled(estimate(q), S, k) = AnswerKeys
           /\ Scaled(estimate(q), S, k).confidence = Confidence(q)
           /\ Scaled(estimate(q), S, k).emissions \in [EmissionKeys -> Int]
           /\ \A s \in S : Scaled(estimate(q), S, k).emissions[s] = Times(Sums(q)[s], k)
           /\ \A s \in Scopes \ S : Scaled(estimate(q), S, k).emissions[s] = Sums(q)[s]
           /\ Scaled(estimate(q), S, k).emissions.total
                = Scaled(estimate(q), S, k).emissions.scope1 + Scaled(estimate(q), S, k).emissions.scope2
                    + Scaled(estimate(q), S, k).emissions.scope3
<1> DEFINE a == Scaled(estimate(q), S, k)
           e == Sums(q)
           w == [s \in Scopes |-> IF s \in S THEN Times(e[s], k) ELSE e[s]]
           E == [scope1 |-> w.scope1, scope2 |-> w.scope2, scope3 |-> w.scope3,
                 total |-> w.scope1 + w.scope2 + w.scope3]
<1>1. AreEmissions(e)
    BY SumsAre
<1>2. \A s \in Scopes : w[s] \in Int
    <2>1. \A s \in Scopes : e[s] \in Nat
        BY <1>1, EmissionsAre
    <2> HIDE DEF e
    <2> QED
        BY <2>1, TimesIs
<1>3. estimate(q) = [emissions |-> e, breakdown |-> Details(q), confidence |-> Confidence(q),
                     sources |-> TRUE, assumptions |-> TRUE]
    BY EstimateIs
<1> HIDE DEF e
<1>4. /\ DOMAIN a = AnswerKeys /\ a.emissions = E
      /\ a.confidence = Confidence(q) /\ a.sources = TRUE /\ a.assumptions = TRUE
    BY <1>3 DEF Scaled, AnswerKeys, Times
<1> HIDE DEF a
<1>5. /\ E \in [EmissionKeys -> Int] /\ E.total = E.scope1 + E.scope2 + E.scope3
      /\ \A s \in Scopes : E[s] = w[s]
    <2> HIDE DEF w
    <2> QED
        BY <1>2 DEF EmissionKeys, Scopes
<1> QED
    BY <1>4, <1>5 DEF a, e

\* The answers that a miner may give to a query.
IsUntrue(a, q) ==
    LET true == estimate(q)
    IN  \/ \E S \in SUBSET Scopes \ {{}}, k \in Factors : a = Scaled(true, S, k)
        \/ a = [true EXCEPT !.confidence = 1500]
        \/ \E hidden \in Hidings : a = [true EXCEPT !.breakdown = hidden]
        \/ a = [true EXCEPT !.emissions.total = 0]

Possible(r, q) ==
    \/ r = CarbonSynapse(forward(q))
    \/ QuestionnaireInput(q) /\ \E a : r = CarbonSynapse(a) /\ (a = Failure(-2000) \/ IsUntrue(a, q))

LEMMA FailureIs ==
    ASSUME NEW code \in Int
    PROVE  LET a == Failure(code)
           IN  /\ DOMAIN a = AnswerKeys /\ a.emissions \in [EmissionKeys -> Nat]
               /\ \A k \in EmissionKeys : a.emissions[k] = 0
               /\ a.confidence = code /\ a.breakdown = NoBreakdown /\ a.sources = FALSE
BY DEF Failure, AnswerKeys, EmissionKeys

LEMMA FailedAnswer ==
    ASSUME NEW code \in Int, code < 0
    PROVE  LET r == CarbonSynapse(Failure(code))
           IN  /\ AreEmissions(r.emissions) /\ \A k \in EmissionKeys : r.emissions[k] = 0
               /\ r.confidence = code /\ r.breakdown = NoBreakdown /\ r.sources = FALSE
<1> DEFINE a == Failure(code)
           r == CarbonSynapse(a)
<1>1. /\ DOMAIN a = AnswerKeys /\ a.emissions \in [EmissionKeys -> Nat]
      /\ \A k \in EmissionKeys : a.emissions[k] = 0
      /\ a.confidence = code /\ a.breakdown = NoBreakdown /\ a.sources = FALSE
    BY FailureIs
<1> HIDE DEF a
<1>2. a.emissions \in [EmissionKeys -> Int] /\ a.confidence \in Int /\ a.confidence < 0
    BY <1>1
<1>3. r.emissions = a.emissions /\ r.confidence = a.confidence /\ AreEmissions(r.emissions)
    BY <1>1, <1>2, Clamped
<1>4. r.breakdown = a.breakdown /\ r.sources = a.sources
    BY <1>1, SynapseOf, ZenonT(60)
<1> HIDE DEF r
<1> QED
    BY <1>1, <1>3, <1>4 DEF r, a

LEMMA ConfidenceIs ==
    ASSUME NEW q, QuestionnaireInput(q)
    PROVE  Confidence(q) \in Nat
<1>1. calc_data_completeness(q) \in Nat /\ InputRatio(q) \in Nat
    BY CompletenessIs, InputRatioIs
<1> QED
    BY <1>1 DEF Confidence

\* Whatever a miner answers, the synapse makes emissions and a confidence of it.
LEMMA PossibleIs ==
    ASSUME NEW q, NEW r, Possible(r, q)
    PROVE  AreEmissions(r.emissions) /\ r.confidence \in {-2000, -1000} \cup 0..1000
<1>1. CASE r = CarbonSynapse(forward(q)) /\ ~ QuestionnaireInput(q)
    <2> DEFINE code == -1000
    <2>1. code \in Int /\ code < 0 /\ r = CarbonSynapse(Failure(code))
        BY <1>1 DEF forward
    <2> HIDE DEF code
    <2>2. AreEmissions(r.emissions) /\ r.confidence = code
        BY <2>1, FailedAnswer
    <2> QED
        BY <2>2 DEF code
<1>2. ASSUME QuestionnaireInput(q), NEW a, r = CarbonSynapse(a),
             a = Failure(-2000) \/ IsUntrue(a, q) \/ a = estimate(q)
      PROVE  AreEmissions(r.emissions) /\ r.confidence \in {-2000, -1000} \cup 0..1000
    <2>1. HasAmounts(q) /\ Confidence(q) \in Nat /\ AreEmissions(Sums(q))
        BY <1>2, InputHasAmounts, ConfidenceIs, SumsAre
    <2>2. CASE a = Failure(-2000)
        <3> DEFINE code == -2000
        <3>1. code \in Int /\ code < 0 /\ r = CarbonSynapse(Failure(code))
            BY <1>2, <2>2
        <3> HIDE DEF code
        <3>2. AreEmissions(r.emissions) /\ r.confidence = code
            BY <3>1, FailedAnswer
        <3> QED
            BY <3>2 DEF code
    <2>3. ASSUME DOMAIN a = AnswerKeys, a.emissions \in [EmissionKeys -> Int], a.confidence \in Nat
          PROVE  AreEmissions(r.emissions) /\ r.confidence \in 0..1000
        BY <1>2, <2>3, Clamped
    <2> DEFINE true == estimate(q)
               e == Sums(q)
    <2>4. /\ true = [emissions |-> e, breakdown |-> Details(q), confidence |-> Confidence(q),
                     sources |-> TRUE, assumptions |-> TRUE]
          /\ e \in [EmissionKeys -> Int]
        BY <2>1, EstimateIs DEF AreEmissions
    <2> HIDE DEF true, e
    <2>5. CASE a = true
        BY <2>1, <2>3, <2>4, <2>5 DEF AnswerKeys
    <2>6. CASE a = [true EXCEPT !.confidence = 1500]
        BY <2>1, <2>3, <2>4, <2>6 DEF AnswerKeys
    <2>7. CASE \E hidden \in Hidings : a = [true EXCEPT !.breakdown = hidden]
        BY <2>1, <2>3, <2>4, <2>7 DEF AnswerKeys
    <2>8. CASE a = [true EXCEPT !.emissions.total = 0]
        BY <2>1, <2>3, <2>4, <2>8 DEF AnswerKeys, EmissionKeys
    <2>9. ASSUME NEW S \in SUBSET Scopes, NEW k \in Factors, a = Scaled(estimate(q), S, k)
          PROVE  AreEmissions(r.emissions) /\ r.confidence \in 0..1000
        <3>1. k \in Int
            BY EstimationAssumption
        <3>2. DOMAIN a = AnswerKeys /\ a.emissions \in [EmissionKeys -> Int] /\ a.confidence \in Nat
            <4> DEFINE b == Scaled(estimate(q), S, k)
            <4>1. DOMAIN b = AnswerKeys /\ b.confidence = Confidence(q) /\ b.emissions \in [EmissionKeys -> Int]
                BY <2>1, <3>1, ScaledIs
            <4>2. a = b
                BY <2>9
            <4> HIDE DEF b
            <4> QED
                BY <2>1, <4>1, <4>2
        <3> QED
            BY <2>3, <3>2
    <2> QED
        BY <1>2, <2>2, <2>5, <2>6, <2>7, <2>8, <2>9 DEF IsUntrue, true
<1> QED
    BY <1>1, <1>2 DEF Possible, forward

\* What is answered is possible, and what is marked is the answer.
EstimationInv ==
    /\ query \in Queries
    /\ response = NoAnswer \/ Possible(response, query)
    /\ mark = Unmarked \/ mark = score_miner_response(response)

LEMMA EstimationInvInit == EstimationInit => EstimationInv
BY DEF EstimationInit, EstimationInv

LEMMA EstimationInvNext == EstimationInv /\ [EstimationNext]_estimationVars => EstimationInv'
<1> SUFFICES ASSUME EstimationInv, [EstimationNext]_estimationVars PROVE EstimationInv'
    OBVIOUS
<1>1. ASSUME NEW a, Answers(a), Possible(CarbonSynapse(a), query)
      PROVE  EstimationInv'
    BY <1>1 DEF Answers, EstimationInv
<1>2. CASE Truly
    BY <1>1, <1>2 DEF Truly, Possible
<1>3. CASE FailsInside
    BY <1>1, <1>3 DEF FailsInside, Possible
<1>4. CASE Untruly
    <2>1. PICK a : QuestionnaireInput(query) /\ IsUntrue(a, query) /\ Answers(a)
        <3> DEFINE true == estimate(query)
                   scaled(S, k) == Scaled(true, S, k)
                   without(hidden) == [true EXCEPT !.breakdown = hidden]
                   sure == [true EXCEPT !.confidence = 1500]
                   light == [true EXCEPT !.emissions.total = 0]
                   Is(a) == \/ \E S \in SUBSET Scopes \ {{}}, k \in Factors : a = scaled(S, k)
                            \/ a = sure
                            \/ \E hidden \in Hidings : a = without(hidden)
                            \/ a = light
        <3>1. /\ QuestionnaireInput(query)
              /\ \/ \E S \in SUBSET Scopes \ {{}}, k \in Factors : Answers(scaled(S, k))
                 \/ Answers(sure)
                 \/ \E hidden \in Hidings : Answers(without(hidden))
                 \/ Answers(light)
            BY <1>4, Zenon DEF Untruly
        <3>2. \A a : Is(a) => IsUntrue(a, query)
            BY DEF IsUntrue
        <3> HIDE DEF true, scaled, without, sure, light
        <3>3. \E a : Is(a) /\ Answers(a)
            BY <3>1, Zenon
        <3> HIDE DEF Is
        <3> QED
            BY <3>1, <3>2, <3>3, Zenon
    <2>2. Possible(CarbonSynapse(a), query)
        BY <2>1 DEF Possible
    <2> QED
        BY <1>1, <2>1, <2>2
<1>5. CASE Marks
    BY <1>5 DEF Marks, EstimationInv, score_miner_response
<1>6. CASE UNCHANGED estimationVars
    BY <1>6 DEF estimationVars, EstimationInv, score_miner_response
<1> QED
    BY <1>2, <1>3, <1>4, <1>5, <1>6 DEF EstimationNext

LEMMA EstimationTyped == EstimationInv => EstimationTypeOK
<1> SUFFICES ASSUME EstimationInv PROVE EstimationTypeOK
    OBVIOUS
<1> DEFINE truth == compute_ground_truth(query)
<1>1. query \in Queries /\ \A s \in Scopes : truth[s] \in Nat
    BY QueriesHaveAmounts, SumsAre DEF EstimationInv
<1>2. ASSUME response # NoAnswer
      PROVE  AreEmissions(response.emissions) /\ response.confidence \in {-2000, -1000} \cup 0..1000
    BY <1>2, PossibleIs DEF EstimationInv
<1>3. ASSUME mark # Unmarked
      PROVE  mark \in 0..1000
    <2>1. CASE response = NoAnswer
        BY <1>3, <2>1, SMT DEF EstimationInv, score_miner_response
    <2>2. CASE response # NoAnswer
        <3>1. mark = score_response(response, query, truth)
            BY <1>3, <2>2 DEF EstimationInv, score_miner_response
        <3>2. response.confidence \in Int
            BY <1>2, <2>2, SMTT(40)
        <3> HIDE DEF truth
        <3>3. score_response(response, query, truth) \in 0..1000
            BY <1>1, <1>2, <2>2, <3>2, MarkIs
        <3> QED
            BY <3>1, <3>3
    <2> QED
        BY <2>1, <2>2
<1> QED
    BY <1>1, <1>2, <1>3 DEF EstimationTypeOK, AreEmissions

\* Whatever a miner answers and the datasets hold: the synapse makes amounts
\* and a confidence of it, and its mark is within bounds.
THEOREM MarksAreBounded == EstimationSpec => []EstimationTypeOK
BY EstimationInvInit, EstimationInvNext, EstimationTyped, PTL DEF EstimationSpec

-----------------------------------------------------------------------------
(* Honesty, without waste *)

-----------------------------------------------------------------------------
(* Confidence *)

\* The sum over all fields, written out.
LEMMA SumOfFields ==
    ASSUME NEW w \in [Fields -> Nat]
    PROVE  Sum(w, Fields) =
               w.fuel_use_liters + w.fuel_type + w.natural_gas_m3 + w.electricity_kwh + w.employee_count +
               w.revenue_usd + w.supplier_spend_usd + w.shipping_ton_km + w.office_sqm + w.vehicle_km +
               w.business_travel_usd + w.waste_kg
<1> DEFINE T0 == Fields
           T1 == T0 \ {"fuel_use_liters"}
           T2 == T1 \ {"fuel_type"}
           T3 == T2 \ {"natural_gas_m3"}
           T4 == T3 \ {"electricity_kwh"}
           T5 == T4 \ {"employee_count"}
           T6 == T5 \ {"revenue_usd"}
           T7 == T6 \ {"supplier_spend_usd"}
           T8 == T7 \ {"shipping_ton_km"}
           T9 == T8 \ {"office_sqm"}
           T10 == T9 \ {"vehicle_km"}
           T11 == T10 \ {"business_travel_usd"}
           T12 == T11 \ {"waste_kg"}
<1>0. IsFiniteSet(Fields) /\ T0 \in SUBSET Fields
    BY FieldsAreFinite
<1>1. /\ "fuel_use_liters" \in T0 /\ T1 \in SUBSET Fields
      /\ "fuel_type" \in T1 /\ T2 \in SUBSET Fields
      /\ "natural_gas_m3" \in T2 /\ T3 \in SUBSET Fields
      /\ "electricity_kwh" \in T3 /\ T4 \in SUBSET Fields
      /\ "employee_count" \in T4 /\ T5 \in SUBSET Fields
      /\ "revenue_usd" \in T5 /\ T6 \in SUBSET Fields
      /\ "supplier_spend_usd" \in T6 /\ T7 \in SUBSET Fields
      /\ "shipping_ton_km" \in T7 /\ T8 \in SUBSET Fields
      /\ "office_sqm" \in T8 /\ T9 \in SUBSET Fields
      /\ "vehicle_km" \in T9 /\ T10 \in SUBSET Fields
      /\ "business_travel_usd" \in T10 /\ T11 \in SUBSET Fields
      /\ "waste_kg" \in T11 /\ T12 \in SUBSET Fields
    BY DEF Fields
<1>2. T12 = {}
    BY DEF Fields
<1> HIDE DEF T0, T1, T2, T3, T4, T5, T6, T7, T8, T9, T10, T11, T12
<1>3. \A T \in SUBSET Fields : \A f \in T : Sum(w, T) = w[f] + Sum(w, T \ {f})
    <2> SUFFICES ASSUME NEW T \in SUBSET Fields, NEW f \in T PROVE Sum(w, T) = w[f] + Sum(w, T \ {f})
        OBVIOUS
    <2> QED
        BY FieldsAreFinite, SumWithout, SMT
<1>4. Sum(w, T0) = w["fuel_use_liters"] + Sum(w, T1)
    BY <1>0, <1>1, <1>3, Zenon DEF T1
<1>5. Sum(w, T1) = w["fuel_type"] + Sum(w, T2)
    BY <1>1, <1>3, Zenon DEF T2
<1>6. Sum(w, T2) = w["natural_gas_m3"] + Sum(w, T3)
    BY <1>1, <1>3, Zenon DEF T3
<1>7. Sum(w, T3) = w["electricity_kwh"] + Sum(w, T4)
    BY <1>1, <1>3, Zenon DEF T4
<1>8. Sum(w, T4) = w["employee_count"] + Sum(w, T5)
    BY <1>1, <1>3, Zenon DEF T5
<1>9. Sum(w, T5) = w["revenue_usd"] + Sum(w, T6)
    BY <1>1, <1>3, Zenon DEF T6
<1>10. Sum(w, T6) = w["supplier_spend_usd"] + Sum(w, T7)
    BY <1>1, <1>3, Zenon DEF T7
<1>11. Sum(w, T7) = w["shipping_ton_km"] + Sum(w, T8)
    BY <1>1, <1>3, Zenon DEF T8
<1>12. Sum(w, T8) = w["office_sqm"] + Sum(w, T9)
    BY <1>1, <1>3, Zenon DEF T9
<1>13. Sum(w, T9) = w["vehicle_km"] + Sum(w, T10)
    BY <1>1, <1>3, Zenon DEF T10
<1>14. Sum(w, T10) = w["business_travel_usd"] + Sum(w, T11)
    BY <1>1, <1>3, Zenon DEF T11
<1>15. Sum(w, T11) = w["waste_kg"] + Sum(w, T12)
    BY <1>1, <1>3, Zenon DEF T12
<1>16. Sum(w, T12) = 0
    BY <1>2, SumIs, FS_EmptySet
<1>17. \A f \in Fields : w[f] \in Nat
    OBVIOUS
<1> QED
    BY <1>4, <1>5, <1>6, <1>7, <1>8, <1>9, <1>10, <1>11, <1>12, <1>13, <1>14, <1>15, <1>16, <1>17 DEF T0, Fields

\* A finite set has as many elements as it has ones.
LEMMA CountIsSum ==
    ASSUME NEW S, IsFiniteSet(S), NEW w \in [S -> Nat], \A x \in S : w[x] = 1
    PROVE  Cardinality(S) = Sum(w, S)
<1> DEFINE bad == {T \in SUBSET S : Cardinality(T) # Sum(w, T)}
<1> SUFFICES ASSUME bad # {} PROVE FALSE
    OBVIOUS
<1>1. PICK T \in bad : \A U \in bad : U \subseteq T => U = T
    <2>1. bad \in SUBSET (SUBSET S)
        OBVIOUS
    <2> HIDE DEF bad
    <2> QED
        BY <2>1, Smallest
<1>2. T \in SUBSET S /\ IsFiniteSet(T)
    BY FS_Subset
<1>3. T # {}
    BY <1>1, <1>2, SumIs, FS_EmptySet
<1>4. PICK x : x \in T
    BY <1>3
<1> DEFINE U == T \ {x}
<1>5. U \in SUBSET S /\ U \notin bad /\ Cardinality(U) = Sum(w, U)
    BY <1>1, <1>4
<1>6. Sum(w, T) = w[x] + Sum(w, U) /\ w[x] = 1 /\ Sum(w, U) \in Nat
    BY <1>2, <1>4, <1>5, SumWithout, SumType
<1>7. Cardinality(U) = Cardinality(T) - 1 /\ Cardinality(T) \in Nat
    BY <1>2, <1>4, FS_RemoveElement, FS_CardinalityType
<1> QED
    BY <1>1, <1>5, <1>6, <1>7

\* What the fields of a set weigh: each its weight or nothing.
Part(w, T) == [f \in Fields |-> IF f \in T THEN w[f] ELSE 0]

LEMMA PartIs ==
    ASSUME NEW w \in [Fields -> Nat], NEW T \in SUBSET Fields
    PROVE  Sum(w, T) = Sum(Part(w, T), Fields) /\ Part(w, T) \in [Fields -> Nat]
<1> DEFINE g == Part(w, T)
<1>1. g \in [Fields -> Nat] /\ (\A x \in Fields \ T : g[x] = 0) /\ \A x \in T : g[x] = w[x]
    BY DEF Part
<1> HIDE DEF g
<1>2. IsFiniteSet(Fields) /\ IsFiniteSet(T)
    BY FieldsAreFinite, FS_Subset
<1>3. Sum(g, Fields) = Sum(g, T)
    BY <1>1, <1>2, ZerosAddNothing
<1>4. Sum(g, T) = Sum(w, T)
    <2> DEFINE v == [x \in T |-> w[x]]
    <2>1. v \in [T -> Nat] /\ \A x \in T : g[x] = v[x] /\ w[x] = v[x]
        BY <1>1
    <2> HIDE DEF v
    <2>2. Sum(g, T) = Sum(v, T) /\ Sum(w, T) = Sum(v, T)
        BY <1>2, <2>1, SumsOfTheSame
    <2> QED
        BY <2>2
<1> QED
    BY <1>1, <1>3, <1>4 DEF g

Ones == [f \in Fields |-> 1]

LEMMA CountIs ==
    ASSUME NEW T \in SUBSET Fields
    PROVE  Cardinality(T) = Sum(Part(Ones, T), Fields)
<1>1. Ones \in [Fields -> Nat] /\ IsFiniteSet(T)
    BY FieldsAreFinite, FS_Subset DEF Ones
<1>2. Sum(Ones, T) = Sum(Part(Ones, T), Fields)
    BY <1>1, PartIs
<1> DEFINE v == [x \in T |-> 1]
<1>3. v \in [T -> Nat] /\ \A x \in T : v[x] = 1 /\ Ones[x] = v[x]
    BY DEF Ones
<1> HIDE DEF v
<1>4. Cardinality(T) = Sum(v, T) /\ Sum(Ones, T) = Sum(v, T)
    BY <1>1, <1>3, CountIsSum, SumsOfTheSame
<1> QED
    BY <1>2, <1>4

\* Weights or parts of them, in the order of FIELD_WEIGHTS.
Row(w, fuel, type, gas, power, staff, revenue, spend, freight, office, vehicles, travel, waste) ==
    /\ w.fuel_use_liters = fuel /\ w.fuel_type = type /\ w.natural_gas_m3 = gas /\ w.electricity_kwh = power
    /\ w.employee_count = staff /\ w.revenue_usd = revenue /\ w.supplier_spend_usd = spend
    /\ w.shipping_ton_km = freight /\ w.office_sqm = office /\ w.vehicle_km = vehicles
    /\ w.business_travel_usd = travel /\ w.waste_kg = waste

LEMMA RowsAre ==
    ASSUME NEW industry \in VALID_INDUSTRIES
    PROVE  LET w == FIELD_WEIGHTS[industry]
           IN  \/ Row(w, 15, 5, 15, 15, 5, 5, 20, 10, 2, 8, 0, 0)
               \/ Row(w, 30, 5, 3, 5, 5, 5, 10, 15, 2, 20, 0, 0)
               \/ Row(w, 2, 2, 3, 20, 15, 10, 15, 3, 10, 2, 18, 0)
               \/ Row(w, 5, 3, 5, 20, 5, 5, 25, 15, 7, 10, 0, 0)
               \/ Row(w, 25, 5, 20, 10, 3, 5, 10, 5, 2, 5, 0, 10)
               \/ Row(w, 2, 2, 3, 20, 15, 10, 10, 1, 15, 2, 20, 0)
               \/ Row(w, 25, 5, 5, 10, 5, 5, 15, 5, 2, 15, 0, 8)
               \/ Row(w, 10, 3, 15, 15, 5, 5, 20, 12, 2, 3, 0, 10)
               \/ Row(w, 5, 2, 10, 20, 10, 5, 20, 0, 10, 3, 5, 10)
<1> DEFINE w == FIELD_WEIGHTS[industry]
<1>1. CASE industry = "manufacturing"
    <2>1. Row(w, 15, 5, 15, 15, 5, 5, 20, 10, 2, 8, 0, 0)
        BY <1>1 DEF FIELD_WEIGHTS, Row
    <2> QED
        BY <2>1, Zenon
<1>2. CASE industry = "transportation"
    <2>1. Row(w, 30, 5, 3, 5, 5, 5, 10, 15, 2, 20, 0, 0)
        BY <1>2 DEF FIELD_WEIGHTS, Row
    <2> QED
        BY <2>1, Zenon
<1>3. CASE industry = "technology"
    <2>1. Row(w, 2, 2, 3, 20, 15, 10, 15, 3, 10, 2, 18, 0)
        BY <1>3 DEF FIELD_WEIGHTS, Row
    <2> QED
        BY <2>1, Zenon
<1>4. CASE industry = "retail"
    <2>1. Row(w, 5, 3, 5, 20, 5, 5, 25, 15, 7, 10, 0, 0)
        BY <1>4 DEF FIELD_WEIGHTS, Row
    <2> QED
        BY <2>1, Zenon
<1>5. CASE industry = "energy"
    <2>1. Row(w, 25, 5, 20, 10, 3, 5, 10, 5, 2, 5, 0, 10)
        BY <1>5 DEF FIELD_WEIGHTS, Row
    <2> QED
        BY <2>1, Zenon
<1>6. CASE industry = "financial_services"
    <2>1. Row(w, 2, 2, 3, 20, 15, 10, 10, 1, 15, 2, 20, 0)
        BY <1>6 DEF FIELD_WEIGHTS, Row
    <2> QED
        BY <2>1, Zenon
<1>7. CASE industry = "construction"
    <2>1. Row(w, 25, 5, 5, 10, 5, 5, 15, 5, 2, 15, 0, 8)
        BY <1>7 DEF FIELD_WEIGHTS, Row
    <2> QED
        BY <2>1, Zenon
<1>8. CASE industry = "food_beverage"
    <2>1. Row(w, 10, 3, 15, 15, 5, 5, 20, 12, 2, 3, 0, 10)
        BY <1>8 DEF FIELD_WEIGHTS, Row
    <2> QED
        BY <2>1, Zenon
<1>9. CASE industry = "healthcare"
    <2>1. Row(w, 5, 2, 10, 20, 10, 5, 20, 0, 10, 3, 5, 10)
        BY <1>9 DEF FIELD_WEIGHTS, Row
    <2> QED
        BY <2>1, Zenon
<1> QED
    BY <1>1, <1>2, <1>3, <1>4, <1>5, <1>6, <1>7, <1>8, <1>9, Zenon DEF VALID_INDUSTRIES

\* What the fields of a query, each given or not, weigh: nine tenths at the most
\* if five of them are given, besides the type of fuel, and eight if only two of
\* those that the sanity checks count are.
LEMMA FewFields ==
    ASSUME NEW fuel \in Nat, fuel <= 1, NEW gas \in Nat, gas <= 1, NEW power \in Nat, power <= 1, NEW staff \in Nat, staff <= 1, NEW revenue \in Nat, revenue <= 1, NEW spend \in Nat, spend <= 1, NEW freight \in Nat, freight <= 1, NEW office \in Nat, office <= 1, NEW vehicles \in Nat, vehicles <= 1, NEW travel \in Nat, travel <= 1, NEW waste \in Nat, waste <= 1
    PROVE  LET few == fuel + gas + power + staff + revenue + spend + freight + office + vehicles + travel + waste <= 5
               two == fuel + gas + power + staff + revenue + spend + freight + vehicles <= 2
               Fit(sum) == (few => sum <= 90) /\ (two => sum <= 80) /\ sum <= 100
           IN  /\ Fit(15 * fuel + 5 + 15 * gas + 15 * power + 5 * staff + 5 * revenue + 20 * spend + 10 * freight + 2 * office + 8 * vehicles)
               /\ Fit(30 * fuel + 5 + 3 * gas + 5 * power + 5 * staff + 5 * revenue + 10 * spend + 15 * freight + 2 * office + 20 * vehicles)
               /\ Fit(2 * fuel + 2 + 3 * gas + 20 * power + 15 * staff + 10 * revenue + 15 * spend + 3 * freight + 10 * office + 2 * vehicles + 18 * travel)
               /\ Fit(5 * fuel + 3 + 5 * gas + 20 * power + 5 * staff + 5 * revenue + 25 * spend + 15 * freight + 7 * office + 10 * vehicles)
               /\ Fit(25 * fuel + 5 + 20 * gas + 10 * power + 3 * staff + 5 * revenue + 10 * spend + 5 * freight + 2 * office + 5 * vehicles + 10 * waste)
               /\ Fit(2 * fuel + 2 + 3 * gas + 20 * power + 15 * staff + 10 * revenue + 10 * spend + 1 * freight + 15 * office + 2 * vehicles + 20 * travel)
               /\ Fit(25 * fuel + 5 + 5 * gas + 10 * power + 5 * staff + 5 * revenue + 15 * spend + 5 * freight + 2 * office + 15 * vehicles + 8 * waste)
               /\ Fit(10 * fuel + 3 + 15 * gas + 15 * power + 5 * staff + 5 * revenue + 20 * spend + 12 * freight + 2 * office + 3 * vehicles + 10 * waste)
               /\ Fit(5 * fuel + 2 + 10 * gas + 20 * power + 10 * staff + 5 * revenue + 20 * spend + 10 * office + 3 * vehicles + 5 * travel + 10 * waste)
<1> DEFINE few == fuel + gas + power + staff + revenue + spend + freight + office + vehicles + travel + waste <= 5
           two == fuel + gas + power + staff + revenue + spend + freight + vehicles <= 2
           Fit(sum) == (few => sum <= 90) /\ (two => sum <= 80) /\ sum <= 100
<1>1. Fit(15 * fuel + 5 + 15 * gas + 15 * power + 5 * staff + 5 * revenue + 20 * spend + 10 * freight + 2 * office + 8 * vehicles)
    BY SMT
<1>2. Fit(30 * fuel + 5 + 3 * gas + 5 * power + 5 * staff + 5 * revenue + 10 * spend + 15 * freight + 2 * office + 20 * vehicles)
    BY SMT
<1>3. Fit(2 * fuel + 2 + 3 * gas + 20 * power + 15 * staff + 10 * revenue + 15 * spend + 3 * freight + 10 * office + 2 * vehicles + 18 * travel)
    BY SMT
<1>4. Fit(5 * fuel + 3 + 5 * gas + 20 * power + 5 * staff + 5 * revenue + 25 * spend + 15 * freight + 7 * office + 10 * vehicles)
    BY SMT
<1>5. Fit(25 * fuel + 5 + 20 * gas + 10 * power + 3 * staff + 5 * revenue + 10 * spend + 5 * freight + 2 * office + 5 * vehicles + 10 * waste)
    BY SMT
<1>6. Fit(2 * fuel + 2 + 3 * gas + 20 * power + 15 * staff + 10 * revenue + 10 * spend + 1 * freight + 15 * office + 2 * vehicles + 20 * travel)
    BY SMT
<1>7. Fit(25 * fuel + 5 + 5 * gas + 10 * power + 5 * staff + 5 * revenue + 15 * spend + 5 * freight + 2 * office + 15 * vehicles + 8 * waste)
    BY SMT
<1>8. Fit(10 * fuel + 3 + 15 * gas + 15 * power + 5 * staff + 5 * revenue + 20 * spend + 12 * freight + 2 * office + 3 * vehicles + 10 * waste)
    BY SMT
<1>9. Fit(5 * fuel + 2 + 10 * gas + 20 * power + 10 * staff + 5 * revenue + 20 * spend + 10 * office + 3 * vehicles + 5 * travel + 10 * waste)
    BY SMT
<1> HIDE DEF few, two, Fit
<1> QED
    BY <1>1, <1>2, <1>3, <1>4, <1>5, <1>6, <1>7, <1>8, <1>9, Zenon DEF few, two, Fit

LEMMA WeighsAre ==
    ASSUME NEW industry \in VALID_INDUSTRIES, NEW T \in SUBSET Fields, "fuel_type" \in T
    PROVE  LET w == FIELD_WEIGHTS[industry]
           IN  /\ Sum(w, Fields) = 100
               /\ Sum(w, T) <= 100
               /\ Cardinality(T) <= 6 => Sum(w, T) <= 90
               /\ Cardinality(T \cap DataFields) <= 2 => Sum(w, T) <= 80
<1> DEFINE w == FIELD_WEIGHTS[industry]
           D == T \cap DataFields
           p == Part(w, T)
           n == Part(Ones, T)
           m == Part(Ones, D)
           few == n.fuel_use_liters + n.natural_gas_m3 + n.electricity_kwh + n.employee_count + n.revenue_usd
                    + n.supplier_spend_usd + n.shipping_ton_km + n.office_sqm + n.vehicle_km
                    + n.business_travel_usd + n.waste_kg <= 5
           two == n.fuel_use_liters + n.natural_gas_m3 + n.electricity_kwh + n.employee_count + n.revenue_usd
                    + n.supplier_spend_usd + n.shipping_ton_km + n.vehicle_km <= 2
           Fit(sum) == (few => sum <= 90) /\ (two => sum <= 80) /\ sum <= 100
<1>1. w \in [Fields -> Nat] /\ Ones \in [Fields -> Nat]
    BY WeightsAre DEF Ones
<1>2. D \in SUBSET Fields
    OBVIOUS
<1>3. /\ p \in [Fields -> Nat] /\ n \in [Fields -> Nat] /\ m \in [Fields -> Nat]
      /\ Sum(w, T) = Sum(p, Fields)
    BY <1>1, <1>2, PartIs
<1>4. Cardinality(T) = Sum(n, Fields) /\ Cardinality(D) = Sum(m, Fields)
    BY <1>2, CountIs
<1>5. \A f \in Fields : /\ n[f] \in {0, 1}
                        /\ n[f] = 1 => p[f] = w[f]
                        /\ n[f] = 0 => p[f] = 0
                        /\ m[f] = IF f \in DataFields THEN n[f] ELSE 0
    BY DEF Part, Ones
<1>6. n["fuel_type"] = 1
    BY DEF Part, Ones, Fields
<1>7. \/ Row(w, 15, 5, 15, 15, 5, 5, 20, 10, 2, 8, 0, 0)
      \/ Row(w, 30, 5, 3, 5, 5, 5, 10, 15, 2, 20, 0, 0)
      \/ Row(w, 2, 2, 3, 20, 15, 10, 15, 3, 10, 2, 18, 0)
      \/ Row(w, 5, 3, 5, 20, 5, 5, 25, 15, 7, 10, 0, 0)
      \/ Row(w, 25, 5, 20, 10, 3, 5, 10, 5, 2, 5, 0, 10)
      \/ Row(w, 2, 2, 3, 20, 15, 10, 10, 1, 15, 2, 20, 0)
      \/ Row(w, 25, 5, 5, 10, 5, 5, 15, 5, 2, 15, 0, 8)
      \/ Row(w, 10, 3, 15, 15, 5, 5, 20, 12, 2, 3, 0, 10)
      \/ Row(w, 5, 2, 10, 20, 10, 5, 20, 0, 10, 3, 5, 10)
    BY RowsAre
<1> HIDE DEF w, p, n, m, D
<1>8. /\ Sum(w, Fields) = w.fuel_use_liters + w.fuel_type + w.natural_gas_m3 + w.electricity_kwh + w.employee_count +
               w.revenue_usd + w.supplier_spend_usd + w.shipping_ton_km + w.office_sqm + w.vehicle_km +
               w.business_travel_usd + w.waste_kg
      /\ Sum(p, Fields) = p.fuel_use_liters + p.fuel_type + p.natural_gas_m3 + p.electricity_kwh + p.employee_count +
               p.revenue_usd + p.supplier_spend_usd + p.shipping_ton_km + p.office_sqm + p.vehicle_km +
               p.business_travel_usd + p.waste_kg
      /\ Sum(n, Fields) = n.fuel_use_liters + n.fuel_type + n.natural_gas_m3 + n.electricity_kwh + n.employee_count +
               n.revenue_usd + n.supplier_spend_usd + n.shipping_ton_km + n.office_sqm + n.vehicle_km +
               n.business_travel_usd + n.waste_kg
      /\ Sum(m, Fields) = m.fuel_use_liters + m.fuel_type + m.natural_gas_m3 + m.electricity_kwh + m.employee_count +
               m.revenue_usd + m.supplier_spend_usd + m.shipping_ton_km + m.office_sqm + m.vehicle_km +
               m.business_travel_usd + m.waste_kg
    BY <1>1, <1>3, SumOfFields, Zenon
<1>9. /\ n.fuel_use_liters \in {0, 1} /\ n.natural_gas_m3 \in {0, 1} /\ n.electricity_kwh \in {0, 1}
      /\ n.employee_count \in {0, 1} /\ n.revenue_usd \in {0, 1} /\ n.supplier_spend_usd \in {0, 1}
      /\ n.shipping_ton_km \in {0, 1} /\ n.office_sqm \in {0, 1} /\ n.vehicle_km \in {0, 1}
      /\ n.business_travel_usd \in {0, 1} /\ n.waste_kg \in {0, 1} /\ n.fuel_type = 1
    BY <1>5, <1>6 DEF Fields
<1>10. (Sum(n, Fields) <= 6 => few) /\ (Sum(m, Fields) <= 2 => two)
    BY <1>5, <1>8, <1>9 DEF Fields, DataFields
<1>11. Fit(15 * n.fuel_use_liters + 5 + 15 * n.natural_gas_m3 + 15 * n.electricity_kwh + 5 * n.employee_count + 5 * n.revenue_usd + 20 * n.supplier_spend_usd + 10 * n.shipping_ton_km + 2 * n.office_sqm + 8 * n.vehicle_km)
    BY <1>9, FewFields, SMT
<1>12. Fit(30 * n.fuel_use_liters + 5 + 3 * n.natural_gas_m3 + 5 * n.electricity_kwh + 5 * n.employee_count + 5 * n.revenue_usd + 10 * n.supplier_spend_usd + 15 * n.shipping_ton_km + 2 * n.office_sqm + 20 * n.vehicle_km)
    BY <1>9, FewFields, SMT
<1>13. Fit(2 * n.fuel_use_liters + 2 + 3 * n.natural_gas_m3 + 20 * n.electricity_kwh + 15 * n.employee_count + 10 * n.revenue_usd + 15 * n.supplier_spend_usd + 3 * n.shipping_ton_km + 10 * n.office_sqm + 2 * n.vehicle_km + 18 * n.business_travel_usd)
    BY <1>9, FewFields, SMT
<1>14. Fit(5 * n.fuel_use_liters + 3 + 5 * n.natural_gas_m3 + 20 * n.electricity_kwh + 5 * n.employee_count + 5 * n.revenue_usd + 25 * n.supplier_spend_usd + 15 * n.shipping_ton_km + 7 * n.office_sqm + 10 * n.vehicle_km)
    BY <1>9, FewFields, SMT
<1>15. Fit(25 * n.fuel_use_liters + 5 + 20 * n.natural_gas_m3 + 10 * n.electricity_kwh + 3 * n.employee_count + 5 * n.revenue_usd + 10 * n.supplier_spend_usd + 5 * n.shipping_ton_km + 2 * n.office_sqm + 5 * n.vehicle_km + 10 * n.waste_kg)
    BY <1>9, FewFields, SMT
<1>16. Fit(2 * n.fuel_use_liters + 2 + 3 * n.natural_gas_m3 + 20 * n.electricity_kwh + 15 * n.employee_count + 10 * n.revenue_usd + 10 * n.supplier_spend_usd + 1 * n.shipping_ton_km + 15 * n.office_sqm + 2 * n.vehicle_km + 20 * n.business_travel_usd)
    BY <1>9, FewFields, SMT
<1>17. Fit(25 * n.fuel_use_liters + 5 + 5 * n.natural_gas_m3 + 10 * n.electricity_kwh + 5 * n.employee_count + 5 * n.revenue_usd + 15 * n.supplier_spend_usd + 5 * n.shipping_ton_km + 2 * n.office_sqm + 15 * n.vehicle_km + 8 * n.waste_kg)
    BY <1>9, FewFields, SMT
<1>18. Fit(10 * n.fuel_use_liters + 3 + 15 * n.natural_gas_m3 + 15 * n.electricity_kwh + 5 * n.employee_count + 5 * n.revenue_usd + 20 * n.supplier_spend_usd + 12 * n.shipping_ton_km + 2 * n.office_sqm + 3 * n.vehicle_km + 10 * n.waste_kg)
    BY <1>9, FewFields, SMT
<1>19. Fit(5 * n.fuel_use_liters + 2 + 10 * n.natural_gas_m3 + 20 * n.electricity_kwh + 10 * n.employee_count + 5 * n.revenue_usd + 20 * n.supplier_spend_usd + 10 * n.office_sqm + 3 * n.vehicle_km + 5 * n.business_travel_usd + 10 * n.waste_kg)
    BY <1>9, FewFields, SMT
<1> HIDE DEF few, two
<1>20. /\ Sum(w, Fields) = 100
      /\ Fit(Sum(p, Fields))
    <2>1. CASE Row(w, 15, 5, 15, 15, 5, 5, 20, 10, 2, 8, 0, 0)
        <3>1. Sum(w, Fields) = 100
            BY <1>8, <2>1 DEF Row
        <3>2. Sum(p, Fields) = 15 * n.fuel_use_liters + 5 + 15 * n.natural_gas_m3 + 15 * n.electricity_kwh + 5 * n.employee_count + 5 * n.revenue_usd + 20 * n.supplier_spend_usd + 10 * n.shipping_ton_km + 2 * n.office_sqm + 8 * n.vehicle_km
            BY <1>5, <1>6, <1>8, <1>9, <2>1 DEF Row, Fields
        <3> QED
            BY <1>11, <3>1, <3>2
    <2>2. CASE Row(w, 30, 5, 3, 5, 5, 5, 10, 15, 2, 20, 0, 0)
        <3>1. Sum(w, Fields) = 100
            BY <1>8, <2>2 DEF Row
        <3>2. Sum(p, Fields) = 30 * n.fuel_use_liters + 5 + 3 * n.natural_gas_m3 + 5 * n.electricity_kwh + 5 * n.employee_count + 5 * n.revenue_usd + 10 * n.supplier_spend_usd + 15 * n.shipping_ton_km + 2 * n.office_sqm + 20 * n.vehicle_km
            BY <1>5, <1>6, <1>8, <1>9, <2>2 DEF Row, Fields
        <3> QED
            BY <1>12, <3>1, <3>2
    <2>3. CASE Row(w, 2, 2, 3, 20, 15, 10, 15, 3, 10, 2, 18, 0)
        <3>1. Sum(w, Fields) = 100
            BY <1>8, <2>3 DEF Row
        <3>2. Sum(p, Fields) = 2 * n.fuel_use_liters + 2 + 3 * n.natural_gas_m3 + 20 * n.electricity_kwh + 15 * n.employee_count + 10 * n.revenue_usd + 15 * n.supplier_spend_usd + 3 * n.shipping_ton_km + 10 * n.office_sqm + 2 * n.vehicle_km + 18 * n.business_travel_usd
            BY <1>5, <1>6, <1>8, <1>9, <2>3 DEF Row, Fields
        <3> QED
            BY <1>13, <3>1, <3>2
    <2>4. CASE Row(w, 5, 3, 5, 20, 5, 5, 25, 15, 7, 10, 0, 0)
        <3>1. Sum(w, Fields) = 100
            BY <1>8, <2>4 DEF Row
        <3>2. Sum(p, Fields) = 5 * n.fuel_use_liters + 3 + 5 * n.natural_gas_m3 + 20 * n.electricity_kwh + 5 * n.employee_count + 5 * n.revenue_usd + 25 * n.supplier_spend_usd + 15 * n.shipping_ton_km + 7 * n.office_sqm + 10 * n.vehicle_km
            BY <1>5, <1>6, <1>8, <1>9, <2>4 DEF Row, Fields
        <3> QED
            BY <1>14, <3>1, <3>2
    <2>5. CASE Row(w, 25, 5, 20, 10, 3, 5, 10, 5, 2, 5, 0, 10)
        <3>1. Sum(w, Fields) = 100
            BY <1>8, <2>5 DEF Row
        <3>2. Sum(p, Fields) = 25 * n.fuel_use_liters + 5 + 20 * n.natural_gas_m3 + 10 * n.electricity_kwh + 3 * n.employee_count + 5 * n.revenue_usd + 10 * n.supplier_spend_usd + 5 * n.shipping_ton_km + 2 * n.office_sqm + 5 * n.vehicle_km + 10 * n.waste_kg
            BY <1>5, <1>6, <1>8, <1>9, <2>5 DEF Row, Fields
        <3> QED
            BY <1>15, <3>1, <3>2
    <2>6. CASE Row(w, 2, 2, 3, 20, 15, 10, 10, 1, 15, 2, 20, 0)
        <3>1. Sum(w, Fields) = 100
            BY <1>8, <2>6 DEF Row
        <3>2. Sum(p, Fields) = 2 * n.fuel_use_liters + 2 + 3 * n.natural_gas_m3 + 20 * n.electricity_kwh + 15 * n.employee_count + 10 * n.revenue_usd + 10 * n.supplier_spend_usd + 1 * n.shipping_ton_km + 15 * n.office_sqm + 2 * n.vehicle_km + 20 * n.business_travel_usd
            BY <1>5, <1>6, <1>8, <1>9, <2>6 DEF Row, Fields
        <3> QED
            BY <1>16, <3>1, <3>2
    <2>7. CASE Row(w, 25, 5, 5, 10, 5, 5, 15, 5, 2, 15, 0, 8)
        <3>1. Sum(w, Fields) = 100
            BY <1>8, <2>7 DEF Row
        <3>2. Sum(p, Fields) = 25 * n.fuel_use_liters + 5 + 5 * n.natural_gas_m3 + 10 * n.electricity_kwh + 5 * n.employee_count + 5 * n.revenue_usd + 15 * n.supplier_spend_usd + 5 * n.shipping_ton_km + 2 * n.office_sqm + 15 * n.vehicle_km + 8 * n.waste_kg
            BY <1>5, <1>6, <1>8, <1>9, <2>7 DEF Row, Fields
        <3> QED
            BY <1>17, <3>1, <3>2
    <2>8. CASE Row(w, 10, 3, 15, 15, 5, 5, 20, 12, 2, 3, 0, 10)
        <3>1. Sum(w, Fields) = 100
            BY <1>8, <2>8 DEF Row
        <3>2. Sum(p, Fields) = 10 * n.fuel_use_liters + 3 + 15 * n.natural_gas_m3 + 15 * n.electricity_kwh + 5 * n.employee_count + 5 * n.revenue_usd + 20 * n.supplier_spend_usd + 12 * n.shipping_ton_km + 2 * n.office_sqm + 3 * n.vehicle_km + 10 * n.waste_kg
            BY <1>5, <1>6, <1>8, <1>9, <2>8 DEF Row, Fields
        <3> QED
            BY <1>18, <3>1, <3>2
    <2>9. CASE Row(w, 5, 2, 10, 20, 10, 5, 20, 0, 10, 3, 5, 10)
        <3>1. Sum(w, Fields) = 100
            BY <1>8, <2>9 DEF Row
        <3>2. Sum(p, Fields) = 5 * n.fuel_use_liters + 2 + 10 * n.natural_gas_m3 + 20 * n.electricity_kwh + 10 * n.employee_count + 5 * n.revenue_usd + 20 * n.supplier_spend_usd + 10 * n.office_sqm + 3 * n.vehicle_km + 5 * n.business_travel_usd + 10 * n.waste_kg
            BY <1>5, <1>6, <1>8, <1>9, <2>9 DEF Row, Fields
        <3> QED
            BY <1>19, <3>1, <3>2
    <2> QED
        BY <1>7, <2>1, <2>2, <2>3, <2>4, <2>5, <2>6, <2>7, <2>8, <2>9, Zenon
<1> QED
    BY <1>3, <1>4, <1>10, <1>20 DEF w, D

\* How complete a query's data is, when it has five amounts, or two of those
\* that the sanity checks count.
LEMMA CompletenessBounds ==
    ASSUME NEW q, QuestionnaireInput(q)
    PROVE  LET c == calc_data_completeness(q)
           IN  /\ c \in Nat /\ c <= 1000
               /\ Cardinality(GivenAmounts(q)) <= 5 => c <= 900
               /\ Cardinality(Filled(q)) <= 2 => c <= 800
<1> DEFINE weights == FIELD_WEIGHTS[q.industry]
           Given == {f \in DOMAIN weights \ {"fuel_type"} : q.data[f] > 0} \cup {"fuel_type"}
           Numbers == Given \ {"fuel_type"}
           sum == Sum(weights, Given)
<1>1. q.industry \in VALID_INDUSTRIES
    BY DEF QuestionnaireInput
<1>2. DOMAIN weights = Fields
    BY <1>1, WeightsAre
<1>3. calc_data_completeness(q) = (SumFunctionOnSet(weights, Given) * 1000) \div SumFunctionOnSet(weights, DOMAIN weights)
    BY Zenon DEF calc_data_completeness
<1> HIDE DEF weights
<1>4. /\ Given \in SUBSET Fields /\ "fuel_type" \in Given
      /\ Numbers \in SUBSET GivenAmounts(q) /\ Given = Numbers \cup {"fuel_type"} /\ "fuel_type" \notin Numbers
      /\ Given \cap DataFields = Filled(q)
    BY <1>2 DEF Fields, GivenAmounts, Amounts, ProvidedDataInput, DataFields, Filled
<1> HIDE DEF Given, Numbers
<1>5. IsFiniteSet(Given) /\ IsFiniteSet(Fields) /\ IsFiniteSet(Numbers)
    BY <1>4, FieldsAreFinite, FS_Subset
<1>6. /\ Cardinality(Given) = Cardinality(Numbers) + 1
      /\ Cardinality(Numbers) \in Nat /\ Cardinality(Numbers) <= Cardinality(GivenAmounts(q))
    BY <1>4, <1>5, GivenAre, FS_AddElement, FS_CardinalityType, FS_Subset
<1>7. SumFunctionOnSet(weights, Given) = sum /\ SumFunctionOnSet(weights, DOMAIN weights) = Sum(weights, Fields)
    BY <1>2, <1>5, FoldIsSum
<1>8. /\ Sum(weights, Fields) = 100
      /\ sum <= 100
      /\ Cardinality(Given) <= 6 => sum <= 90
      /\ Cardinality(Given \cap DataFields) <= 2 => sum <= 80
    BY <1>1, <1>4, WeighsAre DEF weights
<1>9. sum \in Nat
    BY <1>1, <1>4, <1>5, WeightsAre, SumType DEF weights
<1> HIDE DEF sum
<1>10. calc_data_completeness(q) = (sum * 1000) \div 100
    BY <1>3, <1>7, <1>8
<1>11. \A n \in Nat : (n * 1000) \div 100 = n * 10
    BY SMT
<1>12. calc_data_completeness(q) = sum * 10
    BY <1>9, <1>10, <1>11
<1>13. Cardinality(GivenAmounts(q)) <= 5 => Cardinality(Given) <= 6
    BY <1>6, GivenAre
<1> QED
    BY <1>4, <1>8, <1>9, <1>12, <1>13, SMT

\* The amounts that are given are fields that are provided.
LEMMA RatioBounds ==
    ASSUME NEW q
    PROVE  /\ InputRatio(q) \in Nat /\ InputRatio(q) <= 1000
           /\ FieldsProvided(q) <= 5 => InputRatio(q) <= 384
<1> DEFINE extra == IF q.names.refrigerant_type = "" THEN 0 ELSE 1
           given == Cardinality(GivenAmounts(q)) + extra
<1>1. InputRatio(q) = AtMost((given * 1000) \div 13, 1000)
    BY Zenon DEF InputRatio, GivenAmounts
<1>2. extra \in Nat /\ extra <= Cardinality(GivenTexts(q))
    <2>1. CASE q.names.refrigerant_type = ""
        <3>1. extra = 0
            BY <2>1
        <3> HIDE DEF extra
        <3> QED
            BY <3>1, GivenAre
    <2>2. CASE q.names.refrigerant_type # ""
        <3>1. "refrigerant_type" \in GivenTexts(q)
            BY <2>2 DEF GivenTexts, Texts
        <3>2. Cardinality(GivenTexts(q)) # 0
            BY <3>1, GivenAre, FS_EmptySet
        <3>3. extra = 1
            BY <2>2
        <3> HIDE DEF extra
        <3> QED
            BY <3>2, <3>3, GivenAre
    <2> QED
        BY <2>1, <2>2
<1> HIDE DEF extra
<1>3. given \in Nat /\ given <= FieldsProvided(q) /\ FieldsProvided(q) \in Nat
    BY <1>2, GivenAre
<1> HIDE DEF given
<1>4. (given * 1000) \div 13 \in Nat /\ (given <= 5 => (given * 1000) \div 13 <= 384)
    BY <1>3, SMT
<1> QED
    BY <1>1, <1>3, <1>4, SMT DEF AtMost

\* A confidence that is high comes with data.
LEMMA ConfidenceBounds ==
    ASSUME NEW q, QuestionnaireInput(q)
    PROVE  LET c == Confidence(q)
           IN  /\ c \in Nat /\ c <= 1000
               /\ FieldsProvided(q) <= 5 => c < 700
               /\ Cardinality(Filled(q)) <= 2 => c <= 900
<1> DEFINE d == calc_data_completeness(q)
           r == InputRatio(q)
<1>1. /\ d \in Nat /\ d <= 1000 /\ r \in Nat /\ r <= 1000
      /\ Cardinality(GivenAmounts(q)) <= 5 => d <= 900
      /\ Cardinality(Filled(q)) <= 2 => d <= 800
      /\ FieldsProvided(q) <= 5 => r <= 384
    BY CompletenessBounds, RatioBounds
<1>2. FieldsProvided(q) <= 5 => Cardinality(GivenAmounts(q)) <= 5
    BY GivenAre
<1>3. Confidence(q) = (d * 6 + r * 4) \div 10
    BY Zenon DEF Confidence
<1> HIDE DEF d, r
<1> QED
    BY <1>1, <1>2, <1>3, SMT

-----------------------------------------------------------------------------
(* Honesty *)

\* The marks of an answer, and those of the true one.
Accuracy(r, q)   == calc_accuracy_score(r.emissions, compute_ground_truth(q))
Compliance(r, q) == check_ghg_compliance(r.emissions, r.breakdown, q)
Sanity(r, q)     == run_sanity_checks(r.emissions, r.confidence, q)
Likeness(r, q)   == check_benchmark_alignment(r.emissions, q.industry)
Penalty(r, q)    == calc_overconfidence_penalty(r.confidence, q)
Mark(r, q)       == score_response(r, q, compute_ground_truth(q))
True(q)          == CarbonSynapse(forward(q))

LEMMA MarksAre ==
    ASSUME NEW q, HasAmounts(q), NEW r, AreEmissions(r.emissions), r.confidence \in Int
    PROVE  /\ Accuracy(r, q) \in Nat /\ Accuracy(r, q) <= 1000
           /\ Compliance(r, q) \in Nat /\ Compliance(r, q) <= 1000
           /\ calc_completeness_score(r) \in Nat /\ calc_completeness_score(r) <= 1000
           /\ Sanity(r, q) \in Nat /\ Sanity(r, q) <= 1000
           /\ Likeness(r, q) \in Nat /\ Likeness(r, q) <= 1000
           /\ Penalty(r, q) \in Nat
           /\ Mark(r, q) = Positive((40 * Accuracy(r, q) + 25 * Compliance(r, q) + 15 * calc_completeness_score(r)
                                       + 15 * Sanity(r, q) + 5 * Likeness(r, q)) \div 100 - Penalty(r, q))
<1> DEFINE truth == compute_ground_truth(q)
           a == Accuracy(r, q)
           c == Compliance(r, q)
           k == calc_completeness_score(r)
           s == Sanity(r, q)
           b == Likeness(r, q)
           p == Penalty(r, q)
           m == Mark(r, q)
<1>1. \A x \in Scopes : truth[x] \in Nat
    BY SumsAre
<1>2. /\ a = calc_accuracy_score(r.emissions, truth)
      /\ c = check_ghg_compliance(r.emissions, r.breakdown, q)
      /\ s = run_sanity_checks(r.emissions, r.confidence, q)
      /\ b = check_benchmark_alignment(r.emissions, q.industry)
      /\ p = calc_overconfidence_penalty(r.confidence, q)
      /\ m = score_response(r, q, truth)
    BY ZenonT(60) DEF Accuracy, Compliance, Sanity, Likeness, Penalty, Mark
<1> HIDE DEF truth, a, c, k, s, b, p, m
<1>3. m = Positive((40 * a + 25 * c + 15 * k + 15 * s + 5 * b) \div 100 - p)
    <2>1. score_response(r, q, truth)
            = Positive((40 * calc_accuracy_score(r.emissions, truth)
                          + 25 * check_ghg_compliance(r.emissions, r.breakdown, q)
                          + 15 * calc_completeness_score(r) + 15 * run_sanity_checks(r.emissions, r.confidence, q)
                          + 5 * check_benchmark_alignment(r.emissions, q.industry)) \div 100
                         - calc_overconfidence_penalty(r.confidence, q))
        BY <1>1, MarkIs
    <2>2. k = calc_completeness_score(r)
        BY DEF k
    <2> QED
        BY <1>2, <2>1, <2>2, SMTT(40)
<1>4. a \in Nat /\ a <= 1000
    <2>1. calc_accuracy_score(r.emissions, truth) \in 0..1000
        BY <1>1, EmissionsAre, AccuracyIs
    <2> QED
        BY <1>2, <2>1
<1>5. c \in Nat /\ c <= 1000
    <2>1. /\ check_ghg_compliance(r.emissions, r.breakdown, q) \in Nat
          /\ check_ghg_compliance(r.emissions, r.breakdown, q) <= 1000
        BY ComplianceIs
    <2> QED
        BY <1>2, <2>1
<1>6. k \in Nat /\ k <= 1000
    BY CompletenessMarkIs DEF k
<1>7. s \in Nat /\ s <= 1000
    <2>1. run_sanity_checks(r.emissions, r.confidence, q) \in 0..1000
        BY SanityIs
    <2> QED
        BY <1>2, <2>1
<1>8. b \in Nat /\ b <= 1000
    <2>1. /\ check_benchmark_alignment(r.emissions, q.industry) \in Nat
          /\ check_benchmark_alignment(r.emissions, q.industry) <= 1000
        BY EmissionsAre, BenchmarkIs
    <2> QED
        BY <1>2, <2>1
<1>9. p \in Nat
    <2>1. calc_overconfidence_penalty(r.confidence, q) \in Nat
        BY PenaltyIs
    <2> QED
        BY <1>2, <2>1
<1> QED
    BY <1>3, <1>4, <1>5, <1>6, <1>7, <1>8, <1>9 DEF a, c, k, s, b, p, m

\* Of the true answer.
LEMMA TrueIs ==
    ASSUME NEW q, QuestionnaireInput(q)
    PROVE  /\ True(q).emissions = Sums(q) /\ AreEmissions(True(q).emissions)
           /\ True(q).confidence = Confidence(q) /\ True(q).confidence \in Int
           /\ True(q).breakdown = Details(q)
<1> DEFINE a == estimate(q)
           e == Sums(q)
           c == Confidence(q)
<1>1. HasAmounts(q) /\ AreEmissions(e)
    BY InputHasAmounts, SumsAre
<1>2. c \in Nat /\ c <= 1000
    BY ConfidenceBounds
<1>3. a = [emissions |-> e, breakdown |-> Details(q), confidence |-> c, sources |-> TRUE, assumptions |-> TRUE]
    BY EstimateIs
<1>4. True(q) = CarbonSynapse(a)
    BY DEF True, forward
<1> HIDE DEF a, e, c
<1>5. /\ DOMAIN a = AnswerKeys /\ a.emissions = e /\ a.confidence = c /\ a.breakdown = Details(q)
    BY <1>3 DEF AnswerKeys
<1>6. e \in [EmissionKeys -> Nat] /\ e \in [EmissionKeys -> Int] /\ c \in Int /\ c >= 0
    BY <1>1, <1>2 DEF AreEmissions
<1>7. CarbonSynapse(a).emissions = e
    BY <1>5, <1>6, Clamped
<1>8. CarbonSynapse(a).breakdown = Details(q) /\ CarbonSynapse(a).confidence = AtMost(c, 1000)
    BY <1>5, <1>6, SynapseOf, ZenonT(60)
<1>9. AtMost(c, 1000) = c
    BY <1>2, SMT DEF AtMost
<1> QED
    BY <1>1, <1>4, <1>6, <1>7, <1>8, <1>9 DEF e, c

\* The true answer has full marks in three of the five respects, is sure of
\* itself only with data, and is in the range of its own scopes or not.
LEMMA TrueMarks ==
    ASSUME NEW q, QuestionnaireInput(q), q.data.waste_kg = 0
    PROVE  LET t == True(q)
               e == Sums(q)
           IN  /\ Accuracy(t, q) = 1000 /\ Compliance(t, q) = 1000 /\ calc_completeness_score(t) = 1000
               /\ Sanity(t, q) = 1000 - (OutOfRange(e, q) + TooMuchEach(e, q) + Nothing(e, q))
               /\ TooSure(t.confidence, q) = 0
               /\ Penalty(t, q) \in Nat /\ Penalty(t, q) <= 80
<1> DEFINE t == True(q)
           e == Sums(q)
           c == Confidence(q)
<1>1. t.emissions = e /\ AreEmissions(e) /\ t.confidence = c /\ c \in Int
    BY TrueIs
<1>2. Accuracy(t, q) = 1000 /\ Compliance(t, q) = 1000 /\ calc_completeness_score(t) = 1000
    BY TruthPasses DEF Accuracy, Compliance, True
<1>3. /\ c \in Nat /\ c <= 1000
      /\ FieldsProvided(q) <= 5 => c < 700
      /\ Cardinality(Filled(q)) <= 2 => c <= 900
    BY ConfidenceBounds
<1> HIDE DEF t, e, c
<1>4. TooSure(c, q) = 0
    <2>1. ~ (Cardinality(Filled(q)) <= 2 /\ c > 900)
        BY <1>3, SMT
    <2> QED
        BY <2>1, ZenonT(60) DEF TooSure, If
<1>5. Sanity(t, q) = 1000 - (OutOfRange(e, q) + TooMuchEach(e, q) + Nothing(e, q))
    <2>1. Sanity(t, q) = run_sanity_checks(e, c, q)
        BY <1>1 DEF Sanity
    <2>2. /\ run_sanity_checks(e, c, q) = 1000 - (OutOfRange(e, q) + TooMuchEach(e, q) + TooSure(c, q) + Nothing(e, q))
          /\ OutOfRange(e, q) \in {0, 200} /\ TooMuchEach(e, q) \in {0, 200} /\ Nothing(e, q) \in {0, 250}
        BY <1>1, SanityIs
    <2> QED
        BY <1>4, <2>1, <2>2, SMT
<1>6. Penalty(t, q) \in Nat /\ Penalty(t, q) <= 80
    <2>1. FieldsProvided(q) \in Nat
        BY GivenAre
    <2>2. /\ Penalty(t, q) \in Nat
          /\ c < 700 => Penalty(t, q) = 0
          /\ FieldsProvided(q) > 5 => Penalty(t, q) <= 80
        BY <1>1, PenaltyIs DEF Penalty
    <2> QED
        BY <1>3, <2>1, <2>2, SMT
<1> QED
    BY <1>1, <1>2, <1>4, <1>5, <1>6 DEF t, e

\* It is enough to compare the sums before they are rounded.
LEMMA NoBetter ==
    ASSUME NEW q, QuestionnaireInput(q), q.data.waste_kg = 0,
           NEW r, AreEmissions(r.emissions), r.confidence \in Int,
           40 * Accuracy(r, q) + 25 * Compliance(r, q) + 15 * calc_completeness_score(r)
             + 15 * Sanity(r, q) + 5 * Likeness(r, q) + 100 * Penalty(True(q), q)
           <= 80000 + 15 * Sanity(True(q), q) + 5 * Likeness(True(q), q) + 100 * Penalty(r, q)
    PROVE  Mark(r, q) <= Mark(True(q), q)
<1> DEFINE t == True(q)
           a == Accuracy(r, q)
           c == Compliance(r, q)
           k == calc_completeness_score(r)
           s == Sanity(r, q)
           b == Likeness(r, q)
           p == Penalty(r, q)
           s0 == Sanity(t, q)
           b0 == Likeness(t, q)
           p0 == Penalty(t, q)
           n == 40 * a + 25 * c + 15 * k + 15 * s + 5 * b
           n0 == 80000 + 15 * s0 + 5 * b0
<1>1. HasAmounts(q) /\ AreEmissions(t.emissions) /\ t.confidence \in Int
    BY InputHasAmounts, TrueIs
<1>2. /\ a \in Nat /\ c \in Nat /\ k \in Nat /\ s \in Nat /\ b \in Nat /\ p \in Nat
      /\ Mark(r, q) = Positive(n \div 100 - p)
    BY <1>1, MarksAre
<1>3. /\ s0 \in Nat /\ b0 \in Nat /\ p0 \in Nat
      /\ Mark(t, q) = Positive((40 * Accuracy(t, q) + 25 * Compliance(t, q) + 15 * calc_completeness_score(t)
                                  + 15 * s0 + 5 * b0) \div 100 - p0)
    BY <1>1, MarksAre
<1>4. Accuracy(t, q) = 1000 /\ Compliance(t, q) = 1000 /\ calc_completeness_score(t) = 1000
    BY TrueMarks
<1>5. n + 100 * p0 <= n0 + 100 * p
    OBVIOUS
<1> HIDE DEF t, a, c, k, s, b, p, s0, b0, p0
<1>6. n \in Nat /\ n0 \in Nat
    BY <1>2, <1>3, SMT
<1>7. 40 * 1000 + 25 * 1000 + 15 * 1000 + 15 * s0 + 5 * b0 = n0
    BY <1>3, SMT
<1>8. Mark(t, q) = Positive(n0 \div 100 - p0)
    BY <1>3, <1>4, <1>7
<1> HIDE DEF n, n0
<1>9. n \div 100 - p <= n0 \div 100 - p0 /\ n \div 100 - p \in Int /\ n0 \div 100 - p0 \in Int
    BY <1>2, <1>3, <1>5, <1>6, SMT
<1>10. \A x \in Int, y \in Int : x <= y => Positive(x) <= Positive(y)
    BY DEF Positive
<1>11. Positive(n \div 100 - p) <= Positive(n0 \div 100 - p0)
    BY <1>9, <1>10
<1> QED
    BY <1>2, <1>8, <1>11 DEF t

\* A scope that is left out, or reported twice as high or more, loses all of
\* its share of the mark for accuracy.
LEMMA ErrorIsFull ==
    ASSUME NEW est \in Nat, NEW truth \in Nat, truth > 0, est = 0 \/ est >= 2 * truth
    PROVE  ScopeError(est, truth) = 1000
<1>1. Apart(est, truth) >= truth
    BY DEF Apart
<1> QED
    BY <1>1, SMT DEF ScopeError, Share

LEMMA AccuracyLost ==
    ASSUME NEW q, QuestionnaireInput(q), q.data.waste_kg = 0, NEW r, AreEmissions(r.emissions)
    PROVE  LET Wrong(s) == /\ Sums(q)[s] > 0
                           /\ r.emissions[s] = 0 \/ r.emissions[s] >= 2 * Sums(q)[s]
           IN  /\ Wrong("scope1") => Accuracy(r, q) <= 700
               /\ Wrong("scope2") => Accuracy(r, q) <= 800
               /\ Wrong("scope3") => Accuracy(r, q) <= 500
<1> DEFINE truth == compute_ground_truth(q)
           e == r.emissions
           e0 == Sums(q)
           a == Accuracy(r, q)
           Error(s) == ScopeError(e[s], truth[s])
           Wrong(s) == e0[s] > 0 /\ (e[s] = 0 \/ e[s] >= 2 * e0[s])
           x == Error("scope1")
           y == Error("scope2")
           z == Error("scope3")
<1>1. /\ \A s \in Scopes : truth[s] \in Nat /\ e0[s] = truth[s]
      /\ \A s \in Scopes : e[s] \in Nat
    BY InputHasAmounts, SumsAre, EmissionsAre
<1>2. /\ \A s \in Scopes : Error(s) \in 0..1000
      /\ a = 1000 - (30 * x + 20 * y + 50 * z) \div 100
    BY <1>1, AccuracyIs DEF Accuracy
<1> HIDE DEF truth, e, e0
<1>3. ASSUME NEW s \in Scopes, Wrong(s)
      PROVE  Error(s) = 1000
    BY <1>1, <1>3, ErrorIsFull
<1>4. "scope1" \in Scopes /\ "scope2" \in Scopes /\ "scope3" \in Scopes
    BY DEF Scopes
<1>5. (Wrong("scope1") => x = 1000) /\ (Wrong("scope2") => y = 1000) /\ (Wrong("scope3") => z = 1000)
    BY <1>3, <1>4, SMTT(40)
<1>6. x \in 0..1000 /\ y \in 0..1000 /\ z \in 0..1000
    BY <1>2, <1>4
<1> HIDE DEF a, x, y, z, Wrong
<1>7. (x = 1000 => a <= 700) /\ (y = 1000 => a <= 800) /\ (z = 1000 => a <= 500)
    <2>1. \A n \in Nat : /\ n >= 30000 => 1000 - n \div 100 <= 700
                         /\ n >= 20000 => 1000 - n \div 100 <= 800
                         /\ n >= 50000 => 1000 - n \div 100 <= 500
        BY SMT
    <2> DEFINE n == 30 * x + 20 * y + 50 * z
    <2>2. n \in Nat /\ (x = 1000 => n >= 30000) /\ (y = 1000 => n >= 20000) /\ (z = 1000 => n >= 50000)
        BY <1>6, SMT
    <2>3. a = 1000 - n \div 100
        BY <1>2
    <2> HIDE DEF n
    <2> QED
        BY <2>1, <2>2, <2>3, SMT
<1> QED
    BY <1>5, <1>7 DEF Wrong, a, e, e0

LEMMA UppersAre ==
    ASSUME NEW industry \in VALID_INDUSTRIES
    PROVE  UPPER_PER_EMPLOYEE[industry] \in Nat
BY SMT DEF UPPER_PER_EMPLOYEE, VALID_INDUSTRIES

\* An answer of a miner that failed.
LEMMA FailureNeverPays ==
    ASSUME NEW q, QuestionnaireInput(q), q.data.waste_kg = 0
    PROVE  Mark(CarbonSynapse(Failure(-2000)), q) <= Mark(True(q), q)
<1> DEFINE code == -2000
           r == CarbonSynapse(Failure(code))
           e == r.emissions
           e0 == Sums(q)
           t == True(q)
           a == Accuracy(r, q)
           c == Compliance(r, q)
           k == calc_completeness_score(r)
           s == Sanity(r, q)
           b == Likeness(r, q)
           p == Penalty(r, q)
           s0 == Sanity(t, q)
           b0 == Likeness(t, q)
           p0 == Penalty(t, q)
<1>1. code \in Int /\ code < 0
    OBVIOUS
<1> HIDE DEF code
<1>2. /\ AreEmissions(e) /\ \A x \in EmissionKeys : e[x] = 0
      /\ r.confidence = code /\ r.breakdown = NoBreakdown /\ r.sources = FALSE
    BY <1>1, FailedAnswer
<1>3. /\ HasAmounts(q) /\ t.emissions = e0 /\ AreEmissions(e0) /\ t.confidence \in Int
      /\ e0.total = e0.scope1 + e0.scope2 + e0.scope3
    BY InputHasAmounts, TrueIs, SumsAre
<1>4. k <= 400
    <2>1. r.confidence \notin 0..1000 /\ ~ r.sources /\ r.breakdown = NoBreakdown
        BY <1>1, <1>2
    <2> HIDE DEF r
    <2> QED
        BY <2>1, CompletenessMarkIs
<1>5. e.scope1 = 0 /\ e.scope2 = 0 /\ e.scope3 = 0 /\ e.total = 0
    BY <1>2 DEF EmissionKeys
<1>6. b = 500
    BY <1>5, BenchmarkIs DEF Likeness
<1>7. /\ a \in Nat /\ a <= 1000 /\ c \in Nat /\ c <= 1000 /\ k \in Nat
      /\ s \in Nat /\ s <= 1000 /\ b \in Nat /\ p \in Nat
    BY <1>1, <1>2, <1>3, MarksAre
<1>8. s0 \in Nat /\ b0 \in Nat /\ p0 \in Nat
    BY <1>3, MarksAre
<1>9. p0 <= 80 /\ s0 = 1000 - (OutOfRange(e0, q) + TooMuchEach(e0, q) + Nothing(e0, q))
    BY TrueMarks
<1>10. /\ OutOfRange(e0, q) \in {0, 200} /\ TooMuchEach(e0, q) \in {0, 200} /\ Nothing(e0, q) \in {0, 250}
    BY <1>3, SanityIs
<1>11. /\ e0.scope1 > 0 => a <= 700
       /\ e0.scope2 > 0 => a <= 800
       /\ e0.scope3 > 0 => a <= 500
    BY <1>2, <1>5, AccuracyLost
<1>12. /\ s = 1000 - (OutOfRange(e, q) + TooMuchEach(e, q) + TooSure(r.confidence, q) + Nothing(e, q))
       /\ OutOfRange(e, q) \in {0, 200} /\ TooMuchEach(e, q) \in {0, 200}
       /\ TooSure(r.confidence, q) \in {0, 150}
    BY <1>2, SanityIs DEF Sanity
<1>13. e0.scope1 \in Nat /\ e0.scope2 \in Nat /\ e0.scope3 \in Nat
    BY <1>3, EmissionsAre
<1>14. e0.total > 0 => Nothing(e0, q) = 0
    <2>1. e0.total > 0 => e0.total # 0
        BY <1>3
    <2> QED
        BY <2>1, Zenon DEF Nothing, If
<1>15. e0.total = 0 => /\ e0.scope1 = 0 /\ e0.scope2 = 0 /\ e0.scope3 = 0
                       /\ Nothing(e0, q) = Nothing(e, q)
                       /\ OutOfRange(e0, q) = 0 /\ TooMuchEach(e0, q) = 0
                       /\ b0 = 500
    <2> SUFFICES ASSUME e0.total = 0
                 PROVE  /\ e0.scope1 = 0 /\ e0.scope2 = 0 /\ e0.scope3 = 0
                        /\ Nothing(e0, q) = Nothing(e, q)
                        /\ OutOfRange(e0, q) = 0 /\ TooMuchEach(e0, q) = 0
                        /\ b0 = 500
        OBVIOUS
    <2>1. e0.scope1 = 0 /\ e0.scope2 = 0 /\ e0.scope3 = 0
        BY <1>3, <1>13
    <2>2. Nothing(e0, q) = Nothing(e, q)
        BY <1>5, Zenon DEF Nothing
    <2>3. OutOfRange(e0, q) = 0
        <3>1. ~ (e0.scope2 > 0)
            BY <2>1
        <3> QED
            BY <3>1, ZenonT(60) DEF OutOfRange, If
    <2>4. TooMuchEach(e0, q) = 0
        <3>1. ~ (q.data.employee_count > 0
                   /\ (e0.total - 1) \div q.data.employee_count >= UPPER_PER_EMPLOYEE[q.industry])
            <4>1. \A n \in Nat : n > 0 => (0 - 1) \div n < 0
                BY SMT
            <4>2. q.data.employee_count \in Nat
                BY <1>3 DEF HasAmounts, Amounts, ProvidedDataInput
            <4>3. UPPER_PER_EMPLOYEE[q.industry] \in Nat
                BY UppersAre DEF QuestionnaireInput
            <4> QED
                BY <4>1, <4>2, <4>3
        <3> QED
            BY <3>1, Zenon DEF TooMuchEach, If
    <2>5. b0 = 500
        BY <1>3, <2>1, BenchmarkIs DEF Likeness
    <2> QED
        BY <2>1, <2>2, <2>3, <2>4, <2>5
<1> HIDE DEF r, e, e0, t, a, c, k, s, b, p, s0, b0, p0
<1>16. e0.total \in Nat
    BY <1>3, <1>13
<1>17. ASSUME e0.total = 0
      PROVE  40 * a + 25 * c + 15 * k + 15 * s + 5 * b + 100 * p0 <= 80000 + 15 * s0 + 5 * b0 + 100 * p
    <2>1. s <= s0
        BY <1>9, <1>12, <1>15, <1>17, <1>10, SMT
    <2>2. b = b0
        BY <1>6, <1>15, <1>17
    <2> QED
        BY <1>4, <1>7, <1>8, <1>9, <2>1, <2>2, SMT
<1>18. ASSUME e0.total > 0
      PROVE  40 * a + 25 * c + 15 * k + 15 * s + 5 * b + 100 * p0 <= 80000 + 15 * s0 + 5 * b0 + 100 * p
    <2>1. s0 >= 600
        BY <1>9, <1>10, <1>14, <1>18, SMT
    <2>2. a <= 800
        BY <1>3, <1>7, <1>11, <1>13, <1>18, SMT
    <2> QED
        BY <1>4, <1>6, <1>7, <1>8, <1>9, <2>1, <2>2, SMT
<1>19. 40 * a + 25 * c + 15 * k + 15 * s + 5 * b + 100 * p0 <= 80000 + 15 * s0 + 5 * b0 + 100 * p
    BY <1>16, <1>17, <1>18
<1> QED
    BY <1>1, <1>2, <1>19, NoBetter DEF r, e, t, a, c, k, s, b, p, s0, b0, p0, code

\* What each of the checks looks at.
LEMMA ScopesCount ==
    ASSUME NEW e, NEW f, NEW q
    PROVE  /\ e.scope1 = f.scope1 /\ e.scope2 = f.scope2 /\ e.scope3 = f.scope3
              => check_benchmark_alignment(e, q.industry) = check_benchmark_alignment(f, q.industry)
           /\ e.scope2 = f.scope2 => OutOfRange(e, q) = OutOfRange(f, q)
           /\ e.total = f.total => TooMuchEach(e, q) = TooMuchEach(f, q) /\ Nothing(e, q) = Nothing(f, q)
<1> DEFINE Like(x, y, z) ==
               LET scope     == <<x, y, z>>
                   total     == x + y + z
                   expected  == get_industry_profile(q.industry).split
                   Excess(i) == Positive(Apart(Share(scope[i], total), expected[i] * 10) - 150)
                   Off(i)    == (AtMost((Excess(i) * 10) \div 4, 1000) * 33) \div 100
               IN IF total <= 0 THEN 500 ELSE Positive(1000 - SumFunction([i \in 1..3 |-> Off(i)]))
           Out(x) == If(q.data.electricity_kwh > 0 /\ x > 0
                          /\ x \notin q.data.electricity_kwh * 5 .. q.data.electricity_kwh * 1350, 200)
           Each(x) == If(q.data.employee_count > 0
                           /\ (x - 1) \div q.data.employee_count >= UPPER_PER_EMPLOYEE[q.industry], 200)
           Zero(x) == If(Filled(q) \cap {"fuel_use_liters", "natural_gas_m3", "electricity_kwh", "vehicle_km"} # {}
                           /\ x = 0, 250)
<1>1. \A x : check_benchmark_alignment(x, q.industry) = Like(x.scope1, x.scope2, x.scope3)
    BY Zenon DEF check_benchmark_alignment
<1>2. \A x : OutOfRange(x, q) = Out(x.scope2)
    BY Zenon DEF OutOfRange
<1>3. \A x : TooMuchEach(x, q) = Each(x.total) /\ Nothing(x, q) = Zero(x.total)
    BY Zenon DEF TooMuchEach, Nothing
<1> HIDE DEF Like, Out, Each, Zero
<1> QED
    BY <1>1, <1>2, <1>3

\* An answer with the true scopes and a total that is true or zero.
LEMMA SameScopes ==
    ASSUME NEW q, QuestionnaireInput(q), q.data.waste_kg = 0,
           NEW r, AreEmissions(r.emissions), r.confidence \in Nat,
           \A s \in Scopes : r.emissions[s] = Sums(q)[s],
           r.confidence = Confidence(q) \/ r.confidence = 1000,
           r.emissions.total = Sums(q).total \/ r.emissions.total = 0
    PROVE  Mark(r, q) <= Mark(True(q), q)
<1> DEFINE e == r.emissions
           e0 == Sums(q)
           t == True(q)
           a == Accuracy(r, q)
           c == Compliance(r, q)
           k == calc_completeness_score(r)
           s == Sanity(r, q)
           b == Likeness(r, q)
           p == Penalty(r, q)
           s0 == Sanity(t, q)
           b0 == Likeness(t, q)
           p0 == Penalty(t, q)
<1>1. /\ HasAmounts(q) /\ t.emissions = e0 /\ AreEmissions(e0) /\ t.confidence \in Int
      /\ t.confidence = Confidence(q)
      /\ e0.total = e0.scope1 + e0.scope2 + e0.scope3
    BY InputHasAmounts, TrueIs, SumsAre
<1>2. AreEmissions(e) /\ r.confidence \in Int
    OBVIOUS
<1>3. e.scope1 = e0.scope1 /\ e.scope2 = e0.scope2 /\ e.scope3 = e0.scope3
    BY DEF Scopes
<1>4. /\ a \in Nat /\ a <= 1000 /\ c \in Nat /\ c <= 1000 /\ k \in Nat /\ k <= 1000
      /\ s \in Nat /\ b \in Nat /\ p \in Nat
    BY <1>1, <1>2, MarksAre
<1>5. s0 \in Nat /\ b0 \in Nat /\ p0 \in Nat
    BY <1>1, MarksAre
<1>6. p0 <= p
    <2>1. CASE r.confidence = Confidence(q)
        <3>1. p0 = p
            BY <1>1, <2>1 DEF Penalty
        <3> QED
            BY <1>5, <3>1
    <2>2. CASE r.confidence = 1000
        <3>1. r.confidence >= 900
            BY <2>2
        <3> QED
            BY <1>1, <1>2, <3>1, PenaltyIs DEF Penalty
    <2> QED
        BY <2>1, <2>2
<1>7. b = b0
    <2>1. b = check_benchmark_alignment(e, q.industry) /\ b0 = check_benchmark_alignment(e0, q.industry)
        BY <1>1 DEF Likeness
    <2> HIDE DEF e, e0, b, b0
    <2> QED
        BY <1>3, <2>1, ScopesCount
<1>8. /\ s0 = 1000 - (OutOfRange(e0, q) + TooMuchEach(e0, q) + Nothing(e0, q))
      /\ s = 1000 - (OutOfRange(e, q) + TooMuchEach(e, q) + TooSure(r.confidence, q) + Nothing(e, q))
    BY <1>2, TrueMarks, SanityIs DEF Sanity
<1>9. /\ OutOfRange(e0, q) \in {0, 200} /\ TooMuchEach(e0, q) \in {0, 200} /\ Nothing(e0, q) \in {0, 250}
      /\ OutOfRange(e, q) \in {0, 200} /\ TooMuchEach(e, q) \in {0, 200} /\ Nothing(e, q) \in {0, 250}
      /\ TooSure(r.confidence, q) \in {0, 150}
    BY <1>1, <1>2, SanityIs
<1>10. OutOfRange(e, q) = OutOfRange(e0, q)
    BY <1>3, ScopesCount
<1>11. e0.scope1 \in Nat /\ e0.scope2 \in Nat /\ e0.scope3 \in Nat
    BY <1>1, EmissionsAre
<1> HIDE DEF e, e0, t, a, c, k, s, b, p, s0, b0, p0
<1>12. e0.total \in Nat /\ (e.total = e0.total \/ e.total = 0)
    BY <1>1, <1>11 DEF e, e0
<1>13. 40 * a + 25 * c + 15 * k + 15 * s + 5 * b + 100 * p0 <= 80000 + 15 * s0 + 5 * b0 + 100 * p
    <2>1. CASE e.total = e0.total
        <3>1. TooMuchEach(e, q) = TooMuchEach(e0, q) /\ Nothing(e, q) = Nothing(e0, q)
            BY <2>1, ScopesCount
        <3>2. s <= s0
            BY <1>8, <1>9, <1>10, <3>1, SMT
        <3> QED
            BY <1>4, <1>5, <1>6, <1>7, <3>2, SMT
    <2>2. CASE e.total = 0 /\ e0.total > 0
        <3>1. s <= s0 + 200
            <4>1. Nothing(e0, q) = 0
                <5>1. ~ (e0.total = 0)
                    BY <2>2
                <5> QED
                    BY <5>1, ZenonT(60) DEF Nothing, If
            <4> QED
                BY <1>8, <1>9, <1>10, <4>1, SMT
        <3>2. c <= 750
            <4> DEFINE expected == e.scope1 + e.scope2 + e.scope3
            <4>1. expected = e0.total
                BY <1>1, <1>3
            <4>2. \A n \in Nat : n > 0 => Apart(0, n) > n \div 100
                BY SMT DEF Apart
            <4>3. expected > 0 /\ Apart(e.total, expected) > expected \div 100
                BY <1>12, <2>2, <4>1, <4>2
            <4> QED
                BY <1>2, <4>3, ComplianceIs DEF Compliance, c, e
        <3> QED
            BY <1>4, <1>5, <1>6, <1>7, <3>1, <3>2, SMT
    <2> QED
        BY <1>12, <2>1, <2>2
<1> QED
    BY <1>2, <1>13, NoBetter DEF e, t, a, c, k, s, b, p, s0, b0, p0

\* More of the same is no less believed to be too much.
LEMMA MoreIsTooMuch ==
    ASSUME NEW q, QuestionnaireInput(q), NEW e, NEW f, e.total \in Nat, f.total \in Nat, e.total <= f.total
    PROVE  TooMuchEach(e, q) <= TooMuchEach(f, q)
<1> DEFINE n == q.data.employee_count
           upper == UPPER_PER_EMPLOYEE[q.industry]
           x == e.total - 1
           y == f.total - 1
<1>1. n \in Nat /\ upper \in Nat
    <2>1. n \in Nat
        BY InputHasAmounts DEF HasAmounts, Amounts, ProvidedDataInput
    <2>2. upper \in Nat
        BY UppersAre DEF QuestionnaireInput
    <2> QED
        BY <2>1, <2>2
<1>2. x \in Int /\ y \in Int /\ x <= y
    OBVIOUS
<1>3. TooMuchEach(e, q) = If(n > 0 /\ x \div n >= upper, 200) /\ TooMuchEach(f, q) = If(n > 0 /\ y \div n >= upper, 200)
    BY Zenon DEF TooMuchEach
<1> HIDE DEF n, upper, x, y
<1>4. ASSUME n > 0
      PROVE  x \div n <= y \div n /\ x \div n \in Int /\ y \div n \in Int
    <2> DEFINE i == x \div n
               j == y \div n
    <2>1. i \in Int /\ j \in Int /\ n * i <= x /\ y < n * j + n
        BY <1>1, <1>2, <1>4
    <2> HIDE DEF i, j
    <2>2. i <= j
        <3> SUFFICES ASSUME j + 1 <= i PROVE FALSE
            BY <2>1
        <3>1. n * (j + 1) <= n * i
            BY <1>1, <2>1
        <3>2. n * (j + 1) = n * j + n
            BY <1>1, <2>1
        <3>3. n * j \in Int /\ n * i \in Int
            BY <1>1, <2>1
        <3> QED
            BY <1>1, <1>2, <2>1, <3>1, <3>2, <3>3
    <2> QED
        BY <2>1, <2>2 DEF i, j
<1>5. (n > 0 /\ x \div n >= upper) => (n > 0 /\ y \div n >= upper)
    BY <1>1, <1>4
<1>6. TooMuchEach(e, q) = TooMuchEach(f, q) \/ TooMuchEach(e, q) = 0
    BY <1>3, <1>5, Zenon DEF If
<1>7. TooMuchEach(f, q) \in {0, 200}
    BY Zenon DEF TooMuchEach, If
<1> QED
    BY <1>6, <1>7

\* An answer of which some scopes are left out, or reported twice as high or
\* more.
LEMMA ScalingNeverPays ==
    ASSUME NEW q, QuestionnaireInput(q), q.data.waste_kg = 0, NEW S \in SUBSET Scopes, NEW factor \in Factors
    PROVE  Mark(CarbonSynapse(Scaled(estimate(q), S, factor)), q) <= Mark(True(q), q)
<1> DEFINE answer == Scaled(estimate(q), S, factor)
           r == CarbonSynapse(answer)
           e == r.emissions
           e0 == Sums(q)
           t == True(q)
           a == Accuracy(r, q)
           c == Compliance(r, q)
           k == calc_completeness_score(r)
           s == Sanity(r, q)
           b == Likeness(r, q)
           p == Penalty(r, q)
           s0 == Sanity(t, q)
           b0 == Likeness(t, q)
           p0 == Penalty(t, q)
           w == answer.emissions
<1>1. factor \in Int /\ (factor <= 0 \/ factor >= 20)
    BY EstimationAssumption
<1>2. /\ HasAmounts(q) /\ t.emissions = e0 /\ AreEmissions(e0) /\ t.confidence \in Int
      /\ t.confidence = Confidence(q)
      /\ e0.total = e0.scope1 + e0.scope2 + e0.scope3
      /\ e0.scope2 > 0 => q.data.electricity_kwh > 0
    BY InputHasAmounts, TrueIs, SumsAre
<1>3. /\ DOMAIN answer = AnswerKeys
      /\ answer.confidence = Confidence(q) /\ w \in [EmissionKeys -> Int]
      /\ \A x \in S : w[x] = Times(e0[x], factor)
      /\ \A x \in Scopes \ S : w[x] = e0[x]
      /\ w.total = w.scope1 + w.scope2 + w.scope3
    <2> HIDE DEF e0, t, a, c, k, s, b, p, s0, b0, p0
    <2>1. HasAmounts(q) /\ factor \in Int
        BY <1>1, <1>2
    <2>2. /\ DOMAIN answer = AnswerKeys
          /\ answer.confidence = Confidence(q) /\ w \in [EmissionKeys -> Int]
          /\ \A x \in S : w[x] = Times(Sums(q)[x], factor)
          /\ \A x \in Scopes \ S : w[x] = Sums(q)[x]
          /\ w.total = w.scope1 + w.scope2 + w.scope3
        BY <2>1, ScaledIs
    <2> QED
        BY <2>2 DEF e0
<1>4. Confidence(q) \in Nat /\ Confidence(q) <= 1000
    BY ConfidenceBounds
<1> HIDE DEF answer
<1>5. AreEmissions(e) /\ \A x \in EmissionKeys : e[x] = Positive(w[x])
    BY <1>3, <1>4, Clamped
<1>6. r.confidence = Confidence(q)
    <2>1. r.confidence = IF answer.confidence >= 0 THEN AtMost(answer.confidence, 1000) ELSE answer.confidence
        BY <1>3, SynapseOf, ZenonT(60)
    <2> HIDE DEF r
    <2> QED
        BY <1>3, <1>4, <2>1 DEF AtMost
<1> HIDE DEF r, w, t, e0
<1>7. /\ \A x \in Scopes : e0[x] \in Nat /\ e[x] \in Nat
      /\ e0.scope1 \in Nat /\ e0.scope2 \in Nat /\ e0.scope3 \in Nat /\ e0.total \in Nat /\ e.total \in Nat
    BY <1>2, <1>5, EmissionsAre
<1>8. \A x \in Scopes : x \in EmissionKeys
    BY DEF Scopes, EmissionKeys
<1>9. Scopes = {"scope1", "scope2", "scope3"} /\ "total" \in EmissionKeys
    BY DEF Scopes, EmissionKeys
<1>10. ASSUME \A x \in S : e0[x] = 0
       PROVE  Mark(r, q) <= Mark(t, q)
    <2>1. \A x \in Scopes : w[x] = e0[x]
        BY <1>1, <1>3, <1>10, TimesIs
    <2>2. w.total = e0.total
        BY <1>2, <1>3, <1>9, <2>1
    <2>3. \A x \in Scopes : e[x] = e0[x]
        BY <1>5, <1>7, <1>8, <2>1 DEF Positive
    <2>4. e.total = e0.total
        BY <1>5, <1>7, <1>9, <2>2 DEF Positive
    <2>5. /\ AreEmissions(r.emissions) /\ r.confidence \in Nat /\ r.confidence = Confidence(q)
          /\ \A x \in Scopes : r.emissions[x] = Sums(q)[x]
          /\ r.emissions.total = Sums(q).total
        BY <1>4, <1>5, <1>6, <2>3, <2>4 DEF e0
    <2> QED
        BY <2>5, SameScopes DEF t
<1>11. ASSUME NEW x \in S, e0[x] > 0
       PROVE  Mark(r, q) <= Mark(t, q)
    <2> DEFINE Wrong(y) == e0[y] > 0 /\ (e[y] = 0 \/ e[y] >= 2 * e0[y])
    <2>1. /\ factor <= 0 => \A y \in S : e[y] = 0
          /\ factor >= 20 => /\ \A y \in S : e[y] >= 2 * e0[y]
                             /\ \A y \in Scopes : w[y] >= e0[y]
        <3>1. \A y \in S : y \in Scopes /\ w[y] = Times(e0[y], factor) /\ e[y] = Positive(w[y]) /\ e0[y] \in Nat
            BY <1>3, <1>5, <1>7, <1>8
        <3>2. ASSUME factor <= 0, NEW y \in S
              PROVE  e[y] = 0
            BY <1>1, <3>1, <3>2, TimesIs DEF Positive
        <3>3. ASSUME factor >= 20, NEW y \in S
              PROVE  e[y] >= 2 * e0[y] /\ w[y] >= e0[y]
            <4>1. Times(e0[y], factor) \in Int /\ Times(e0[y], factor) >= 2 * e0[y]
                BY <1>1, <3>1, <3>3, TimesIs
            <4> QED
                BY <3>1, <3>3, <4>1 DEF Positive
        <3>4. \A y \in Scopes : y \notin S => w[y] = e0[y]
            BY <1>3
        <3> QED
            BY <1>7, <3>2, <3>3, <3>4
    <2>2. Wrong(x)
        BY <1>1, <1>11, <2>1
    <2>3. /\ Wrong("scope1") => a <= 700
          /\ Wrong("scope2") => a <= 800
          /\ Wrong("scope3") => a <= 500
        BY <1>5, AccuracyLost DEF e0
    <2>4. /\ a \in Nat /\ a <= 1000 /\ c \in Nat /\ c <= 1000 /\ k \in Nat /\ k <= 1000
          /\ s \in Nat /\ s <= 1000 /\ b \in Nat /\ b <= 1000 /\ p \in Nat
        BY <1>2, <1>4, <1>5, <1>6, MarksAre
    <2>5. s0 \in Nat /\ b0 \in Nat /\ p0 \in Nat
        BY <1>2, MarksAre
    <2>6. p = p0
        BY <1>2, <1>6 DEF Penalty
    <2>7. /\ s0 = 1000 - (OutOfRange(e0, q) + TooMuchEach(e0, q) + Nothing(e0, q))
          /\ s = 1000 - (OutOfRange(e, q) + TooMuchEach(e, q) + TooSure(r.confidence, q) + Nothing(e, q))
        BY <1>5, TrueMarks, SanityIs DEF Sanity, t, e0
    <2>8. /\ OutOfRange(e0, q) \in {0, 200} /\ TooMuchEach(e0, q) \in {0, 200}
          /\ OutOfRange(e, q) \in {0, 200} /\ TooMuchEach(e, q) \in {0, 200} /\ Nothing(e, q) \in {0, 250}
          /\ TooSure(r.confidence, q) \in {0, 150}
        BY <1>2, <1>5, SanityIs
    <2>9. Nothing(e0, q) = 0
        <3>1. ~ (e0.total = 0)
            <4>1. x = "scope1" \/ x = "scope2" \/ x = "scope3"
                BY <1>9
            <4>2. e0.scope1 > 0 \/ e0.scope2 > 0 \/ e0.scope3 > 0
                BY <1>11, <4>1
            <4> QED
                BY <1>2, <1>7, <4>2
        <3> QED
            BY <3>1, Zenon DEF Nothing, If
    <2>10. x \in {"scope1", "scope2", "scope3"}
        BY <1>9
    <2> HIDE DEF a, c, k, s, b, p, s0, b0, p0, e, Wrong
    <2>11. a <= 800 /\ (x # "scope2" => a <= 700)
        BY <2>2, <2>3, <2>4, <2>10
    <2>12. 40 * a + 25 * c + 15 * k + 15 * s + 5 * b + 100 * p0 <= 80000 + 15 * s0 + 5 * b0 + 100 * p
        <3>1. CASE factor >= 20
            <4>1. e0.total <= e.total
                <5>1. w.scope1 >= e0.scope1 /\ w.scope2 >= e0.scope2 /\ w.scope3 >= e0.scope3
                    BY <1>9, <2>1, <3>1
                <5>2. w.scope1 \in Int /\ w.scope2 \in Int /\ w.scope3 \in Int /\ w.total \in Int
                    BY <1>3 DEF EmissionKeys
                <5>3. w.total >= e0.total
                    BY <1>2, <1>3, <1>7, <5>1, <5>2
                <5>4. e.total = Positive(w.total)
                    BY <1>5, <1>9 DEF e
                <5> QED
                    BY <1>7, <5>2, <5>3, <5>4 DEF Positive
            <4>2. TooMuchEach(e0, q) <= TooMuchEach(e, q)
                BY <1>7, <4>1, MoreIsTooMuch
            <4>3. s <= s0 + 200
                BY <2>7, <2>8, <2>9, <4>2, SMT
            <4> QED
                BY <2>4, <2>5, <2>6, <2>11, <4>3, SMT
        <3>2. CASE factor <= 0 /\ x # "scope2"
            <4>1. s <= s0 + 400
                BY <2>7, <2>8, <2>9, SMT
            <4> QED
                BY <2>4, <2>5, <2>6, <2>11, <3>2, <4>1, SMT
        <3>3. CASE factor <= 0 /\ x = "scope2"
            <4>1. s <= s0 + 400
                BY <2>7, <2>8, <2>9, SMT
            <4>2. c <= 850
                <5>1. q.data.electricity_kwh > 0 /\ e.scope2 = 0
                    BY <1>2, <1>11, <2>1, <3>3
                <5> QED
                    BY <1>5, <5>1, ComplianceIs DEF Compliance, c, e
            <4> QED
                BY <2>4, <2>5, <2>6, <2>11, <4>1, <4>2, SMT
        <3> QED
            BY <1>1, <3>1, <3>2, <3>3
    <2>13. r.confidence \in Int
        BY <1>4, <1>6
    <2> QED
        BY <1>5, <2>12, <2>13, NoBetter DEF e, t, a, c, k, s, b, p, s0, b0, p0
<1> QED
    BY <1>7, <1>10, <1>11 DEF r, t, answer

\* An answer that raises its confidence, hides its breakdown or reports no
\* total.
LEMMA EditingNeverPays ==
    ASSUME NEW q, QuestionnaireInput(q), q.data.waste_kg = 0, NEW a,
           \/ a = [estimate(q) EXCEPT !.confidence = 1500]
           \/ \E hidden \in Hidings : a = [estimate(q) EXCEPT !.breakdown = hidden]
           \/ a = [estimate(q) EXCEPT !.emissions.total = 0]
    PROVE  Mark(CarbonSynapse(a), q) <= Mark(True(q), q)
<1> DEFINE true == estimate(q)
           e == Sums(q)
           c == Confidence(q)
           r == CarbonSynapse(a)
<1>1. /\ true = [emissions |-> e, breakdown |-> Details(q), confidence |-> c, sources |-> TRUE, assumptions |-> TRUE]
      /\ e \in [EmissionKeys -> Nat] /\ c \in Nat /\ c <= 1000
    BY InputHasAmounts, SumsAre, EstimateIs, ConfidenceBounds DEF AreEmissions
<1>2. Scopes \subseteq EmissionKeys /\ "total" \in EmissionKeys /\ "total" \notin Scopes
    BY DEF Scopes, EmissionKeys
<1> HIDE DEF e, c
<1>3. /\ DOMAIN a = AnswerKeys /\ a.emissions \in [EmissionKeys -> Nat]
      /\ a.confidence = c \/ a.confidence = 1500
      /\ \A x \in Scopes : a.emissions[x] = e[x]
      /\ a.emissions.total = e.total \/ a.emissions.total = 0
    <2> HIDE DEF true
    <2>1. CASE a = [true EXCEPT !.confidence = 1500]
        BY <1>1, <2>1 DEF AnswerKeys
    <2>2. CASE \E hidden \in Hidings : a = [true EXCEPT !.breakdown = hidden]
        BY <1>1, <2>2 DEF AnswerKeys
    <2>3. CASE a = [true EXCEPT !.emissions.total = 0]
        <3> DEFINE f == [true.emissions EXCEPT !.total = 0]
        <3>0. a = [true EXCEPT !.emissions = f]
            BY <2>3, Zenon
        <3> HIDE DEF f
        <3>1. DOMAIN a = AnswerKeys /\ a.confidence = c /\ a.emissions = f
            <4>1. DOMAIN true = AnswerKeys /\ true.confidence = c
                BY <1>1, ZenonT(60) DEF AnswerKeys
            <4>2. "emissions" \in AnswerKeys /\ "confidence" \in AnswerKeys
                BY DEF AnswerKeys
            <4>3. DOMAIN a = DOMAIN true
                BY <3>0, ZenonT(60)
            <4>4. a.confidence = true.confidence /\ a.emissions = f
                BY <3>0, <4>1, <4>2
            <4> QED
                BY <4>1, <4>3, <4>4, ZenonT(60)
        <3>2. f = [e EXCEPT !.total = 0]
            BY <1>1, ZenonT(60) DEF f
        <3> QED
            BY <1>1, <1>2, <3>1, <3>2
    <2> QED
        BY <2>1, <2>2, <2>3 DEF true
<1>4. a.emissions \in [EmissionKeys -> Int] /\ a.confidence \in Int /\ a.confidence >= 0
    BY <1>1, <1>3
<1>5. r.emissions = a.emissions /\ AreEmissions(r.emissions) /\ r.confidence \in 0..1000
    BY <1>3, <1>4, Clamped
<1>6. r.confidence = IF a.confidence >= 0 THEN AtMost(a.confidence, 1000) ELSE a.confidence
    <2>1. DOMAIN a = AnswerKeys
        BY <1>3
    <2> QED
        BY <2>1, SynapseOf, ZenonT(60)
<1> HIDE DEF r
<1>7. r.confidence = c \/ r.confidence = 1000
    BY <1>1, <1>3, <1>4, <1>6, SMT DEF AtMost
<1>8. r.confidence \in Nat
    BY <1>5, SMTT(40)
<1>9. /\ \A x \in Scopes : r.emissions[x] = e[x]
      /\ r.emissions.total = e.total \/ r.emissions.total = 0
    BY <1>3, <1>5
<1>10. Mark(r, q) <= Mark(True(q), q)
    BY <1>5, <1>7, <1>8, <1>9, SameScopes DEF e, c
<1> QED
    BY <1>10 DEF r

\* Without waste, whatever the datasets hold: no answer of EstimationSpec is
\* worth more than the true one.
THEOREM HonestyWins == EstimationSpec => [](query.data.waste_kg = 0 => HonestyPays)
<1>1. ASSUME EstimationInv, query.data.waste_kg = 0, QuestionnaireInput(query), mark # Unmarked
      PROVE  mark <= score_miner_response(CarbonSynapse(forward(query)))
    <2> DEFINE q == query
               r == response
               t == True(q)
    <2>1. mark = score_miner_response(r)
        BY <1>1 DEF EstimationInv
    <2>2. t # NoAnswer
        BY <1>1, NoAnswerIsNoEstimate DEF EstimationInv, True
    <2>3. score_miner_response(t) = Mark(t, q)
        BY <2>2 DEF score_miner_response, Mark
    <2>4. Mark(t, q) \in Nat
        <3>1. HasAmounts(q) /\ AreEmissions(t.emissions) /\ t.confidence \in Int
            BY <1>1, InputHasAmounts, TrueIs
        <3>2. \A s \in Scopes : compute_ground_truth(q)[s] \in Nat
            BY <3>1, SumsAre
        <3> DEFINE truth == compute_ground_truth(q)
        <3> HIDE DEF truth, q, t
        <3>3. score_response(t, q, truth) \in 0..1000
            BY <3>1, <3>2, MarkIs DEF truth
        <3> QED
            BY <3>3, SMTT(40) DEF Mark, truth
    <2>5. mark <= Mark(t, q)
        <3>1. CASE r = NoAnswer
            BY <2>1, <2>4, <3>1 DEF score_miner_response
        <3>2. CASE r # NoAnswer
            <4>1. mark = Mark(r, q)
                BY <2>1, <3>2 DEF score_miner_response, Mark
            <4>2. Possible(r, q)
                BY <1>1, <3>2 DEF EstimationInv
            <4> HIDE DEF q, r
            <4>3. \/ r = t
                  \/ r = CarbonSynapse(Failure(-2000))
                  \/ \E a : r = CarbonSynapse(a) /\ IsUntrue(a, q)
                <5> DEFINE failure == Failure(-2000)
                <5>1. \/ r = CarbonSynapse(forward(q))
                      \/ \E a : r = CarbonSynapse(a) /\ (a = failure \/ IsUntrue(a, q))
                    BY <4>2 DEF Possible
                <5>2. r = CarbonSynapse(forward(q)) => r = t
                    BY DEF True
                <5> HIDE DEF failure, t
                <5>3. \/ r = t
                      \/ r = CarbonSynapse(failure)
                      \/ \E a : r = CarbonSynapse(a) /\ IsUntrue(a, q)
                    BY <5>1, <5>2, Zenon
                <5> QED
                    BY <5>3 DEF failure
            <4>4. QuestionnaireInput(q) /\ q.data.waste_kg = 0
                BY <1>1 DEF q
            <4>5. ASSUME NEW a, r = CarbonSynapse(a), IsUntrue(a, q)
                  PROVE  Mark(r, q) <= Mark(t, q)
                <5>1. ASSUME NEW S \in SUBSET Scopes, NEW k \in Factors, a = Scaled(estimate(q), S, k)
                      PROVE  Mark(r, q) <= Mark(t, q)
                    BY <4>4, <4>5, <5>1, ScalingNeverPays, Zenon
                <5>2. ASSUME \/ a = [estimate(q) EXCEPT !.confidence = 1500]
                             \/ \E hidden \in Hidings : a = [estimate(q) EXCEPT !.breakdown = hidden]
                             \/ a = [estimate(q) EXCEPT !.emissions.total = 0]
                      PROVE  Mark(r, q) <= Mark(t, q)
                    BY <4>4, <4>5, <5>2, EditingNeverPays
                <5> QED
                    BY <4>5, <5>1, <5>2 DEF IsUntrue
            <4>6. ASSUME r = CarbonSynapse(Failure(-2000))
                  PROVE  Mark(r, q) <= Mark(t, q)
                BY <4>4, <4>6, FailureNeverPays
            <4>7. ASSUME r = t
                  PROVE  Mark(r, q) <= Mark(t, q)
                BY <2>4, <4>7
            <4> QED
                BY <4>1, <4>3, <4>5, <4>6, <4>7
        <3> QED
            BY <3>1, <3>2
    <2> QED
        BY <2>3, <2>5 DEF True
<1>2. EstimationInv => (query.data.waste_kg = 0 => HonestyPays)
    BY <1>1 DEF HonestyPays
<1> QED
    BY <1>2, EstimationInvInit, EstimationInvNext, PTL DEF EstimationSpec

-----------------------------------------------------------------------------
(* All of them *)

\* Whichever of them a behaviour is about: it keeps their types, for any
\* numbers of requests, callers and suppliers and any datasets.
THEOREM ServicesTypeCorrect == Spec => []TypeOK
<1> DEFINE Inv == /\ ReviewInv /\ SupplyInv /\ FormInv /\ AxonInv
                  /\ part = "query" => EstimationInv
<1>1. Init => Inv
    BY ReviewInit, SupplyInvInit, FormInit, AxonInvInit, EstimationInvInit, Zenon DEF Init
<1>2. Inv /\ [Next]_vars => Inv'
    <2> SUFFICES ASSUME Inv, [Next]_vars PROVE Inv'
        OBVIOUS
    <2>1. part' = part
        BY DEF Next, vars
    <2>2. [ReviewsNext]_reviewVars
        BY Zenon DEF Next, vars
    <2>3. [SupplyNext]_supplyVars
        BY Zenon DEF Next, vars
    <2>4. [QuestionnairesNext]_formVars
        BY Zenon DEF Next, vars
    <2>5. [AxonNext]_axonVars
        BY Zenon DEF Next, vars
    <2>6. part = "query" => [EstimationNext]_estimationVars
        BY DEF Next, vars
    <2>7. ReviewInv' /\ SupplyInv' /\ FormInv' /\ AxonInv'
        BY <2>2, <2>3, <2>4, <2>5, ReviewNext, SupplyInvNext, FormNext, AxonInvNext
    <2>8. part' = "query" => EstimationInv'
        BY <2>1, <2>6, EstimationInvNext
    <2> QED
        BY <2>7, <2>8
<1>3. Inv => TypeOK
    BY EstimationTyped DEF ReviewInv, SupplyInv, FormInv, AxonInv, TypeOK
<1> QED
    BY <1>1, <1>2, <1>3, PTL DEF Spec
=============================================================================
