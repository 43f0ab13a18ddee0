--------------------------- MODULE Questionnaires ---------------------------
(***************************************************************************)
(* One questionnaire: its upload or making from a template, the extraction *)
(* of its questions, their answers by hand, and its removal.               *)
(*                                                                         *)
(* An extraction commits the status, asks a language model, and then       *)
(* replaces all questions.  What a document says is left out, but that it  *)
(* has questions: a set of questions has the name of the request that has  *)
(* written it.  The charge for an extraction is in Credits.                *)
(***************************************************************************)
EXTENDS Integers, FiniteSets

CONSTANTS
    Readers,       \* the requests that may be in progress at once
    Template,      \* the questions of a template
    MaxFileSize,   \* _MAX_FILE_SIZE
    NoForm         \* there is no such row

ASSUME QuestionnairesAssumption ==
    /\ IsFiniteSet(Readers) /\ Readers # {} /\ Template \notin Readers
    /\ MaxFileSize \in Nat \ {0}

VARIABLES
    form,       \* the questionnaire's row, or NoForm
    questions,  \* the sets of questions that are stored, with their answers by hand
    reader,     \* what each request has loaded, or Resting
    cutOff      \* an extraction has died, or somebody has changed the status by hand

formVars == <<form, questions, reader, cutOff>>

Resting == [op |-> "idle"]

QuestionnaireStatus == {"uploaded", "extracting", "extracted", "reviewed", "exported"}
Forms == [status : QuestionnaireStatus, deleted : BOOLEAN]
ASSUME NoFormIsNoRow == NoForm \notin Forms
Sets == Readers \cup {Template}
Stored == {q.set : q \in questions}

QuestionnairesInit ==
    /\ form = NoForm
    /\ questions = {}
    /\ reader = [r \in Readers |-> Resting]
    /\ cutOff = FALSE

-----------------------------------------------------------------------------
\* Uploads

Files == [type : {"pdf", "docx", "xlsx", "csv", "other"}, size : 0..(MaxFileSize + 1), magic : {"%PDF", "PK", "text"}]

Magic(type) == CASE type = "pdf" -> {"%PDF"} [] type \in {"docx", "xlsx"} -> {"PK"} [] OTHER -> {"%PDF", "PK", "text"}

Acceptable(file) ==
    /\ file.type # "other"
    /\ file.size \in 1..MaxFileSize
    /\ file.magic \in Magic(file.type)

Upload(file) ==
    /\ form = NoForm
    /\ Acceptable(file)
    /\ form' = [status |-> "uploaded", deleted |-> FALSE]
    /\ UNCHANGED <<questions, reader, cutOff>>

\* The questions and their drafts are committed with the questionnaire.
ApplyTemplate ==
    /\ form = NoForm
    /\ form' = [status |-> "extracted", deleted |-> FALSE]
    /\ questions' = {[set |-> Template, answered |-> FALSE]}
    /\ UNCHANGED <<reader, cutOff>>

-----------------------------------------------------------------------------
\* Requests for a questionnaire that is there

There == form # NoForm /\ ~ form.deleted

Reads(r, request) ==
    /\ There
    /\ reader[r] = Resting
    /\ reader' = [reader EXCEPT ![r] = request]
    /\ UNCHANGED <<form, questions, cutOff>>

Rests(r) == reader' = [reader EXCEPT ![r] = Resting]

ExtractChecks(r) ==
    /\ There /\ form.status \in {"uploaded", "extracted"}
    /\ Reads(r, [op |-> "checked"])

ExtractMarks(r) ==
    /\ reader[r].op = "checked"
    /\ form' = [form EXCEPT !.status = "extracting"]
    /\ reader' = [reader EXCEPT ![r] = [op |-> "asking"]]
    /\ UNCHANGED <<questions, cutOff>>

\* The model has answered, or has been replaced by the rules: what is stored
\* now is deleted, and not what others commit from now on.
ExtractDeletes(r) ==
    /\ reader[r].op = "asking"
    /\ reader' = [reader EXCEPT ![r] = [op |-> "writing", deletes |-> Stored]]
    /\ UNCHANGED <<form, questions, cutOff>>

\* Wrong on purpose: the status is left to whoever reads the questions
ExtractCommitsUnmarked(r) ==
    /\ reader[r].op = "writing"
    /\ questions' = {q \in questions : q.set \notin reader[r].deletes} \cup {[set |-> r, answered |-> FALSE]}
    /\ Rests(r)
    /\ UNCHANGED <<form, cutOff>>

ExtractCommits(r) ==
    /\ reader[r].op = "writing"
    /\ questions' = {q \in questions : q.set \notin reader[r].deletes} \cup {[set |-> r, answered |-> FALSE]}
    /\ form' = [form EXCEPT !.status = "extracted"]
    /\ Rests(r)
    /\ UNCHANGED cutOff

\* The process dies, or the model fails in a way that nobody catches.
ReadingDies(r) ==
    /\ reader[r] # Resting
    /\ Rests(r)
    /\ cutOff' = (cutOff \/ reader[r].op \in {"asking", "writing"})
    /\ UNCHANGED <<form, questions>>

AnswerLoads(r, q) == q \in questions /\ Reads(r, [op |-> "answer", set |-> q.set])

\* A question that has been replaced cannot be written any more.
AnswerCommits(r) ==
    /\ reader[r].op = "answer"
    /\ reader[r].set \in Stored
    /\ questions' = {IF q.set = reader[r].set THEN [q EXCEPT !.answered = TRUE] ELSE q : q \in questions}
    /\ Rests(r)
    /\ UNCHANGED <<form, cutOff>>

\* The status can be set to anything; a value that was loaded is not written.
UpdateLoads(r, status) == Reads(r, [op |-> "update", status |-> status, old |-> form.status])

UpdateCommits(r) ==
    /\ reader[r].op = "update"
    /\ form' = IF reader[r].status = reader[r].old THEN form ELSE [form EXCEPT !.status = reader[r].status]
    /\ cutOff' = (cutOff \/ reader[r].status # reader[r].old)
    /\ Rests(r)
    /\ UNCHANGED questions

DeleteLoads(r) == Reads(r, [op |-> "delete"])

FormDeleted(r) ==
    /\ reader[r].op = "delete"
    /\ form' = [form EXCEPT !.deleted = TRUE]
    /\ Rests(r)
    /\ UNCHANGED <<questions, cutOff>>

QuestionnairesNext ==
    \/ \E file \in Files : Upload(file)
    \/ ApplyTemplate
    \/ \E r \in Readers :
          \/ ExtractChecks(r) \/ ExtractMarks(r) \/ ExtractDeletes(r) \/ ExtractCommits(r)
          \/ \E q \in questions : AnswerLoads(r, q)
          \/ \E status \in QuestionnaireStatus : UpdateLoads(r, status)
          \/ DeleteLoads(r)
          \/ AnswerCommits(r) \/ UpdateCommits(r) \/ FormDeleted(r)
          \/ ReadingDies(r)

QuestionnairesSpec == QuestionnairesInit /\ [][QuestionnairesNext]_formVars

-----------------------------------------------------------------------------
QuestionnairesTypeOK ==
    /\ form \in Forms \cup {NoForm}
    /\ questions \subseteq [set : Sets, answered : BOOLEAN]
    /\ DOMAIN reader = Readers
    /\ \A r \in Readers :
          \/ reader[r] \in {Resting} \cup [op : {"checked", "asking", "delete"}] \cup [op : {"answer"}, set : Sets]
          \/ reader[r] \in [op : {"writing"}, deletes : SUBSET Sets]
          \/ reader[r] \in [op : {"update"}, status : QuestionnaireStatus, old : QuestionnaireStatus]
    /\ cutOff \in BOOLEAN

\* An extraction ends: nobody is kept waiting by the status, unless one has
\* been cut off.  And the questions are extracted once, but for extractions
\* at the same time: each of them adds its own set, of which there are never
\* more than there are requests at a time.
ExtractionInOrder ==
    /\ form # NoForm /\ form.status = "extracting" /\ ~ cutOff =>
          \E r \in Readers : reader[r].op \in {"asking", "writing"}
    /\ Cardinality(questions) <= Cardinality(Readers)
=============================================================================
