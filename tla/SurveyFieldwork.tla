--------------------------- MODULE SurveyFieldwork ---------------------------
(***************************************************************************)
(* Surveys of an application: assignment, start, submission, verification, *)
(* answers and evidence (internal/biz/survey.go, internal/data/survey.go,  *)
(* the statements of internal/data/db/survey.sql.go).                      *)
(*                                                                         *)
(* Assigning a survey, answering a question and uploading evidence check   *)
(* first, with queries of their own, that the application is not in a      *)
(* terminal status; the status of the survey itself is written by one      *)
(* UPDATE with no check at all.  Statements are autocommitted.  The status *)
(* of an application belongs to ApplicationWorkflow; here it moves at will.*)
(***************************************************************************)
EXTENDS Naturals, FiniteSets

CONSTANTS
    Requests,      \* handler goroutines
    MaxInFlight,   \* bound: how many run at the same time, the workflow's included
    Operations,    \* the operations clients call, a subset of OpNames
    Apps,          \* application ids
    Statuses,      \* statuses of an application
    Terminal,      \* those with is_terminal
    Surveys,       \* application_surveys ids
    Templates,     \* survey_templates ids
    Questions,     \* survey_questions ids
    Values,        \* answers
    Users,         \* users
    None,          \* SQL NULL (also what uuid.Nil becomes), no row, an unset local
    MaxTime,       \* bound: status writes, each at an instant of its own
    MaxUploads,    \* bound: evidence and answers without a question of one survey
    Faults,        \* TRUE: statements fail, replies get lost
    LookupsFail    \* TRUE: the lookup of the status, whose error is ignored, fails

\* Start, Submit and Verify are UpdateSurveyStatus with these statuses.
StatusOf == [Start |-> "IN_PROGRESS", Submit |-> "SUBMITTED", Verify |-> "VERIFIED"]

OpNames == {"Assign", "Answer", "Upload"} \cup DOMAIN StatusOf

Times == 0..MaxTime

\* A row of application_surveys.
SurveyRows == [app       : Apps,
               template  : Templates \cup {None},
               status    : {"ASSIGNED", "IN_PROGRESS", "SUBMITTED", "VERIFIED"},
               started   : Times \cup {None},
               submitted : Times \cup {None},
               by        : Users \cup {None}]

ASSUME SurveyAssumption ==
    /\ Operations \subseteq OpNames
    /\ Terminal \subseteq Statuses
    /\ {MaxInFlight, MaxTime, MaxUploads} \subseteq Nat
    /\ {Faults, LookupsFail} \subseteq BOOLEAN
    /\ None \notin Apps \cup Statuses \cup Surveys \cup Templates \cup Questions
                     \cup Values \cup Users \cup Nat \cup SurveyRows

VARIABLES
    status,     \* status[a]: of the committed application row, None if there is none
    surveys,    \* surveys[s]: the row of application_surveys, or None
    answers,    \* answers[s][q]: its row of survey_answers, or None
    stray,      \* stray[s]: rows of survey_answers without a question
    evidence,   \* evidence[s]: rows of survey_evidences
    clock,      \* CURRENT_TIMESTAMP
    pc,         \* pc[r]: the statement request r runs next
    job         \* job[r]: its parameters

tables == <<status, surveys, answers, stray, evidence, clock>>

vars == <<tables, pc, job>>

Jobs == [op       : OpNames \cup {None},
         app      : Apps \cup {None},
         survey   : Surveys \cup {None},
         template : Templates \cup {None},
         question : Questions \cup {None},
         value    : Values \cup {None},
         user     : Users \cup {None},
         stamp    : Times \cup {None}]

NoJob == [op |-> None, app |-> None, survey |-> None, template |-> None,
          question |-> None, value |-> None, user |-> None, stamp |-> None]

InFlight == {r \in Requests : pc[r] # "idle"}

\* IsTerminalStatus; its error is ignored, and then nothing is locked.
StoppedByLock(s) == s \in Terminal
PassesLock(s)    == s \notin Terminal \/ LookupsFail

Goto(r, step, j) ==
    /\ pc' = [pc EXCEPT ![r] = step]
    /\ job' = [job EXCEPT ![r] = j]

\* The handler has its answer; only the outcome still matters.
Finish(r, outcome) == Goto(r, outcome, NoJob)

-----------------------------------------------------------------------------
(* Requests.  Ids that do not parse are uuid.Nil, None here.               *)

Begin(r, step, j) ==
    /\ pc[r] = "idle"
    /\ Cardinality(InFlight) < MaxInFlight
    /\ j.op \in Operations
    /\ Goto(r, step, j)
    /\ UNCHANGED tables

BeginAssign(r) ==
    \E a \in Apps, t \in Templates \cup {None} :
        Begin(r, "lock", [NoJob EXCEPT !.op = "Assign", !.app = a, !.template = t])

BeginAnswer(r) ==
    \E s \in Surveys, q \in Questions \cup {None}, v \in Values :
        Begin(r, "survey", [NoJob EXCEPT !.op = "Answer", !.survey = s, !.question = q,
                                         !.value = v])

BeginUpload(r) ==
    \E s \in Surveys : Begin(r, "survey", [NoJob EXCEPT !.op = "Upload", !.survey = s])

\* StartSurvey, SubmitSurvey, VerifySurvey: straight to the UPDATE, which stores
\* only the user who submits.
BeginStatus(r) ==
    \E op \in DOMAIN StatusOf, s \in Surveys, u \in Users \cup {None} :
        /\ op # "Submit" => u = None
        /\ Begin(r, "reach", [NoJob EXCEPT !.op = op, !.survey = s, !.user = u])

-----------------------------------------------------------------------------
(* The usecase.                                                            *)

\* GetSurvey, for the application the survey belongs to.
GetSurvey(r) ==
    LET row == surveys[job[r].survey]
    IN  /\ pc[r] = "survey"
        /\ \/ /\ row # None
              /\ Goto(r, "lock", [job[r] EXCEPT !.app = row.app])
           \/ /\ row = None
              /\ Finish(r, "failed")
        /\ UNCHANGED tables

\* Seeded fault: only assignments check the lock.
LockOnAssign(r) ==
    LET s == status[job[r].app]
    IN  /\ pc[r] = "lock"
        /\ \/ /\ s # None /\ (PassesLock(s) \/ job[r].op # "Assign")
              /\ Goto(r, "write", job[r])
           \/ /\ s = None \/ StoppedByLock(s)
              /\ Finish(r, "failed")
        /\ UNCHANGED tables

CheckLock(r) ==
    LET s == status[job[r].app]
    IN  /\ pc[r] = "lock"
        /\ \/ /\ s # None /\ PassesLock(s)
              /\ Goto(r, "write", job[r])
           \/ /\ s = None \/ StoppedByLock(s)
              /\ Finish(r, "failed")
        /\ UNCHANGED tables

-----------------------------------------------------------------------------
(* The statements.                                                         *)

\* INSERT INTO application_surveys, with status 'ASSIGNED', under a fresh id.
AssignSurvey(r) ==
    /\ job[r].op = "Assign"
    /\ \E s \in Surveys :
         /\ surveys[s] = None
         /\ surveys' = [surveys EXCEPT ![s] =
               [app |-> job[r].app, template |-> job[r].template, status |-> "ASSIGNED",
                started |-> None, submitted |-> None, by |-> None]]
    /\ UNCHANGED <<answers, stray, evidence>>

\* Seeded fault: question and answer are swapped in the list of arguments.
AnswerSwapped(r) ==
    /\ job[r].op = "Answer"
    /\ job[r].question # None
    /\ answers' = [answers EXCEPT ![job[r].survey][job[r].question] = job[r].question]
    /\ UNCHANGED <<surveys, stray, evidence>>

\* ON CONFLICT (survey_id, question_id) DO UPDATE.  Two NULLs do not conflict:
\* an answer without a question is always a new row.
UpsertSurveyAnswer(r) ==
    /\ job[r].op = "Answer"
    /\ IF job[r].question = None
       THEN /\ stray[job[r].survey] < MaxUploads
            /\ stray' = [stray EXCEPT ![job[r].survey] = @ + 1]
            /\ UNCHANGED answers
       ELSE /\ answers' = [answers EXCEPT ![job[r].survey][job[r].question] = job[r].value]
            /\ UNCHANGED stray
    /\ UNCHANGED <<surveys, evidence>>

CreateSurveyEvidence(r) ==
    /\ job[r].op = "Upload"
    /\ evidence[job[r].survey] < MaxUploads
    /\ evidence' = [evidence EXCEPT ![job[r].survey] = @ + 1]
    /\ UNCHANGED <<surveys, answers, stray>>

\* Seeded fault: every start is stamped.
StampedAgain(row, j) ==
    [row EXCEPT !.status    = StatusOf[j.op],
                !.started   = IF j.op = "Start" THEN j.stamp ELSE @,
                !.submitted = IF j.op = "Submit" THEN j.stamp ELSE @,
                !.by        = IF j.op = "Submit" THEN j.user ELSE @]

\* The SET clauses of UpdateSurveyStatus.
Stamped(row, j) ==
    [row EXCEPT !.status    = StatusOf[j.op],
                !.started   = IF j.op = "Start" /\ @ = None THEN j.stamp ELSE @,
                !.submitted = IF j.op = "Submit" THEN j.stamp ELSE @,
                !.by        = IF j.op = "Submit" THEN j.user ELSE @]

\* CURRENT_TIMESTAMP is the time the statement reaches the server; it may then
\* wait for the row, and applies to the row as it is after the wait.
Reach(r) ==
    /\ pc[r] = "reach"
    /\ clock < MaxTime
    /\ clock' = clock + 1
    /\ Goto(r, "write", [job[r] EXCEPT !.stamp = clock])
    /\ UNCHANGED <<status, surveys, answers, stray, evidence>>

UpdateSurveyStatus(r) ==
    LET s == job[r].survey
    IN  /\ job[r].op \in DOMAIN StatusOf
        /\ surveys[s] # None
        /\ surveys' = [surveys EXCEPT ![s] = Stamped(@, job[r])]
        /\ UNCHANGED <<answers, stray, evidence>>

Statement(r) ==
    /\ pc[r] = "write"
    /\ \/ AssignSurvey(r) \/ UpsertSurveyAnswer(r)
       \/ CreateSurveyEvidence(r) \/ UpdateSurveyStatus(r)
    /\ UNCHANGED <<status, clock>>

Write(r) == Statement(r) /\ Finish(r, "ok")

\* Autocommitted, but the connection breaks before the client hears of it.
WriteLost(r) ==
    /\ Faults
    /\ Statement(r)
    /\ Finish(r, "failed")

\* UPDATE ... RETURNING has no row.
NoSurvey(r) ==
    /\ pc[r] = "write"
    /\ job[r].op \in DOMAIN StatusOf
    /\ surveys[job[r].survey] = None
    /\ Finish(r, "failed")
    /\ UNCHANGED tables

\* A statement fails or the request's context expires.
Fail(r) ==
    /\ Faults
    /\ pc[r] \in {"survey", "lock", "reach", "write"}
    /\ Finish(r, "failed")
    /\ UNCHANGED tables

Return(r) ==
    /\ pc[r] \in {"ok", "failed"}
    /\ Goto(r, "idle", NoJob)
    /\ UNCHANGED tables

\* Applications are created and move through their statuses, in a request of
\* ApplicationWorkflow.
StatusMoves ==
    /\ Cardinality(InFlight) < MaxInFlight
    /\ \E a \in Apps, s \in Statuses : status' = [status EXCEPT ![a] = s]
    /\ UNCHANGED <<surveys, answers, stray, evidence, clock, pc, job>>

Init ==
    /\ status = [a \in Apps |-> None]
    /\ surveys = [s \in Surveys |-> None]
    /\ answers = [s \in Surveys |-> [q \in Questions |-> None]]
    /\ stray = [s \in Surveys |-> 0]
    /\ evidence = [s \in Surveys |-> 0]
    /\ clock = 0
    /\ pc = [r \in Requests |-> "idle"]
    /\ job = [r \in Requests |-> NoJob]

Next ==
    \/ \E r \in Requests :
         \/ BeginAssign(r) \/ BeginAnswer(r) \/ BeginUpload(r) \/ BeginStatus(r)
         \/ GetSurvey(r) \/ CheckLock(r) \/ Reach(r)
         \/ Write(r) \/ WriteLost(r) \/ NoSurvey(r) \/ Fail(r) \/ Return(r)
    \/ StatusMoves

Spec == Init /\ [][Next]_vars

-----------------------------------------------------------------------------
(* What has to hold.                                                       *)

TypeOK ==
    /\ status \in [Apps -> Statuses \cup {None}]
    /\ surveys \in [Surveys -> SurveyRows \cup {None}]
    /\ answers \in [Surveys -> [Questions -> Values \cup {None}]]
    /\ stray \in [Surveys -> 0..MaxUploads]
    /\ evidence \in [Surveys -> 0..MaxUploads]
    /\ clock \in Times
    /\ pc \in [Requests -> {"idle", "survey", "lock", "reach", "write", "ok", "failed"}]
    /\ job \in [Requests -> Jobs]

\* The surveys of an application with their answers and evidence, without the
\* columns UpdateSurveyStatus writes.
RecordsOf(a) ==
    {<<s, surveys[s].template, answers[s], stray[s], evidence[s]>> :
        s \in {x \in Surveys : surveys[x] # None /\ surveys[x].app = a}}

(***************************************************************************)
(* Whatever the interleaving with the workflow and with each other, and    *)
(* however replies get lost: a survey is assigned, a question answered and *)
(* evidence added only by a request whose own check saw the application of *)
(* that survey in a working status, and once for each such check           *)
(* (biz/survey.go:125).  Holds while the status lookup answers.            *)
(***************************************************************************)
Locks == INSTANCE LockedRecords WITH
    records <- [a \in Apps |-> RecordsOf(a)],
    permits <- {<<r, job[r].app>> :
                   r \in {q \in Requests : pc[q] = "write" /\ job[q].app # None}}

RecordsProtected == Locks!Spec

(***************************************************************************)
(* In whatever order, however often and however late a survey is started,  *)
(* submitted and verified: the time of the first start stays, and a        *)
(* submission is never lost and replaced only by another one, also when a  *)
(* delayed StartSurvey takes the survey back to IN_PROGRESS                *)
(* (data/survey.go:186).                                                   *)
(***************************************************************************)
MilestonesKept ==
    [][\A s \in Surveys : surveys[s] # None =>
          /\ surveys[s].started # None => surveys'[s].started = surveys[s].started
          /\ surveys[s].submitted # None => surveys'[s].submitted # None
          /\ <<surveys'[s].submitted, surveys'[s].by>>
                # <<surveys[s].submitted, surveys[s].by>>
             => surveys'[s].status = "SUBMITTED"]_vars

\* The survey data of a terminal application cannot be modified
\* (biz/survey.go:132).
SurveyDataFrozen ==
    [][\A a \in Apps, s \in Surveys :
          /\ status[a] \in Terminal
          /\ surveys[s] # None /\ surveys[s].app = a
          => surveys'[s] = surveys[s]]_vars

=============================================================================
