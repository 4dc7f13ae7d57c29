------------------------ MODULE SurveyFieldworkProofs ------------------------
(***************************************************************************)
(* Theorems about SurveyFieldwork for every number of requests,            *)
(* applications, surveys and questions, and for every fault setting: its   *)
(* types, that milestones are kept, and that it implements LockedRecords.  *)
(***************************************************************************)
EXTENDS SurveyFieldwork, TLAPS

Steps == {"idle", "survey", "lock", "reach", "write", "ok", "failed"}

\* Start, Submit and Verify; the operations that write to a survey of an
\* application they were told about.
StatusOps == {"Start", "Submit", "Verify"}
SurveyOps == {"Answer", "Upload"}

LEMMA StatusOfOps ==
    /\ DOMAIN StatusOf = StatusOps
    /\ StatusOf["Start"] = "IN_PROGRESS"
    /\ StatusOf["Submit"] = "SUBMITTED"
    /\ StatusOf["Verify"] = "VERIFIED"
BY DEF StatusOf, StatusOps

LEMMA OpNamesAre == OpNames = {"Assign"} \cup SurveyOps \cup StatusOps
BY StatusOfOps DEF OpNames, SurveyOps

(***************************************************************************)
(* TypeOK alone is not inductive.  JobFits says which parameters a request *)
(* has at each statement, and which operations come there: it is the       *)
(* control flow of the handlers, and why a status write has no permit.     *)
(***************************************************************************)
JobFits(step, j) ==
    /\ step = "survey" => j.op \in SurveyOps
    /\ step = "lock" => j.op \in {"Assign"} \cup SurveyOps
    /\ step = "reach" => j.op \in StatusOps
    /\ step = "write" => j.op \in OpNames /\ (j.op \in StatusOps => j.stamp \in Times)
    /\ step \in {"survey", "lock", "reach", "write"} =>
          /\ j.op # "Assign" => j.survey \in Surveys
          /\ j.op = "Answer" => j.value \in Values
          /\ j.op \in StatusOps => j.app = None
    /\ step \in {"lock", "write"} /\ j.op \notin StatusOps => j.app \in Apps

TypeInv ==
    /\ TypeOK
    /\ \A r \in Requests : JobFits(pc[r], job[r])

\* An answer or a piece of evidence belongs to a survey of the application whose
\* lock is checked for it.
OwnJob(step, j) ==
    step \in {"lock", "write"} /\ j.op \in SurveyOps =>
        surveys[j.survey] # None /\ surveys[j.survey].app = j.app

OwnInv == \A r \in Requests : OwnJob(pc[r], job[r])

\* A survey is never deleted and never moves to another application.
SurveysStay ==
    \A s \in Surveys : surveys[s] # None => surveys'[s] # None /\ surveys'[s].app = surveys[s].app

-----------------------------------------------------------------------------
(* Types.                                                                  *)

LEMMA NoJobTyped == NoJob \in Jobs
BY DEF NoJob, Jobs

\* An answered request needs no parameters.
LEMMA EndFits ==
    ASSUME NEW outcome \in {"ok", "failed", "idle"}
    PROVE  JobFits(outcome, NoJob)
BY DEF JobFits

TablesTyped ==
    /\ status \in [Apps -> Statuses \cup {None}]
    /\ surveys \in [Surveys -> SurveyRows \cup {None}]
    /\ answers \in [Surveys -> [Questions -> Values \cup {None}]]
    /\ stray \in [Surveys -> 0..MaxUploads]
    /\ evidence \in [Surveys -> 0..MaxUploads]
    /\ clock \in Times

\* Moving one request along keeps the types if its new parameters fit.
LEMMA StepTyped ==
    ASSUME TypeInv,
           NEW r \in Requests, NEW step \in Steps, NEW j \in Jobs,
           Goto(r, step, j), JobFits(step, j),
           TablesTyped'
    PROVE  TypeInv'
<1>1. TypeOK'
  BY DEF TypeInv, TypeOK, Goto, Steps, TablesTyped
<1>2. ASSUME NEW q \in Requests
      PROVE  JobFits(pc'[q], job'[q])
  <2>1. CASE q = r
    BY <2>1 DEF Goto, TypeInv, TypeOK
  <2>2. CASE q # r
    <3>1. pc'[q] = pc[q] /\ job'[q] = job[q]
      BY <2>2 DEF Goto, TypeInv, TypeOK
    <3>2. QED
      BY <3>1 DEF TypeInv
  <2>3. QED
    BY <2>1, <2>2
<1>3. QED
  BY <1>1, <1>2 DEF TypeInv, JobFits

\* The same for a step that leaves the tables alone.
LEMMA LocalTyped ==
    ASSUME TypeInv,
           NEW r \in Requests, NEW step \in Steps, NEW j \in Jobs,
           Goto(r, step, j), JobFits(step, j), UNCHANGED tables
    PROVE  TypeInv'
BY StepTyped DEF tables, TypeInv, TypeOK, TablesTyped

\* Requests begin with what their first statement needs.
LEMMA BeginShaped ==
    ASSUME NEW r \in Requests,
           BeginAssign(r) \/ BeginAnswer(r) \/ BeginUpload(r) \/ BeginStatus(r)
    PROVE  \E step \in {"survey", "lock", "reach"}, j \in Jobs :
              /\ Begin(r, step, j)
              /\ JobFits(step, j)
              /\ step = "lock" => j.op = "Assign"
<1>1. CASE BeginAssign(r)
  <2>1. PICK a \in Apps, t \in Templates \cup {None} :
           Begin(r, "lock", [NoJob EXCEPT !.op = "Assign", !.app = a, !.template = t])
    BY <1>1 DEF BeginAssign
  <2> DEFINE j == [NoJob EXCEPT !.op = "Assign", !.app = a, !.template = t]
  <2>2. j \in Jobs /\ JobFits("lock", j) /\ j.op = "Assign"
    BY OpNamesAre DEF NoJob, Jobs, JobFits, SurveyOps, StatusOps
  <2>3. QED
    BY <2>1, <2>2
<1>2. CASE BeginAnswer(r)
  <2>1. PICK s \in Surveys, q \in Questions \cup {None}, v \in Values :
           Begin(r, "survey", [NoJob EXCEPT !.op = "Answer", !.survey = s, !.question = q,
                                            !.value = v])
    BY <1>2 DEF BeginAnswer
  <2> DEFINE j == [NoJob EXCEPT !.op = "Answer", !.survey = s, !.question = q, !.value = v]
  <2>2. j \in Jobs /\ JobFits("survey", j)
    BY OpNamesAre DEF NoJob, Jobs, JobFits, SurveyOps, StatusOps
  <2>3. QED
    BY <2>1, <2>2
<1>3. CASE BeginUpload(r)
  <2>1. PICK s \in Surveys : Begin(r, "survey", [NoJob EXCEPT !.op = "Upload", !.survey = s])
    BY <1>3 DEF BeginUpload
  <2> DEFINE j == [NoJob EXCEPT !.op = "Upload", !.survey = s]
  <2>2. j \in Jobs /\ JobFits("survey", j)
    BY OpNamesAre DEF NoJob, Jobs, JobFits, SurveyOps, StatusOps
  <2>3. QED
    BY <2>1, <2>2
<1>4. CASE BeginStatus(r)
  <2>1. PICK op \in StatusOps, s \in Surveys, u \in Users \cup {None} :
           Begin(r, "reach", [NoJob EXCEPT !.op = op, !.survey = s, !.user = u])
    BY <1>4, StatusOfOps DEF BeginStatus
  <2> DEFINE j == [NoJob EXCEPT !.op = op, !.survey = s, !.user = u]
  <2>2. j \in Jobs /\ JobFits("reach", j)
    BY OpNamesAre DEF NoJob, Jobs, JobFits, SurveyOps, StatusOps
  <2>3. QED
    BY <2>1, <2>2
<1>5. QED
  BY <1>1, <1>2, <1>3, <1>4

\* What a status write makes of a survey.
LEMMA StampedTyped ==
    ASSUME NEW old \in SurveyRows, NEW j \in Jobs, j.op \in StatusOps, j.stamp \in Times
    PROVE  Stamped(old, j) \in SurveyRows
<1>1. StatusOf[j.op] \in {"IN_PROGRESS", "SUBMITTED", "VERIFIED"}
  BY StatusOfOps DEF StatusOps
<1>2. old = [app |-> old.app, template |-> old.template, status |-> old.status,
             started |-> old.started, submitted |-> old.submitted, by |-> old.by]
  BY DEF SurveyRows
<1>3. j.user \in Users \cup {None}
  BY DEF Jobs
<1>4. CASE j.op = "Start"
  BY <1>1, <1>2, <1>4 DEF Stamped, SurveyRows
<1>5. CASE j.op = "Submit"
  BY <1>1, <1>2, <1>3, <1>5 DEF Stamped, SurveyRows
<1>6. CASE j.op = "Verify"
  BY <1>1, <1>2, <1>6 DEF Stamped, SurveyRows
<1>7. QED
  BY <1>4, <1>5, <1>6 DEF StatusOps

LEMMA StatementTyped ==
    ASSUME TypeInv, NEW r \in Requests, Statement(r)
    PROVE  TablesTyped'
<1> USE DEF TypeInv, TypeOK, TablesTyped
<1>1. pc[r] = "write" /\ JobFits("write", job[r]) /\ job[r] \in Jobs /\ UNCHANGED <<status, clock>>
  BY DEF Statement
<1>2. CASE AssignSurvey(r)
  <2>1. job[r].app \in Apps /\ job[r].template \in Templates \cup {None}
    BY <1>1, <1>2 DEF AssignSurvey, JobFits, StatusOps, Jobs
  <2>2. surveys' \in [Surveys -> SurveyRows \cup {None}]
    BY <1>2, <2>1 DEF AssignSurvey, SurveyRows
  <2>3. QED
    BY <1>1, <1>2, <2>2 DEF AssignSurvey
<1>3. CASE UpsertSurveyAnswer(r)
  <2>1. job[r].survey \in Surveys /\ job[r].value \in Values /\ job[r].question \in Questions \cup {None}
    BY <1>1, <1>3 DEF UpsertSurveyAnswer, JobFits, Jobs
  <2>2. CASE job[r].question = None
    <3>1. stray' \in [Surveys -> 0..MaxUploads]
      BY <1>3, <2>1, <2>2, SurveyAssumption DEF UpsertSurveyAnswer
    <3>2. UNCHANGED <<answers, surveys, evidence>>
      BY <1>3, <2>2 DEF UpsertSurveyAnswer
    <3>3. QED
      BY <1>1, <3>1, <3>2
  <2>3. CASE job[r].question # None
    <3>1. answers' = [answers EXCEPT ![job[r].survey][job[r].question] = job[r].value]
      BY <1>3, <2>3 DEF UpsertSurveyAnswer
    <3>2. [answers[job[r].survey] EXCEPT ![job[r].question] = job[r].value]
              \in [Questions -> Values \cup {None}]
      BY <2>1
    <3>3. answers' \in [Surveys -> [Questions -> Values \cup {None}]]
      BY <2>1, <3>1, <3>2
    <3>4. UNCHANGED <<stray, surveys, evidence>>
      BY <1>3, <2>3 DEF UpsertSurveyAnswer
    <3>5. QED
      BY <1>1, <3>3, <3>4
  <2>4. QED
    BY <2>2, <2>3
<1>4. CASE CreateSurveyEvidence(r)
  <2>1. job[r].survey \in Surveys
    BY <1>1, <1>4 DEF CreateSurveyEvidence, JobFits
  <2>2. evidence' \in [Surveys -> 0..MaxUploads]
    BY <1>4, <2>1, SurveyAssumption DEF CreateSurveyEvidence
  <2>3. QED
    BY <1>1, <1>4, <2>2 DEF CreateSurveyEvidence
<1>5. CASE UpdateSurveyStatus(r)
  <2>1. job[r].op \in StatusOps /\ job[r].survey \in Surveys /\ job[r].stamp \in Times
    BY <1>1, <1>5, StatusOfOps DEF UpdateSurveyStatus, JobFits, StatusOps
  <2>2. Stamped(surveys[job[r].survey], job[r]) \in SurveyRows
    BY <1>1, <1>5, <2>1, StampedTyped DEF UpdateSurveyStatus
  <2>3. surveys' \in [Surveys -> SurveyRows \cup {None}]
    BY <1>5, <2>1, <2>2 DEF UpdateSurveyStatus
  <2>4. QED
    BY <1>1, <1>5, <2>3 DEF UpdateSurveyStatus
<1>6. QED
  BY <1>2, <1>3, <1>4, <1>5 DEF Statement

\* Each way to go on after a statement.
LEMMA WorkShaped ==
    ASSUME TypeInv, NEW r \in Requests,
           \/ GetSurvey(r) \/ CheckLock(r) \/ Reach(r) \/ Write(r) \/ WriteLost(r)
           \/ NoSurvey(r) \/ Fail(r) \/ Return(r)
    PROVE  \E step \in Steps, j \in Jobs : Goto(r, step, j) /\ JobFits(step, j)
<1>1. job[r] \in Jobs /\ JobFits(pc[r], job[r])
  BY DEF TypeInv, TypeOK
<1>2. CASE \E outcome \in {"ok", "failed", "idle"} : Goto(r, outcome, NoJob)
  BY <1>2, NoJobTyped, EndFits DEF Steps
<1>3. CASE GetSurvey(r) /\ surveys[job[r].survey] # None
  <2> DEFINE j == [job[r] EXCEPT !.app = surveys[job[r].survey].app]
  <2>1. job[r].op \in SurveyOps /\ job[r].survey \in Surveys
    BY <1>1, <1>3 DEF GetSurvey, JobFits, SurveyOps
  <2>2. surveys[job[r].survey].app \in Apps
    BY <1>3, <2>1 DEF TypeInv, TypeOK, SurveyRows
  <2>3. j \in Jobs /\ JobFits("lock", j)
    BY <1>1, <1>3, <2>1, <2>2 DEF GetSurvey, Jobs, JobFits, SurveyOps, StatusOps
  <2>4. Goto(r, "lock", j)
    BY <1>3 DEF GetSurvey
  <2>5. QED
    BY <2>3, <2>4 DEF Steps
<1>4. CASE CheckLock(r) /\ Goto(r, "write", job[r])
  <2>1. JobFits("write", job[r])
    BY <1>1, <1>4, OpNamesAre DEF CheckLock, JobFits, SurveyOps, StatusOps
  <2>2. QED
    BY <1>1, <1>4, <2>1 DEF Steps
<1>5. CASE Reach(r)
  <2> DEFINE j == [job[r] EXCEPT !.stamp = clock]
  <2>1. j \in Jobs /\ JobFits("write", j)
    BY <1>1, <1>5, OpNamesAre DEF Reach, Jobs, JobFits, StatusOps, TypeInv, TypeOK
  <2>2. QED
    BY <1>5, <2>1 DEF Reach, Steps
<1>6. QED
  BY <1>2, <1>3, <1>4, <1>5
     DEF GetSurvey, CheckLock, Write, WriteLost, NoSurvey, Fail, Return, Finish

LEMMA NextTyped == TypeInv /\ [Next]_vars => TypeInv'
<1> SUFFICES ASSUME TypeInv, [Next]_vars PROVE TypeInv'
  OBVIOUS
<1>1. CASE UNCHANGED vars
  BY <1>1 DEF vars, tables, TypeInv, TypeOK
<1>2. CASE StatusMoves
  BY <1>2 DEF StatusMoves, TypeInv, TypeOK
<1>3. ASSUME NEW r \in Requests,
             BeginAssign(r) \/ BeginAnswer(r) \/ BeginUpload(r) \/ BeginStatus(r)
      PROVE  TypeInv'
  BY <1>3, BeginShaped, LocalTyped DEF Begin, Steps
<1>4. ASSUME NEW r \in Requests,
             \/ GetSurvey(r) \/ CheckLock(r) \/ Reach(r) \/ Write(r) \/ WriteLost(r)
             \/ NoSurvey(r) \/ Fail(r) \/ Return(r)
      PROVE  TypeInv'
  <2>1. TablesTyped'
    <3>1. CASE Statement(r)
      BY <3>1, StatementTyped
    <3>2. CASE UNCHANGED tables
      BY <3>2 DEF tables, TypeInv, TypeOK, TablesTyped
    <3>3. CASE Reach(r)
      BY <3>3, SurveyAssumption DEF Reach, TypeInv, TypeOK, TablesTyped, Times
    <3>4. QED
      BY <1>4, <3>1, <3>2, <3>3
         DEF GetSurvey, CheckLock, Write, WriteLost, NoSurvey, Fail, Return
  <2>2. QED
    BY <1>4, <2>1, WorkShaped, StepTyped
<1>5. QED
  BY <1>1, <1>2, <1>3, <1>4 DEF Next

LEMMA InitTyped == Init => TypeInv
BY SurveyAssumption, NoJobTyped DEF Init, TypeInv, TypeOK, JobFits, Times

\* Surveys, answers and evidence keep their types.
THEOREM SurveyTypeCorrect == Spec => []TypeOK
<1>1. TypeInv => TypeOK
  BY DEF TypeInv
<1>2. QED
  BY <1>1, InitTyped, NextTyped, PTL DEF Spec

-----------------------------------------------------------------------------
(* What a step does to the surveys.                                        *)

\* Only two statements write to application_surveys: one adds a row, the other
\* stamps one.
SurveyAdded(r) ==
    /\ pc[r] = "write" /\ job[r].op = "Assign"
    /\ \E s \in Surveys :
         /\ surveys[s] = None
         /\ surveys' = [surveys EXCEPT ![s] =
               [app |-> job[r].app, template |-> job[r].template, status |-> "ASSIGNED",
                started |-> None, submitted |-> None, by |-> None]]

SurveyStamped(r) ==
    /\ pc[r] = "write" /\ job[r].op \in StatusOps
    /\ job[r].survey \in Surveys
    /\ surveys[job[r].survey] \in SurveyRows
    /\ surveys' = [surveys EXCEPT ![job[r].survey] = Stamped(@, job[r])]

LEMMA StepSurveys ==
    ASSUME TypeInv, [Next]_vars, surveys' # surveys
    PROVE  \E r \in Requests : SurveyAdded(r) \/ SurveyStamped(r)
<1>1. PICK r \in Requests : Statement(r)
  BY DEF Next, vars, tables, StatusMoves, BeginAssign, BeginAnswer, BeginUpload, BeginStatus, Begin,
         GetSurvey, CheckLock, Reach, Write, WriteLost, NoSurvey, Fail, Return
<1>2. pc[r] = "write" /\ JobFits("write", job[r])
  BY <1>1 DEF Statement, TypeInv
<1>3. CASE AssignSurvey(r)
  BY <1>2, <1>3 DEF AssignSurvey, SurveyAdded
<1>4. CASE UpdateSurveyStatus(r)
  <2>1. job[r].op \in StatusOps /\ job[r].survey \in Surveys
    BY <1>2, <1>4, StatusOfOps DEF UpdateSurveyStatus, JobFits, StatusOps
  <2>2. surveys[job[r].survey] \in SurveyRows
    BY <1>4, <2>1 DEF UpdateSurveyStatus, TypeInv, TypeOK
  <2>3. QED
    BY <1>2, <1>4, <2>1, <2>2 DEF UpdateSurveyStatus, SurveyStamped
<1>5. QED
  BY <1>1, <1>3, <1>4 DEF Statement, UpsertSurveyAnswer, CreateSurveyEvidence

\* The columns of a stamped row.
LEMMA StampedColumns ==
    ASSUME NEW old \in SurveyRows, NEW j \in Jobs, j.op \in StatusOps, j.stamp \in Times
    PROVE  /\ Stamped(old, j) \in SurveyRows
           /\ Stamped(old, j).app = old.app
           /\ Stamped(old, j).template = old.template
           /\ old.started # None => Stamped(old, j).started = old.started
           /\ old.submitted # None => Stamped(old, j).submitted # None
           /\ j.op = "Submit" => Stamped(old, j).status = "SUBMITTED"
           /\ j.op # "Submit" => /\ Stamped(old, j).submitted = old.submitted
                                /\ Stamped(old, j).by = old.by
<1>1. Stamped(old, j) \in SurveyRows
  BY StampedTyped
<1>2. j.stamp # None
  BY SurveyAssumption DEF Times
<1>3. old = [app |-> old.app, template |-> old.template, status |-> old.status,
             started |-> old.started, submitted |-> old.submitted, by |-> old.by]
  BY DEF SurveyRows
<1>4. CASE j.op = "Start"
  BY <1>1, <1>3, <1>4 DEF Stamped
<1>5. CASE j.op = "Submit"
  BY <1>1, <1>2, <1>3, <1>5, StatusOfOps DEF Stamped
<1>6. CASE j.op = "Verify"
  BY <1>1, <1>3, <1>6 DEF Stamped
<1>7. QED
  BY <1>4, <1>5, <1>6 DEF StatusOps

LEMMA StampedRow ==
    ASSUME TypeInv, NEW r \in Requests, SurveyStamped(r)
    PROVE  /\ job[r] \in Jobs /\ job[r].op \in StatusOps /\ job[r].stamp \in Times
           /\ surveys[job[r].survey] \in SurveyRows
           /\ surveys'[job[r].survey] = Stamped(surveys[job[r].survey], job[r])
           /\ \A s \in Surveys : s # job[r].survey => surveys'[s] = surveys[s]
BY DEF SurveyStamped, TypeInv, TypeOK, JobFits

(***************************************************************************)
(* In whatever order, however often and however late a survey is started,  *)
(* submitted and verified: the first start stays, a submission is never    *)
(* lost and replaced only by another one (data/survey.go:186).             *)
(***************************************************************************)
THEOREM MilestonesStay == Spec => MilestonesKept
<1> DEFINE Kept(s) ==
      surveys[s] # None =>
          /\ surveys[s].started # None => surveys'[s].started = surveys[s].started
          /\ surveys[s].submitted # None => surveys'[s].submitted # None
          /\ <<surveys'[s].submitted, surveys'[s].by>>
                # <<surveys[s].submitted, surveys[s].by>>
             => surveys'[s].status = "SUBMITTED"
<1>1. ASSUME TypeInv, [Next]_vars, NEW s \in Surveys
      PROVE  Kept(s)
  <2>1. CASE surveys' = surveys
    BY <2>1
  <2>2. ASSUME NEW r \in Requests, SurveyAdded(r)
        PROVE  Kept(s)
    BY <1>1, <2>2 DEF SurveyAdded, TypeInv, TypeOK
  <2>3. ASSUME NEW r \in Requests, SurveyStamped(r)
        PROVE  Kept(s)
    <3>1. CASE s = job[r].survey
      BY <1>1, <2>3, <3>1, StampedRow, StampedColumns
    <3>2. CASE s # job[r].survey
      BY <1>1, <2>3, <3>2, StampedRow
    <3>3. QED
      BY <3>1, <3>2
  <2>4. QED
    BY <1>1, <2>1, <2>2, <2>3, StepSurveys
<1>2. TypeInv /\ [Next]_vars => [\A s \in Surveys : Kept(s)]_vars
  BY <1>1
<1>3. QED
  BY <1>2, InitTyped, NextTyped, PTL DEF Spec, MilestonesKept

LEMMA SurveysStayStep ==
    ASSUME TypeInv, [Next]_vars
    PROVE  SurveysStay
<1>1. CASE surveys' = surveys
  BY <1>1 DEF SurveysStay
<1>2. ASSUME NEW r \in Requests, SurveyAdded(r)
      PROVE  SurveysStay
  BY <1>2 DEF SurveyAdded, SurveysStay, TypeInv, TypeOK
<1>3. ASSUME NEW r \in Requests, SurveyStamped(r)
      PROVE  SurveysStay
  <2>1. \A row \in SurveyRows : row # None
    BY SurveyAssumption
  <2>2. QED
    BY <1>3, <2>1, StampedRow, StampedColumns DEF SurveysStay
<1>4. QED
  BY <1>1, <1>2, <1>3, StepSurveys

-----------------------------------------------------------------------------
(* Answers and evidence are of the application whose lock is checked.      *)

LEMMA StepOwned ==
    ASSUME TypeInv, OwnInv, SurveysStay,
           NEW r \in Requests, NEW step \in Steps, NEW j \in Jobs,
           Goto(r, step, j), JobFits(step, j), OwnJob(step, j)
    PROVE  OwnInv'
<1> SUFFICES ASSUME NEW q \in Requests, pc'[q] \in {"lock", "write"}, job'[q].op \in SurveyOps
             PROVE  surveys'[job'[q].survey] # None /\ surveys'[job'[q].survey].app = job'[q].app
  BY DEF OwnInv, OwnJob
<1>1. CASE q = r
  <2>1. pc'[q] = step /\ job'[q] = j
    BY <1>1 DEF Goto, TypeInv, TypeOK
  <2>2. j.survey \in Surveys
    BY <2>1 DEF JobFits, SurveyOps
  <2>3. QED
    BY <2>1, <2>2 DEF OwnJob, SurveysStay
<1>2. CASE q # r
  <2>1. pc'[q] = pc[q] /\ job'[q] = job[q]
    BY <1>2 DEF Goto, TypeInv, TypeOK
  <2>2. job[q].survey \in Surveys /\ OwnJob(pc[q], job[q])
    BY <2>1 DEF TypeInv, JobFits, SurveyOps, OwnInv
  <2>3. QED
    BY <2>1, <2>2 DEF OwnJob, SurveysStay
<1>3. QED
  BY <1>1, <1>2

LEMMA NextOwned == TypeInv /\ OwnInv /\ [Next]_vars => OwnInv'
<1> SUFFICES ASSUME TypeInv, OwnInv, [Next]_vars PROVE OwnInv'
  OBVIOUS
<1>1. CASE UNCHANGED vars
  BY <1>1 DEF vars, tables, OwnInv, OwnJob
<1>2. CASE StatusMoves
  BY <1>2 DEF StatusMoves, OwnInv, OwnJob
<1>3. SurveysStay
  BY SurveysStayStep
<1>4. ASSUME NEW r \in Requests,
             BeginAssign(r) \/ BeginAnswer(r) \/ BeginUpload(r) \/ BeginStatus(r)
      PROVE  OwnInv'
  <2>1. PICK step \in {"survey", "lock", "reach"}, j \in Jobs :
           Begin(r, step, j) /\ JobFits(step, j) /\ (step = "lock" => j.op = "Assign")
    BY <1>4, BeginShaped
  <2>2. OwnJob(step, j)
    BY <2>1 DEF OwnJob, SurveyOps
  <2>3. QED
    BY <1>3, <2>1, <2>2, StepOwned DEF Begin, Steps
<1>5. ASSUME NEW r \in Requests,
             \/ GetSurvey(r) \/ CheckLock(r) \/ Reach(r) \/ Write(r) \/ WriteLost(r)
             \/ NoSurvey(r) \/ Fail(r) \/ Return(r)
      PROVE  OwnInv'
  <2>1. job[r] \in Jobs /\ JobFits(pc[r], job[r]) /\ OwnJob(pc[r], job[r])
    BY DEF TypeInv, TypeOK, OwnInv
  <2>2. PICK step \in Steps, j \in Jobs : Goto(r, step, j) /\ JobFits(step, j)
    BY <1>5, WorkShaped
  <2>3. pc'[r] = step /\ job'[r] = j
    BY <2>2 DEF Goto, TypeInv, TypeOK
  <2>4. CASE step \notin {"lock", "write"}
    BY <1>3, <2>2, <2>4, StepOwned DEF OwnJob
  <2>5. CASE step = "lock"
    <3>1. GetSurvey(r) /\ surveys[job[r].survey] # None
          /\ Goto(r, "lock", [job[r] EXCEPT !.app = surveys[job[r].survey].app])
      BY <1>5, <2>3, <2>5
         DEF GetSurvey, CheckLock, Reach, Write, WriteLost, NoSurvey, Fail, Return, Finish, Goto,
             TypeInv, TypeOK
    <3>2. j = [job[r] EXCEPT !.app = surveys[job[r].survey].app]
      BY <2>3, <3>1 DEF Goto, TypeInv, TypeOK
    <3>3. OwnJob("lock", j)
      BY <2>1, <3>1, <3>2 DEF OwnJob, Jobs
    <3>4. QED
      BY <1>3, <2>2, <2>5, <3>3, StepOwned
  <2>6. CASE step = "write"
    <3>1. \/ pc[r] = "lock" /\ j = job[r]
          \/ pc[r] = "reach" /\ j = [job[r] EXCEPT !.stamp = clock]
      BY <1>5, <2>3, <2>6
         DEF GetSurvey, CheckLock, Reach, Write, WriteLost, NoSurvey, Fail, Return, Finish, Goto,
             TypeInv, TypeOK
    <3>2. OwnJob("write", j)
      BY <2>1, <3>1 DEF OwnJob, JobFits, StatusOps, SurveyOps, Jobs
    <3>3. QED
      BY <1>3, <2>2, <2>6, <3>2, StepOwned
  <2>7. QED
    BY <2>4, <2>5, <2>6
<1>6. QED
  BY <1>1, <1>2, <1>4, <1>5 DEF Next

LEMMA InitOwned == Init => OwnInv
BY DEF Init, OwnInv, OwnJob

-----------------------------------------------------------------------------
(* The refinement.                                                         *)

Records == [a \in Apps |-> RecordsOf(a)]

MayWrite(step, j) == step = "write" /\ j.app # None

Permits == {<<r, job[r].app>> : r \in {q \in Requests : pc[q] = "write" /\ job[q].app # None}}

\* What a step of request r does to the permits.
LEMMA StepPermits ==
    ASSUME TypeInv,
           NEW r \in Requests, NEW step \in Steps, NEW j \in Jobs,
           Goto(r, step, j)
    PROVE  /\ ~MayWrite(step, j) /\ ~MayWrite(pc[r], job[r]) => Permits' = Permits
           /\ ~MayWrite(step, j) /\ MayWrite(pc[r], job[r])
              => Permits' = Permits \ {<<r, job[r].app>>}
           /\ MayWrite(step, j) /\ ~MayWrite(pc[r], job[r])
              => Permits' = Permits \cup {<<r, j.app>>}
<1>1. pc'[r] = step /\ job'[r] = j
  BY DEF Goto, TypeInv, TypeOK
<1>2. \A q \in Requests \ {r} : pc'[q] = pc[q] /\ job'[q] = job[q]
  BY DEF Goto, TypeInv, TypeOK
<1>3. CASE ~MayWrite(step, j) /\ ~MayWrite(pc[r], job[r])
  BY <1>1, <1>2, <1>3 DEF Permits, MayWrite
<1>4. CASE ~MayWrite(step, j) /\ MayWrite(pc[r], job[r])
  BY <1>1, <1>2, <1>4 DEF Permits, MayWrite
<1>5. CASE MayWrite(step, j) /\ ~MayWrite(pc[r], job[r])
  BY <1>1, <1>2, <1>5 DEF Permits, MayWrite
<1>6. QED
  BY <1>3, <1>4, <1>5

\* The rows of application b are the same, and so is what belongs to them.
LEMMA SameRecords ==
    ASSUME NEW b \in Apps,
           \A s \in Surveys :
              /\ (surveys'[s] # None /\ surveys'[s].app = b)
                    <=> (surveys[s] # None /\ surveys[s].app = b)
              /\ surveys[s] # None /\ surveys[s].app = b =>
                    /\ surveys'[s].template = surveys[s].template
                    /\ answers'[s] = answers[s]
                    /\ stray'[s] = stray[s]
                    /\ evidence'[s] = evidence[s]
    PROVE  RecordsOf(b)' = RecordsOf(b)
BY DEF RecordsOf

\* A status write changes nobody's records.
LEMMA StampKeepsRecords ==
    ASSUME TypeInv, NEW r \in Requests, SurveyStamped(r), UNCHANGED <<answers, stray, evidence>>
    PROVE  Records' = Records
<1>1. \A row \in SurveyRows : row # None
  BY SurveyAssumption
<1>2. ASSUME NEW b \in Apps PROVE RecordsOf(b)' = RecordsOf(b)
  BY <1>1, SameRecords, StampedRow, StampedColumns
<1>3. QED
  BY <1>2 DEF Records

\* Any other statement changes the records of the application whose lock was
\* checked, and of no other.
LEMMA StatementOwn ==
    ASSUME TypeInv, OwnInv, NEW r \in Requests, Statement(r), job[r].op \notin StatusOps,
           NEW b \in Apps, b # job[r].app
    PROVE  RecordsOf(b)' = RecordsOf(b)
<1>1. JobFits("write", job[r]) /\ OwnJob("write", job[r]) /\ job[r] \in Jobs
  BY DEF Statement, TypeInv, TypeOK, OwnInv
<1>2. CASE AssignSurvey(r)
  BY <1>2, SameRecords DEF AssignSurvey, TypeInv, TypeOK
<1>3. CASE UpsertSurveyAnswer(r) \/ CreateSurveyEvidence(r)
  <2>1. job[r].survey \in Surveys /\ surveys[job[r].survey].app = job[r].app /\ surveys' = surveys
    BY <1>1, <1>3 DEF UpsertSurveyAnswer, CreateSurveyEvidence, JobFits, OwnJob, SurveyOps
  <2>2. \A s \in Surveys : s # job[r].survey =>
           answers'[s] = answers[s] /\ stray'[s] = stray[s] /\ evidence'[s] = evidence[s]
    BY <1>3 DEF UpsertSurveyAnswer, CreateSurveyEvidence, TypeInv, TypeOK
  <2>3. QED
    BY <2>1, <2>2, SameRecords
<1>4. QED
  BY <1>2, <1>3, StatusOfOps DEF Statement, UpdateSurveyStatus

LEMMA NextLocks ==
    ASSUME ~LookupsFail
    PROVE  TypeInv /\ OwnInv /\ [Next]_vars => [Locks!Next]_(Locks!vars)
<1> SUFFICES ASSUME TypeInv, OwnInv, [Next]_vars
             PROVE  [Locks!Next]_(Locks!vars)
  OBVIOUS
<1> DEFINE Quiet == UNCHANGED <<status, Records, Permits>>
<1>1. ASSUME Quiet PROVE UNCHANGED Locks!vars
  BY <1>1 DEF Locks!vars, Records, Permits
<1>2. ASSUME UNCHANGED <<surveys, answers, stray, evidence>> PROVE Records' = Records
  BY <1>2 DEF Records, RecordsOf
<1>3. CASE UNCHANGED vars
  BY <1>1, <1>2, <1>3 DEF vars, tables, Permits
<1>4. CASE StatusMoves
  <2>1. Permits' = Permits /\ Records' = Records
    BY <1>2, <1>4 DEF StatusMoves, Permits
  <2>2. Locks!StatusMoves
    BY <2>1 DEF Locks!StatusMoves, Records, Permits
  <2>3. QED
    BY <2>2 DEF Locks!Next
\* Steps between requests without a permit.
<1>5. ASSUME NEW r \in Requests, NEW step \in Steps, NEW j \in Jobs, Goto(r, step, j),
             ~MayWrite(step, j), ~MayWrite(pc[r], job[r]),
             UNCHANGED <<status, surveys, answers, stray, evidence>>
      PROVE  Quiet
  BY <1>2, <1>5, StepPermits
\* A permit is used up, by a statement or in vain.
<1>6. ASSUME NEW r \in Requests, MayWrite(pc[r], job[r]), NEW outcome \in {"ok", "failed"},
             Finish(r, outcome), UNCHANGED tables \/ Statement(r)
      PROVE  Locks!Next
  <2>1. JobFits("write", job[r])
    BY <1>6 DEF MayWrite, TypeInv
  <2>2. job[r].op \notin StatusOps /\ job[r].app \in Apps /\ status' = status
    BY <1>6, <2>1 DEF MayWrite, JobFits, Statement, tables
  <2>3. Permits' = Permits \ {<<r, job[r].app>>} /\ <<r, job[r].app>> \in Permits
    BY <1>6, StepPermits, NoJobTyped DEF Finish, Steps, MayWrite, Permits
  <2>4. \A b \in Apps \ {job[r].app} : Records'[b] = Records[b]
    BY <1>6, <2>2, StatementOwn DEF Records, RecordsOf, tables
  <2>5. Locks!Write(r, job[r].app)
    BY <2>2, <2>3, <2>4 DEF Locks!Write, Records, Permits
  <2>6. QED
    BY <2>2, <2>5 DEF Locks!Next, Locks!Write
<1>7. ASSUME NEW r \in Requests,
             BeginAssign(r) \/ BeginAnswer(r) \/ BeginUpload(r) \/ BeginStatus(r)
      PROVE  Quiet
  <2>1. PICK step \in {"survey", "lock", "reach"}, j \in Jobs : Begin(r, step, j)
    BY <1>7, BeginShaped
  <2>2. QED
    BY <1>5, <2>1 DEF Begin, tables, MayWrite, Steps
<1>8. ASSUME NEW r \in Requests, GetSurvey(r) \/ Return(r)
      PROVE  Quiet
  <2>1. PICK step \in Steps, j \in Jobs : Goto(r, step, j)
    BY <1>8, WorkShaped
  <2>2. pc'[r] = step /\ pc[r] # "write" /\ pc'[r] # "write"
    BY <1>8, <2>1 DEF GetSurvey, Return, Finish, Goto, TypeInv, TypeOK
  <2>3. QED
    BY <1>5, <1>8, <2>1, <2>2 DEF GetSurvey, Return, tables, MayWrite
<1>9. ASSUME NEW r \in Requests, Reach(r)
      PROVE  Quiet
  <2>1. job[r] \in Jobs /\ JobFits("reach", job[r]) /\ pc[r] = "reach"
    BY <1>9 DEF Reach, TypeInv, TypeOK
  <2> DEFINE j == [job[r] EXCEPT !.stamp = clock]
  <2>2. j \in Jobs /\ j.app = None
    BY <2>1 DEF JobFits, Jobs, TypeInv, TypeOK
  <2>3. QED
    BY <1>5, <1>9, <2>1, <2>2 DEF Reach, MayWrite, Steps
<1>10. ASSUME NEW r \in Requests, CheckLock(r)
       PROVE  [Locks!Next]_(Locks!vars)
  <2>1. /\ pc[r] = "lock" /\ job[r] \in Jobs /\ job[r].app \in Apps
        /\ ~MayWrite(pc[r], job[r]) /\ UNCHANGED tables
    BY <1>10 DEF CheckLock, TypeInv, TypeOK, JobFits, MayWrite, StatusOps, SurveyOps
  <2>2. CASE status[job[r].app] # None /\ PassesLock(status[job[r].app]) /\ Goto(r, "write", job[r])
    <3>1. MayWrite("write", job[r])
      BY <2>1, SurveyAssumption DEF MayWrite
    <3>2. status[job[r].app] \in Statuses \ Terminal
      BY <2>1, <2>2, ~LookupsFail DEF PassesLock, TypeInv, TypeOK
    <3>3. Permits' = Permits \cup {<<r, job[r].app>>}
      BY <2>1, <2>2, <3>1, StepPermits DEF Steps
    <3>4. UNCHANGED <<status, Records>>
      BY <1>2, <2>1 DEF tables
    <3>5. Locks!Permit(r, job[r].app)
      BY <3>2, <3>3, <3>4 DEF Locks!Permit, Records, Permits
    <3>6. QED
      BY <2>1, <3>5 DEF Locks!Next, Locks!Permit
  <2>3. CASE Finish(r, "failed")
    <3>1. Quiet
      BY <1>5, <2>1, <2>3, NoJobTyped DEF Finish, MayWrite, Steps, tables
    <3>2. QED
      BY <1>1, <3>1
  <2>4. QED
    BY <1>10, <2>2, <2>3 DEF CheckLock
<1>11. ASSUME NEW r \in Requests, Write(r) \/ WriteLost(r) \/ NoSurvey(r) \/ Fail(r)
       PROVE  [Locks!Next]_(Locks!vars)
  <2>1. PICK outcome \in {"ok", "failed"} : Finish(r, outcome)
    BY <1>11 DEF Write, WriteLost, NoSurvey, Fail
  <2>2. UNCHANGED tables \/ Statement(r)
    BY <1>11 DEF Write, WriteLost, NoSurvey, Fail
  <2>3. CASE MayWrite(pc[r], job[r])
    BY <1>6, <2>1, <2>2, <2>3
  <2>4. CASE ~MayWrite(pc[r], job[r])
    <3>1. Permits' = Permits
      BY <2>1, <2>4, StepPermits, NoJobTyped DEF Finish, MayWrite, Steps
    <3>2. CASE UNCHANGED tables
      BY <1>1, <1>2, <3>1, <3>2 DEF tables
    <3>3. CASE Statement(r)
      <4>1. JobFits("write", job[r]) /\ job[r].app = None /\ UNCHANGED status /\ pc[r] = "write"
        BY <2>4, <3>3 DEF MayWrite, Statement, TypeInv
      <4>2. job[r].op \in StatusOps
        BY <4>1, SurveyAssumption DEF JobFits
      <4>3. UpdateSurveyStatus(r)
        BY <3>3, <4>2
           DEF Statement, AssignSurvey, UpsertSurveyAnswer, CreateSurveyEvidence, StatusOps
      <4>4. SurveyStamped(r) /\ UNCHANGED <<answers, stray, evidence>>
        BY <4>1, <4>2, <4>3 DEF UpdateSurveyStatus, SurveyStamped, JobFits, StatusOps, TypeInv, TypeOK
      <4>5. Records' = Records
        BY <4>4, StampKeepsRecords
      <4>6. QED
        BY <1>1, <3>1, <4>1, <4>5
    <3>4. QED
      BY <2>2, <3>2, <3>3
  <2>5. QED
    BY <2>3, <2>4
<1>12. QED
  BY <1>1, <1>3, <1>4, <1>7, <1>8, <1>9, <1>10, <1>11 DEF Next

(***************************************************************************)
(* A survey is assigned, a question answered and evidence added only by a  *)
(* request whose own check saw the application of that survey in a working *)
(* status, once for each check, whatever the interleaving and whatever     *)
(* fails (biz/survey.go:125), while the status lookup answers.             *)
(***************************************************************************)
THEOREM RecordsChangeByPermit ==
    ASSUME ~LookupsFail
    PROVE  Spec => RecordsProtected
<1>1. Init => Locks!Init
  BY DEF Init, Locks!Init
<1>2. Spec => [](TypeInv /\ OwnInv)
  BY InitTyped, NextTyped, InitOwned, NextOwned, PTL DEF Spec
<1>3. QED
  BY <1>1, <1>2, NextLocks, PTL DEF Spec, RecordsProtected, Locks!Spec

=============================================================================
