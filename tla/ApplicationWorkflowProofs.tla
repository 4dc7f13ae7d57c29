---------------------- MODULE ApplicationWorkflowProofs ----------------------
(***************************************************************************)
(* Theorems about ApplicationWorkflow for every number of requests and     *)
(* applications, every product flow and every fault setting.               *)
(***************************************************************************)
EXTENDS ApplicationWorkflow, FiniteSetTheorems, TLAPS

(***************************************************************************)
(* Type correctness.  TypeOK alone is not inductive: a step that changes   *)
(* one column of job[r].image needs the image to be there.  JobFits says   *)
(* which locals are set at which statement.                                *)
(***************************************************************************)
WithImage == {"save", "party", "link", "assign", "attrs", "check", "decide"} \cup TxSteps

OnRow == {"party", "link", "assign", "attrs", "check", "decide", "reget"} \cup TxSteps

JobFits(step, j, rows) ==
    /\ step # "idle" => j.op \in OpNames /\ j.app \in Apps
    /\ step # "idle" /\ j.op = "Change" => j.want \in Statuses
    /\ step \in WithImage => j.image \in Rows
    /\ step \in OnRow => rows[j.app] \in Rows
    /\ step \in {"update", "commit"} => j.old \in Statuses

TypeInv ==
    /\ TypeOK
    /\ \A r \in Requests : JobFits(pc[r], job[r], row)

\* Rows are created and overwritten, never deleted.
RowsPersist == \A a \in Apps : row[a] \in Rows => row'[a] \in Rows

\* A step of request r keeps TypeInv if what it writes fits.
LEMMA StepTyped ==
    ASSUME TypeInv,
           NEW r \in Requests, NEW step \in Steps, NEW j \in Jobs,
           pc' = [pc EXCEPT ![r] = step],
           job' = [job EXCEPT ![r] = j],
           row' \in [Apps -> Rows \cup {None}],
           attrs' \in [Apps -> AttrMaps],
           log' \in [Apps -> Seq(Entries)],
           writer' \in [Apps -> Requests \cup {None}],
           borrower' \in [Apps -> {"none", "saved", "linked"}],
           RowsPersist,
           JobFits(step, j, row')
    PROVE  TypeInv'
<1>1. TypeOK'
  BY DEF TypeInv, TypeOK
<1>2. ASSUME NEW q \in Requests
      PROVE  JobFits(pc'[q], job'[q], row')
  <2>1. CASE q = r
    <3>1. pc'[q] = step /\ job'[q] = j
      BY <2>1 DEF TypeInv, TypeOK
    <3>2. QED
      BY <3>1 DEF JobFits
  <2>2. CASE q # r
    <3>1. pc'[q] = pc[q] /\ job'[q] = job[q]
      BY <2>2 DEF TypeInv, TypeOK
    <3>2. JobFits(pc[q], job[q], row)
      BY DEF TypeInv
    <3>3. QED
      BY <3>1, <3>2 DEF JobFits, RowsPersist, WithImage, OnRow, TxSteps
  <2>3. QED
    BY <2>1, <2>2
<1>3. QED
  BY <1>1, <1>2 DEF TypeInv

\* The locals of an idle request.
LEMMA NoJobTyped == NoJob \in Jobs
BY ConstantsAssumption DEF NoJob, Jobs, NoAttrs, AttrMaps, OpNames

LEMMA LocalTyped ==
    ASSUME TypeInv,
           NEW r \in Requests, NEW step \in Steps, NEW j \in Jobs,
           Local(r, step, j),
           JobFits(step, j, row)
    PROVE  TypeInv'
<1>1. UNCHANGED <<row, attrs, log, writer, borrower>>
  BY DEF Local, tables
<1>2. JobFits(step, j, row')
  BY <1>1 DEF JobFits
<1>3. QED
  BY <1>1, <1>2, StepTyped DEF Local, Goto, TypeInv, TypeOK, RowsPersist

LEMMA FinishTyped ==
    ASSUME TypeInv,
           NEW r \in Requests, pc[r] # "idle",
           NEW outcome \in Outcomes,
           Finish(r, outcome),
           row' \in [Apps -> Rows \cup {None}],
           attrs' \in [Apps -> AttrMaps],
           log' \in [Apps -> Seq(Entries)],
           writer' \in [Apps -> Requests \cup {None}],
           borrower' \in [Apps -> {"none", "saved", "linked"}],
           RowsPersist
    PROVE  TypeInv'
<1> DEFINE j == [NoJob EXCEPT !.op = job[r].op, !.app = job[r].app, !.want = job[r].want]
<1>1. job[r] \in Jobs /\ JobFits(pc[r], job[r], row)
  BY DEF TypeInv, TypeOK
<1>2. j \in Jobs
  BY <1>1, NoJobTyped DEF Jobs, NoJob
<1>3. outcome \in Steps /\ outcome \notin WithImage \cup OnRow \cup {"idle", "update", "commit"}
  BY DEF Outcomes, Steps, WithImage, OnRow, TxSteps
<1>4. j.op = job[r].op /\ j.app = job[r].app /\ j.want = job[r].want
  BY DEF NoJob
<1>5. JobFits(outcome, j, row')
  BY <1>1, <1>3, <1>4 DEF JobFits
<1>6. QED
  BY <1>2, <1>3, <1>5, StepTyped DEF Finish, Goto

LEMMA FailTyped ==
    ASSUME TypeInv, NEW r \in Requests, pc[r] # "idle", NEW outcome \in Outcomes,
           Finish(r, outcome), UNCHANGED tables
    PROVE  TypeInv'
BY FinishTyped DEF tables, TypeInv, TypeOK, RowsPersist

\* What UpdateFailed and AfterUpdate answer.
LEMMA Verdicts ==
    ASSUME NEW r \in Requests
    PROVE  /\ UpdateFailed(r) \in Outcomes
           /\ AfterUpdate(r) \in Outcomes \cup {"reget"}
           /\ job[r].op = "Change" => UpdateFailed(r) = "failed"
BY DEF UpdateFailed, AfterUpdate, EarlyVerdict, Outcomes

\* What a request brings along.
BeginShape(r, step, j) ==
    /\ Local(r, step, j)
    /\ JobFits(step, j, row)
    /\ j.seen = None
    /\ step = "save" => /\ j.op \in {"Create", "Lead"}
                        /\ row[j.app] = None
                        /\ \A q \in InFlight : job[q].app # j.app
    /\ step = "check" => j.op = "Update" /\ "Update" \in Operations

LEMMA BeginShaped ==
    ASSUME TypeInv, NEW r \in Requests, Begin(r)
    PROVE  \E step \in {"save", "check", "load"}, j \in Jobs : BeginShape(r, step, j)
<1> USE NoJobTyped DEF WithImage, OnRow, TxSteps, Jobs, NoJob
<1>1. PICK a \in Apps :
        \/ \E op \in Operations \cap {"Create", "Lead"} : BeginCreate(r, op, a)
        \/ "Update" \in Operations /\ BeginUpdate(r, a)
        \/ "Upsert" \in Operations /\ BeginUpsert(r, a)
        \/ "Change" \in Operations /\ BeginChange(r, a)
        \/ \E op \in Operations \cap {"Submit", "EarlyChecks"} : BeginWorkflow(r, op, a)
  BY DEF Begin
<1>2. CASE \E op \in Operations \cap {"Create", "Lead"} : BeginCreate(r, op, a)
  <2>1. PICK op \in {"Create", "Lead"}, p \in Products, ao \in Officers \cup {NilAO},
             c \in Channels, t \in Terms, m \in AttrMaps :
         /\ row[a] = None
         /\ \A q \in InFlight : job[q].app # a
         /\ Local(r, "save", [NoJob EXCEPT !.op = op, !.app = a, !.given = m,
                 !.image = [product |-> p, ao |-> ao, channel |-> c, terms |-> t,
                            status |-> Intake]])
    BY <1>2 DEF BeginCreate
  <2> DEFINE j == [NoJob EXCEPT !.op = op, !.app = a, !.given = m,
                 !.image = [product |-> p, ao |-> ao, channel |-> c, terms |-> t,
                            status |-> Intake]]
  <2>2. j \in Jobs /\ JobFits("save", j, row) /\ j.seen = None /\ j.op = op /\ j.app = a
    BY ConstantsAssumption DEF Rows, JobFits, OpNames
  <2> HIDE DEF j
  <2>3. BeginShape(r, "save", j)
    BY <2>1, <2>2 DEF BeginShape, j
  <2>4. QED
    BY <2>2, <2>3
<1>3. CASE "Update" \in Operations /\ BeginUpdate(r, a)
  <2>1. PICK p \in Products, ao \in Officers \cup {NilAO}, t \in Terms,
             s \in Statuses, m \in AttrMaps :
         Local(r, "check", [NoJob EXCEPT !.op = "Update", !.app = a, !.given = m,
                 !.image = [product |-> p, ao |-> ao, channel |-> row[a].channel,
                            terms |-> t, status |-> s]])
    BY <1>3 DEF BeginUpdate
  <2> DEFINE j == [NoJob EXCEPT !.op = "Update", !.app = a, !.given = m,
                 !.image = [product |-> p, ao |-> ao, channel |-> row[a].channel,
                            terms |-> t, status |-> s]]
  <2>2. row[a] \in Rows
    BY <1>3 DEF BeginUpdate, TypeInv, TypeOK
  <2>3. j \in Jobs /\ JobFits("check", j, row) /\ j.seen = None /\ j.op = "Update"
    BY <2>2 DEF Rows, JobFits, OpNames
  <2> HIDE DEF j
  <2>4. BeginShape(r, "check", j)
    BY <1>3, <2>1, <2>3 DEF BeginShape, j
  <2>5. QED
    BY <2>3, <2>4
<1>4. ASSUME NEW j \in Jobs, Local(r, "load", j), j.op \in OpNames, j.app \in Apps,
             j.op = "Change" => j.want \in Statuses, j.seen = None
      PROVE  \E step \in {"save", "check", "load"}, k \in Jobs : BeginShape(r, step, k)
  <2>1. BeginShape(r, "load", j)
    BY <1>4 DEF BeginShape, JobFits
  <2>2. QED
    BY <2>1
<1>5. CASE BeginUpsert(r, a)
  <2>1. PICK m \in AttrMaps :
         Local(r, "load", [NoJob EXCEPT !.op = "Upsert", !.app = a, !.given = m])
    BY <1>5 DEF BeginUpsert
  <2>2. [NoJob EXCEPT !.op = "Upsert", !.app = a, !.given = m] \in Jobs
    BY DEF OpNames
  <2>3. QED
    BY <1>4, <2>1, <2>2 DEF OpNames
<1>6. CASE BeginChange(r, a)
  <2>1. PICK s \in Statuses :
         Local(r, "load", [NoJob EXCEPT !.op = "Change", !.app = a, !.want = s])
    BY <1>6 DEF BeginChange
  <2>2. [NoJob EXCEPT !.op = "Change", !.app = a, !.want = s] \in Jobs
    BY DEF OpNames
  <2>3. QED
    BY <1>4, <2>1, <2>2 DEF OpNames
<1>7. CASE \E op \in Operations \cap {"Submit", "EarlyChecks"} : BeginWorkflow(r, op, a)
  <2>1. PICK op \in {"Submit", "EarlyChecks"} :
         Local(r, "load", [NoJob EXCEPT !.op = op, !.app = a])
    BY <1>7 DEF BeginWorkflow
  <2>2. [NoJob EXCEPT !.op = op, !.app = a] \in Jobs
    BY DEF OpNames
  <2>3. QED
    BY <1>4, <2>1, <2>2 DEF OpNames
<1>8. QED
  BY <1>1, <1>2, <1>3, <1>5, <1>6, <1>7

LEMMA BeginTyped ==
    ASSUME TypeInv, NEW r \in Requests, Begin(r)
    PROVE  TypeInv'
BY BeginShaped, LocalTyped DEF BeginShape, Steps

\* Creation.
LEMMA CreateTyped ==
    ASSUME TypeInv, NEW r \in Requests,
           \/ Save(r) \/ SaveRefused(r) \/ SaveLost(r) \/ SaveParty(r) \/ LinkParty(r)
           \/ PartyFails(r) \/ AssignAO(r) \/ LeadCreated(r)
    PROVE  TypeInv'
<1> DEFINE a == job[r].app
<1>1. job[r] \in Jobs /\ JobFits(pc[r], job[r], row)
  BY DEF TypeInv, TypeOK
<1>2. CASE Save(r) \/ SaveLost(r)
  <2>1. a \in Apps /\ job[r].image \in Rows /\ job[r].op \in OpNames
    BY <1>1, <1>2 DEF Save, SaveLost, JobFits, WithImage
  <2>2. PICK s \in Statuses :
          LET new == [job[r].image EXCEPT !.status = s]
          IN  /\ Insert(r, new)
              /\ Save(r) => job' = [job EXCEPT ![r].image = new]
    <3>1. InitialStatuses(job[r].image.product) \subseteq Statuses
      BY ConstantsAssumption DEF InitialStatuses
    <3>2. QED
      BY <1>2, <3>1 DEF Save, SaveLost
  <2> DEFINE new == [job[r].image EXCEPT !.status = s]
             j == [job[r] EXCEPT !.image = new]
  <2>3. new \in Rows
    BY <2>1 DEF Rows
  <2>4. /\ row' = [row EXCEPT ![a] = new]
        /\ row' \in [Apps -> Rows \cup {None}]
        /\ attrs' \in [Apps -> AttrMaps]
        /\ UNCHANGED <<log, writer, borrower>>
        /\ RowsPersist
    BY <1>1, <2>1, <2>2, <2>3 DEF Insert, TypeInv, TypeOK, Jobs, RowsPersist
  <2>5. CASE Save(r)
    <3>1. PICK step \in {"party", "reget"} : pc' = [pc EXCEPT ![r] = step]
      BY <2>5 DEF Save, Goto
    <3>2. job' = [job EXCEPT ![r] = j]
      BY <2>2, <2>5
    <3>3. j \in Jobs
      BY <1>1, <2>3 DEF Jobs
    <3>4. JobFits(step, j, row')
      <4>1. row'[a] \in Rows
        BY <2>1, <2>3, <2>4 DEF TypeInv, TypeOK
      <4>2. j.op = job[r].op /\ j.app = a /\ j.want = job[r].want /\ j.image \in Rows
        BY <1>1, <2>3 DEF Jobs
      <4>3. j.op = "Change" => j.want \in Statuses
        BY <1>1, <2>5, <4>2 DEF Save, JobFits
      <4>4. QED
        BY <2>1, <3>1, <4>1, <4>2, <4>3 DEF JobFits, WithImage, TxSteps
    <3>5. QED
      BY <2>4, <3>1, <3>2, <3>3, <3>4, StepTyped DEF TypeInv, TypeOK, Steps
  <2>6. CASE SaveLost(r)
    BY <2>4, <2>6, FinishTyped DEF SaveLost, TypeInv, TypeOK, Outcomes
  <2>7. QED
    BY <1>2, <2>5, <2>6
<1>3. CASE SaveRefused(r)
  BY <1>3, FailTyped DEF SaveRefused, Fail, Outcomes
<1>4. CASE SaveParty(r) \/ LinkParty(r) \/ PartyFails(r)
  <2>1. PICK step \in {"link", "assign"} : pc' = [pc EXCEPT ![r] = step]
    BY <1>4 DEF SaveParty, LinkParty, PartyFails, Goto
  <2>2. pc[r] \in {"party", "link"} /\ UNCHANGED <<row, attrs, log, writer, job>>
    BY <1>4 DEF SaveParty, LinkParty, PartyFails, tables
  <2>3. borrower' \in [Apps -> {"none", "saved", "linked"}]
    BY <1>4 DEF SaveParty, LinkParty, PartyFails, tables, TypeInv, TypeOK
  <2>4. JobFits(step, job[r], row')
    BY <1>1, <2>1, <2>2 DEF JobFits, WithImage, OnRow, TxSteps
  <2>5. job' = [job EXCEPT ![r] = job[r]]
    BY <2>2 DEF TypeInv, TypeOK
  <2>6. QED
    BY <1>1, <2>1, <2>2, <2>3, <2>4, <2>5, StepTyped
       DEF TypeInv, TypeOK, Steps, RowsPersist
<1>5. CASE AssignAO(r)
  <2>1. PICK o \in Officers : Local(r, "existing", [job[r] EXCEPT !.image.ao = o])
    BY <1>5 DEF AssignAO
  <2>2. job[r].image \in Rows
    BY <1>1, <1>5 DEF AssignAO, JobFits, WithImage
  <2> DEFINE j == [job[r] EXCEPT !.image.ao = o]
  <2>3. j \in Jobs /\ j.image \in Rows /\ j.app = a /\ j.op = job[r].op /\ j.want = job[r].want
    BY <1>1, <2>2 DEF Jobs, Rows
  <2>4. JobFits("existing", j, row)
    BY <1>1, <1>5, <2>3 DEF AssignAO, JobFits, OnRow
  <2>5. QED
    BY <2>1, <2>3, <2>4, LocalTyped DEF Steps, TxSteps
<1>6. CASE LeadCreated(r)
  BY <1>6, FailTyped DEF LeadCreated, Outcomes
<1>7. QED
  BY <1>2, <1>3, <1>4, <1>5, <1>6

\* Reading and deciding.
LEMMA DecideTyped ==
    ASSUME TypeInv, NEW r \in Requests,
           \/ Load(r) \/ LoadAttributes(r) \/ NotFound(r) \/ CheckLock(r)
           \/ DecideChange(r) \/ DecideSubmit(r) \/ DecideEarlyChecks(r)
    PROVE  TypeInv'
<1> DEFINE a == job[r].app
<1>1. job[r] \in Jobs /\ JobFits(pc[r], job[r], row)
  BY DEF TypeInv, TypeOK
<1>2. pc[r] # "idle" /\ a \in Apps /\ (row[a] # None => row[a] \in Rows)
  BY <1>1 DEF Load, LoadAttributes, NotFound, CheckLock, DecideChange, DecideSubmit,
              DecideEarlyChecks, JobFits, TypeInv, TypeOK
<1>3. ASSUME NEW outcome \in Outcomes, Finish(r, outcome), UNCHANGED tables
      PROVE  TypeInv'
  BY <1>2, <1>3, FailTyped
<1>4. CASE NotFound(r)
  BY <1>3, <1>4 DEF NotFound, Fail, Outcomes
<1>5. CASE Load(r)
  <2> DEFINE j == [job[r] EXCEPT !.image = row[a], !.seen = row[a].status]
  <2>1. PICK step \in {"check", "attrs"} : Local(r, step, j)
    BY <1>5 DEF Load
  <2>2. row[a] \in Rows
    BY <1>2, <1>5 DEF Load
  <2>3. row[a].status \in Statuses
    BY <2>2 DEF Rows
  <2>4. j \in Jobs /\ j.image = row[a] /\ j.app = a /\ j.op = job[r].op /\ j.want = job[r].want
    BY <1>1, <2>2, <2>3 DEF Jobs
  <2>5. JobFits(step, j, row)
    BY <1>1, <1>5, <2>1, <2>2, <2>4 DEF Load, JobFits
  <2>6. QED
    BY <2>1, <2>4, <2>5, LocalTyped DEF Steps
<1>6. CASE LoadAttributes(r)
  <2> DEFINE j == [job[r] EXCEPT !.given = attrs[a]]
  <2>1. attrs[a] \in AttrMaps
    BY <1>2 DEF TypeInv, TypeOK
  <2>2. /\ j \in Jobs
        /\ j.image = job[r].image /\ j.app = a /\ j.op = job[r].op /\ j.want = job[r].want
    BY <1>1, <2>1 DEF Jobs
  <2>3. JobFits("decide", j, row)
    BY <1>1, <1>6, <2>2 DEF LoadAttributes, JobFits, WithImage, OnRow
  <2>4. QED
    BY <1>6, <2>2, <2>3, LocalTyped DEF LoadAttributes, Steps
<1>7. CASE CheckLock(r)
  <2>1. CASE Fail(r)
    BY <1>3, <2>1 DEF Fail, Outcomes
  <2> DEFINE j == [job[r] EXCEPT !.seen = row[a].status]
  <2>2. CASE Local(r, "existing", j)
    <3>1. row[a].status \in Statuses
      BY <1>2, <1>7 DEF CheckLock, Rows
    <3>2. /\ j \in Jobs
          /\ j.image = job[r].image /\ j.app = a /\ j.op = job[r].op /\ j.want = job[r].want
      BY <1>1, <3>1 DEF Jobs
    <3>3. JobFits("existing", j, row)
      BY <1>1, <1>7, <3>2 DEF CheckLock, JobFits, WithImage, OnRow
    <3>4. QED
      BY <2>2, <3>2, <3>3, LocalTyped DEF Steps, TxSteps
  <2>3. QED
    BY <1>7, <2>1, <2>2 DEF CheckLock
<1>8. ASSUME pc[r] = "decide", NEW s \in Statuses,
             Local(r, "existing", [job[r] EXCEPT !.image.status = s])
      PROVE  TypeInv'
  <2> DEFINE j == [job[r] EXCEPT !.image.status = s]
  <2>1. job[r].image \in Rows
    BY <1>1, <1>8 DEF JobFits, WithImage
  <2>2. j \in Jobs /\ j.image \in Rows /\ j.app = a /\ j.op = job[r].op /\ j.want = job[r].want
    BY <1>1, <2>1 DEF Jobs, Rows
  <2>3. JobFits("existing", j, row)
    BY <1>1, <1>8, <2>2 DEF JobFits, OnRow
  <2>4. QED
    BY <1>8, <2>2, <2>3, LocalTyped DEF Steps, TxSteps
<1>9. CASE DecideChange(r)
  <2>1. job[r].want \in Statuses
    BY <1>1, <1>9 DEF DecideChange, JobFits
  <2>2. QED
    BY <1>3, <1>8, <1>9, <2>1 DEF DecideChange, Fail, Outcomes
<1>10. CASE DecideSubmit(r)
  BY <1>3, <1>8, <1>10, ConstantsAssumption DEF DecideSubmit, Fail, Outcomes
<1>11. CASE DecideEarlyChecks(r)
  <2>1. job[r].image \in Rows
    BY <1>1, <1>11 DEF DecideEarlyChecks, JobFits, WithImage
  <2>2. job[r].image.status \in Statuses
    BY <2>1 DEF Rows
  <2>3. \/ Finish(r, "refused") /\ UNCHANGED tables
        \/ \E s \in Statuses : Local(r, "existing", [job[r] EXCEPT !.image.status = s])
    BY <1>11, <2>2, ConstantsAssumption DEF DecideEarlyChecks
  <2>4. QED
    BY <1>3, <1>8, <1>11, <2>3 DEF DecideEarlyChecks, Outcomes
<1>12. QED
  BY <1>4, <1>5, <1>6, <1>7, <1>9, <1>10, <1>11

\* repo.Update, the failures and the answer.
LEMMA WriteTyped ==
    ASSUME TypeInv, NEW r \in Requests,
           \/ ReadExisting(r) \/ UpdateRow(r) \/ UpdateRefused(r) \/ Commit(r)
           \/ CommitLost(r) \/ Rollback(r) \/ Timeout(r) \/ Reget(r) \/ Return(r)
    PROVE  TypeInv'
<1> DEFINE a == job[r].app
<1>1. job[r] \in Jobs /\ JobFits(pc[r], job[r], row)
  BY DEF TypeInv, TypeOK
<1>2. CASE ReadExisting(r)
  <2> DEFINE j == [job[r] EXCEPT !.old = row[a].status]
  <2>1. row[a] \in Rows
    BY <1>1, <1>2 DEF ReadExisting, JobFits, OnRow, TxSteps
  <2>2. row[a].status \in Statuses
    BY <2>1 DEF Rows
  <2>3. /\ j \in Jobs /\ j.old \in Statuses
        /\ j.image = job[r].image /\ j.app = a /\ j.op = job[r].op /\ j.want = job[r].want
    BY <1>1, <2>2 DEF Jobs
  <2>4. JobFits("update", j, row)
    BY <1>1, <1>2, <2>1, <2>3 DEF ReadExisting, JobFits, WithImage, TxSteps
  <2>5. QED
    BY <1>2, <2>3, <2>4, LocalTyped DEF ReadExisting, Steps, TxSteps
<1>3. CASE UpdateRow(r)
  <2>1. /\ pc[r] = "update" /\ pc' = [pc EXCEPT ![r] = "commit"]
        /\ UNCHANGED <<row, attrs, log, borrower, job>>
        /\ writer' = [writer EXCEPT ![a] = r]
    BY <1>3 DEF UpdateRow, Goto
  <2>2. job' = [job EXCEPT ![r] = job[r]]
    BY <2>1 DEF TypeInv, TypeOK
  <2>3. JobFits("commit", job[r], row')
    BY <1>1, <2>1 DEF JobFits, WithImage, OnRow, TxSteps
  <2>4. QED
    BY <1>1, <2>1, <2>2, <2>3, StepTyped
       DEF TypeInv, TypeOK, Steps, TxSteps, RowsPersist
<1>4. CASE UpdateRefused(r)
  BY <1>4, FailTyped, Verdicts DEF UpdateRefused
<1>5. CASE Commit(r) \/ CommitLost(r)
  <2>1. pc[r] = "commit" /\ Publish(r)
    BY <1>5 DEF Commit, CommitLost
  <2>2. a \in Apps /\ job[r].image \in Rows /\ row[a] \in Rows /\ job[r].old \in Statuses
    BY <1>1, <2>1 DEF JobFits, WithImage, OnRow, TxSteps
  <2>3. Written(r) \in Rows
    BY <2>2 DEF Written, Rows
  <2>4. Audited(r) \in Seq(Entries)
    <3>1. AuditEntry(r) \in Entries
      BY <2>2 DEF AuditEntry, Entries, Rows
    <3>2. log[a] \in Seq(Entries)
      BY <2>2 DEF TypeInv, TypeOK
    <3>3. QED
      BY <3>1, <3>2 DEF Audited
  <2>5. Upserted(r) \in AttrMaps
    <3>1. attrs[a] \in AttrMaps /\ job[r].given \in AttrMaps
      BY <1>1, <2>2 DEF TypeInv, TypeOK, Jobs
    <3>2. QED
      BY <3>1 DEF Upserted, AttrMaps
  <2>6. /\ row' \in [Apps -> Rows \cup {None}]
        /\ log' \in [Apps -> Seq(Entries)]
        /\ attrs' \in [Apps -> AttrMaps]
        /\ writer' \in [Apps -> Requests \cup {None}]
        /\ borrower' \in [Apps -> {"none", "saved", "linked"}]
    BY <2>1, <2>2, <2>3, <2>4, <2>5 DEF Publish, Release, TypeInv, TypeOK
  <2>7. RowsPersist
    BY <2>1, <2>2, <2>3 DEF Publish, RowsPersist, TypeInv, TypeOK
  <2>8. CASE Goto(r, "reget") /\ UNCHANGED job
    <3>1. job' = [job EXCEPT ![r] = job[r]]
      BY <2>8 DEF TypeInv, TypeOK
    <3>2. JobFits("reget", job[r], row')
      BY <1>1, <2>1, <2>2, <2>7 DEF JobFits, WithImage, TxSteps, RowsPersist
    <3>3. QED
      BY <1>1, <2>6, <2>7, <2>8, <3>1, <3>2, StepTyped DEF Goto, Steps
  <2>9. CASE \E outcome \in Outcomes : Finish(r, outcome)
    BY <2>1, <2>6, <2>7, <2>9, FinishTyped
  <2>10. QED
    BY <1>5, <2>8, <2>9, Verdicts DEF Commit, CommitLost
<1>6. CASE Rollback(r)
  <2>1. writer' \in [Apps -> Requests \cup {None}]
    BY <1>1, <1>6 DEF Rollback, Release, TypeInv, TypeOK, JobFits
  <2>2. QED
    BY <1>6, <2>1, FinishTyped, Verdicts
       DEF Rollback, TypeInv, TypeOK, RowsPersist, TxSteps
<1>7. CASE Timeout(r)
  BY <1>7, FailTyped DEF Timeout, Fail, Outcomes
<1>8. CASE Reget(r)
  BY <1>8, FailTyped DEF Reget, Outcomes
<1>9. CASE Return(r)
  <2>1. JobFits("idle", NoJob, row)
    BY DEF JobFits, WithImage, OnRow, TxSteps
  <2>2. QED
    BY <1>9, <2>1, NoJobTyped, LocalTyped DEF Return, Steps
<1>10. QED
  BY <1>2, <1>3, <1>4, <1>5, <1>6, <1>7, <1>8, <1>9

LEMMA InitTyped == Init => TypeInv
BY NoJobTyped DEF Init, TypeInv, TypeOK, JobFits, WithImage, OnRow, TxSteps, NoAttrs,
                  AttrMaps, Steps

LEMMA NextTyped == TypeInv /\ [Next]_vars => TypeInv'
<1> SUFFICES ASSUME TypeInv, [Next]_vars PROVE TypeInv'
  OBVIOUS
<1>1. CASE UNCHANGED vars
  BY <1>1 DEF vars, TypeInv, TypeOK, JobFits
<1>2. ASSUME NEW r \in Requests, Begin(r) \/ Work(r) \/ Break(r)
      PROVE  TypeInv'
  BY <1>2, BeginTyped, CreateTyped, DecideTyped, WriteTyped DEF Work, Break
<1>3. QED
  BY <1>1, <1>2 DEF Next

\* Every variable keeps its type, and every request has the locals its next
\* statement reads.
THEOREM TypeCorrect == Spec => [](TypeOK /\ \A r \in Requests : JobFits(pc[r], job[r], row))
<1>1. Spec => []TypeInv
  BY InitTyped, NextTyped, PTL DEF Spec
<1>2. QED
  BY <1>1, PTL DEF TypeInv

-----------------------------------------------------------------------------
(***************************************************************************)
(* The audit trail.  The invariant AuditTrail speaks of committed data; it *)
(* holds because every transaction carries a status into its commit that   *)
(* the log already vouches for: the one ReadExisting read.  The log only   *)
(* grows, so a vouched status stays vouched however long the transaction   *)
(* waits for the row lock.                                                 *)
(***************************************************************************)
JobAudit(step, j, logs) ==
    /\ step = "save" => j.op \in {"Create", "Lead"}
    /\ step \in {"party", "link", "assign"} => j.op = "Lead"
    /\ step = "check" => j.op \in {"Update", "Upsert"}
    /\ step \in {"update", "commit"} => j.old \in VouchedBy(logs[j.app], Len(logs[j.app]))
    /\ step \in TxSteps /\ j.op = "Change" => j.image.status = j.want
    /\ step \in {"reget", "ok"} /\ j.op = "Change"
         => j.want \in VouchedBy(logs[j.app], Len(logs[j.app]))

AuditInv ==
    /\ AuditTrail
    /\ \A r \in Requests : JobAudit(pc[r], job[r], log)

\* Appending a plausible entry to a plausible log.
LEMMA Appended ==
    ASSUME NEW entries \in Seq(Entries), NEW e \in Entries,
           Plausible(entries),
           e.from # e.to,
           e.from \in VouchedBy(entries, Len(entries))
    PROVE  /\ Plausible(Append(entries, e))
           /\ VouchedBy(entries, Len(entries))
                \subseteq VouchedBy(Append(entries, e), Len(Append(entries, e)))
           /\ e.to \in VouchedBy(Append(entries, e), Len(Append(entries, e)))
<1> DEFINE longer == Append(entries, e)
           n == Len(entries)
<1>1. /\ n \in Nat /\ Len(longer) = n + 1
      /\ \A i \in 1..n : longer[i] = entries[i]
      /\ longer[n + 1] = e
  OBVIOUS
<1> HIDE DEF longer, n
<1>2. \A m \in 0..n : VouchedBy(longer, m) = VouchedBy(entries, m)
  BY <1>1 DEF VouchedBy
<1>3. VouchedBy(longer, n + 1) = VouchedBy(longer, n) \cup {e.to}
  <2>1. {longer[i].to : i \in 1..(n + 1)} = {longer[i].to : i \in 1..n} \cup {e.to}
    BY <1>1
  <2>2. QED
    BY <2>1 DEF VouchedBy
<1>4. VouchedBy(longer, n) = VouchedBy(entries, n)
  BY <1>1, <1>2
<1>5. ASSUME NEW i \in 1..(n + 1)
      PROVE  longer[i].from # longer[i].to /\ longer[i].from \in VouchedBy(longer, i - 1)
  <2>1. CASE i = n + 1
    BY <1>1, <1>4, <2>1 DEF n
  <2>2. CASE i \in 1..n
    <3>1. entries[i].from # entries[i].to /\ entries[i].from \in VouchedBy(entries, i - 1)
      BY <2>2 DEF Plausible, n
    <3>2. i - 1 \in 0..n
      BY <1>1, <2>2
    <3>3. QED
      BY <1>1, <1>2, <2>2, <3>1, <3>2
  <2>3. QED
    BY <1>1, <2>1, <2>2
<1>6. Plausible(longer)
  BY <1>1, <1>5 DEF Plausible
<1>7. QED
  BY <1>1, <1>3, <1>4, <1>6 DEF longer, n

\* A step of request r that leaves what is vouched for vouched for.
LEMMA StepAudited ==
    ASSUME TypeInv, AuditInv,
           NEW r \in Requests, NEW step, NEW j,
           pc' = [pc EXCEPT ![r] = step],
           job' = [job EXCEPT ![r] = j],
           \A a \in Apps : Vouched(a) \subseteq Vouched(a)',
           AuditTrail',
           JobAudit(step, j, log')
    PROVE  AuditInv'
<1>1. ASSUME NEW q \in Requests
      PROVE  JobAudit(pc'[q], job'[q], log')
  <2>1. CASE q = r
    BY <2>1 DEF TypeInv, TypeOK
  <2>2. CASE q # r
    <3>1. pc'[q] = pc[q] /\ job'[q] = job[q] /\ JobAudit(pc[q], job[q], log)
      BY <2>2 DEF TypeInv, TypeOK, AuditInv
    <3>2. pc[q] # "idle" => job[q].app \in Apps
      BY DEF TypeInv, JobFits
    <3>3. QED
      BY <3>1, <3>2 DEF JobAudit, Vouched, TxSteps
  <2>3. QED
    BY <2>1, <2>2
<1>2. QED
  BY <1>1 DEF AuditInv

\* A step that commits nothing.
LEMMA QuietAudited ==
    ASSUME TypeInv, AuditInv,
           NEW r \in Requests, NEW step, NEW j,
           pc' = [pc EXCEPT ![r] = step],
           job' = [job EXCEPT ![r] = j],
           UNCHANGED <<row, log>>,
           JobAudit(step, j, log)
    PROVE  AuditInv'
<1>1. AuditTrail'
  BY DEF AuditInv, AuditTrail, Vouched
<1>2. \A a \in Apps : Vouched(a) \subseteq Vouched(a)'
  BY DEF Vouched
<1>3. QED
  BY <1>1, <1>2, StepAudited

\* A failing answer, or an answer to another request than ChangeStatus.
LEMMA FinishAudited ==
    ASSUME TypeInv, AuditInv,
           NEW r \in Requests, NEW outcome \in Outcomes,
           Finish(r, outcome),
           job[r].op # "Change" \/ outcome # "ok",
           \A a \in Apps : Vouched(a) \subseteq Vouched(a)',
           AuditTrail'
    PROVE  AuditInv'
<1> DEFINE j == [NoJob EXCEPT !.op = job[r].op, !.app = job[r].app, !.want = job[r].want]
<1>1. j.op = job[r].op
  BY DEF NoJob
<1>2. JobAudit(outcome, j, log')
  BY <1>1 DEF JobAudit, Outcomes, TxSteps
<1>3. QED
  BY <1>2, StepAudited DEF Finish, Goto

LEMMA QuietFinish ==
    ASSUME TypeInv, AuditInv,
           NEW r \in Requests, NEW outcome \in Outcomes,
           Finish(r, outcome),
           job[r].op # "Change" \/ outcome # "ok",
           UNCHANGED <<row, log>>
    PROVE  AuditInv'
<1>1. AuditTrail'
  BY DEF AuditInv, AuditTrail, Vouched
<1>2. \A a \in Apps : Vouched(a) \subseteq Vouched(a)'
  BY DEF Vouched
<1>3. QED
  BY <1>1, <1>2, FinishAudited

\* Arrivals and the steps before repo.Update.
LEMMA BeforeUpdateAudited ==
    ASSUME TypeInv, AuditInv, NEW r \in Requests,
           \/ Begin(r) \/ SaveRefused(r) \/ SaveParty(r) \/ LinkParty(r) \/ PartyFails(r)
           \/ AssignAO(r) \/ LeadCreated(r)
           \/ Load(r) \/ LoadAttributes(r) \/ NotFound(r) \/ CheckLock(r)
           \/ DecideChange(r) \/ DecideSubmit(r) \/ DecideEarlyChecks(r)
    PROVE  AuditInv'
<1>1. /\ job[r] \in Jobs /\ JobFits(pc[r], job[r], row)
      /\ JobAudit(pc[r], job[r], log)
  BY DEF TypeInv, TypeOK, AuditInv
<1>2. ASSUME NEW step, NEW j, Local(r, step, j), JobAudit(step, j, log)
      PROVE  AuditInv'
  BY <1>2, QuietAudited DEF Local, Goto, tables
<1>3. ASSUME NEW outcome \in Outcomes, Finish(r, outcome), UNCHANGED tables,
             job[r].op # "Change" \/ outcome # "ok"
      PROVE  AuditInv'
  BY <1>3, QuietFinish DEF tables
<1>4. CASE Begin(r)
  <2>1. PICK step \in {"save", "check", "load"}, j \in Jobs : BeginShape(r, step, j)
    BY <1>4, BeginShaped
  <2>2. JobAudit(step, j, log)
    BY <2>1 DEF BeginShape, JobAudit, TxSteps
  <2>3. QED
    BY <1>2, <2>1, <2>2 DEF BeginShape
<1>5. CASE SaveRefused(r) \/ NotFound(r)
  BY <1>3, <1>5 DEF SaveRefused, NotFound, Fail, Outcomes
<1>6. CASE SaveParty(r) \/ LinkParty(r) \/ PartyFails(r)
  <2>1. PICK step \in {"link", "assign"} : pc' = [pc EXCEPT ![r] = step]
    BY <1>6 DEF SaveParty, LinkParty, PartyFails, Goto
  <2>2. pc[r] \in {"party", "link"} /\ UNCHANGED <<row, log, job>>
    BY <1>6 DEF SaveParty, LinkParty, PartyFails, tables
  <2>3. JobAudit(step, job[r], log)
    BY <1>1, <2>1, <2>2 DEF JobAudit, TxSteps
  <2>4. job' = [job EXCEPT ![r] = job[r]]
    BY <2>2 DEF TypeInv, TypeOK
  <2>5. QED
    BY <2>1, <2>2, <2>3, <2>4, QuietAudited
<1>7. CASE AssignAO(r)
  <2>1. PICK o \in Officers : Local(r, "existing", [job[r] EXCEPT !.image.ao = o])
    BY <1>7 DEF AssignAO
  <2>2. [job[r] EXCEPT !.image.ao = o].op = "Lead"
    BY <1>1, <1>7 DEF AssignAO, JobAudit, Jobs
  <2>3. JobAudit("existing", [job[r] EXCEPT !.image.ao = o], log)
    BY <2>2 DEF JobAudit
  <2>4. QED
    BY <1>2, <2>1, <2>3
<1>8. CASE LeadCreated(r)
  <2>1. job[r].op = "Lead"
    BY <1>1, <1>8 DEF LeadCreated, JobAudit
  <2>2. QED
    BY <1>3, <1>8, <2>1 DEF LeadCreated, Outcomes
<1>9. CASE Load(r)
  <2> DEFINE j == [job[r] EXCEPT !.image = row[job[r].app], !.seen = row[job[r].app].status]
  <2>1. PICK step \in {"check", "attrs"} :
          Local(r, step, j) /\ (step = "check" => job[r].op = "Upsert")
    BY <1>9 DEF Load
  <2>2. j.op = job[r].op
    BY <1>1 DEF Jobs
  <2>3. JobAudit(step, j, log)
    BY <2>1, <2>2 DEF JobAudit, TxSteps
  <2>4. QED
    BY <1>2, <2>1, <2>3
<1>10. CASE LoadAttributes(r)
  <2>1. JobAudit("decide", [job[r] EXCEPT !.given = attrs[job[r].app]], log)
    BY DEF JobAudit, TxSteps
  <2>2. QED
    BY <1>2, <1>10, <2>1 DEF LoadAttributes
<1>11. CASE CheckLock(r)
  <2>1. CASE Fail(r)
    BY <1>3, <2>1 DEF Fail, Outcomes
  <2> DEFINE j == [job[r] EXCEPT !.seen = row[job[r].app].status]
  <2>2. CASE Local(r, "existing", j)
    <3>1. j.op \in {"Update", "Upsert"}
      BY <1>1, <1>11 DEF CheckLock, JobAudit, Jobs
    <3>2. JobAudit("existing", j, log)
      BY <3>1 DEF JobAudit
    <3>3. QED
      BY <1>2, <2>2, <3>2
  <2>3. QED
    BY <1>11, <2>1, <2>2 DEF CheckLock
<1>12. CASE DecideChange(r)
  <2>1. CASE Fail(r)
    BY <1>3, <2>1 DEF Fail, Outcomes
  <2> DEFINE j == [job[r] EXCEPT !.image.status = job[r].want]
  <2>2. CASE Local(r, "existing", j)
    <3>1. job[r].image \in Rows
      BY <1>1, <1>12 DEF DecideChange, JobFits, WithImage
    <3>2. j.image.status = j.want
      BY <1>1, <3>1 DEF Jobs, Rows
    <3>3. JobAudit("existing", j, log)
      BY <3>2 DEF JobAudit
    <3>4. QED
      BY <1>2, <2>2, <3>3
  <2>3. QED
    BY <1>12, <2>1, <2>2 DEF DecideChange
<1>13. CASE DecideSubmit(r) \/ DecideEarlyChecks(r)
  <2>1. CASE Finish(r, "failed") /\ UNCHANGED tables
    BY <1>3, <2>1 DEF Outcomes
  <2>2. CASE Finish(r, "refused") /\ UNCHANGED tables
    BY <1>3, <2>2 DEF Outcomes
  <2>3. ASSUME NEW s, Local(r, "existing", [job[r] EXCEPT !.image.status = s])
        PROVE  AuditInv'
    <3>1. [job[r] EXCEPT !.image.status = s].op # "Change"
      BY <1>1, <1>13 DEF DecideSubmit, DecideEarlyChecks, Jobs
    <3>2. JobAudit("existing", [job[r] EXCEPT !.image.status = s], log)
      BY <3>1 DEF JobAudit
    <3>3. QED
      BY <1>2, <2>3, <3>2
  <2>4. QED
    BY <1>13, <2>1, <2>2, <2>3 DEF DecideSubmit, DecideEarlyChecks, Fail
<1>14. QED
  BY <1>4, <1>5, <1>6, <1>7, <1>8, <1>9, <1>10, <1>11, <1>12, <1>13

\* The transactions: Save, and repo.Update up to its end.
LEMMA UpdateAudited ==
    ASSUME TypeInv, AuditInv, NEW r \in Requests,
           \/ Save(r) \/ SaveLost(r) \/ ReadExisting(r) \/ UpdateRow(r) \/ UpdateRefused(r)
           \/ Commit(r) \/ CommitLost(r) \/ Rollback(r) \/ Timeout(r) \/ Reget(r) \/ Return(r)
    PROVE  AuditInv'
<1> DEFINE a == job[r].app
<1>1. /\ job[r] \in Jobs /\ JobFits(pc[r], job[r], row)
      /\ JobAudit(pc[r], job[r], log)
  BY DEF TypeInv, TypeOK, AuditInv
<1>2. CASE Save(r) \/ SaveLost(r)
  <2>1. a \in Apps /\ job[r].image \in Rows /\ job[r].op \in {"Create", "Lead"}
    BY <1>1, <1>2 DEF Save, SaveLost, JobFits, JobAudit, WithImage
  <2>2. job[r].image.product \in Products
    BY <2>1 DEF Rows
  <2>3. PICK s \in InitialStatuses(job[r].image.product) :
          LET new == [job[r].image EXCEPT !.status = s]
          IN  /\ Insert(r, new)
              /\ Save(r) => job' = [job EXCEPT ![r].image = new]
    BY <1>2 DEF Save, SaveLost
  <2> DEFINE new == [job[r].image EXCEPT !.status = s]
             j == [job[r] EXCEPT !.image = new]
  <2>4. s \in Initials
    BY <2>2, <2>3 DEF Initials
  <2>5. row' = [row EXCEPT ![a] = new] /\ UNCHANGED log
    BY <2>3 DEF Insert
  <2>6. \A b \in Apps : Vouched(b) \subseteq Vouched(b)'
    BY <2>5 DEF Vouched
  <2>7. ASSUME NEW b \in Apps
        PROVE  (row'[b] # None => row'[b].status \in Vouched(b)') /\ Plausible(log'[b])
    <3>1. (row[b] # None => row[b].status \in Vouched(b)) /\ Plausible(log[b])
      BY DEF AuditInv, AuditTrail
    <3>2. CASE b = a
      <4>1. row'[a] = new /\ new.status = s
        BY <2>1, <2>5 DEF TypeInv, TypeOK, Rows
      <4>2. QED
        BY <2>4, <2>5, <3>1, <3>2, <4>1 DEF Vouched, VouchedBy
    <3>3. CASE b # a
      BY <2>5, <3>1, <3>3 DEF Vouched, TypeInv, TypeOK
    <3>4. QED
      BY <3>2, <3>3
  <2>8. AuditTrail'
    BY <2>7 DEF AuditTrail
  <2>9. CASE Save(r)
    <3>1. PICK step \in {"party", "reget"} :
            pc' = [pc EXCEPT ![r] = step] /\ (step = "party" => job[r].op = "Lead")
      BY <2>9 DEF Save, Goto
    <3>2. job' = [job EXCEPT ![r] = j] /\ j.op = job[r].op
      BY <1>1, <2>3, <2>9 DEF Jobs
    <3>3. JobAudit(step, j, log')
      BY <2>1, <3>1, <3>2 DEF JobAudit, TxSteps
    <3>4. QED
      BY <2>6, <2>8, <3>1, <3>2, <3>3, StepAudited
  <2>10. CASE SaveLost(r)
    BY <2>6, <2>8, <2>10, FinishAudited DEF SaveLost, Outcomes
  <2>11. QED
    BY <1>2, <2>9, <2>10
<1>3. CASE ReadExisting(r)
  <2> DEFINE j == [job[r] EXCEPT !.old = row[a].status]
  <2>1. a \in Apps /\ row[a] \in Rows
    BY <1>1, <1>3 DEF ReadExisting, JobFits, OnRow, TxSteps
  <2>2. row[a].status \in Vouched(a)
    BY <2>1, ConstantsAssumption DEF AuditInv, AuditTrail
  <2>3. /\ j.op = job[r].op /\ j.app = a /\ j.want = job[r].want
        /\ j.image = job[r].image /\ j.old = row[a].status
    BY <1>1 DEF Jobs
  <2>4. JobAudit("update", j, log)
    BY <1>1, <1>3, <2>2, <2>3 DEF ReadExisting, JobAudit, Vouched, TxSteps
  <2>5. QED
    BY <1>3, <2>4, QuietAudited DEF ReadExisting, Local, Goto, tables
<1>4. CASE UpdateRow(r)
  <2>1. /\ pc[r] = "update" /\ pc' = [pc EXCEPT ![r] = "commit"]
        /\ UNCHANGED <<row, log, job>>
    BY <1>4 DEF UpdateRow, Goto
  <2>2. job' = [job EXCEPT ![r] = job[r]]
    BY <2>1 DEF TypeInv, TypeOK
  <2>3. JobAudit("commit", job[r], log)
    BY <1>1, <2>1 DEF JobAudit, TxSteps
  <2>4. QED
    BY <2>1, <2>2, <2>3, QuietAudited
<1>5. CASE UpdateRefused(r) \/ Rollback(r)
  <2>1. Finish(r, UpdateFailed(r)) /\ UNCHANGED <<row, log>>
    BY <1>5 DEF UpdateRefused, Rollback, tables
  <2>2. QED
    BY <2>1, QuietFinish, Verdicts
<1>6. CASE Commit(r) \/ CommitLost(r)
  <2>1. pc[r] = "commit" /\ Publish(r)
    BY <1>6 DEF Commit, CommitLost
  <2>2. /\ a \in Apps /\ job[r].image \in Rows /\ row[a] \in Rows
        /\ job[r].old \in Statuses /\ job[r].old \in Vouched(a)
    BY <1>1, <2>1 DEF JobFits, JobAudit, Vouched, WithImage, OnRow, TxSteps
  <2>3. log[a] \in Seq(Entries) /\ Plausible(log[a])
    BY <2>2 DEF TypeInv, TypeOK, AuditInv, AuditTrail
  <2>4. Written(r).status = job[r].image.status /\ Written(r).status \in Statuses
    BY <2>2 DEF Written, Rows
  <2>5. /\ row' = [row EXCEPT ![a] = Written(r)]
        /\ log' = [log EXCEPT ![a] = Audited(r)]
    BY <2>1 DEF Publish
  <2>6. /\ Plausible(Audited(r))
        /\ Vouched(a) \subseteq VouchedBy(Audited(r), Len(Audited(r)))
        /\ job[r].image.status \in VouchedBy(Audited(r), Len(Audited(r)))
    <3>1. CASE job[r].old = job[r].image.status
      BY <2>2, <2>3, <3>1 DEF Audited, Vouched
    <3>2. CASE job[r].old # job[r].image.status
      <4>1. /\ AuditEntry(r) \in Entries
            /\ AuditEntry(r).from = job[r].old /\ AuditEntry(r).to = job[r].image.status
        BY <2>2, <2>4 DEF AuditEntry, Entries
      <4>2. Audited(r) = Append(log[a], AuditEntry(r))
        BY <3>2 DEF Audited
      <4>3. QED
        BY <2>2, <2>3, <3>2, <4>1, <4>2, Appended DEF Vouched
    <3>3. QED
      BY <3>1, <3>2
  <2>7. /\ log'[a] = Audited(r) /\ row'[a] = Written(r)
        /\ \A b \in Apps : b # a => log'[b] = log[b] /\ row'[b] = row[b]
    BY <2>2, <2>5 DEF TypeInv, TypeOK
  <2>8. \A b \in Apps : Vouched(b) \subseteq Vouched(b)'
    BY <2>6, <2>7 DEF Vouched
  <2>9. ASSUME NEW b \in Apps
        PROVE  (row'[b] # None => row'[b].status \in Vouched(b)') /\ Plausible(log'[b])
    <3>1. CASE b = a
      BY <2>4, <2>6, <2>7, <3>1 DEF Vouched
    <3>2. CASE b # a
      BY <2>7, <3>2 DEF AuditInv, AuditTrail, Vouched
    <3>3. QED
      BY <3>1, <3>2
  <2>10. AuditTrail'
    BY <2>9 DEF AuditTrail
  <2>11. CASE Goto(r, "reget") /\ UNCHANGED job
    <3>1. job' = [job EXCEPT ![r] = job[r]]
      BY <2>11 DEF TypeInv, TypeOK
    <3>2. JobAudit("reget", job[r], log')
      BY <1>1, <2>1, <2>6, <2>7 DEF JobAudit, TxSteps
    <3>3. QED
      BY <2>8, <2>10, <2>11, <3>1, <3>2, StepAudited DEF Goto
  <2>12. CASE \E outcome \in Outcomes :
               Finish(r, outcome) /\ (job[r].op = "Change" => outcome # "ok")
    BY <2>8, <2>10, <2>12, FinishAudited
  <2>13. QED
    <3>1. job[r].op = "Change" => AfterUpdate(r) = "reget"
      BY DEF AfterUpdate
    <3>2. QED
      BY <1>6, <2>11, <2>12, <3>1, Verdicts DEF Commit, CommitLost
<1>7. CASE Timeout(r)
  BY <1>7, QuietFinish DEF Timeout, Fail, Outcomes, tables
<1>8. CASE Reget(r)
  <2> DEFINE j == [NoJob EXCEPT !.op = job[r].op, !.app = a, !.want = job[r].want]
  <2>1. j.op = job[r].op /\ j.app = a /\ j.want = job[r].want
    BY DEF NoJob
  <2>2. JobAudit("ok", j, log)
    BY <1>1, <1>8, <2>1 DEF Reget, JobAudit, TxSteps
  <2>3. QED
    BY <1>8, <2>2, QuietAudited DEF Reget, Finish, Goto, tables
<1>9. CASE Return(r)
  <2>1. JobAudit("idle", NoJob, log)
    BY DEF JobAudit, TxSteps
  <2>2. QED
    BY <1>9, <2>1, QuietAudited DEF Return, Local, Goto, tables
<1>10. QED
  BY <1>2, <1>3, <1>4, <1>5, <1>6, <1>7, <1>8, <1>9

LEMMA InitAudited == Init => AuditInv
BY DEF Init, AuditInv, AuditTrail, JobAudit, Plausible, TxSteps

LEMMA NextAudited == TypeInv /\ AuditInv /\ [Next]_vars => AuditInv'
<1> SUFFICES ASSUME TypeInv, AuditInv, [Next]_vars PROVE AuditInv'
  OBVIOUS
<1>1. CASE UNCHANGED vars
  BY <1>1 DEF vars, AuditInv, AuditTrail, JobAudit, Vouched
<1>2. ASSUME NEW r \in Requests, Begin(r) \/ Work(r) \/ Break(r)
      PROVE  AuditInv'
  BY <1>2, BeforeUpdateAudited, UpdateAudited DEF Work, Break
<1>3. QED
  BY <1>1, <1>2 DEF Next

\* Under every interleaving and every failure the audit log vouches for the
\* status of every application.
THEOREM AuditTrailHolds == Spec => []AuditTrail
<1>1. Spec => [](TypeInv /\ AuditInv)
  BY InitTyped, NextTyped, InitAudited, NextAudited, PTL DEF Spec
<1>2. QED
  BY <1>1, PTL DEF AuditInv

\* A ChangeStatus that answered with success did change the status.
THEOREM AckedChangesHappened == Spec => []AckedChangeHappened
<1>1. Spec => [](TypeInv /\ AuditInv)
  BY InitTyped, NextTyped, InitAudited, NextAudited, PTL DEF Spec
<1>2. AuditInv => AckedChangeHappened
  BY DEF AuditInv, JobAudit, AckedChangeHappened, Vouched
<1>3. QED
  BY <1>1, <1>2, PTL

-----------------------------------------------------------------------------
(***************************************************************************)
(* The lock.  A request that gets as far as repo.Update looked at a        *)
(* working status: its lock check passed, or (Submit) the product's flow   *)
(* has an edge from that status, or (CreateLead) it has just created the   *)
(* application.  Creation itself never meets a row.                        *)
(***************************************************************************)
JobLock(step, j, rows) ==
    /\ step = "save" => rows[j.app] = None
    /\ step \in {"save", "party", "link", "assign"} => j.seen = None
    /\ step \in {"attrs", "decide"} => j.seen = j.image.status
    /\ step \in TxSteps => j.seen \notin Terminal

LockInv ==
    /\ \A r \in Requests : JobLock(pc[r], job[r], row)
    /\ \A q, r \in Requests :
         q # r /\ pc[q] = "save" /\ pc[r] = "save" => job[q].app # job[r].app

\* A step of request r that creates no row.
LEMMA StepLocked ==
    ASSUME TypeInv, LockInv,
           NEW r \in Requests, NEW step, NEW j,
           pc' = [pc EXCEPT ![r] = step],
           job' = [job EXCEPT ![r] = j],
           \A a \in Apps : row[a] = None => row'[a] = None,
           step # "save",
           JobLock(step, j, row')
    PROVE  LockInv'
<1>1. /\ pc'[r] = step /\ job'[r] = j
      /\ \A q \in Requests : q # r => pc'[q] = pc[q] /\ job'[q] = job[q]
  BY DEF TypeInv, TypeOK
<1>2. ASSUME NEW q \in Requests
      PROVE  JobLock(pc'[q], job'[q], row')
  <2>1. CASE q = r
    BY <1>1, <2>1
  <2>2. CASE q # r
    <3>1. JobLock(pc[q], job[q], row) /\ (pc[q] = "save" => job[q].app \in Apps)
      BY DEF LockInv, TypeInv, JobFits
    <3>2. QED
      BY <1>1, <2>2, <3>1 DEF JobLock
  <2>3. QED
    BY <2>1, <2>2
<1>3. \A p, q \in Requests :
        p # q /\ pc'[p] = "save" /\ pc'[q] = "save" => job'[p].app # job'[q].app
  BY <1>1 DEF LockInv
<1>4. QED
  BY <1>2, <1>3 DEF LockInv

LEMMA FinishLocked ==
    ASSUME TypeInv, LockInv,
           NEW r \in Requests, NEW outcome \in Outcomes,
           Finish(r, outcome),
           \A a \in Apps : row[a] = None => row'[a] = None
    PROVE  LockInv'
<1> DEFINE j == [NoJob EXCEPT !.op = job[r].op, !.app = job[r].app, !.want = job[r].want]
<1>1. outcome # "save" /\ JobLock(outcome, j, row')
  BY DEF JobLock, Outcomes, TxSteps
<1> HIDE DEF j
<1>2. pc' = [pc EXCEPT ![r] = outcome] /\ job' = [job EXCEPT ![r] = j]
  BY DEF Finish, Goto, j
<1>3. QED
  BY <1>1, <1>2, StepLocked

LEMMA BeginLocked ==
    ASSUME TypeInv, LockInv, NEW r \in Requests, Begin(r)
    PROVE  LockInv'
<1>1. PICK step \in {"save", "check", "load"}, j \in Jobs : BeginShape(r, step, j)
  BY BeginShaped
<1>2. /\ pc' = [pc EXCEPT ![r] = step] /\ job' = [job EXCEPT ![r] = j]
      /\ UNCHANGED row
  BY <1>1 DEF BeginShape, Local, Goto, tables
<1>3. /\ pc'[r] = step /\ job'[r] = j
      /\ \A q \in Requests : q # r => pc'[q] = pc[q] /\ job'[q] = job[q]
  BY <1>2 DEF TypeInv, TypeOK
<1>4. JobLock(step, j, row)
  BY <1>1 DEF BeginShape, JobLock, TxSteps
<1>5. \A q \in Requests : JobLock(pc'[q], job'[q], row')
  BY <1>2, <1>3, <1>4 DEF LockInv
<1>6. ASSUME NEW p \in Requests, NEW q \in Requests,
             p # q, pc'[p] = "save", pc'[q] = "save"
      PROVE  job'[p].app # job'[q].app
  <2>1. \A x \in Requests : x # r /\ pc[x] = "save" /\ step = "save" => job[x].app # j.app
    BY <1>1 DEF BeginShape, InFlight
  <2>2. QED
    BY <1>3, <1>6, <2>1 DEF LockInv
<1>7. QED
  BY <1>5, <1>6 DEF LockInv

\* While the status lookup answers, the lock check is sound.
LEMMA WorkLocked ==
    ASSUME ~LookupsFail, TypeInv, AuditInv, LockInv,
           NEW r \in Requests, Work(r) \/ Break(r)
    PROVE  LockInv'
<1> DEFINE a == job[r].app
<1>1. /\ job[r] \in Jobs /\ JobFits(pc[r], job[r], row)
      /\ JobLock(pc[r], job[r], row)
  BY DEF TypeInv, TypeOK, LockInv
<1>2. ASSUME NEW step, NEW j, Local(r, step, j), step # "save", JobLock(step, j, row)
      PROVE  LockInv'
  BY <1>2, StepLocked DEF Local, Goto, tables
<1>3. ASSUME NEW outcome \in Outcomes, Finish(r, outcome), UNCHANGED row
      PROVE  LockInv'
  BY <1>3, FinishLocked
<1>4. ASSUME NEW step, pc' = [pc EXCEPT ![r] = step], UNCHANGED <<row, job>>,
             step # "save", JobLock(step, job[r], row)
      PROVE  LockInv'
  <2>1. job' = [job EXCEPT ![r] = job[r]]
    BY <1>4 DEF TypeInv, TypeOK
  <2>2. QED
    BY <1>4, <2>1, StepLocked
<1>5. CASE Save(r) \/ SaveLost(r)
  <2>1. a \in Apps /\ job[r].image \in Rows /\ pc[r] = "save" /\ job[r].seen = None
    BY <1>1, <1>5 DEF Save, SaveLost, JobFits, JobLock, WithImage
  <2>2. PICK s : Insert(r, [job[r].image EXCEPT !.status = s])
    BY <1>5 DEF Save, SaveLost
  <2>3. \A b \in Apps : b # a => row'[b] = row[b]
    BY <2>2 DEF Insert, TypeInv, TypeOK
  <2>4. PICK step \in Outcomes \cup {"party", "reget"}, j \in Jobs :
          /\ pc' = [pc EXCEPT ![r] = step] /\ job' = [job EXCEPT ![r] = j]
          /\ j.seen = None
    <3>1. CASE SaveLost(r)
      <4> DEFINE j == [NoJob EXCEPT !.op = job[r].op, !.app = a, !.want = job[r].want]
      <4>1. j \in Jobs /\ j.seen = None
        BY <1>1, NoJobTyped DEF Jobs, NoJob
      <4>2. pc' = [pc EXCEPT ![r] = "failed"] /\ job' = [job EXCEPT ![r] = j]
        BY <3>1 DEF SaveLost, Finish, Goto
      <4>3. QED
        BY <4>1, <4>2 DEF Outcomes
    <3>2. CASE Save(r)
      <4>1. PICK t \in InitialStatuses(job[r].image.product) :
              job' = [job EXCEPT ![r].image = [job[r].image EXCEPT !.status = t]]
        BY <3>2 DEF Save
      <4> DEFINE j == [job[r] EXCEPT !.image = [job[r].image EXCEPT !.status = t]]
      <4>2. t \in Statuses
        BY <4>1, ConstantsAssumption DEF InitialStatuses
      <4>3. [job[r].image EXCEPT !.status = t] \in Rows
        BY <2>1, <4>2 DEF Rows
      <4>4. j \in Jobs /\ j.seen = None
        BY <1>1, <2>1, <4>3 DEF Jobs
      <4>5. job' = [job EXCEPT ![r] = j]
        BY <4>1
      <4>6. PICK step \in {"party", "reget"} : pc' = [pc EXCEPT ![r] = step]
        BY <3>2 DEF Save, Goto
      <4>7. QED
        BY <4>4, <4>5, <4>6
    <3>3. QED
      BY <1>5, <3>1, <3>2
  <2>5. /\ pc'[r] = step /\ job'[r] = j
        /\ \A q \in Requests : q # r => pc'[q] = pc[q] /\ job'[q] = job[q]
    BY <2>4 DEF TypeInv, TypeOK
  <2>6. ASSUME NEW q \in Requests
        PROVE  JobLock(pc'[q], job'[q], row')
    <3>1. CASE q = r
      BY <2>4, <2>5, <3>1 DEF JobLock, Outcomes, TxSteps
    <3>2. CASE q # r
      <4>1. JobLock(pc[q], job[q], row)
        BY DEF LockInv
      <4>2. pc[q] = "save" => job[q].app \in Apps /\ job[q].app # a
        BY <2>1, <3>2 DEF LockInv, TypeInv, JobFits
      <4>3. QED
        BY <2>3, <2>5, <3>2, <4>1, <4>2 DEF JobLock
    <3>3. QED
      BY <3>1, <3>2
  <2>7. \A p, q \in Requests :
          p # q /\ pc'[p] = "save" /\ pc'[q] = "save" => job'[p].app # job'[q].app
    BY <2>4, <2>5 DEF LockInv, Outcomes
  <2>8. QED
    BY <2>6, <2>7 DEF LockInv
<1>6. CASE SaveParty(r) \/ LinkParty(r) \/ PartyFails(r)
  <2>1. PICK step \in {"link", "assign"} : pc' = [pc EXCEPT ![r] = step]
    BY <1>6 DEF SaveParty, LinkParty, PartyFails, Goto
  <2>2. pc[r] \in {"party", "link"} /\ UNCHANGED <<row, job>>
    BY <1>6 DEF SaveParty, LinkParty, PartyFails, tables
  <2>3. JobLock(step, job[r], row)
    BY <1>1, <2>1, <2>2 DEF JobLock, TxSteps
  <2>4. QED
    BY <1>4, <2>1, <2>2, <2>3
<1>7. CASE AssignAO(r)
  <2>1. PICK o \in Officers : Local(r, "existing", [job[r] EXCEPT !.image.ao = o])
    BY <1>7 DEF AssignAO
  <2>2. [job[r] EXCEPT !.image.ao = o].seen \notin Terminal
    BY <1>1, <1>7, ConstantsAssumption DEF AssignAO, JobLock, Jobs
  <2>3. JobLock("existing", [job[r] EXCEPT !.image.ao = o], row)
    BY <2>2 DEF JobLock
  <2>4. QED
    BY <1>2, <2>1, <2>3
<1>8. CASE SaveRefused(r) \/ LeadCreated(r) \/ NotFound(r) \/ UpdateRefused(r)
           \/ Rollback(r) \/ Timeout(r) \/ Reget(r)
  BY <1>3, <1>8, Verdicts
     DEF SaveRefused, LeadCreated, NotFound, UpdateRefused, Rollback, Timeout, Reget,
         Fail, tables, Outcomes
<1>9. CASE Load(r)
  <2> DEFINE j == [job[r] EXCEPT !.image = row[a], !.seen = row[a].status]
  <2>1. PICK step \in {"check", "attrs"} : Local(r, step, j)
    BY <1>9 DEF Load
  <2>2. j.seen = j.image.status
    BY <1>1 DEF Jobs
  <2>3. JobLock(step, j, row)
    BY <2>1, <2>2 DEF JobLock, TxSteps
  <2>4. QED
    BY <1>2, <2>1, <2>3
<1>10. CASE LoadAttributes(r)
  <2> DEFINE j == [job[r] EXCEPT !.given = attrs[a]]
  <2>1. j.seen = j.image.status
    BY <1>1, <1>10 DEF LoadAttributes, JobLock, Jobs
  <2>2. JobLock("decide", j, row)
    BY <2>1 DEF JobLock, TxSteps
  <2>3. QED
    BY <1>2, <1>10, <2>2 DEF LoadAttributes
<1>11. CASE CheckLock(r)
  <2>1. CASE Fail(r)
    BY <1>3, <2>1 DEF Fail, tables, Outcomes
  <2> DEFINE j == [job[r] EXCEPT !.seen = row[a].status]
  <2>2. CASE PassesLock(row[a].status) /\ Local(r, "existing", j)
    <3>1. j.seen \notin Terminal
      BY <1>1, <2>2 DEF PassesLock, Jobs
    <3>2. JobLock("existing", j, row)
      BY <3>1 DEF JobLock
    <3>3. QED
      BY <1>2, <2>2, <3>2
  <2>3. QED
    BY <1>11, <2>1, <2>2 DEF CheckLock
<1>12. CASE DecideChange(r) \/ DecideSubmit(r) \/ DecideEarlyChecks(r)
  <2>1. pc[r] = "decide" /\ job[r].image \in Rows /\ job[r].seen = job[r].image.status
    BY <1>1, <1>12 DEF DecideChange, DecideSubmit, DecideEarlyChecks, JobFits, JobLock,
                       WithImage
  <2>2. CASE \E outcome \in Outcomes : Finish(r, outcome) /\ UNCHANGED tables
    BY <1>3, <2>2 DEF tables
  <2>3. ASSUME NEW s, Local(r, "existing", [job[r] EXCEPT !.image.status = s]),
               job[r].image.status \notin Terminal
        PROVE  LockInv'
    <3>1. [job[r] EXCEPT !.image.status = s].seen \notin Terminal
      BY <1>1, <2>1, <2>3 DEF Jobs
    <3>2. JobLock("existing", [job[r] EXCEPT !.image.status = s], row)
      BY <3>1 DEF JobLock
    <3>3. QED
      BY <1>2, <2>3, <3>2
  <2>4. TransitionTo(job[r].image, Survey) => job[r].image.status \notin Terminal
    <3>1. IsTransitionAllowed(job[r].image.product, job[r].image.status, Survey)
            => job[r].image.status \notin Terminal
      BY TerminalIsFinal DEF IsTransitionAllowed
    <3>2. QED
      BY <3>1, SurveyIsOpen DEF TransitionTo
  <2>5. CASE DecideChange(r)
    BY <2>2, <2>3, <2>5 DEF DecideChange, PassesLock, Fail, Outcomes
  <2>6. CASE DecideSubmit(r)
    BY <2>2, <2>3, <2>4, <2>6 DEF DecideSubmit, Fail, Outcomes
  <2>7. CASE DecideEarlyChecks(r)
    BY <2>2, <2>3, <2>7 DEF DecideEarlyChecks, PassesLock, Outcomes
  <2>8. QED
    BY <1>12, <2>5, <2>6, <2>7
<1>13. CASE ReadExisting(r)
  <2> DEFINE j == [job[r] EXCEPT !.old = row[a].status]
  <2>1. j.seen \notin Terminal
    BY <1>1, <1>13 DEF ReadExisting, JobLock, Jobs, TxSteps
  <2>2. JobLock("update", j, row)
    BY <2>1 DEF JobLock
  <2>3. QED
    BY <1>2, <1>13, <2>2 DEF ReadExisting
<1>14. CASE UpdateRow(r)
  <2>1. JobLock("commit", job[r], row)
    BY <1>1, <1>14 DEF UpdateRow, JobLock, TxSteps
  <2>2. QED
    BY <1>4, <1>14, <2>1 DEF UpdateRow, Goto
<1>15. CASE Commit(r) \/ CommitLost(r)
  <2>1. a \in Apps /\ row[a] \in Rows /\ row' = [row EXCEPT ![a] = Written(r)]
    BY <1>1, <1>15 DEF Commit, CommitLost, Publish, JobFits, OnRow, TxSteps
  <2>2. \A b \in Apps : row[b] = None => row'[b] = None
    BY <2>1, ConstantsAssumption DEF TypeInv, TypeOK
  <2>3. CASE Goto(r, "reget") /\ UNCHANGED job
    <3>1. job' = [job EXCEPT ![r] = job[r]]
      BY <2>3 DEF TypeInv, TypeOK
    <3>2. JobLock("reget", job[r], row')
      BY DEF JobLock, TxSteps
    <3>3. QED
      BY <2>2, <2>3, <3>1, <3>2, StepLocked DEF Goto
  <2>4. CASE \E outcome \in Outcomes : Finish(r, outcome)
    BY <2>2, <2>4, FinishLocked
  <2>5. QED
    BY <1>15, <2>3, <2>4, Verdicts DEF Commit, CommitLost
<1>16. CASE Return(r)
  <2>1. JobLock("idle", NoJob, row)
    BY DEF JobLock, TxSteps
  <2>2. QED
    BY <1>2, <1>16, <2>1 DEF Return
<1>17. QED
  BY <1>5, <1>6, <1>7, <1>8, <1>9, <1>10, <1>11, <1>12, <1>13, <1>14, <1>15, <1>16
     DEF Work, Break

LEMMA InitLocked == Init => LockInv
BY DEF Init, LockInv, JobLock, TxSteps

LEMMA NextLocked ==
    ASSUME ~LookupsFail
    PROVE  TypeInv /\ AuditInv /\ LockInv /\ [Next]_vars => LockInv'
<1> SUFFICES ASSUME TypeInv, AuditInv, LockInv, [Next]_vars PROVE LockInv'
  OBVIOUS
<1>1. CASE UNCHANGED vars
  BY <1>1 DEF vars, LockInv, JobLock
<1>2. ASSUME NEW r \in Requests, Begin(r) \/ Work(r) \/ Break(r)
      PROVE  LockInv'
  BY <1>2, BeginLocked, WorkLocked
<1>3. QED
  BY <1>1, <1>2 DEF Next

\* The lock of a terminal application is only ever broken by a request that had
\* read the application while it was still open.
THEOREM LockOnlyRaced ==
    ASSUME ~LookupsFail
    PROVE  Spec => LockBrokenOnlyByRace
<1> DEFINE Broken(a) == row[a] # None /\ row[a].status \in Terminal /\ row'[a] # row[a]
           Racer(a)  == \E r \in Requests : /\ pc[r] = "commit"
                                            /\ job[r].app = a
                                            /\ job[r].seen \notin Terminal
<1>1. ASSUME TypeInv, LockInv, [Next]_vars, NEW a \in Apps, Broken(a)
      PROVE  Racer(a)
  <2>1. row' # row
    BY <1>1
  <2>2. PICK r \in Requests : Begin(r) \/ Work(r) \/ Break(r)
    BY <1>1, <2>1 DEF Next, vars
  <2>3. ~Begin(r)
    BY <1>1, <2>1, BeginShaped DEF BeginShape, Local, tables
  <2>4. Save(r) \/ SaveLost(r) \/ Commit(r) \/ CommitLost(r)
    BY <2>1, <2>2, <2>3
       DEF Work, Break, SaveRefused, SaveParty, LinkParty, PartyFails, AssignAO, LeadCreated,
           Load, LoadAttributes, NotFound, CheckLock, DecideChange, DecideSubmit,
           DecideEarlyChecks, ReadExisting, UpdateRow, UpdateRefused, Rollback, Timeout,
           Reget, Return, Local, Fail, tables
  <2>5. JobFits(pc[r], job[r], row) /\ JobLock(pc[r], job[r], row)
    BY <1>1 DEF TypeInv, LockInv
  <2>6. CASE Save(r) \/ SaveLost(r)
    <3>1. pc[r] = "save" /\ \E new : row' = [row EXCEPT ![job[r].app] = new]
      BY <2>6 DEF Save, SaveLost, Insert
    <3>2. row[job[r].app] = None
      BY <2>5, <3>1 DEF JobLock
    <3>3. QED
      BY <1>1, <3>1, <3>2 DEF TypeInv, TypeOK
  <2>7. CASE Commit(r) \/ CommitLost(r)
    <3>1. pc[r] = "commit" /\ row' = [row EXCEPT ![job[r].app] = Written(r)]
      BY <2>7 DEF Commit, CommitLost, Publish
    <3>2. job[r].app = a
      BY <1>1, <3>1 DEF TypeInv, TypeOK
    <3>3. job[r].seen \notin Terminal
      BY <2>5, <3>1 DEF JobLock, TxSteps
    <3>4. QED
      BY <3>1, <3>2, <3>3
  <2>8. QED
    BY <2>4, <2>6, <2>7
<1>2. TypeInv /\ LockInv /\ [Next]_vars => [\A a \in Apps : Broken(a) => Racer(a)]_vars
  BY <1>1
<1>3. Spec => [](TypeInv /\ AuditInv /\ LockInv)
  BY InitTyped, NextTyped, InitAudited, NextAudited, InitLocked, NextLocked, PTL DEF Spec
<1>4. QED
  BY <1>2, <1>3, PTL DEF Spec, LockBrokenOnlyByRace

-----------------------------------------------------------------------------
(***************************************************************************)
(* The flow.  Between two statements a request carries an image whose      *)
(* status it will write; StatusInFlow is kept because that status is in    *)
(* the flow of the image's own product from the moment it is decided.      *)
(* "save" is the exception: the usecase sets the initial status in Save.   *)
(***************************************************************************)
FlowFits(step, j) ==
    step \in WithImage \ {"save"} => j.image.status \in FlowStatuses[j.image.product]

FlowInv ==
    /\ StatusInFlow
    /\ \A r \in Requests : FlowFits(pc[r], job[r])

\* What the set FlowStatuses stands for: the initial statuses are in it, and a
\* permitted transition does not lead out of it.
LEMMA FlowClosed ==
    ASSUME NEW p \in Products
    PROVE  /\ InitialStatuses(p) \subseteq FlowStatuses[p]
           /\ \A s \in FlowStatuses[p] : \A t :
                IsTransitionAllowed(p, s, t) => t \in FlowStatuses[p]
<1>1. InitialStatuses(p) \subseteq Statuses
  BY ConstantsAssumption DEF InitialStatuses
<1>2. InitialStatuses(p) \subseteq FlowStatuses[p]
  BY <1>1 DEF FlowStatuses
<1>3. ASSUME NEW s \in FlowStatuses[p], NEW t, <<p, s, t>> \in Flows
      PROVE  t \in FlowStatuses[p]
  <2>1. t \in Statuses
    BY <1>3, ConstantsAssumption
  <2>2. ASSUME NEW S \in SUBSET Statuses,
               InitialStatuses(p) \subseteq S,
               \A f \in Flows : f[1] = p /\ f[2] \in S => f[3] \in S
        PROVE  t \in S
    <3>1. s \in S
      BY <2>2 DEF FlowStatuses
    <3>2. <<p, s, t>>[1] = p /\ <<p, s, t>>[2] = s /\ <<p, s, t>>[3] = t
      OBVIOUS
    <3>3. QED
      BY <1>3, <2>2, <3>1, <3>2
  <2>3. QED
    BY <2>1, <2>2 DEF FlowStatuses
<1>4. QED
  BY <1>2, <1>3 DEF IsTransitionAllowed

\* A step of request r after which the rows are still in their flows.
LEMMA StepInFlow ==
    ASSUME TypeInv, FlowInv,
           NEW r \in Requests, NEW step, NEW j,
           pc' = [pc EXCEPT ![r] = step],
           job' = [job EXCEPT ![r] = j],
           StatusInFlow',
           FlowFits(step, j)
    PROVE  FlowInv'
<1>1. /\ pc'[r] = step /\ job'[r] = j
      /\ \A q \in Requests : q # r => pc'[q] = pc[q] /\ job'[q] = job[q]
  BY DEF TypeInv, TypeOK
<1>2. \A q \in Requests : FlowFits(pc'[q], job'[q])
  BY <1>1 DEF FlowInv
<1>3. QED
  BY <1>2 DEF FlowInv

\* Overwriting or creating the row of one application.
LEMMA RowInFlow ==
    ASSUME TypeInv, FlowInv, NEW a \in Apps, NEW new,
           row' = [row EXCEPT ![a] = new],
           new.status \in FlowStatuses[new.product]
    PROVE  StatusInFlow'
<1>1. row'[a] = new /\ \A b \in Apps : b # a => row'[b] = row[b]
  BY DEF TypeInv, TypeOK
<1>2. QED
  BY <1>1 DEF FlowInv, StatusInFlow

LEMMA FinishInFlow ==
    ASSUME TypeInv, FlowInv,
           NEW r \in Requests, NEW outcome \in Outcomes,
           Finish(r, outcome),
           StatusInFlow'
    PROVE  FlowInv'
<1> DEFINE j == [NoJob EXCEPT !.op = job[r].op, !.app = job[r].app, !.want = job[r].want]
<1>1. FlowFits(outcome, j)
  BY DEF FlowFits, Outcomes, WithImage, TxSteps
<1> HIDE DEF j
<1>2. pc' = [pc EXCEPT ![r] = outcome] /\ job' = [job EXCEPT ![r] = j]
  BY DEF Finish, Goto, j
<1>3. QED
  BY <1>1, <1>2, StepInFlow

LEMMA BeginInFlow ==
    ASSUME "Update" \notin Operations,
           TypeInv, FlowInv, NEW r \in Requests, Begin(r)
    PROVE  FlowInv'
<1>1. PICK step \in {"save", "check", "load"}, j \in Jobs : BeginShape(r, step, j)
  BY BeginShaped
<1>2. /\ pc' = [pc EXCEPT ![r] = step] /\ job' = [job EXCEPT ![r] = j]
      /\ UNCHANGED row
  BY <1>1 DEF BeginShape, Local, Goto, tables
<1>3. FlowFits(step, j)
  BY <1>1 DEF BeginShape, FlowFits, WithImage, TxSteps
<1>4. StatusInFlow'
  BY <1>2 DEF FlowInv, StatusInFlow
<1>5. QED
  BY <1>2, <1>3, <1>4, StepInFlow

LEMMA WorkInFlow ==
    ASSUME TypeInv, FlowInv, NEW r \in Requests, Work(r) \/ Break(r)
    PROVE  FlowInv'
<1> DEFINE a == job[r].app
<1>1. /\ job[r] \in Jobs /\ JobFits(pc[r], job[r], row)
      /\ FlowFits(pc[r], job[r])
  BY DEF TypeInv, TypeOK, FlowInv
<1>2. UNCHANGED row => StatusInFlow'
  BY DEF FlowInv, StatusInFlow
<1>3. ASSUME NEW step, NEW j, Local(r, step, j), FlowFits(step, j)
      PROVE  FlowInv'
  BY <1>2, <1>3, StepInFlow DEF Local, Goto, tables
<1>4. ASSUME NEW outcome \in Outcomes, Finish(r, outcome), UNCHANGED row
      PROVE  FlowInv'
  BY <1>2, <1>4, FinishInFlow
<1>5. ASSUME NEW step, pc' = [pc EXCEPT ![r] = step], UNCHANGED job,
             StatusInFlow', FlowFits(step, job[r])
      PROVE  FlowInv'
  <2>1. job' = [job EXCEPT ![r] = job[r]]
    BY <1>5 DEF TypeInv, TypeOK
  <2>2. QED
    BY <1>5, <2>1, StepInFlow
<1>6. CASE Save(r) \/ SaveLost(r)
  <2>1. a \in Apps /\ job[r].image \in Rows /\ pc[r] = "save"
    BY <1>1, <1>6 DEF Save, SaveLost, JobFits, WithImage
  <2>2. ASSUME NEW s \in InitialStatuses(job[r].image.product),
               Insert(r, [job[r].image EXCEPT !.status = s])
        PROVE  /\ StatusInFlow'
               /\ s \in FlowStatuses[job[r].image.product]
    <3> DEFINE new == [job[r].image EXCEPT !.status = s]
    <3>1. new.status = s /\ new.product = job[r].image.product
      BY <2>1 DEF Rows
    <3>2. job[r].image.product \in Products
      BY <2>1 DEF Rows
    <3>3. s \in FlowStatuses[job[r].image.product]
      BY <2>2, <3>2, FlowClosed
    <3>4. row' = [row EXCEPT ![a] = new]
      BY <2>2 DEF Insert
    <3> HIDE DEF new
    <3>5. QED
      BY <2>1, <3>1, <3>3, <3>4, RowInFlow
  <2>3. CASE SaveLost(r)
    BY <2>2, <2>3, FinishInFlow DEF SaveLost, Outcomes
  <2>4. CASE Save(r)
    <3>1. PICK s \in InitialStatuses(job[r].image.product) :
            /\ Insert(r, [job[r].image EXCEPT !.status = s])
            /\ job' = [job EXCEPT ![r].image = [job[r].image EXCEPT !.status = s]]
      BY <2>4 DEF Save
    <3> DEFINE j == [job[r] EXCEPT !.image = [job[r].image EXCEPT !.status = s]]
    <3>2. j.image.status = s /\ j.image.product = job[r].image.product
      BY <1>1, <2>1 DEF Jobs, Rows
    <3>3. job' = [job EXCEPT ![r] = j]
      BY <3>1
    <3> HIDE DEF j
    <3>4. PICK step : pc' = [pc EXCEPT ![r] = step]
      BY <2>4 DEF Save, Goto
    <3>5. StatusInFlow' /\ FlowFits(step, j)
      BY <2>2, <3>1, <3>2 DEF FlowFits
    <3>6. QED
      BY <3>3, <3>4, <3>5, StepInFlow
  <2>5. QED
    BY <1>6, <2>3, <2>4
<1>7. CASE SaveParty(r) \/ LinkParty(r) \/ PartyFails(r)
  <2>1. PICK step : pc' = [pc EXCEPT ![r] = step]
    BY <1>7 DEF SaveParty, LinkParty, PartyFails, Goto
  <2>2. pc[r] \in {"party", "link"} /\ UNCHANGED <<row, job>>
    BY <1>7 DEF SaveParty, LinkParty, PartyFails, tables
  <2>3. FlowFits(step, job[r])
    BY <1>1, <2>2 DEF FlowFits, WithImage
  <2>4. QED
    BY <1>2, <1>5, <2>1, <2>2, <2>3
<1>8. ASSUME NEW step, NEW j, Local(r, step, j), pc[r] \in WithImage \ {"save"},
             j.image.status = job[r].image.status,
             j.image.product = job[r].image.product
      PROVE  FlowInv'
  <2>1. FlowFits(step, j)
    BY <1>1, <1>8 DEF FlowFits
  <2>2. QED
    BY <1>3, <1>8, <2>1
<1>9. CASE AssignAO(r)
  <2>1. PICK o \in Officers : Local(r, "existing", [job[r] EXCEPT !.image.ao = o])
    BY <1>9 DEF AssignAO
  <2> DEFINE j == [job[r] EXCEPT !.image.ao = o]
  <2>2. pc[r] \in WithImage \ {"save"} /\ job[r].image \in Rows
    BY <1>1, <1>9 DEF AssignAO, WithImage, JobFits
  <2>3. j.image.status = job[r].image.status /\ j.image.product = job[r].image.product
    BY <1>1, <2>2 DEF Jobs, Rows
  <2> HIDE DEF j
  <2>4. Local(r, "existing", j)
    BY <2>1 DEF j
  <2>5. QED
    BY <1>8, <2>2, <2>3, <2>4
<1>10. CASE SaveRefused(r) \/ LeadCreated(r) \/ NotFound(r) \/ UpdateRefused(r)
            \/ Rollback(r) \/ Timeout(r) \/ Reget(r)
  BY <1>4, <1>10, Verdicts
     DEF SaveRefused, LeadCreated, NotFound, UpdateRefused, Rollback, Timeout, Reget,
         Fail, tables, Outcomes
<1>11. CASE Load(r)
  <2> DEFINE j == [job[r] EXCEPT !.image = row[a], !.seen = row[a].status]
  <2>1. PICK step : Local(r, step, j)
    BY <1>11 DEF Load
  <2>2. a \in Apps /\ row[a] # None
    BY <1>1, <1>11 DEF Load, JobFits
  <2>3. j.image = row[a]
    BY <1>1 DEF Jobs
  <2> HIDE DEF j
  <2>4. FlowFits(step, j)
    BY <2>2, <2>3 DEF FlowFits, FlowInv, StatusInFlow
  <2>5. QED
    BY <1>3, <2>1, <2>4
<1>12. CASE LoadAttributes(r)
  <2> DEFINE j == [job[r] EXCEPT !.given = attrs[a]]
  <2>1. pc[r] \in WithImage \ {"save"} /\ j.image = job[r].image /\ Local(r, "decide", j)
    BY <1>1, <1>12 DEF LoadAttributes, WithImage, Jobs
  <2> HIDE DEF j
  <2>2. QED
    BY <1>8, <2>1
<1>13. CASE CheckLock(r)
  <2>1. CASE Fail(r)
    BY <1>4, <2>1 DEF Fail, tables, Outcomes
  <2> DEFINE j == [job[r] EXCEPT !.seen = row[a].status]
  <2>2. CASE Local(r, "existing", j)
    <3>1. pc[r] \in WithImage \ {"save"} /\ j.image = job[r].image
      BY <1>1, <1>13 DEF CheckLock, WithImage, Jobs
    <3> HIDE DEF j
    <3>2. QED
      BY <1>8, <2>2, <3>1
  <2>3. QED
    BY <1>13, <2>1, <2>2 DEF CheckLock
<1>14. CASE DecideChange(r) \/ DecideSubmit(r) \/ DecideEarlyChecks(r)
  <2> DEFINE app == job[r].image
  <2>1. /\ app \in Rows /\ app.product \in Products
        /\ app.status \in FlowStatuses[app.product]
    BY <1>1, <1>14 DEF DecideChange, DecideSubmit, DecideEarlyChecks, JobFits, FlowFits,
                       WithImage, Rows, TxSteps
  <2>2. CASE \E outcome \in Outcomes : Finish(r, outcome) /\ UNCHANGED tables
    BY <1>4, <2>2 DEF tables
  <2>3. \A t : TransitionTo(app, t) => t \in FlowStatuses[app.product]
    BY <2>1, FlowClosed DEF TransitionTo
  <2>4. ASSUME NEW s \in FlowStatuses[app.product],
               Local(r, "existing", [job[r] EXCEPT !.image.status = s])
        PROVE  FlowInv'
    <3> DEFINE j == [job[r] EXCEPT !.image.status = s]
    <3>1. j.image.status = s /\ j.image.product = app.product
      BY <1>1, <2>1 DEF Jobs, Rows
    <3> HIDE DEF j
    <3>2. FlowFits("existing", j)
      BY <2>4, <3>1 DEF FlowFits
    <3>3. QED
      BY <1>3, <2>4, <3>2 DEF j
  <2>5. CASE DecideChange(r)
    BY <2>2, <2>3, <2>4, <2>5 DEF DecideChange, Fail, Outcomes
  <2>6. CASE DecideSubmit(r)
    BY <2>2, <2>3, <2>4, <2>6 DEF DecideSubmit, Fail, Outcomes
  <2>7. CASE DecideEarlyChecks(r)
    BY <2>1, <2>2, <2>3, <2>4, <2>7 DEF DecideEarlyChecks, Outcomes
  <2>8. QED
    BY <1>14, <2>5, <2>6, <2>7
<1>15. CASE ReadExisting(r)
  <2> DEFINE j == [job[r] EXCEPT !.old = row[a].status]
  <2>1. pc[r] \in WithImage \ {"save"} /\ j.image = job[r].image /\ Local(r, "update", j)
    BY <1>1, <1>15 DEF ReadExisting, WithImage, TxSteps, Jobs
  <2> HIDE DEF j
  <2>2. QED
    BY <1>8, <2>1
<1>16. CASE UpdateRow(r)
  <2>1. FlowFits("commit", job[r]) /\ UNCHANGED <<row, job>>
    BY <1>1, <1>16 DEF UpdateRow, FlowFits, WithImage, TxSteps
  <2>2. QED
    BY <1>2, <1>5, <1>16, <2>1 DEF UpdateRow, Goto
<1>17. CASE Commit(r) \/ CommitLost(r)
  <2>1. /\ a \in Apps /\ job[r].image \in Rows
        /\ job[r].image.status \in FlowStatuses[job[r].image.product]
        /\ row' = [row EXCEPT ![a] = Written(r)]
    BY <1>1, <1>17 DEF Commit, CommitLost, Publish, JobFits, FlowFits, WithImage, TxSteps
  <2>2. Written(r).status = job[r].image.status /\ Written(r).product = job[r].image.product
    BY <2>1 DEF Written, Rows
  <2>3. StatusInFlow'
    BY <2>1, <2>2, RowInFlow
  <2>4. CASE Goto(r, "reget") /\ UNCHANGED job
    <3>1. FlowFits("reget", job[r])
      BY DEF FlowFits, WithImage, TxSteps
    <3>2. QED
      BY <1>5, <2>3, <2>4, <3>1 DEF Goto
  <2>5. CASE \E outcome \in Outcomes : Finish(r, outcome)
    BY <2>3, <2>5, FinishInFlow
  <2>6. QED
    BY <1>17, <2>4, <2>5, Verdicts DEF Commit, CommitLost
<1>18. CASE Return(r)
  <2>1. FlowFits("idle", NoJob)
    BY DEF FlowFits, WithImage, TxSteps
  <2>2. QED
    BY <1>3, <1>18, <2>1 DEF Return
<1>19. QED
  BY <1>6, <1>7, <1>9, <1>10, <1>11, <1>12, <1>13, <1>14, <1>15, <1>16, <1>17, <1>18
     DEF Work, Break

LEMMA InitInFlow == Init => FlowInv
BY DEF Init, FlowInv, StatusInFlow, FlowFits, WithImage, TxSteps

LEMMA NextInFlow ==
    ASSUME "Update" \notin Operations
    PROVE  TypeInv /\ FlowInv /\ [Next]_vars => FlowInv'
<1> SUFFICES ASSUME TypeInv, FlowInv, [Next]_vars PROVE FlowInv'
  OBVIOUS
<1>1. CASE UNCHANGED vars
  BY <1>1 DEF vars, FlowInv, StatusInFlow, FlowFits
<1>2. ASSUME NEW r \in Requests, Begin(r) \/ Work(r) \/ Break(r)
      PROVE  FlowInv'
  BY <1>2, BeginInFlow, WorkInFlow
<1>3. QED
  BY <1>1, <1>2 DEF Next

\* Where no client calls UpdateApplication, every application is in a status its
\* product's flow leads to from an initial one, however requests overlap and
\* whichever statement or lookup fails.
THEOREM StatusesInFlow ==
    ASSUME "Update" \notin Operations
    PROVE  Spec => []StatusInFlow
<1>1. Spec => [](TypeInv /\ FlowInv)
  BY InitTyped, NextTyped, InitInFlow, NextInFlow, PTL DEF Spec
<1>2. FlowInv => StatusInFlow
  BY DEF FlowInv
<1>3. QED
  BY <1>1, <1>2, PTL

-----------------------------------------------------------------------------
(***************************************************************************)
(* One request at a time.  What overlap destroys holds then: the copy a    *)
(* request decides on, and the status repo.Update reads for the log, are   *)
(* those of the row it overwrites.                                         *)
(***************************************************************************)
Permitted(s, t) == s = t \/ <<s, t>> \in PermittedEdges

JobSerial(step, j, rows) ==
    /\ step = "save" => rows[j.app] = None
    /\ step \in {"save", "party", "link", "assign"} => j.seen = None
    /\ step \in {"party", "link", "assign"} => rows[j.app].status \in Initials
    /\ step \in {"attrs", "decide"} =>
          j.seen = rows[j.app].status /\ j.image.status = rows[j.app].status
    /\ step \in WithImage \ {"save"} => Permitted(rows[j.app].status, j.image.status)
    /\ step \in TxSteps =>
          \/ j.seen = rows[j.app].status
          \/ j.seen = None /\ rows[j.app].status \in Initials
    /\ step \in {"update", "commit"} => j.old = rows[j.app].status

Alone(r) == \A q \in Requests : q # r => pc[q] = "idle"

SerialInv ==
    /\ \A r \in Requests : pc[r] # "idle" => Alone(r)
    /\ \A r \in Requests : JobSerial(pc[r], job[r], row)
    /\ \A a \in Apps : row[a] = None => log[a] = <<>>
    /\ AuditChain

\* With room for one request, one begins only when nobody is served.
LEMMA BeginsAlone ==
    ASSUME IsFiniteSet(Requests), MaxInFlight = 1,
           NEW r \in Requests, Begin(r)
    PROVE  \A q \in Requests : pc[q] = "idle"
<1>1. Cardinality(InFlight) < 1
  BY DEF Begin, BeginCreate, BeginUpdate, BeginUpsert, BeginChange, BeginWorkflow, MayStart
<1>2. IsFiniteSet(InFlight) /\ InFlight \in SUBSET Requests
  BY FS_Subset DEF InFlight
<1>3. Cardinality(InFlight) = 0
  BY <1>1, <1>2, FS_CardinalityType
<1>4. InFlight = {}
  BY <1>2, <1>3, FS_EmptySet
<1>5. QED
  BY <1>4 DEF InFlight

\* A step of the only request, after which the logs are chains.
LEMMA StepSerial ==
    ASSUME TypeInv, SerialInv,
           NEW r \in Requests, NEW step, NEW j,
           Alone(r),
           pc' = [pc EXCEPT ![r] = step],
           job' = [job EXCEPT ![r] = j],
           \A a \in Apps : row'[a] = None => log'[a] = <<>>,
           AuditChain',
           JobSerial(step, j, row')
    PROVE  SerialInv'
<1>1. /\ pc'[r] = step /\ job'[r] = j
      /\ \A q \in Requests : q # r => pc'[q] = "idle"
  BY DEF TypeInv, TypeOK, Alone
<1>2. ASSUME NEW q \in Requests
      PROVE  JobSerial(pc'[q], job'[q], row')
  <2>1. CASE q = r
    BY <1>1, <2>1
  <2>2. CASE q # r
    BY <1>1, <2>2 DEF JobSerial, WithImage, TxSteps
  <2>3. QED
    BY <2>1, <2>2
<1>3. \A q \in Requests : pc'[q] # "idle" => Alone(q)'
  BY <1>1 DEF Alone
<1>4. QED
  BY <1>2, <1>3 DEF SerialInv

LEMMA FinishSerial ==
    ASSUME TypeInv, SerialInv,
           NEW r \in Requests, NEW outcome \in Outcomes,
           Alone(r),
           Finish(r, outcome),
           \A a \in Apps : row'[a] = None => log'[a] = <<>>,
           AuditChain'
    PROVE  SerialInv'
<1> DEFINE j == [NoJob EXCEPT !.op = job[r].op, !.app = job[r].app, !.want = job[r].want]
<1>1. JobSerial(outcome, j, row')
  BY DEF JobSerial, Outcomes, WithImage, TxSteps
<1> HIDE DEF j
<1>2. pc' = [pc EXCEPT ![r] = outcome] /\ job' = [job EXCEPT ![r] = j]
  BY DEF Finish, Goto, j
<1>3. QED
  BY <1>1, <1>2, StepSerial

LEMMA BeginSerial ==
    ASSUME IsFiniteSet(Requests), MaxInFlight = 1,
           TypeInv, SerialInv, NEW r \in Requests, Begin(r)
    PROVE  SerialInv'
<1>1. PICK step \in {"save", "check", "load"}, j \in Jobs : BeginShape(r, step, j)
  BY BeginShaped
<1>2. /\ pc' = [pc EXCEPT ![r] = step] /\ job' = [job EXCEPT ![r] = j]
      /\ UNCHANGED <<row, log>>
  BY <1>1 DEF BeginShape, Local, Goto, tables
<1>3. Alone(r)
  BY BeginsAlone DEF Alone
<1>4. step = "check" => Permitted(row[j.app].status, j.image.status)
  <2> SUFFICES ASSUME step = "check" PROVE Permitted(row[j.app].status, j.image.status)
    OBVIOUS
  <2>1. row[j.app].status \in Statuses /\ j.image.status \in Statuses
    BY <1>1 DEF BeginShape, JobFits, WithImage, OnRow, Rows
  <2>2. QED
    BY <1>1, <2>1 DEF BeginShape, Permitted, PermittedEdges
<1>5. JobSerial(step, j, row)
  BY <1>1, <1>4 DEF BeginShape, JobSerial, WithImage, TxSteps
<1>6. /\ \A a \in Apps : row'[a] = None => log'[a] = <<>>
      /\ AuditChain'
  BY <1>2 DEF SerialInv, AuditChain
<1>7. QED
  BY <1>2, <1>3, <1>5, <1>6, StepSerial

\* The commit of the only request writes the log entry that leads from the
\* status the row had to the one it has.
LEMMA PublishSerial ==
    ASSUME TypeInv, SerialInv, NEW r \in Requests,
           pc[r] = "commit", Publish(r)
    PROVE  /\ \A a \in Apps : row'[a] = None => log'[a] = <<>>
           /\ AuditChain'
<1> DEFINE a == job[r].app
           new == Written(r)
           entries == Audited(r)
           e == AuditEntry(r)
<1>1. /\ a \in Apps /\ row[a] \in Rows /\ job[r].image \in Rows
      /\ job[r].old = row[a].status /\ job[r].old \in Statuses
  BY DEF TypeInv, SerialInv, JobFits, JobSerial, WithImage, OnRow, TxSteps
<1>2. new.status = job[r].image.status /\ new \in Rows
  BY <1>1 DEF Written, Rows
<1>3. log[a] \in Seq(Entries) /\ row[a] # None /\ new # None
  BY <1>1, <1>2, ConstantsAssumption DEF TypeInv, TypeOK
<1>4. /\ row'[a] = new /\ log'[a] = entries
      /\ \A b \in Apps : b # a => row'[b] = row[b] /\ log'[b] = log[b]
  BY <1>1 DEF Publish, TypeInv, TypeOK
<1>5. e.from = row[a].status /\ e.to = new.status /\ e \in Entries
  BY <1>1, <1>2 DEF AuditEntry, Entries, Rows
<1>6. IF log[a] = <<>>
      THEN row[a].status \in Initials
      ELSE /\ log[a][1].from \in Initials
           /\ \A i \in 1..(Len(log[a]) - 1) : log[a][i].to = log[a][i + 1].from
           /\ row[a].status = log[a][Len(log[a])].to
  BY <1>1, <1>3 DEF SerialInv, AuditChain
<1>7. IF entries = <<>>
      THEN new.status \in Initials
      ELSE /\ entries[1].from \in Initials
           /\ \A i \in 1..(Len(entries) - 1) : entries[i].to = entries[i + 1].from
           /\ new.status = entries[Len(entries)].to
  <2>1. CASE job[r].old = job[r].image.status
    <3>1. entries = log[a] /\ new.status = row[a].status
      BY <1>1, <1>2, <2>1 DEF Audited
    <3>2. QED
      BY <1>6, <3>1
  <2>2. CASE job[r].old # job[r].image.status
    <3>1. entries = Append(log[a], e)
      BY <2>2 DEF Audited
    <3> DEFINE n == Len(log[a])
    <3>2. /\ n \in Nat /\ Len(entries) = n + 1 /\ entries # <<>>
          /\ \A i \in 1..n : entries[i] = log[a][i]
          /\ entries[n + 1] = e
          /\ log[a] = <<>> <=> n = 0
      BY <1>3, <1>5, <3>1
    <3> HIDE DEF entries, e, n, new
    <3>3. CASE n = 0
      BY <1>5, <1>6, <3>2, <3>3
    <3>4. CASE n # 0
      <4>1. n \in 1..n /\ 1 \in 1..n
        BY <3>2, <3>4
      <4>2. entries[1].from \in Initials /\ entries[n].to = e.from
        BY <1>5, <1>6, <3>2, <3>4, <4>1 DEF n
      <4>3. ASSUME NEW i \in 1..n PROVE entries[i].to = entries[i + 1].from
        <5>1. CASE i = n
          BY <3>2, <4>2, <5>1
        <5>2. CASE i # n
          <6>1. i \in 1..(n - 1) /\ i + 1 \in 1..n
            BY <3>2, <5>2
          <6>2. log[a][i].to = log[a][i + 1].from
            BY <1>6, <3>2, <3>4, <6>1 DEF n
          <6>3. QED
            BY <3>2, <6>1, <6>2
        <5>3. QED
          BY <5>1, <5>2
      <4>4. Len(entries) - 1 = n /\ Len(entries) = n + 1
        BY <3>2
      <4>5. QED
        BY <1>5, <3>2, <4>2, <4>3, <4>4
    <3>5. QED
      BY <3>3, <3>4
  <2>3. QED
    BY <2>1, <2>2
<1> HIDE DEF entries, e, new, a
<1>8. \A b \in Apps : row'[b] = None => log'[b] = <<>>
  BY <1>3, <1>4 DEF SerialInv
<1>9. ASSUME NEW b \in Apps, row'[b] # None
      PROVE  IF log'[b] = <<>>
             THEN row'[b].status \in Initials
             ELSE /\ log'[b][1].from \in Initials
                  /\ \A i \in 1..(Len(log'[b]) - 1) : log'[b][i].to = log'[b][i + 1].from
                  /\ row'[b].status = log'[b][Len(log'[b])].to
  <2>1. CASE b = a
    BY <1>4, <1>7, <2>1
  <2>2. CASE b # a
    BY <1>4, <1>9, <2>2 DEF SerialInv, AuditChain
  <2>3. QED
    BY <2>1, <2>2
<1>10. QED
  BY <1>8, <1>9 DEF AuditChain

LEMMA WorkSerial ==
    ASSUME TypeInv, SerialInv, NEW r \in Requests, Work(r) \/ Break(r)
    PROVE  SerialInv'
<1> DEFINE a == job[r].app
<1>1. /\ job[r] \in Jobs /\ JobFits(pc[r], job[r], row)
      /\ JobSerial(pc[r], job[r], row)
  BY DEF TypeInv, TypeOK, SerialInv
<1>2. UNCHANGED <<row, log>> =>
        /\ \A b \in Apps : row'[b] = None => log'[b] = <<>>
        /\ AuditChain'
  BY DEF SerialInv, AuditChain
<1>3. Alone(r)
  <2>1. pc[r] # "idle"
    BY DEF Work, Break, Save, SaveRefused, SaveParty, LinkParty, AssignAO, LeadCreated,
           Load, LoadAttributes, NotFound, CheckLock, DecideChange, DecideSubmit,
           DecideEarlyChecks, ReadExisting, UpdateRow, UpdateRefused, Commit, Reget,
           Return, SaveLost, PartyFails, CommitLost, Rollback, Timeout, Outcomes, TxSteps
  <2>2. QED
    BY <2>1 DEF SerialInv
<1>4. ASSUME NEW step, NEW j, Local(r, step, j), JobSerial(step, j, row)
      PROVE  SerialInv'
  <2>1. /\ pc' = [pc EXCEPT ![r] = step] /\ job' = [job EXCEPT ![r] = j]
        /\ UNCHANGED <<row, log>>
    BY <1>4 DEF Local, Goto, tables
  <2>2. QED
    BY <1>2, <1>3, <1>4, <2>1, StepSerial
<1>5. ASSUME NEW outcome \in Outcomes, Finish(r, outcome), UNCHANGED <<row, log>>
      PROVE  SerialInv'
  BY <1>2, <1>3, <1>5, FinishSerial
<1>6. ASSUME NEW step, pc' = [pc EXCEPT ![r] = step], UNCHANGED <<row, log, job>>,
             JobSerial(step, job[r], row)
      PROVE  SerialInv'
  <2>1. job' = [job EXCEPT ![r] = job[r]]
    BY <1>6 DEF TypeInv, TypeOK
  <2>2. QED
    BY <1>2, <1>3, <1>6, <2>1, StepSerial
<1>7. CASE Save(r) \/ SaveLost(r)
  <2>1. a \in Apps /\ job[r].image \in Rows /\ pc[r] = "save" /\ row[a] = None
    BY <1>1, <1>7 DEF Save, SaveLost, JobFits, JobSerial, WithImage
  <2>2. ASSUME NEW s \in InitialStatuses(job[r].image.product),
               Insert(r, [job[r].image EXCEPT !.status = s])
        PROVE  /\ \A b \in Apps : row'[b] = None => log'[b] = <<>>
               /\ AuditChain'
               /\ row'[a].status = s /\ s \in Initials
    <3> DEFINE new == [job[r].image EXCEPT !.status = s]
    <3>1. new.status = s /\ s \in Initials
      BY <2>1, <2>2 DEF Rows, Initials
    <3>2. log[a] = <<>>
      BY <2>1 DEF SerialInv
    <3>3. /\ row'[a] = new /\ log' = log
          /\ \A b \in Apps : b # a => row'[b] = row[b]
      BY <2>1, <2>2 DEF Insert, TypeInv, TypeOK
    <3> HIDE DEF new, a
    <3>4. \A b \in Apps : row'[b] = None => log'[b] = <<>>
      BY <3>2, <3>3 DEF SerialInv
    <3>5. AuditChain'
      BY <3>1, <3>2, <3>3 DEF SerialInv, AuditChain
    <3>6. QED
      BY <3>1, <3>3, <3>4, <3>5
  <2>3. CASE SaveLost(r)
    BY <1>3, <2>2, <2>3, FinishSerial DEF SaveLost, Outcomes
  <2>4. CASE Save(r)
    <3>1. PICK s \in InitialStatuses(job[r].image.product) :
            /\ Insert(r, [job[r].image EXCEPT !.status = s])
            /\ job' = [job EXCEPT ![r].image = [job[r].image EXCEPT !.status = s]]
      BY <2>4 DEF Save
    <3> DEFINE j == [job[r] EXCEPT !.image = [job[r].image EXCEPT !.status = s]]
    <3>2. j.image.status = s /\ j.app = a
      BY <1>1, <2>1 DEF Jobs, Rows
    <3>3. job' = [job EXCEPT ![r] = j]
      BY <3>1
    <3>4. PICK step \in {"party", "reget"} :
            /\ pc' = [pc EXCEPT ![r] = step]
            /\ step = "party" => job[r].op = "Lead"
      BY <2>4 DEF Save, Goto
    <3>5. j.seen = job[r].seen
      BY <1>1 DEF Jobs
    <3> HIDE DEF j
    <3>6. job[r].seen = None
      BY <1>1, <2>1 DEF JobSerial
    <3>7. JobSerial(step, j, row')
      BY <2>2, <3>1, <3>2, <3>4, <3>5, <3>6 DEF JobSerial, Permitted, TxSteps, WithImage
    <3>8. QED
      BY <1>3, <2>2, <3>1, <3>3, <3>4, <3>7, StepSerial
  <2>5. QED
    BY <1>7, <2>3, <2>4
<1>8. CASE SaveParty(r) \/ LinkParty(r) \/ PartyFails(r)
  <2>1. PICK step \in {"link", "assign"} : pc' = [pc EXCEPT ![r] = step]
    BY <1>8 DEF SaveParty, LinkParty, PartyFails, Goto
  <2>2. pc[r] \in {"party", "link"} /\ UNCHANGED <<row, log, job>>
    BY <1>8 DEF SaveParty, LinkParty, PartyFails, tables
  <2>3. JobSerial(step, job[r], row)
    BY <1>1, <2>1, <2>2 DEF JobSerial, WithImage, TxSteps
  <2>4. QED
    BY <1>6, <2>1, <2>2, <2>3
<1>9. CASE AssignAO(r)
  <2>1. PICK o \in Officers : Local(r, "existing", [job[r] EXCEPT !.image.ao = o])
    BY <1>9 DEF AssignAO
  <2> DEFINE j == [job[r] EXCEPT !.image.ao = o]
  <2>2. pc[r] = "assign" /\ job[r].image \in Rows
    BY <1>1, <1>9 DEF AssignAO, WithImage, JobFits
  <2>3. j.image.status = job[r].image.status /\ j.seen = job[r].seen /\ j.app = a
    BY <1>1, <2>2 DEF Jobs, Rows
  <2> HIDE DEF j
  <2>4. JobSerial("existing", j, row)
    BY <1>1, <2>2, <2>3 DEF JobSerial, WithImage, TxSteps
  <2>5. QED
    BY <1>4, <2>1, <2>4 DEF j
<1>10. CASE SaveRefused(r) \/ LeadCreated(r) \/ NotFound(r) \/ UpdateRefused(r)
            \/ Rollback(r) \/ Timeout(r) \/ Reget(r)
  BY <1>5, <1>10, Verdicts
     DEF SaveRefused, LeadCreated, NotFound, UpdateRefused, Rollback, Timeout, Reget,
         Fail, tables, Outcomes
<1>11. CASE Load(r)
  <2> DEFINE j == [job[r] EXCEPT !.image = row[a], !.seen = row[a].status]
  <2>1. PICK step \in {"check", "attrs"} : Local(r, step, j)
    BY <1>11 DEF Load
  <2>2. j.image = row[a] /\ j.seen = row[a].status /\ j.app = a
    BY <1>1 DEF Jobs
  <2> HIDE DEF j
  <2>3. JobSerial(step, j, row)
    BY <2>1, <2>2 DEF JobSerial, Permitted, TxSteps
  <2>4. QED
    BY <1>4, <2>1, <2>3
<1>12. CASE LoadAttributes(r)
  <2> DEFINE j == [job[r] EXCEPT !.given = attrs[a]]
  <2>1. /\ pc[r] = "attrs" /\ Local(r, "decide", j)
        /\ j.image = job[r].image /\ j.seen = job[r].seen /\ j.app = a
    BY <1>1, <1>12 DEF LoadAttributes, Jobs
  <2> HIDE DEF j
  <2>2. JobSerial("decide", j, row)
    BY <1>1, <2>1 DEF JobSerial, WithImage, TxSteps
  <2>3. QED
    BY <1>4, <2>1, <2>2
<1>13. CASE CheckLock(r)
  <2>1. CASE Fail(r)
    BY <1>5, <2>1 DEF Fail, tables, Outcomes
  <2> DEFINE j == [job[r] EXCEPT !.seen = row[a].status]
  <2>2. CASE Local(r, "existing", j)
    <3>1. /\ pc[r] = "check"
          /\ j.image = job[r].image /\ j.seen = row[a].status /\ j.app = a
      BY <1>1, <1>13 DEF CheckLock, Jobs
    <3> HIDE DEF j
    <3>2. JobSerial("existing", j, row)
      BY <1>1, <3>1 DEF JobSerial, WithImage, TxSteps
    <3>3. QED
      BY <1>4, <2>2, <3>2
  <2>3. QED
    BY <1>13, <2>1, <2>2 DEF CheckLock
<1>14. CASE DecideChange(r) \/ DecideSubmit(r) \/ DecideEarlyChecks(r)
  <2> DEFINE app == job[r].image
  <2>1. /\ pc[r] = "decide" /\ a \in Apps
        /\ app \in Rows /\ row[a] \in Rows
        /\ app.status = row[a].status /\ job[r].seen = row[a].status
        /\ job[r].op = "Change" => job[r].want \in Statuses
    BY <1>1, <1>14 DEF DecideChange, DecideSubmit, DecideEarlyChecks, JobFits, JobSerial,
                       WithImage, OnRow
  <2>2. CASE \E outcome \in Outcomes : Finish(r, outcome) /\ UNCHANGED tables
    BY <1>5, <2>2 DEF tables
  <2>3. \A t \in Statuses : TransitionTo(app, t) => Permitted(row[a].status, t)
    <3> SUFFICES ASSUME NEW t \in Statuses, <<app.product, app.status, t>> \in Flows
                 PROVE  <<row[a].status, t>> \in PermittedEdges
      BY <2>1 DEF TransitionTo, IsTransitionAllowed, Permitted
    <3> DEFINE f == <<app.product, app.status, t>>
    <3>1. f \in Flows /\ f[2] = row[a].status /\ f[3] = t
      BY <2>1
    <3>2. <<f[2], f[3]>> \in {<<g[2], g[3]>> : g \in Flows}
      BY <3>1
    <3>3. row[a].status \in Statuses
      BY <2>1 DEF Rows
    <3>4. QED
      BY <3>1, <3>2, <3>3 DEF PermittedEdges
  <2>4. ASSUME NEW s, Permitted(row[a].status, s),
               Local(r, "existing", [job[r] EXCEPT !.image.status = s])
        PROVE  SerialInv'
    <3> DEFINE j == [job[r] EXCEPT !.image.status = s]
    <3>1. j.image.status = s /\ j.seen = job[r].seen /\ j.app = a
      BY <1>1, <2>1 DEF Jobs, Rows
    <3> HIDE DEF j
    <3>2. JobSerial("existing", j, row)
      BY <2>1, <2>4, <3>1 DEF JobSerial, TxSteps
    <3>3. QED
      BY <1>4, <2>4, <3>2 DEF j
  <2>5. CASE DecideChange(r)
    BY <2>1, <2>2, <2>3, <2>4, <2>5 DEF DecideChange, Fail, Outcomes
  <2>6. CASE DecideSubmit(r)
    BY <2>2, <2>3, <2>4, <2>6, ConstantsAssumption DEF DecideSubmit, Fail, Outcomes
  <2>7. CASE DecideEarlyChecks(r)
    <3>1. CASE \E s : /\ s = app.status \/ (s \in Statuses /\ TransitionTo(app, s))
                      /\ Local(r, "existing", [job[r] EXCEPT !.image.status = s])
      BY <2>1, <2>3, <2>4, <3>1 DEF Permitted
    <3>2. QED
      BY <2>2, <2>7, <3>1, ConstantsAssumption DEF DecideEarlyChecks, Outcomes
  <2>8. QED
    BY <1>14, <2>5, <2>6, <2>7
<1>15. CASE ReadExisting(r)
  <2> DEFINE j == [job[r] EXCEPT !.old = row[a].status]
  <2>1. /\ pc[r] = "existing" /\ Local(r, "update", j)
        /\ j.image = job[r].image /\ j.seen = job[r].seen /\ j.app = a
        /\ j.old = row[a].status
    BY <1>1, <1>15 DEF ReadExisting, Jobs
  <2> HIDE DEF j
  <2>2. JobSerial("update", j, row)
    BY <1>1, <2>1 DEF JobSerial, WithImage, TxSteps
  <2>3. QED
    BY <1>4, <2>1, <2>2
<1>16. CASE UpdateRow(r)
  <2>1. JobSerial("commit", job[r], row) /\ UNCHANGED <<row, log, job>>
    BY <1>1, <1>16 DEF UpdateRow, JobSerial, WithImage, TxSteps
  <2>2. QED
    BY <1>6, <1>16, <2>1 DEF UpdateRow, Goto
<1>17. CASE Commit(r) \/ CommitLost(r)
  <2>1. /\ \A b \in Apps : row'[b] = None => log'[b] = <<>>
        /\ AuditChain'
    BY <1>17, PublishSerial DEF Commit, CommitLost
  <2>2. CASE Goto(r, "reget") /\ UNCHANGED job
    <3>1. job' = [job EXCEPT ![r] = job[r]]
      BY <2>2 DEF TypeInv, TypeOK
    <3>2. JobSerial("reget", job[r], row')
      BY DEF JobSerial, WithImage, TxSteps
    <3>3. QED
      BY <1>3, <2>1, <2>2, <3>1, <3>2, StepSerial DEF Goto
  <2>3. CASE \E outcome \in Outcomes : Finish(r, outcome)
    BY <1>3, <2>1, <2>3, FinishSerial
  <2>4. QED
    BY <1>17, <2>2, <2>3, Verdicts DEF Commit, CommitLost
<1>18. CASE Return(r)
  <2>1. JobSerial("idle", NoJob, row)
    BY DEF JobSerial, WithImage, TxSteps
  <2>2. QED
    BY <1>4, <1>18, <2>1 DEF Return
<1>19. QED
  BY <1>7, <1>8, <1>9, <1>10, <1>11, <1>12, <1>13, <1>14, <1>15, <1>16, <1>17, <1>18
     DEF Work, Break

LEMMA InitSerial == Init => SerialInv
BY DEF Init, SerialInv, Alone, JobSerial, AuditChain, WithImage, TxSteps

LEMMA NextSerial ==
    ASSUME IsFiniteSet(Requests), MaxInFlight = 1
    PROVE  TypeInv /\ SerialInv /\ [Next]_vars => SerialInv'
<1> SUFFICES ASSUME TypeInv, SerialInv, [Next]_vars PROVE SerialInv'
  OBVIOUS
<1>1. CASE UNCHANGED vars
  BY <1>1 DEF vars, SerialInv, Alone, JobSerial, AuditChain
<1>2. ASSUME NEW r \in Requests, Begin(r) \/ Work(r) \/ Break(r)
      PROVE  SerialInv'
  BY <1>2, BeginSerial, WorkSerial
<1>3. QED
  BY <1>1, <1>2 DEF Next

\* While requests do not overlap, the log of an application leads entry by entry
\* from an initial status to the current one, whatever fails.
THEOREM SerialLogsChain ==
    ASSUME IsFiniteSet(Requests), MaxInFlight = 1
    PROVE  Spec => []AuditChain
<1>1. Spec => [](TypeInv /\ SerialInv)
  BY InitTyped, NextTyped, InitSerial, NextSerial, PTL DEF Spec
<1>2. SerialInv => AuditChain
  BY DEF SerialInv
<1>3. QED
  BY <1>1, <1>2, PTL

(***************************************************************************)
(* What the only request does to the tables: it creates an application, or *)
(* its repo.Update commits; and then the status it overwrites is a working *)
(* one.  Both need the lookup of terminal statuses to answer, and that no  *)
(* application is created in a terminal status.                            *)
(***************************************************************************)
Creates(r) ==
    /\ pc[r] = "save"
    /\ row[job[r].app] = None
    /\ \E s \in InitialStatuses(job[r].image.product) :
         Insert(r, [job[r].image EXCEPT !.status = s])

Commits(r) ==
    /\ pc[r] = "commit"
    /\ row[job[r].app].status \notin Terminal
    /\ Publish(r)

LEMMA SerialWriters ==
    ASSUME Initials \cap Terminal = {}, ~LookupsFail,
           TypeInv, LockInv, SerialInv, [Next]_vars
    PROVE  \/ UNCHANGED <<row, attrs, log>>
           \/ \E r \in Requests : Creates(r) \/ Commits(r)
<1> SUFFICES ASSUME ~UNCHANGED <<row, attrs, log>>
             PROVE  \E r \in Requests : Creates(r) \/ Commits(r)
  OBVIOUS
<1>1. PICK r \in Requests : Begin(r) \/ Work(r) \/ Break(r)
  BY DEF Next, vars
<1>2. ~Begin(r)
  BY BeginShaped DEF BeginShape, Local, tables
<1>3. Save(r) \/ SaveLost(r) \/ Commit(r) \/ CommitLost(r)
  BY <1>1, <1>2
     DEF Work, Break, SaveRefused, SaveParty, LinkParty, PartyFails, AssignAO, LeadCreated,
         Load, LoadAttributes, NotFound, CheckLock, DecideChange, DecideSubmit,
         DecideEarlyChecks, ReadExisting, UpdateRow, UpdateRefused, Rollback, Timeout,
         Reget, Return, Local, Fail, tables
<1>4. JobSerial(pc[r], job[r], row) /\ JobLock(pc[r], job[r], row)
  BY DEF SerialInv, LockInv
<1>5. CASE Save(r) \/ SaveLost(r)
  BY <1>4, <1>5 DEF Save, SaveLost, Creates, JobSerial
<1>6. CASE Commit(r) \/ CommitLost(r)
  BY <1>4, <1>6 DEF Commit, CommitLost, Commits, JobSerial, JobLock, TxSteps
<1>7. QED
  BY <1>3, <1>5, <1>6

\* While requests do not overlap and the lookup of terminal statuses answers,
\* neither the row nor the attributes of a terminal application ever change.
THEOREM SerialLockHolds ==
    ASSUME IsFiniteSet(Requests), MaxInFlight = 1, ~LookupsFail,
           Initials \cap Terminal = {}
    PROVE  Spec => TerminalFrozen
<1> DEFINE Frozen(a) == row[a] # None /\ row[a].status \in Terminal
                          => row'[a] = row[a] /\ attrs'[a] = attrs[a]
<1>1. ASSUME TypeInv, LockInv, SerialInv, [Next]_vars, NEW a \in Apps
      PROVE  Frozen(a)
  <2>1. CASE UNCHANGED <<row, attrs, log>>
    BY <2>1
  <2>2. ASSUME NEW r \in Requests, Creates(r) \/ Commits(r)
        PROVE  Frozen(a)
    <3>1. row[job[r].app] = None \/ row[job[r].app].status \notin Terminal
      BY <2>2 DEF Creates, Commits
    <3>2. PICK new, m : /\ row' = [row EXCEPT ![job[r].app] = new]
                        /\ attrs' = [attrs EXCEPT ![job[r].app] = m]
      BY <2>2 DEF Creates, Commits, Insert, Publish
    <3>3. QED
      BY <3>1, <3>2 DEF TypeInv, TypeOK
  <2>3. QED
    BY <1>1, <2>1, <2>2, SerialWriters
<1>2. TypeInv /\ LockInv /\ SerialInv /\ [Next]_vars => [\A a \in Apps : Frozen(a)]_vars
  BY <1>1
<1>3. Spec => [](TypeInv /\ AuditInv /\ LockInv /\ SerialInv)
  BY InitTyped, NextTyped, InitAudited, NextAudited, InitLocked, NextLocked,
     InitSerial, NextSerial, PTL DEF Spec
<1>4. QED
  BY <1>2, <1>3, PTL DEF Spec, TerminalFrozen

\* The status of each application, as StatusAudit sees it.
StatusMap == [a \in Apps |-> IF row[a] = None THEN None ELSE row[a].status]

\* Every step of the server with one request at a time is a step of StatusAudit.
LEMMA NextAbstract ==
    ASSUME Initials \cap Terminal = {}, ~LookupsFail,
           TypeInv, LockInv, SerialInv, [Next]_vars
    PROVE  [Abstract!ANext]_(Abstract!avars)
<1> USE DEF StatusMap
<1>1. CASE UNCHANGED <<row, attrs, log>>
  BY <1>1 DEF Abstract!avars
<1>2. ASSUME NEW r \in Requests, Creates(r)
      PROVE  Abstract!ANext
  <2> DEFINE a == job[r].app
  <2>1. PICK s \in InitialStatuses(job[r].image.product) :
          Insert(r, [job[r].image EXCEPT !.status = s])
    BY <1>2 DEF Creates
  <2>2. /\ a \in Apps /\ job[r].image \in Rows /\ row[a] = None
    BY <1>2 DEF Creates, TypeInv, JobFits, WithImage
  <2> DEFINE new == [job[r].image EXCEPT !.status = s]
  <2>3. s \in Initials /\ s \in Statuses
    BY <2>2, ConstantsAssumption DEF Initials, InitialStatuses, Rows
  <2>4. new \in Rows /\ new.status = s
    BY <2>2, <2>3 DEF Rows
  <2>5. row' = [row EXCEPT ![a] = new] /\ log' = log
    BY <2>1 DEF Insert
  <2> HIDE DEF new, a
  <2>6. StatusMap[a] = None /\ StatusMap' = [StatusMap EXCEPT ![a] = s]
    BY <2>2, <2>4, <2>5, ConstantsAssumption DEF TypeInv, TypeOK
  <2>7. Abstract!Create(a, s)
    BY <2>3, <2>5, <2>6 DEF Abstract!Create
  <2>8. QED
    BY <2>2, <2>3, <2>7 DEF Abstract!ANext
<1>3. ASSUME NEW r \in Requests, Commits(r)
      PROVE  [Abstract!ANext]_(Abstract!avars)
  <2> DEFINE a == job[r].app
             s == row[a].status
             t == job[r].image.status
             new == Written(r)
  <2>1. /\ a \in Apps /\ row[a] \in Rows /\ job[r].image \in Rows
        /\ job[r].old = s /\ s \notin Terminal /\ Permitted(s, t)
    BY <1>3 DEF Commits, TypeInv, JobFits, SerialInv, JobSerial, WithImage, OnRow, TxSteps
  <2>2. new \in Rows /\ new.status = t /\ s \in Statuses /\ t \in Statuses
    BY <2>1 DEF Written, Rows
  <2>3. /\ row' = [row EXCEPT ![a] = new]
        /\ log' = [log EXCEPT ![a] = Audited(r)]
    BY <1>3 DEF Commits, Publish
  <2> HIDE DEF new
  <2>4. StatusMap[a] = s /\ StatusMap' = [StatusMap EXCEPT ![a] = t]
    BY <2>1, <2>2, <2>3, ConstantsAssumption DEF TypeInv, TypeOK
  <2>5. CASE s = t
    <3>1. Audited(r) = log[a]
      BY <2>1, <2>5 DEF Audited
    <3>2. log' = log
      BY <2>1, <2>3, <3>1 DEF TypeInv, TypeOK
    <3>3. StatusMap' = StatusMap
      BY <2>1, <2>4, <2>5
    <3>4. QED
      BY <3>2, <3>3 DEF Abstract!avars
  <2>6. CASE s # t
    <3>1. log' = [log EXCEPT ![a] = Append(@, [from |-> s, to |-> t])]
      BY <2>1, <2>3, <2>6 DEF Audited, AuditEntry
    <3>2. <<s, t>> \in PermittedEdges /\ s \notin Terminal \cup {None, t}
      BY <2>1, <2>2, <2>6, ConstantsAssumption DEF Permitted
    <3>3. PICK e \in PermittedEdges : e[2] = t
      BY <3>2
    <3>4. Abstract!Move(a, e[2])
      BY <2>4, <3>1, <3>2, <3>3 DEF Abstract!Move
    <3>5. Abstract!ANext
      BY <2>1, <3>4 DEF Abstract!ANext
    <3>6. QED
      BY <3>5
  <2>7. QED
    BY <2>5, <2>6
<1>4. QED
  BY <1>1, <1>2, <1>3, SerialWriters

\* One request at a time, the workflow keeps the whole promise of StatusAudit:
\* created in an initial status, only permitted moves, none out of a terminal
\* status, and each of them logged in the transaction that makes it.
THEOREM SerialImplementsAudit ==
    ASSUME IsFiniteSet(Requests), MaxInFlight = 1, ~LookupsFail,
           Initials \cap Terminal = {}
    PROVE  Spec => AbstractSpec
<1>1. Init => Abstract!AInit
  BY DEF Init, Abstract!AInit
<1>2. TypeInv /\ LockInv /\ SerialInv /\ [Next]_vars => [Abstract!ANext]_(Abstract!avars)
  BY NextAbstract
<1>3. Spec => [](TypeInv /\ AuditInv /\ LockInv /\ SerialInv)
  BY InitTyped, NextTyped, InitAudited, NextAudited, InitLocked, NextLocked,
     InitSerial, NextSerial, PTL DEF Spec
<1>4. QED
  BY <1>1, <1>2, <1>3, PTL DEF Spec, AbstractSpec, Abstract!ASpec

=============================================================================
