------------------------- MODULE ApplicationWorkflow -------------------------
(***************************************************************************)
(* Loan applications: the handlers of ApplicationService, the usecases of  *)
(* internal/biz/application.go and the repository of                       *)
(* internal/data/application.go, down to the order of their SQL            *)
(* statements.                                                             *)
(*                                                                         *)
(* Every request runs in a goroutine of its own (Requests) and shares      *)
(* nothing with the others but the PostgreSQL tables.  A usecase reads the *)
(* application, decides on that copy, and hands the copy to repo.Update,   *)
(* whose transaction (READ COMMITTED, the driver's default) reads the      *)
(* status again, overwrites the whole row, inserts the audit entry and     *)
(* upserts the attributes.  Each of these statements is a step here.       *)
(* Uncommitted writes live in the job of the request that made them; row,  *)
(* log and attrs are what other transactions see.                          *)
(***************************************************************************)
EXTENDS Naturals, Sequences, FiniteSets

CONSTANTS
    Requests,      \* handler goroutines
    MaxInFlight,   \* bound: how many of them run at the same time
    MaxLog,        \* bound: audit entries of one application
    Operations,    \* the operations clients call, a subset of OpNames
    Apps,          \* application ids
    Products,      \* loan_products
    Statuses,      \* status strings a client may send or a table may hold
    Terminal,      \* application_status_refs with is_terminal
    Flows,         \* product_status_flows: <<product, from, to>>
    Officers,      \* loan_officers ids
    NilAO,         \* uuid.Nil in the ao_id column
    Channels,      \* application_channel values
    Terms,         \* loan amount, tenor, rate and purpose of one application
    ZeroAmount,    \* terms whose loan amount is zero
    FailsIntake,   \* terms ValidateIntake refuses
    OverLimit,     \* terms above the 500M walk-in limit
    Attributes,    \* attribute registry ids
    Values,        \* attribute values
    None,          \* SQL NULL, no row, an unset local
    Faults,        \* TRUE: statements fail, requests time out, replies get lost
    LookupsFail    \* TRUE: the status lookups whose errors are ignored fail too

OpNames == {"Create", "Lead", "Update", "Upsert", "Change", "Submit", "EarlyChecks"}

Intake   == "INTAKE"
Survey   == "SURVEY"
Rejected == "REJECTED"

\* A row of applications.
Rows == [product : Products, ao : Officers \cup {NilAO}, channel : Channels,
         terms : Terms, status : Statuses]

ASSUME ConstantsAssumption ==
    /\ Operations \subseteq OpNames
    /\ {Intake, Survey, Rejected} \subseteq Statuses
    /\ Terminal \subseteq Statuses
    /\ Flows \subseteq Products \X (Statuses \cup {"START"}) \X Statuses
    /\ ZeroAmount \subseteq FailsIntake
    /\ FailsIntake \subseteq Terms
    /\ {Faults, LookupsFail} \subseteq BOOLEAN
    /\ MaxLog \in Nat
    /\ None \notin Apps \cup Statuses \cup Requests \cup Values
    /\ None \notin Rows

\* A terminal status has no way out in any product's flow, as in the seed data.
ASSUME TerminalIsFinal ==
    \A f \in Flows : f[2] \notin Terminal

\* Survey is a working status.
ASSUME SurveyIsOpen == Survey \notin Terminal

VARIABLES
    row,       \* row[a]: the committed row of applications, or None
    attrs,     \* attrs[a][x]: its committed value in application_attributes, or None
    log,       \* log[a]: committed rows of application_status_logs, in commit order
    writer,    \* writer[a]: the transaction holding the row lock, or None
    borrower,  \* borrower[a]: how far CreateLead got with the borrower party
    pc,        \* pc[r]: the statement request r runs next
    job        \* job[r]: its parameters and local variables

vars == <<row, attrs, log, writer, borrower, pc, job>>

tables == <<row, attrs, log, writer, borrower>>

AttrMaps == [Attributes -> Values \cup {None}]

NoAttrs == [x \in Attributes |-> None]

Entries == [from : Statuses, to : Statuses]

(***************************************************************************)
(* op, app and want are the request; image and given are the               *)
(* biz.Application it will write (given: its Attributes); seen is the      *)
(* status its lock check looked at, old the status repo.Update read for    *)
(* the audit log.                                                          *)
(***************************************************************************)
Jobs == [op    : OpNames \cup {None},
         app   : Apps \cup {None},
         want  : Statuses \cup {None},
         image : Rows \cup {None},
         given : AttrMaps,
         seen  : Statuses \cup {None},
         old   : Statuses \cup {None}]

NoJob == [op |-> None, app |-> None, want |-> None, image |-> None,
          given |-> NoAttrs, seen |-> None, old |-> None]

Outcomes == {"ok", "refused", "failed"}

TxSteps == {"existing", "update", "commit"}

Steps == {"idle", "save", "party", "link", "assign", "load", "attrs", "check",
          "decide", "reget"} \cup TxSteps \cup Outcomes

InFlight == {r \in Requests : pc[r] # "idle"}

-----------------------------------------------------------------------------
(* Lookups in the reference tables, and the pure domain rules.             *)

\* GetInitialStatus, with the usecase's and the repository's fallback.
InitialStatuses(p) ==
    LET starts == {s \in Statuses : <<p, "START", s>> \in Flows}
    IN  IF starts = {} \/ LookupsFail THEN starts \cup {Intake} ELSE starts

\* Seeded fault: CheckTransitionAllowed without its product_id condition.
AnyProductAllows(p, s, t) == \E q \in Products : <<q, s, t>> \in Flows

IsTransitionAllowed(p, s, t) == <<p, s, t>> \in Flows

\* TransitionTo succeeds: staying in the same status always does.
TransitionTo(app, t) == IsTransitionAllowed(app.product, app.status, t) \/ app.status = t

\* Seeded fault: the lock check is forgotten.
LockUnchecked(s) == TRUE

\* IsTerminalStatus; its error is ignored, and then nothing is locked.
StoppedByLock(s) == s \in Terminal
PassesLock(s)    == s \notin Terminal \/ LookupsFail

CheckPolicyGate(app) == ~(app.channel = "WALK_IN" /\ app.terms \in OverLimit)

\* ao_id references loan_officers(id).
ForeignKeysHold(app) == app.ao \in Officers

-----------------------------------------------------------------------------
(* Moving a request along.                                                 *)

Goto(r, step) == pc' = [pc EXCEPT ![r] = step]

\* The handler has its answer; only the request and the outcome still matter.
Finish(r, outcome) ==
    /\ Goto(r, outcome)
    /\ job' = [job EXCEPT ![r] = [NoJob EXCEPT !.op = job[r].op, !.app = job[r].app,
                                               !.want = job[r].want]]

\* A local step: the tables stay as they are.
Local(r, step, j) ==
    /\ Goto(r, step)
    /\ job' = [job EXCEPT ![r] = j]
    /\ UNCHANGED tables

Fail(r) == Finish(r, "failed") /\ UNCHANGED tables

-----------------------------------------------------------------------------
(* Requests arrive.                                                        *)

\* Bounds: MaxInFlight requests run at once, and none starts on an application
\* whose audit log could outgrow MaxLog.
MayStart(r, a) ==
    /\ pc[r] = "idle"
    /\ Cardinality(InFlight) < MaxInFlight
    /\ Len(log[a]) + Cardinality({q \in InFlight : job[q].app = a}) < MaxLog

\* CreateApplication and CreateLead, under the fresh id a.  The usecase sets
\* the status in Save.
BeginCreate(r, op, a) ==
    /\ MayStart(r, a)
    /\ row[a] = None
    /\ \A q \in InFlight : job[q].app # a
    /\ \E p \in Products, ao \in Officers \cup {NilAO}, c \in Channels, t \in Terms,
          m \in AttrMaps :
         Local(r, "save", [NoJob EXCEPT !.op = op, !.app = a, !.given = m,
                 !.image = [product |-> p, ao |-> ao, channel |-> c, terms |-> t,
                            status |-> Intake]])

\* UpdateApplication: every column from the request, its status included.
\* Channel and branch are not in the UPDATE statement.  (An unknown id is
\* answered as for BeginUpsert.)
BeginUpdate(r, a) ==
    /\ MayStart(r, a)
    /\ row[a] # None
    /\ \E p \in Products, ao \in Officers \cup {NilAO}, t \in Terms,
          s \in Statuses, m \in AttrMaps :
         Local(r, "check", [NoJob EXCEPT !.op = "Update", !.app = a, !.given = m,
                 !.image = [product |-> p, ao |-> ao, channel |-> row[a].channel,
                            terms |-> t, status |-> s]])

BeginUpsert(r, a) ==
    /\ MayStart(r, a)
    /\ \E m \in AttrMaps :
         Local(r, "load", [NoJob EXCEPT !.op = "Upsert", !.app = a, !.given = m])

BeginChange(r, a) ==
    /\ MayStart(r, a)
    /\ \E s \in Statuses :
         Local(r, "load", [NoJob EXCEPT !.op = "Change", !.app = a, !.want = s])

BeginWorkflow(r, op, a) ==
    /\ MayStart(r, a)
    /\ Local(r, "load", [NoJob EXCEPT !.op = op, !.app = a])

Begin(r) ==
    \E a \in Apps :
        \/ \E op \in Operations \cap {"Create", "Lead"} : BeginCreate(r, op, a)
        \/ "Update" \in Operations /\ BeginUpdate(r, a)
        \/ "Upsert" \in Operations /\ BeginUpsert(r, a)
        \/ "Change" \in Operations /\ BeginChange(r, a)
        \/ \E op \in Operations \cap {"Submit", "EarlyChecks"} : BeginWorkflow(r, op, a)

-----------------------------------------------------------------------------
(* Creation.  The whole transaction of repo.Save is one step: nobody can   *)
(* name the new id before it commits.                                      *)

Insert(r, new) ==
    /\ row' = [row EXCEPT ![job[r].app] = new]
    /\ attrs' = [attrs EXCEPT ![job[r].app] = job[r].given]
    /\ UNCHANGED <<log, writer, borrower>>

Save(r) ==
    /\ pc[r] = "save"
    /\ ForeignKeysHold(job[r].image)
    /\ \E s \in InitialStatuses(job[r].image.product) :
         LET new == [job[r].image EXCEPT !.status = s]
         IN  /\ Insert(r, new)
             /\ job' = [job EXCEPT ![r].image = new]
    /\ Goto(r, IF job[r].op = "Lead" THEN "party" ELSE "reget")

\* Committed, but the connection breaks before the client hears of it.
SaveLost(r) ==
    /\ Faults
    /\ pc[r] = "save"
    /\ ForeignKeysHold(job[r].image)
    /\ \E s \in InitialStatuses(job[r].image.product) :
         Insert(r, [job[r].image EXCEPT !.status = s])
    /\ Finish(r, "failed")

SaveRefused(r) ==
    /\ pc[r] = "save"
    /\ ~ForeignKeysHold(job[r].image)
    /\ Fail(r)

\* CreateLead after Create: two autocommitted inserts, a failure of either is
\* only logged.
SaveParty(r) ==
    /\ pc[r] = "party"
    /\ Goto(r, "link")
    /\ borrower' = [borrower EXCEPT ![job[r].app] = "saved"]
    /\ UNCHANGED <<row, attrs, log, writer, job>>

LinkParty(r) ==
    /\ pc[r] = "link"
    /\ Goto(r, "assign")
    /\ borrower' = [borrower EXCEPT ![job[r].app] = "linked"]
    /\ UNCHANGED <<row, attrs, log, writer, job>>

PartyFails(r) ==
    /\ Faults
    /\ pc[r] \in {"party", "link"}
    /\ Goto(r, "assign")
    /\ UNCHANGED <<tables, job>>

\* The officer of a lead that came without one: the first of its branch.
\* (Every branch of the model has all the Officers.)
AssignAO(r) ==
    /\ pc[r] = "assign"
    /\ job[r].image.ao = NilAO
    /\ \E o \in Officers : Local(r, "existing", [job[r] EXCEPT !.image.ao = o])

LeadCreated(r) ==
    /\ pc[r] = "assign"
    /\ job[r].image.ao # NilAO \/ Faults
    /\ Finish(r, "ok")
    /\ UNCHANGED tables

-----------------------------------------------------------------------------
(* Reading and deciding.                                                   *)

\* FindByID's first query.  The attributes of an Upsert come from the request,
\* so for it the second query changes nothing.
Load(r) ==
    LET current == row[job[r].app]
    IN  /\ pc[r] = "load"
        /\ current # None
        /\ Local(r, IF job[r].op = "Upsert" THEN "check" ELSE "attrs",
                 [job[r] EXCEPT !.image = current, !.seen = current.status])

\* FindByID's second query, not in the same snapshot as the first.
LoadAttributes(r) ==
    /\ pc[r] = "attrs"
    /\ Local(r, "decide", [job[r] EXCEPT !.given = attrs[job[r].app]])

NotFound(r) ==
    /\ pc[r] \in {"load", "check"}
    /\ row[job[r].app] = None
    /\ Fail(r)

\* Seeded fault: attributes may be written whatever the status.
UpsertUnlocked(r) ==
    LET current == row[job[r].app]
    IN  /\ pc[r] = "check"
        /\ current # None
        /\ \/ /\ PassesLock(current.status) \/ job[r].op = "Upsert"
              /\ Local(r, "existing", [job[r] EXCEPT !.seen = current.status])
           \/ /\ StoppedByLock(current.status)
              /\ Fail(r)

\* usecase.Update reads the application once more, for the lock check only.
CheckLock(r) ==
    LET current == row[job[r].app]
    IN  /\ pc[r] = "check"
        /\ current # None
        /\ \/ /\ PassesLock(current.status)
              /\ Local(r, "existing", [job[r] EXCEPT !.seen = current.status])
           \/ /\ StoppedByLock(current.status)
              /\ Fail(r)

\* ChangeStatus.  A failing transition lookup is an error, see Timeout.
DecideChange(r) ==
    LET app == job[r].image
    IN  /\ pc[r] = "decide"
        /\ job[r].op = "Change"
        /\ \/ /\ PassesLock(app.status)
              /\ TransitionTo(app, job[r].want)
              /\ Local(r, "existing", [job[r] EXCEPT !.image.status = job[r].want])
           \/ /\ StoppedByLock(app.status) \/ ~TransitionTo(app, job[r].want)
              /\ Fail(r)

\* Submit: no lock check; a failing transition lookup counts as "not allowed".
DecideSubmit(r) ==
    LET app == job[r].image
    IN  /\ pc[r] = "decide"
        /\ job[r].op = "Submit"
        /\ \/ /\ app.terms \notin ZeroAmount
              /\ TransitionTo(app, Survey)
              /\ Local(r, "existing", [job[r] EXCEPT !.image.status = Survey])
           \/ /\ \/ app.terms \in ZeroAmount
                 \/ ~TransitionTo(app, Survey)
                 \/ LookupsFail /\ app.status # Survey
              /\ Fail(r)

\* RunEarlyChecks.  CheckEarlySLIK is a stub that passes.  The result of
\* TransitionTo is ignored: the application is written either way.
DecideEarlyChecks(r) ==
    LET app    == job[r].image
        target == IF CheckPolicyGate(app) THEN Survey ELSE Rejected
        next   == (IF TransitionTo(app, target) THEN {target} ELSE {app.status})
                     \cup (IF LookupsFail THEN {app.status} ELSE {})
    IN  /\ pc[r] = "decide"
        /\ job[r].op = "EarlyChecks"
        /\ \/ /\ PassesLock(app.status)
              /\ app.terms \notin FailsIntake
              /\ \E s \in next :
                   Local(r, "existing", [job[r] EXCEPT !.image.status = s])
           \/ /\ StoppedByLock(app.status) \/ app.terms \in FailsIntake
              /\ Finish(r, "refused")
              /\ UNCHANGED tables

-----------------------------------------------------------------------------
(* repo.Update.                                                            *)

\* The answer the caller of repo.Update gives when it fails: RunEarlyChecks
\* and CreateLead ignore the error.
EarlyVerdict(r) == IF CheckPolicyGate(job[r].image) THEN "ok" ELSE "refused"

\* Seeded fault: every usecase drops the error the way RunEarlyChecks does.
ErrorDropped(r) == IF job[r].op = "EarlyChecks" THEN EarlyVerdict(r) ELSE "ok"

UpdateFailed(r) ==
    CASE job[r].op = "EarlyChecks" -> EarlyVerdict(r)
      [] job[r].op = "Lead"        -> "ok"
      [] OTHER                     -> "failed"

\* Where a successful repo.Update leads: two handlers read the row once more.
AfterUpdate(r) ==
    CASE job[r].op \in {"Update", "Change"} -> "reget"
      [] job[r].op = "EarlyChecks"          -> EarlyVerdict(r)
      [] OTHER                              -> "ok"

\* Seeded fault: repo.Update without "Fetch existing status".
ExistingNotRead(r) ==
    /\ pc[r] = "existing"
    /\ Local(r, "update", job[r])

\* q.GetApplication inside the transaction: no FOR UPDATE.
ReadExisting(r) ==
    /\ pc[r] = "existing"
    /\ Local(r, "update", [job[r] EXCEPT !.old = row[job[r].app].status])

\* q.UpdateApplication waits for the row lock and keeps it.
UpdateRow(r) ==
    LET a == job[r].app
    IN  /\ pc[r] = "update"
        /\ writer[a] = None
        /\ ForeignKeysHold(job[r].image)
        /\ writer' = [writer EXCEPT ![a] = r]
        /\ Goto(r, "commit")
        /\ UNCHANGED <<row, attrs, log, borrower, job>>

UpdateRefused(r) ==
    /\ pc[r] = "update"
    /\ ~ForeignKeysHold(job[r].image)
    /\ Finish(r, UpdateFailed(r))
    /\ UNCHANGED tables

\* The row UPDATE writes: every column but the channel.
Written(r) == [job[r].image EXCEPT !.channel = row[job[r].app].channel]

AuditEntry(r) == [from |-> job[r].old, to |-> job[r].image.status]

\* Seeded faults: the comparison uses the status of the lock check; the entry
\* is always written; only ChangeStatus writes one.
ComparedWithSeen(r) ==
    IF job[r].seen = job[r].image.status
    THEN log[job[r].app]
    ELSE Append(log[job[r].app], AuditEntry(r))

AuditedAlways(r) == Append(log[job[r].app], AuditEntry(r))

AuditedOnChange(r) ==
    IF job[r].op # "Change" \/ job[r].old = job[r].image.status
    THEN log[job[r].app]
    ELSE Append(log[job[r].app], AuditEntry(r))

\* CreateStatusLog, if the status read in this transaction is not the one written.
Audited(r) ==
    IF job[r].old = job[r].image.status
    THEN log[job[r].app]
    ELSE Append(log[job[r].app], AuditEntry(r))

\* The upserts: an attribute that is not given stays.
Upserted(r) ==
    [x \in Attributes |-> IF job[r].given[x] = None THEN attrs[job[r].app][x]
                                                    ELSE job[r].given[x]]

\* Seeded fault: the transaction ends without giving the row lock back.
LockKept(r) == UNCHANGED writer

Release(r) == writer' = [writer EXCEPT ![job[r].app] = None]

\* The transaction's writes appear at once; nobody reads them earlier.
Publish(r) ==
    LET a == job[r].app
    IN  /\ row'   = [row EXCEPT ![a] = Written(r)]
        /\ log'   = [log EXCEPT ![a] = Audited(r)]
        /\ attrs' = [attrs EXCEPT ![a] = Upserted(r)]
        /\ Release(r)
        /\ UNCHANGED borrower

Commit(r) ==
    /\ pc[r] = "commit"
    /\ Publish(r)
    /\ IF AfterUpdate(r) = "reget"
       THEN Goto(r, "reget") /\ UNCHANGED job
       ELSE Finish(r, AfterUpdate(r))

\* The server commits and the connection breaks before the client hears of it.
CommitLost(r) ==
    /\ Faults
    /\ pc[r] = "commit"
    /\ Publish(r)
    /\ Finish(r, UpdateFailed(r))

\* An error or the expired request context before the COMMIT: rolled back.
Rollback(r) ==
    /\ Faults
    /\ pc[r] \in TxSteps
    /\ IF pc[r] = "commit" THEN Release(r) ELSE UNCHANGED writer
    /\ Finish(r, UpdateFailed(r))
    /\ UNCHANGED <<row, attrs, log, borrower>>

\* An error or the expired request context anywhere else.  RunEarlyChecks
\* ignores the errors of its lookups.
Timeout(r) ==
    /\ Faults
    /\ \/ pc[r] \in {"save", "load", "attrs", "check", "reget"}
       \/ pc[r] = "decide" /\ job[r].op # "EarlyChecks"
    /\ Fail(r)

-----------------------------------------------------------------------------
(* The answer.                                                             *)

\* CreateApplication, UpdateApplication and ChangeApplicationStatus read the
\* application again for the response.
Reget(r) ==
    /\ pc[r] = "reget"
    /\ Finish(r, "ok")
    /\ UNCHANGED tables

Return(r) ==
    /\ pc[r] \in Outcomes
    /\ Local(r, "idle", NoJob)

Init ==
    /\ row = [a \in Apps |-> None]
    /\ attrs = [a \in Apps |-> NoAttrs]
    /\ log = [a \in Apps |-> <<>>]
    /\ writer = [a \in Apps |-> None]
    /\ borrower = [a \in Apps |-> "none"]
    /\ pc = [r \in Requests |-> "idle"]
    /\ job = [r \in Requests |-> NoJob]

\* What the goroutine of request r does next, if nothing goes wrong.
Work(r) ==
    \/ Save(r) \/ SaveRefused(r) \/ SaveParty(r) \/ LinkParty(r)
    \/ AssignAO(r) \/ LeadCreated(r)
    \/ Load(r) \/ LoadAttributes(r) \/ NotFound(r) \/ CheckLock(r)
    \/ DecideChange(r) \/ DecideSubmit(r) \/ DecideEarlyChecks(r)
    \/ ReadExisting(r) \/ UpdateRow(r) \/ UpdateRefused(r) \/ Commit(r)
    \/ Reget(r) \/ Return(r)

Break(r) == SaveLost(r) \/ PartyFails(r) \/ CommitLost(r) \/ Rollback(r) \/ Timeout(r)

Next == \E r \in Requests : Begin(r) \/ Work(r) \/ Break(r)

Spec == Init /\ [][Next]_vars

(***************************************************************************)
(* The Go scheduler runs every goroutine, and PostgreSQL grants a row lock *)
(* in arrival order, so a waiting UPDATE gets it although the lock is only *)
(* free now and then.                                                      *)
(***************************************************************************)
Fairness == \A r \in Requests : WF_vars(Work(r)) /\ SF_vars(UpdateRow(r))

FairSpec == Spec /\ Fairness

-----------------------------------------------------------------------------
(* What has to hold.                                                       *)

TypeOK ==
    /\ row \in [Apps -> Rows \cup {None}]
    /\ attrs \in [Apps -> AttrMaps]
    /\ log \in [Apps -> Seq(Entries)]
    /\ writer \in [Apps -> Requests \cup {None}]
    /\ borrower \in [Apps -> {"none", "saved", "linked"}]
    /\ pc \in [Requests -> Steps]
    /\ job \in [Requests -> Jobs]

\* The statuses the audit log vouches for: those an application can be created
\* in, and those an entry says it moved to.
Initials == UNION {InitialStatuses(p) : p \in Products}

VouchedBy(entries, n) == Initials \cup {entries[i].to : i \in 1..n}

Vouched(a) == VouchedBy(log[a], Len(log[a]))

\* Every entry is a move, from a status the entries before it vouch for.
Plausible(entries) ==
    \A i \in 1..Len(entries) :
        /\ entries[i].from # entries[i].to
        /\ entries[i].from \in VouchedBy(entries, i - 1)

(***************************************************************************)
(* Whatever the interleaving of the requests, and whatever fails: the      *)
(* status an application has is one the audit log vouches for, and no      *)
(* entry claims a move from a status the application never had, or no move *)
(* at all.  repo.Update (data/application.go:96) compares with a status it *)
(* read before it had the row lock; this is what survives that race.       *)
(***************************************************************************)
AuditTrail ==
    \A a \in Apps :
        /\ row[a] # None => row[a].status \in Vouched(a)
        /\ Plausible(log[a])

(***************************************************************************)
(* ChangeApplicationStatus answers with success only if the application    *)
(* really was in the requested status: no error of the transaction and no  *)
(* lost COMMIT is reported as success (biz/application.go:362, InTx).      *)
(***************************************************************************)
AckedChangeHappened ==
    \A r \in Requests :
        pc[r] = "ok" /\ job[r].op = "Change" => job[r].want \in Vouched(job[r].app)

(***************************************************************************)
(* The lock of a terminal status (ErrLocked) can only be broken by a race: *)
(* a request that rewrites a terminal application had seen it in a working *)
(* status when its own lock check ran.  Holds while the lookup of          *)
(* application_status_refs answers.                                        *)
(***************************************************************************)
LockBrokenOnlyByRace ==
    [][\A a \in Apps :
          row[a] # None /\ row[a].status \in Terminal /\ row'[a] # row[a]
             => \E r \in Requests : /\ pc[r] = "commit"
                                    /\ job[r].app = a
                                    /\ job[r].seen \notin Terminal]_vars

(***************************************************************************)
(* Without UpdateApplication, which writes any status, every status any    *)
(* application ever has can be reached from an initial one along its       *)
(* product's flow, although requests overwrite each other's statuses and   *)
(* RunEarlyChecks ignores the result of TransitionTo.                      *)
(***************************************************************************)
FlowStatuses == [p \in Products |->
    {s \in Statuses :
        \A S \in SUBSET Statuses :
            /\ InitialStatuses(p) \subseteq S
            /\ \A f \in Flows : f[1] = p /\ f[2] \in S => f[3] \in S
            => s \in S}]

StatusInFlow ==
    \A a \in Apps : row[a] # None => row[a].status \in FlowStatuses[row[a].product]

(***************************************************************************)
(* The audit log read from the beginning leads, entry by entry, from an    *)
(* initial status to the current one.  Holds when requests do not overlap. *)
(***************************************************************************)
AuditChain ==
    \A a \in Apps : row[a] # None =>
        IF log[a] = <<>>
        THEN row[a].status \in Initials
        ELSE /\ log[a][1].from \in Initials
             /\ \A i \in 1..(Len(log[a]) - 1) : log[a][i].to = log[a][i + 1].from
             /\ row[a].status = log[a][Len(log[a])].to

\* A terminal application is locked: neither its row nor its attributes change
\* (biz/errors.go:34).  Holds when requests do not overlap.
TerminalFrozen ==
    [][\A a \in Apps :
          row[a] # None /\ row[a].status \in Terminal
             => row'[a] = row[a] /\ attrs'[a] = attrs[a]]_vars

(***************************************************************************)
(* The abstract promise, StatusAudit.  With UpdateApplication among the    *)
(* operations any move is possible; without it only those of the flows.    *)
(***************************************************************************)
PermittedEdges ==
    IF "Update" \in Operations
    THEN Statuses \X Statuses
    ELSE {<<f[2], f[3]>> : f \in Flows}

Abstract == INSTANCE StatusAudit WITH
    Edges  <- PermittedEdges,
    status <- [a \in Apps |-> IF row[a] = None THEN None ELSE row[a].status],
    trail  <- log

\* An application is created in an initial status, moves along permitted edges
\* until it is in a terminal one, and repo.Update logs every move in the
\* transaction that makes it (data/application.go:96).  Holds when requests do
\* not overlap.
AbstractSpec == Abstract!ASpec

\* No request waits forever for a row lock: whoever takes one gives it back, by
\* committing or by rolling back.
EveryRequestAnswered == \A r \in Requests : pc[r] # "idle" ~> pc[r] = "idle"

=============================================================================
