# Verification of credit_analytics_backend

The program is the back end of a credit origination system: loan applications move through
intake, survey, analysis and committee to a decision, and their parties, documents, surveys and
financial figures are collected on the way. It is a Go service (Kratos, gRPC and HTTP) over one
PostgreSQL database. This directory holds TLA+ models of it, TLC configurations that check them on
small instances, and TLAPS proofs of what matters most for instances of any size. Paths below are
relative to `src/`.

Every request runs in a goroutine of its own and passes through three layers: a handler
(`internal/service`), a usecase (`internal/biz`), a repository (`internal/data`, over the statements
of `internal/data/db`). No Go variable is shared between requests; what they share is the tables and
the pool of connections. So every question about concurrency is a question about which SQL
statements can come between which, and the models have one step for each of those statements.

## 1. Inventory

| Component | State | Operations | Hard parts | What makes it correct |
|---|---|---|---|---|
| **Application workflow** (`biz/application.go`, `data/application.go`, `service/application.go`) | `applications`, `application_attributes`, `application_status_logs`, PostgreSQL's row locks | create, update, upsert attributes, change status; CreateLead, Submit and RunEarlyChecks in the usecase | read, decide, then write the whole copy back; the status read for the audit log is not locked; ignored errors; lost COMMIT | the log accounts for the status; success means it happened; a terminal application stays as it is; statuses follow the product's flow |
| **Data access** (`data/data.go`, `db/db.go`) | the pool of 25 connections, transactions | InTx, every query | waiting for a connection while holding others; commit of unknown outcome | no leak, no mutual wait, all or nothing |
| **Survey templates** (`data/survey.go`, `service/survey.go`) | templates, sections, questions, options | get, list, create | queries inside the loops over other queries; swallowed errors | the answer is the whole template; connections come back |
| **Survey fieldwork** (same files, `biz/survey.go`) | `application_surveys`, `survey_answers`, `survey_evidences` | assign, start, submit, verify, answer, upload | lock check and write are separate; statuses in any order, late and repeated | no change without a lock check; stamped times are not lost |
| **Financial data** (`biz/financial.go`, `data/financial.go`, `service/financial.go`) | facts, ratios, assets, liabilities | upsert, add, update | lock check and write are separate; the item and the application of a request are unrelated; unparsable amounts | no change without a lock check |
| **Committee and decision** (`biz/`, `data/`, `service/decision.go`) | sessions, votes, committee decisions, final decisions | create, vote, finalize, record, get | no unique keys, no check of the session's state, a decision read without order | nothing without its session or application; what was answered is there, and found |
| **Reference data** (`biz/`, `data/`, `service/reference.go`) | attribute categories, registry, options; products, branches, officers, statuses, accounts | CRUD of categories and registry, lists | deletes that cascade or set NULL; a list out of two snapshots | an attribute is listed with its options, saves of values are whole, a category is answered as it is stored |
| **Applicants** (`biz/`, `data/`, `service/applicant.go`) | applicants and their attributes | create, update, upsert attributes, get | several statements in one transaction, waits for rows and unique keys, a stale copy written back | all or nothing, numbers unique, answers show what is stored, nobody waits for ever |
| **Listing and pagination** (`List` of three repositories, `pkg/validate`) | cursors held by clients | keyset pages | rows come, go and change between two pages | no row that stays is skipped, none is repeated, a walk ends |
| **Parties and documents** (`biz/application.go`, `service/application.go`) | parties, links, documents | add, list, presigned URL | answers made from the request, a removal that does nothing | answers tell what is stored; lists show what was answered |
| **Servers** (`server/`, `pkg/grpcerr`, `cmd/`) | none | routing, timeout, error mapping | a context expires at any point of a request | every request is answered |
| Greeter, generated code, migrations and seeds | - | - | - | - |

How they interact: every write to survey and financial data first calls
`ApplicationRepo.FindByID` and `IsTerminalStatus`, with queries of their own; the workflow reads
products' flows and statuses from the reference tables; every component draws connections from the
one pool; the server's timeout (`configs/config.yaml`, 1 s) ends the context every statement runs
under.

The hazards found on the way, each with its line, are in `PROJECT.json` with the property that
covers it or the reason why none does.

## 2. Plan

1. *Done.* Application workflow (`ApplicationWorkflow`, abstract: `StatusAudit`), with proofs.
2. *Done.* The pool under nested queries (`TemplatePool`), with proofs.
3. *Done.* Records that belong to an application (`FinancialData`, `SurveyFieldwork`, abstract:
   `LockedRecords`).
4. *Done.* `ApplicantProfile` (abstract: `ApplicantStore`).
5. *Done.* The services beside the workflow: `AttributeCatalog`, `CaseFile`, `KeysetListing`, each over
   its own tables, and `BackOffice`, which composes them in one server; with proofs about the lists.
6. *Dropped.* A composition of `ApplicationWorkflow` with `FinancialData` and `SurveyFieldwork`: their
   `StatusMoves` already lets any status change to any other at any moment, so a composition has
   fewer behaviours, and nothing it could show beyond them.
7. *Done.* Proofs of every invariant, action property and refinement the passing runs check (section
   5). *Left.* Nothing of the plan; liveness stays with TLC.

## 3. Modules

| Module | Models | Role |
|---|---|---|
| `ApplicationWorkflow` | workflow, InTx; the refinement mapping to `StatusAudit` | component |
| `StatusAudit` | what it promises about statuses and their log | abstract specification |
| `MCApplicationWorkflow` | instances | for TLC |
| `ApplicationWorkflowProofs` | eight theorems | for TLAPS |
| `TemplatePool` | GetSurveyTemplate, the pool, timeouts | component |
| `MCTemplatePool`, `TemplatePoolProofs` | instances, four theorems | for TLC, TLAPS |
| `FinancialData`, `MCFinancialData`, `FinancialDataProofs` | financial data | component, instances, two theorems |
| `SurveyFieldwork`, `MCSurveyFieldwork`, `SurveyFieldworkProofs` | survey fieldwork | component, instances, three theorems |
| `LockedRecords` | what `checkLock` promises | abstract specification of both |
| `ApplicantProfile`, `MCApplicantProfile`, `ApplicantProfileProofs` | applicants and their attributes | component, instances, three theorems |
| `ApplicantStore` | what their transactions promise | abstract specification |
| `Handlers` | the life of a request, InTx | shared by the next two |
| `AttributeCatalog` | categories, registry, options, stored values | component |
| `CaseFile` | sessions, votes, decisions, documents, parties | component |
| `KeysetListing`, `KeysetListingProofs` | paged lists and the clients that walk through them | component, four theorems |
| `BackOffice`, `MCBackOffice` | the three in one server | composition, instances |
| `BackOfficeProofs` | the lists and the case file in that server | six theorems |
| `AttributeCatalogProofs` | the catalogue in that server | four theorems |

Definitions named "Seeded fault" in a comment are variants no specification uses. They stand before
the definition they would replace, and each shows that a property notices the bug it describes.

### ApplicationWorkflow

`row`, `attrs` and `log` are the committed contents of three tables; `writer` is PostgreSQL's row
lock; `borrower` is how far CreateLead got; `pc[r]` names the statement request `r` runs next and
`job[r]` holds its parameters and local variables. The path of a request is the path of the code:

| `pc` | Statement | Code |
|---|---|---|
| `load`, `attrs` | `FindByID`: the row, then the attributes | `data/application.go:150` |
| `check` | the second `FindByID` and `IsTerminalStatus` of `usecase.Update` | `biz/application.go:387` |
| `decide` | lock check, transition lookup, TransitionTo of ChangeStatus, Submit, RunEarlyChecks | `biz/application.go:259-385` |
| `existing` | `repo.Update`: BEGIN and the read of the existing status, no lock | `data/application.go:97-102` |
| `update` | the UPDATE, which waits for the row lock | `data/application.go:104` |
| `commit` | audit entry, attribute upserts, COMMIT | `data/application.go:120-145`, `data/data.go:108` |
| `save` | the transaction of `repo.Save` | `data/application.go:56` |
| `party`, `link`, `assign` | the rest of CreateLead | `biz/application.go:284-310` |
| `reget` | the read for the answer | `service/application.go` |

Writes of a transaction become visible in `Commit` (READ COMMITTED, and nobody else writes the same
rows before: the row lock is held). `Rollback` and `CommitLost` are its two bad ends; `Timeout` is
an error or expired context outside a transaction. Columns are abstracted to those some decision
depends on: product, officer, channel, status, and `terms` for amount, tenor, rate and purpose.
CreateLead, Submit and RunEarlyChecks are usecase operations no handler calls at this commit; they
are modelled because they share the rows, and TLC can leave them out through `Operations`. A lead
without officer carries `uuid.Nil` into a foreign key that no officer of the seed data satisfies; the
step that assigns an officer is reachable only where the table of officers holds that id, which
`workflow_flow` therefore assumes. `IsTransitionAllowed`, `InitialStatuses` and `PassesLock` take the
reference tables from constants; `LookupsFail` lets those of their queries fail whose errors the code
ignores.

### TemplatePool

`open` is the set of connections in use, each tagged with its request and the nesting level of the
query; `at[r]` is the position in the loops; `answer[r]` is what has been collected. Acquiring steps
(`Acquire`) need a free connection, `Proceed` steps do not. `Break` covers a failing query, a
connection that breaks between two rows, and a row `Scan` cannot read: a section's fails the request
(`SectionUnreadable`), a question's is skipped (`QuestionUnreadable`), an option's too, which looks like
`OptionsBreak` because the options of a question are one part. `Expire` is the timeout: the rows are
closed, every further query fails at once, and what the loops still append is `Unfinished`; while
sections are left it may end the request as answered or as failed, for a Scan may meet the closed rows
(`Expired`). `intact[p]` remembers whether anything of this happened to the request; it is read by a
property only.

### FinancialData, SurveyFieldwork, LockedRecords

A write is: look up the survey (survey answers and evidence only), look at the status (`CheckLock`),
run one autocommitted statement (`Write`, or `WriteLost` when its answer gets lost). `StatusMoves`
lets the status of any application change at any time, which covers whatever the workflow does.
Facts and ratios are `figures` under their unique keys; assets and liabilities are `items` with an id
and a kind. Surveys keep the columns `UpdateSurveyStatus` writes; `Reach` takes CURRENT_TIMESTAMP
when the statement arrives, before it may wait for the row. Values are abstracted to a few; a string
that does not parse is `Garbled`, and `Parsed` makes it zero as the code does. An id that does not
parse is `uuid.Nil`, which becomes NULL where the repository says so, and NULL question ids do not
conflict in the upsert.

Both modules map to `LockedRecords`: `records` is everything that belongs to an application,
`permits` are the requests between a successful check and their write. That is exactly what a check
before the write can promise, and less than "no change after the application is closed".

### ApplicantProfile, ApplicantStore

`rows` and `attrs` are committed contents, `locked` the row locks; a transaction's own writes are in
`job` until `Commit`. The INSERT or UPDATE of a row is two steps, because PostgreSQL puts the new
version into the table (`InsertRow`, `UpdateRow`, which waits for the row) before its entry into the
unique index (`EnterNumber`, which waits for every transaction that may still add the number or give
it up). Two updates that swap the numbers of two applicants wait for each other there, and
`DeadlockDetected` ends one of them. Then follows one upsert for each attribute (`UpsertAttribute`),
any of which may name an attribute that is not registered. `Find` and `FindAttributes` are the two
statements of `FindByID`. The two unique columns are one, `number`; names and types are left out;
`born` is there because no handler passes it on and every UPDATE sets it.

`ApplicantStore` lets a request make known what it intends to write (`intents`) and later apply it
whole; a request for attributes only intends to keep the columns it saw when it made that known. So
the refinement allows exactly the lost update the code has: `UpsertApplicantAttributes` can restore
columns another request has changed since, but nothing else can come back, and never half of it.

### Handlers, AttributeCatalog, CaseFile

A request begins once (`Begin`), takes one step per SQL statement and ends `ok` or `failed`; `Finish`
may end it as failed although the statement is committed, which is a lost answer. `holds[r]` are the
rows an open transaction has locked.

`AttributeCatalog` identifies a stored label or value with the request that wrote it, so that a reader
can tell whose it sees. Categories are written by one statement and read back by a second one
(`service/reference.go:189-223`); `since` remembers the versions the read may find. A deletion takes the
foreign keys along: `SET NULL` for a category, `CASCADE` from an attribute to its options and to the
values of every application and applicant. A save (`applicationRepo.Save`, `Update`, and their likes
for applicants) locks the owner's row, upserts one value per step, and publishes them in `Commit`; a
deletion waits for the saves that have stored a value of its attribute. Lists of the registry are two
statements, `ListEntries` and `ListOptions`. `deleted` remembers the ids that are gone, since the
properties except them.

In `CaseFile` each write is one INSERT into one of five tables, guarded by its foreign key, or into
`application_parties`, guarded by its primary key. Nothing is updated, and nothing deleted:
RemovePartyFromApplication answers without touching the database (`service/application.go:348`).
`known` in a read is what had been answered to others when it began.

### KeysetListing

`rows[k]` is the row at place `k` of the order the list is sorted by; a row may appear at any free
place, since creation times are those of the start of a transaction and become visible at its end.
`walk[w]` is what client `w` has (`cursor`, `shown`) and the call under way: the statement for the rows
(`ReadPage`), for applications and applicants the one for their attributes, the answer. `Limit` is the
clamping of two of the lists; ListSurveys has none, and its `LimitPlusOne` overflows at MaxInt32. A walk
of ListSurveys with page size 0 is told for ever that there is a next page, without a cursor to it; with
-1 the slice expression panics. Both are in the model, and excepted from `WalksEnd`.

## 4. Runs

| Run | Question | Bounds |
|---|---|---|
| `workflow_race` | what survives the overlap of any operations | 3 requests, 1 application, 4 statuses, at most 3 audit entries; all faults |
| `workflow_flow` | do statuses stay in the flow, is everyone answered | 2 requests, 2 products, at most 2 audit entries; all faults, failing lookups; fairness |
| `serial` | is the module right when nothing overlaps | 1 request, all operations, attributes, channels, terms, at most 4 audit entries; all faults |
| `pool` | leaks, lost parts, waiting for each other and for ever | 2 readers, 1 other, 3 connections, 2 sections of 1 question; all faults; fairness |
| `financial_race` | is every write covered by a check | 2 requests and the workflow, 2 applications, 1 item, 1 key; all faults |
| `survey_fieldwork` | the same, and are milestones kept | 2 requests, 2 applications, 1 survey, 1 question, 3 status writes; all faults |
| `applicant_profile` | do requests take effect at once, are answers current, is everyone answered | 2 requests, 2 applicants, 2 numbers or none, 1 registered and 1 unknown attribute; all faults; fairness |
| `back_office` | are lists whole, saves whole, answers true, walks complete, and is everyone answered | 2 requests or 1 walk, 1 category, 2 seeded attributes and 1 spare id, 3 codes, 1 owner, 1 application; 3 places, 2 statuses, page sizes -1, 0, 1, 2, MaxInt32; all faults; fairness |
| `audit_chain_race` | (violated) is the log a chain | 2 requests |
| `unlock_race` | (violated) do terminal applications stay as they are | 2 requests |
| `foreign_item` | (violated) does closed financial data stay as it is | 1 request at a time |
| `survey_unlocked` | (violated) does closed survey data stay as it is | 1 request at a time |

Why the bounds are enough for the cases that matter: a stale write needs one request between two
steps of another, and a third to make the second one's copy stale as well, hence three requests on
one application in `workflow_race`. Applications do not influence each other in that module, so one
is enough; where they do (the lock check of one and the item of another) there are two. The statuses
are a working one to start, a second working one, and both kinds of terminal ones. Three connections
are one less than what two readers and another request want at the same time (2 and 1 held, all
three waiting), so all of them do come to wait; while only one reader is under way they are more than
twice the readers, and `NeverAllWaiting` says they cannot. In `ApplicantProfile` a request is handled once,
so `Requests` bounds how many there are; two are what a swap, a stale rewrite and a torn read need,
and when both are answered nothing is left to do. In `back_office` two
requests are what its races need: a deletion between the two statements of a list, between the upserts
of a save, or between write and read-back of a category. `Load` and `WalkLoad` keep TLC from multiplying
components that share no table: a behaviour has two requests or one walk (`BackOfficeProofs` shows that
the lists do not depend on the load). Three places give walks of two and three pages, with rows that come
before, at and behind the cursor. Every unbounded quantity has a named
bound: `MaxInFlight`, `MaxLog`, `MaxTime`, `MaxUploads`, `Load`, `N`. Where they end a behaviour, CHECK_DEADLOCK
is off; a deadlock of the code would show in `EveryRequestAnswered` and `NeverAllWaiting`, and the
pool run has no such bound and checks deadlock. Requests of `applicant_profile` and `back_office` are
handled once, so there the system stops when all are answered; `RequestsAnswered` shows it stops nowhere
else. Symmetry over requests, applications and items is
used in runs without liveness only.

What the runs do not tell apart:

- `serial` has the direct UpdateApplication among its operations, which permits any move; that the
  moves of the other operations are those of the flows is `SerialImplementsAudit`, and that their
  statuses are is `workflow_flow`. Its lookups answer, as those of all runs about the lock do; only
  `workflow_flow` lets them fail.
- `RecordsProtected` is about the check each write makes, not about the gap after it: a status that
  changes between check and write is the code's behaviour.
- `back_office` has two requests: not two decisions of an application and a read of them, and not an
  addition, a removal and a listing of a party. The first is covered by the theorem `ReadsSeeAnswered`.
  Of the second no property says that the party is gone, for the removal does nothing
  (`service/application.go:348`).
- `FinancialData` turns a garbled amount into zero as the code does, and no property is about the good
  amount this replaces.

### Fairness

- `WF_vars(Work(r))`, `WF_vars(Proceed(p))`: Go's scheduler runs every goroutine.
- `SF_vars(UpdateRow(r))`: PostgreSQL queues the waiters for a row lock, so one of them gets it
  although the lock is free only now and then.
- `WF_vars(DeadlockDetected(r))` and, in `ApplicantProfile`, weak fairness of `Work(r)` with its waits
  for rows and numbers: PostgreSQL wakes a waiter when the other transaction ends and looks for
  cycles after `deadlock_timeout`. Each request runs once, so a lock cannot be taken over and over.
- `SF_vars(Acquire(p))`: database/sql serves waiting requests in the order they came.
- `WF_vars(Expire(p))`: both servers run every request under a timeout (`server/grpc.go:36`,
  `server/http.go:90`).
- `WF_vars(Step(r))` and `WF_vars(OfListing(WalkStep(w)))` in `BackOffice`: the server goes on with the
  calls it took; of a client only that it asks for the next page when it is told there is one, for that
  is what `WalksEnd` is about.

No fairness is assumed of clients otherwise, of faults, of rollbacks or of changes to the rows.

### What the violated runs show

- `audit_chain_race`: `repo.Update` reads the old status before its UPDATE has the row lock
  (`data/application.go:99`). Two changes that overlap log the same starting status. What holds
  instead is `AuditTrail`.
- `unlock_race`: a usecase checks the lock on a copy and writes that copy back later
  (`biz/application.go:384`). An application that was rejected in between is working again. What
  holds instead is `LockBrokenOnlyByRace`.
- `foreign_item`: UpdateAsset and UpdateLiability check the application named in the request and
  update the item by its id alone (`biz/financial.go:115`). What holds instead, while clients name an
  item's own application, is `RecordsProtected`.
- `survey_unlocked`: `UpdateSurveyStatus` is the one survey write without checkLock
  (`biz/survey.go:165`).

## 5. Proofs

For every number of requests and applications, all flows, all interleavings and all faults the
modules have:

- `ApplicationWorkflowProofs`
  - `TypeCorrect`: `Spec => []TypeOK`, with the invariant that a request has the parameters and
    copies its next statement uses (`JobFits`).
  - `AuditTrailHolds`: `Spec => []AuditTrail`. `AuditTrail` alone is not inductive: a request about to
    commit could write a status, or log a starting status, the log does not vouch for. The invariant
    adds that the status a request read inside its transaction is vouched for by the log of its
    application until it is used, that a status change writes the status it was asked for, and that
    this status is vouched for once the transaction committed. Logs only grow, which keeps vouched
    statuses vouched for.
  - `AckedChangesHappened`: `Spec => []AckedChangeHappened`, from the same invariant: the wanted
    status is vouched for once the transaction committed.
  - `LockOnlyRaced`: `Spec => LockBrokenOnlyByRace`, while lookups answer (`LookupsFail = FALSE`):
    a request past its check has seen a status that is not terminal.
  - `StatusesInFlow`: `Spec => []StatusInFlow`, without the direct UpdateApplication
    (`"Update" \notin Operations`), which writes any status. A request carries the
    status it will write through several statements; the invariant (`FlowInv`) adds that this status is
    in the flow of the product in its copy from the moment it is decided (`FlowFits`). That
    `FlowStatuses` is closed under transitions follows from its definition as the least such set.
  - For one request at a time (`MaxInFlight = 1`, finitely many requests): `SerialLogsChain`:
    `Spec => []AuditChain`; and, while lookups answer and no initial status is terminal,
    `SerialLockHolds`: `Spec => TerminalFrozen`, and `SerialImplementsAudit`: `Spec => AbstractSpec`, the
    refinement of `StatusAudit`, whose statuses move along the flow's edges only (`PermittedEdges`)
    unless UpdateApplication is among the operations. The invariant (`SerialInv`) says that only one request is not idle
    (`Alone`), and that what it has read is still what the tables hold (`JobSerial`): the two facts whose
    loss `audit_chain_race` and `unlock_race` show.
- `TemplatePoolProofs`
  - `PoolTypeCorrect`, `NothingLeaks`: the open connections are a function of where the requests are
    (`NoLeak`), on every path. The inductive invariant is `TypeOK /\ NoLeak`, and that requests other
    than readers are never inside a reader's loop.
  - `PoolNeverStuck`: while more than two connections are allowed for every reader under way, and
    somebody waits, a connection is available or somebody is reading. By `NoLeak` a waiting reader
    holds at most two connections and another waiting request none; if all that hold a connection
    wait, at most two for each reader under way are in use and one is free. The bound counts the
    requests under way, so the theorem needs no assumption on how many there may ever be; with the 25
    connections of `data/data.go:38` it is up to twelve concurrent template requests.
  - `ContentionLosesNothing`: `Spec => []PartsLostOnlyByFailure`. The invariant (`PartsInv`) computes
    from the place in the loops what an intact request must have collected by then (`Collected`); a
    wait moves no request to another place.
- `FinancialDataProofs`, `SurveyFieldworkProofs`
  - `FinancialTypeCorrect`, `SurveyTypeCorrect`: `Spec => []TypeOK` of either module, with the parameters
    a request has at each statement (`JobFits`).
  - `RecordsChangeByPermit`, in both: `Spec => RecordsProtected`, the refinement of `LockedRecords`, while
    lookups answer and, for financial data, while clients name an item's own application (`OwnItems`).
    The lock is checked for the application a request carries and the write goes to an item or a survey,
    so the proof needs that the two agree from the check to the write (`OwnInv`), and for that that
    neither an item nor a survey ever moves to another application. Without `OwnItems` it is
    false, as `foreign_item` shows.
  - `MilestonesStay`: `Spec => MilestonesKept`, for any order, repetition and delay of status updates.
- `ApplicantProfileProofs`
  - `ProfileTypeCorrect`: `Spec => []TypeOK`, which says whose the row locks are.
  - `ProfilesAtomic`: `Spec => AtomicProfiles`, the refinement of `ApplicantStore`. A statement maps to a
    stutter, or to `Intend` or `GiveUp`, and `Commit` to `Apply`. Besides the types it needs that an INSERT
    brings an id nobody has (`FreshInv`), and, for `Unique`, that a request whose number is entered has no
    namesake, committed or under way (`NumberInv`): whoever wants the same number waits in `EnterNumber`.
  - `AnswersPersisted`: `Spec => []AnswersArePersisted`. The invariant (`SinceInv`) says that while a
    request reads for its answer, what is stored now is in its history, so that each of the two
    statements of `FindByID` finds something that is.
- `KeysetListingProofs`, for any table, any integers as page sizes, any changes between pages
  - `ListingTypeCorrect`, `WalksAreComplete`, `WalksDescend`: `ListingSpec => []` each of
    `ListingTypeOK`, `WalkComplete`, `WalkDescends`. None of the last two is inductive. The invariant
    (`ListingInv`) adds, for each walk: the steady rows match the filter (`Tracked`); while it goes on,
    what was shown, and every steady row shown, is what lies at the cursor and above (`ShownAbove`); a
    page that is read and not answered lies below the cursor, and leaves out steady rows only below
    itself and only if there is a next page (`PageBelow`); an empty page that has a next one comes
    from a page size of zero, and such a walk shows nothing (`EmptyPage`).
- `BackOfficeProofs`, about the whole server, for any load
  - `ServesLists`: `Spec => ListingSpec`, the composition implements its component: each step is a
    step of the listing or leaves it alone.
  - `ServerWalksComplete`, `ServerWalksDescend`: the two properties for the whole server, from
    `ServesLists` and the theorems about the component.
  - `CaseFileTypeCorrect`, `AnswersStayStored`, `ReadsSeeAnswered`: `Spec => []` each of `FileTypeOK`,
    `AnsweredIsStored`, `AckedIsSeen`. `RequestInv` says which operation may be at which statement,
    with which parameters; `Moved`, that a step is one of a single request, which has not ended.
    `RowsInv` adds that the id of a row is that of a request that has ended, so that an INSERT brings a
    new one; `Told`, that what a read must find (`known`) is stored while it waits. All of it is kept
    because the tables only grow (`Grows`).
- `AttributeCatalogProofs`, in the same server
  - `CatalogTypeCorrect`, `ListingsWhole`, `CategoriesAnswered`, `SavesWhole`: `Spec => []` each of
    `CatalogTypeOK`, `ListedWhole`, `CategoryAnswers`, `SavesAreWhole`. The foreign key from a value to its
    entry is the hard one: a save commits all its values at once, long after it looked at the entries.
    The invariant says that what a save has locked is its owner and entries that exist (`LocksInv`), which
    a deletion keeps because it waits for them. It adds that a seeded attribute has its options or is
    deleted (`TablesInv`), that a request about to read its category back has the present version in its
    history (`CategoryFits`), and that a save that has not ended has stored nothing (`SaveFits`).

Assumptions are the named ASSUMEs of the modules: the shape of the constants; that no flow leads out
of a terminal status and that SURVEY is not terminal, as in the seed data; finite sets of requests
for the pool; that `NoRow` is no status and `None`, which stands for NULL, none of the values a column
can have; that the seeded attributes have different codes, as the unique key of
`attribute_code` demands; that an attribute and an owner are rows of different tables; that there is an
application for the seeded session. A theorem that needs more states it as its own hypothesis, as
given above; the configurations of the runs that check the same property satisfy it.

Only model-checked: liveness (`EveryRequestAnswered`, `RequestsAnswered`, `WalksEnd`), since fairness and
ENABLED are beyond the prover. Every invariant, action property and refinement that a passing run
checks is proved. What the violated runs refute is of course only model-checked.

## 6. Not modelled

The read-only lists of products, branches, officers, statuses, accounts, categories and survey templates:
one query each. CreateSurveyTemplate: one INSERT of a template without sections, to which nothing else
in the program adds any. The session reads and decision conditions, whose handlers answer
Unimplemented. The object store (one presigning call). Routing, CORS, gRPC-Web, error codes.
Crashes of the process: it keeps no state outside the database, and a crash is to the tables what
`Rollback`, `CommitLost` and `WriteLost` are. Deadlocks inside PostgreSQL outside
`ApplicantProfile`: the other transactions lock one application row and no unique key of another, except
that two deletions of attributes and two saves storing them in different orders could wait in a circle,
row by row of a cascade that `DeleteEntry` takes in one step. The time zone in which cursors are compared
(`db/application.sql.go:419`): constant. Concurrent changes of the
reference tables: flows and terminal statuses are constants. Two divergences of uncalled usecase
operations are part of the model but no run is about them: CreateLead inserts the row before it
assigns an officer, and RunEarlyChecks reports success although its update failed.
