--------------------------- MODULE ApplicantProfile ---------------------------
(***************************************************************************)
(* Applicants and their attributes (internal/service/applicant.go,         *)
(* internal/data/applicant.go, internal/data/db/applicant.sql.go).         *)
(*                                                                         *)
(* Save and Update write the row and the attributes of one applicant in a  *)
(* transaction.  At READ COMMITTED it has to wait for the row, and then,   *)
(* for the unique columns, for every transaction that may still add or     *)
(* free the value it writes; PostgreSQL breaks the cycles of such waits.   *)
(* FindByID reads row and attributes with two statements of their own.     *)
(*                                                                         *)
(* A request is handled once.  "number" stands for identity_number and     *)
(* tax_id, the unique columns, "born" for the dates.                       *)
(***************************************************************************)
EXTENDS Naturals, FiniteSets

CONSTANTS
    Requests,      \* handler goroutines
    Operations,    \* the operations clients call, a subset of OpNames
    Applicants,    \* applicant ids
    Numbers,       \* identity numbers
    Dates,         \* dates of birth
    Attributes,    \* attribute ids a request names
    Registered,    \* those in custom_column_attribute_registries
    Values,        \* values of an attribute
    None,          \* SQL NULL, no row, an unset local
    Faults         \* TRUE: statements fail, replies get lost

OpNames == {"Create", "Update", "Upsert", "Get"}

ASSUME ProfileAssumption ==
    /\ Operations \subseteq OpNames
    /\ Registered \subseteq Attributes
    /\ Faults \in BOOLEAN
    /\ None \notin Requests \cup Applicants \cup Numbers \cup Dates \cup Values \cup OpNames

VARIABLES
    rows,      \* rows[a]: the committed row of applicants, or None
    attrs,     \* attrs[a]: its committed rows of applicant_attributes
    locked,    \* locked[a]: the transaction that has the row, or None
    pc,        \* pc[r]: the statement request r runs next
    job,       \* job[r]: its parameters
    since      \* history: since[r], what its applicant was since r began to read it or wrote it

tables == <<rows, attrs, locked>>

vars == <<tables, pc, job, since>>

Rows == [number : Numbers \cup {None}, born : Dates \cup {None}]

AttrMaps == [Attributes -> Values \cup {None}]

NoAttrs == [t \in Attributes |-> None]

Jobs == [op    : OpNames \cup {None},
         app   : Applicants \cup {None},
         row   : Rows \cup {None},        \* the columns to write, or read
         given : AttrMaps,                \* the attributes to write
         todo  : SUBSET Attributes,       \* those not written yet
         reply : AttrMaps]                \* the attributes read

NoJob == [op |-> None, app |-> None, row |-> None, given |-> NoAttrs, todo |-> {},
          reply |-> NoAttrs]

\* The statements of a transaction that has its row.
InTx == {"index", "attributes", "commit"}

Profile(a) == [row |-> rows[a], attrs |-> attrs[a]]

Goto(r, step, j) ==
    /\ pc' = [pc EXCEPT ![r] = step]
    /\ job' = [job EXCEPT ![r] = j]

Local(r, step, j) == Goto(r, step, j) /\ UNCHANGED <<tables, since>>

\* What a failed request did, or read, matters no more.
Forget(r) == since' = [since EXCEPT ![r] = {}]

-----------------------------------------------------------------------------
(* Requests.  The handlers copy no dates from a request.                   *)

Begin(r, step, j) ==
    /\ pc[r] = "idle"
    /\ j.op \in Operations
    /\ Local(r, step, j)

Columns(n) == [number |-> n, born |-> None]

Sent(given) == {t \in Attributes : given[t] # None}

\* The row will get a fresh id; no other request is given it before the answer.
BeginCreate(r) ==
    \E a \in Applicants, n \in Numbers \cup {None}, given \in AttrMaps :
        /\ rows[a] = None /\ \A q \in Requests : job[q].app # a
        /\ Begin(r, "insert", [NoJob EXCEPT !.op = "Create", !.app = a, !.row = Columns(n),
                                            !.given = given, !.todo = Sent(given)])

BeginUpdate(r) ==
    \E a \in Applicants, n \in Numbers \cup {None}, given \in AttrMaps :
        Begin(r, "row", [NoJob EXCEPT !.op = "Update", !.app = a, !.row = Columns(n),
                                      !.given = given, !.todo = Sent(given)])

\* UpsertApplicantAttributes fetches the applicant first.
BeginUpsert(r) ==
    \E a \in Applicants, given \in AttrMaps :
        Begin(r, "find", [NoJob EXCEPT !.op = "Upsert", !.app = a,
                                       !.given = given, !.todo = Sent(given)])

\* GetApplicant, GetApplicantAttributes.
BeginGet(r) ==
    \E a \in Applicants : Begin(r, "find", [NoJob EXCEPT !.op = "Get", !.app = a])

-----------------------------------------------------------------------------
(* FindByID.                                                               *)

\* Seeded fault: sql.ErrNoRows is taken for an empty applicant here as well.
FindOrEmpty(r) ==
    LET a == job[r].app
    IN  /\ pc[r] = "find"
        /\ Goto(r, "findattrs", [job[r] EXCEPT !.row = rows[a]])
        /\ since' = [since EXCEPT ![r] = IF @ = {} THEN {Profile(a)} ELSE @]
        /\ UNCHANGED tables

\* GetApplicant.  Get and Upsert see the applicant for the first time.
Find(r) ==
    LET a == job[r].app
    IN  /\ pc[r] = "find"
        /\ rows[a] # None
        /\ Goto(r, "findattrs", [job[r] EXCEPT !.row = rows[a]])
        /\ since' = [since EXCEPT ![r] = IF @ = {} THEN {Profile(a)} ELSE @]
        /\ UNCHANGED tables

NotFound(r) ==
    /\ pc[r] \in {"find", "row"}
    /\ rows[job[r].app] = None
    /\ Local(r, "failed", NoJob)

AfterFind(op) == IF op = "Upsert" THEN "row" ELSE "ok"

\* Seeded fault: an error of GetApplicantAttributes is taken for no attributes.
FindAttributesOrNone(r) ==
    /\ pc[r] = "findattrs"
    /\ \/ Local(r, AfterFind(job[r].op), [job[r] EXCEPT !.reply = attrs[job[r].app]])
       \/ Faults /\ Local(r, AfterFind(job[r].op), job[r])

\* GetApplicantAttributes; UpsertApplicantAttributes does not use them.
FindAttributes(r) ==
    /\ pc[r] = "findattrs"
    /\ Local(r, AfterFind(job[r].op), [job[r] EXCEPT !.reply = attrs[job[r].app]])

-----------------------------------------------------------------------------
(* The transaction of Save and Update.                                     *)

\* Seeded fault: InTx returns an error without a rollback.
ReleaseNothing(f, r) == f

\* Rollback of InTx, or the server's when it hears no more of the connection.
Release(f, r) == [a \in Applicants |-> IF f[a] = r THEN None ELSE f[a]]

Abort(r) ==
    /\ Goto(r, "failed", NoJob)
    /\ locked' = Release(locked, r)
    /\ Forget(r)
    /\ UNCHANGED <<rows, attrs>>

\* INSERT INTO applicants: nobody else has the id.
InsertRow(r) ==
    /\ pc[r] = "insert"
    /\ locked' = [locked EXCEPT ![job[r].app] = r]
    /\ Goto(r, "index", job[r])
    /\ UNCHANGED <<rows, attrs, since>>

\* UPDATE applicants: waits for the row.
UpdateRow(r) ==
    LET a == job[r].app
    IN  /\ pc[r] = "row"
        /\ rows[a] # None /\ locked[a] = None
        /\ locked' = [locked EXCEPT ![a] = r]
        /\ Goto(r, "index", job[r])
        /\ UNCHANGED <<rows, attrs, since>>

\* Other applicants whose committed row has the number r writes.
Namesakes(r) ==
    {a \in Applicants \ {job[r].app} :
        rows[a] # None /\ job[r].row.number # None /\ rows[a].number = job[r].row.number}

\* The transactions that changed one of those rows, or put the number in the
\* index for a row of theirs: whether the number is free is not known yet.
Holders(r) ==
    {locked[a] : a \in {b \in Namesakes(r) : locked[b] # None}}
    \cup {q \in Requests \ {r} :
            /\ pc[q] \in {"attributes", "commit"}
            /\ job[q].row.number = job[r].row.number
            /\ job[r].row.number # None}

\* The second half of INSERT and UPDATE: the entry in the unique index.
EnterNumber(r) ==
    /\ pc[r] = "index"
    /\ Holders(r) = {} /\ Namesakes(r) = {}
    /\ Local(r, "attributes", job[r])

NumberTaken(r) ==
    /\ pc[r] = "index"
    /\ Holders(r) = {} /\ Namesakes(r) # {}
    /\ Abort(r)

\* Seeded fault: the statement runs on the pool, not in the transaction.
UpsertOutsideTx(r) ==
    /\ pc[r] = "attributes"
    /\ \E t \in job[r].todo \cap Registered :
         /\ attrs' = [attrs EXCEPT ![job[r].app][t] = job[r].given[t]]
         /\ Goto(r, "attributes", [job[r] EXCEPT !.todo = @ \ {t}])
    /\ UNCHANGED <<rows, locked, since>>

\* INSERT INTO applicant_attributes ... ON CONFLICT DO UPDATE, one statement each.
UpsertAttribute(r) ==
    /\ pc[r] = "attributes"
    /\ \E t \in job[r].todo \cap Registered :
         Local(r, "attributes", [job[r] EXCEPT !.todo = @ \ {t}])

\* attribute_id is a foreign key; an id that does not parse is nobody's.
UnknownAttribute(r) ==
    /\ pc[r] = "attributes"
    /\ job[r].todo \ Registered # {}
    /\ Abort(r)

Prepared(r) ==
    /\ pc[r] = "attributes"
    /\ job[r].todo = {}
    /\ Local(r, "commit", job[r])

Overwrite(old, given) == [t \in Attributes |-> IF given[t] = None THEN old[t] ELSE given[t]]

\* The writer's own history starts here; those who watch the applicant see it.
Commit(r) ==
    LET a   == job[r].app
        new == [row |-> job[r].row, attrs |-> Overwrite(attrs[a], job[r].given)]
    IN  /\ pc[r] = "commit"
        /\ rows' = [rows EXCEPT ![a] = new.row]
        /\ attrs' = [attrs EXCEPT ![a] = new.attrs]
        /\ locked' = Release(locked, r)
        /\ since' = [q \in Requests |->
                       IF q = r THEN {new}
                       ELSE IF job[q].app = a /\ since[q] # {} THEN since[q] \cup {new}
                       ELSE since[q]]

\* CreateApplicant and UpdateApplicant answer with what they find in the database.
AfterCommit(op) == IF op = "Upsert" THEN "ok" ELSE "find"

Committed(r) ==
    Commit(r) /\ Goto(r, AfterCommit(job[r].op), [job[r] EXCEPT !.given = NoAttrs])

\* The COMMIT is executed, but the connection breaks before its answer.
CommitLost(r) == Faults /\ Commit(r) /\ Goto(r, "failed", NoJob)

\* A statement fails or the request's context expires.
Fail(r) ==
    /\ Faults
    /\ pc[r] \in {"insert", "row", "find", "findattrs"} \cup InTx
    /\ Abort(r)

\* Whom r waits for.
Blockers(r) ==
    CASE pc[r] = "row"   -> {locked[job[r].app]} \ {None}
      [] pc[r] = "index" -> Holders(r)
      [] OTHER           -> {}

\* r waits for itself: no set that has its blockers, and theirs, goes without r.
InCycle(r) ==
    /\ Blockers(r) # {}
    /\ \A S \in SUBSET (Requests \ {r}) :
          Blockers(r) \subseteq S => \E q \in S : ~ (Blockers(q) \subseteq S)

\* After deadlock_timeout the server ends one of the transactions.
DeadlockDetected(r) == InCycle(r) /\ Abort(r)

-----------------------------------------------------------------------------

\* The seeds insert applicants, each with a number and a date; nobody else sets a date.
Init ==
    /\ rows \in [Applicants -> [number : Numbers, born : Dates] \cup {None}]
    /\ \A a, b \in Applicants :
          a # b /\ rows[a] # None /\ rows[b] # None => rows[a].number # rows[b].number
    /\ attrs = [a \in Applicants |-> NoAttrs]
    /\ locked = [a \in Applicants |-> None]
    /\ pc = [r \in Requests |-> "idle"]
    /\ job = [r \in Requests |-> NoJob]
    /\ since = [r \in Requests |-> {}]

Arrive(r) == BeginCreate(r) \/ BeginUpdate(r) \/ BeginUpsert(r) \/ BeginGet(r)

\* What the goroutine of r, or the server for it, does next if nothing fails.
Work(r) ==
    \/ Find(r) \/ NotFound(r) \/ FindAttributes(r)
    \/ InsertRow(r) \/ UpdateRow(r) \/ EnterNumber(r) \/ NumberTaken(r)
    \/ UpsertAttribute(r) \/ UnknownAttribute(r) \/ Prepared(r) \/ Committed(r)

Next == \E r \in Requests :
           Arrive(r) \/ Work(r) \/ CommitLost(r) \/ Fail(r) \/ DeadlockDetected(r)

Spec == Init /\ [][Next]_vars

(***************************************************************************)
(* The Go scheduler runs every goroutine; PostgreSQL wakes a waiting       *)
(* transaction when what it waits for has ended, and looks for deadlocks.  *)
(***************************************************************************)
Fairness == \A r \in Requests : WF_vars(Work(r)) /\ WF_vars(DeadlockDetected(r))

FairSpec == Spec /\ Fairness

-----------------------------------------------------------------------------
(* What has to hold.                                                       *)

TypeOK ==
    /\ rows \in [Applicants -> Rows \cup {None}]
    /\ attrs \in [Applicants -> AttrMaps]
    /\ locked \in [Applicants -> Requests \cup {None}]
    /\ pc \in [Requests -> {"idle", "insert", "find", "findattrs", "row", "ok", "failed"}
                              \cup InTx]
    /\ job \in [Requests -> Jobs]
    /\ \A r \in Requests :
          pc[r] \in {"insert", "findattrs", "row", "ok"} \cup InTx => job[r].row \in Rows
    /\ \A r \in Requests : since[r] \subseteq [row : Rows, attrs : AttrMaps]
    /\ \A a \in Applicants, r \in Requests :
          locked[a] = r <=> pc[r] \in InTx /\ job[r].app = a

(***************************************************************************)
(* Through every interleaving of statements, unique conflict, deadlock and *)
(* failure, a request takes effect at once or not at all, at most once, on *)
(* one applicant; no two applicants ever have the same number; and a       *)
(* request for attributes rewrites only columns it once found              *)
(* (data/applicant.go:55, 90).                                             *)
(***************************************************************************)
Intent(r) == [by |-> r, app |-> job[r].app, row |-> job[r].row, given |-> job[r].given,
              keep |-> job[r].op = "Upsert"]

Store == INSTANCE ApplicantStore WITH
    intents <- {Intent(r) : r \in {q \in Requests :
                   \/ pc[q] \in {"row"} \cup InTx
                   \/ pc[q] = "findattrs" /\ job[q].op = "Upsert"}}

AtomicProfiles == Store!Spec

(***************************************************************************)
(* "Fetch from DB to return the actual persisted state"                    *)
(* (service/applicant.go:100): the columns of an answer, and its           *)
(* attributes, are what the applicant had at some moment since the         *)
(* request's own write, or, if it writes nothing, since it began to read.  *)
(* The two may be of different moments.                                    *)
(***************************************************************************)
AnswersArePersisted ==
    \A r \in Requests : pc[r] = "ok" /\ job[r].op # "Upsert" =>
        /\ \E p \in since[r] : p.row = job[r].row
        /\ \E p \in since[r] : p.attrs = job[r].reply

(***************************************************************************)
(* Every request is answered: no wait for a row or a number is for ever,   *)
(* also when two requests swap the numbers of two applicants.              *)
(***************************************************************************)
EveryRequestAnswered ==
    \A r \in Requests : pc[r] # "idle" ~> pc[r] \in {"ok", "failed"}

=============================================================================
