---------------------------- MODULE FinancialData ----------------------------
(***************************************************************************)
(* The financial figures of an application: facts and ratios, upserted by  *)
(* their unique key, and assets and liabilities, inserted and updated by   *)
(* id (internal/biz/financial.go, internal/data/financial.go).             *)
(*                                                                         *)
(* Every write checks that the application named in the request is not in  *)
(* a terminal status, with a query of its own, and then runs one           *)
(* autocommitted statement.  The status itself belongs to                  *)
(* ApplicationWorkflow; here it moves at will.                             *)
(***************************************************************************)
EXTENDS Naturals, FiniteSets

CONSTANTS
    Requests,      \* handler goroutines
    MaxInFlight,   \* bound: how many run at the same time, the workflow's included
    Apps,          \* application ids
    Statuses,      \* statuses of an application
    Terminal,      \* those with is_terminal
    Keys,          \* (gl_code, period_type, period_label) of facts, codes of ratios
    Items,         \* ids of assets and liabilities
    Kinds,         \* the tables of items: assets and liabilities
    Amounts,       \* numbers
    Zero,          \* the number 0
    Garbled,       \* a string that is no number
    None,          \* no row, an unset local
    OwnItems,      \* TRUE: clients update an item under its own application
    Faults,        \* TRUE: statements fail, replies get lost
    LookupsFail    \* TRUE: the lookup of the status, whose error is ignored, fails

\* A row of assets or liabilities.
ItemRows == [app : Apps, kind : Kinds, amount : Amounts]

ASSUME FinancialAssumption ==
    /\ Terminal \subseteq Statuses
    /\ Zero \in Amounts
    /\ Garbled \notin Amounts
    /\ MaxInFlight \in Nat
    /\ {OwnItems, Faults, LookupsFail} \subseteq BOOLEAN
    /\ None \notin Apps \cup Statuses \cup Amounts \cup Keys \cup Items \cup Kinds
    /\ None \notin ItemRows

VARIABLES
    status,    \* status[a]: of the committed application row, None if there is none
    figures,   \* figures[a][k]: the amount of a fact or ratio, or None
    items,     \* items[i]: an asset or liability, or None
    pc,        \* pc[r]: the statement request r runs next
    job        \* job[r]: its parameters, and the status its lock check saw

vars == <<status, figures, items, pc, job>>

tables == <<status, figures, items>>

OpNames == {"upsert", "create", "update"}

Jobs == [op     : OpNames \cup {None},
         app    : Apps \cup {None},
         key    : Keys \cup {None},
         item   : Items \cup {None},
         kind   : Kinds \cup {None},
         amount : Amounts \cup {Garbled, None},
         fits   : BOOLEAN]

NoJob == [op |-> None, app |-> None, key |-> None, item |-> None, kind |-> None,
          amount |-> None, fits |-> TRUE]

InFlight == {r \in Requests : pc[r] # "idle"}

\* Seeded fault: the NullString is not valid when parsing fails, and an asset or
\* liability gets NULL for its amount.
NullIfGarbled(amount) == IF amount = Garbled THEN None ELSE amount

\* decimal.NewFromString with its error dropped.
Parsed(amount) == IF amount = Garbled THEN Zero ELSE amount

\* IsTerminalStatus; its error is ignored, and then nothing is locked.
StoppedByLock(s) == s \in Terminal
PassesLock(s)    == s \notin Terminal \/ LookupsFail

Step(r, step, j) ==
    /\ pc' = [pc EXCEPT ![r] = step]
    /\ job' = [job EXCEPT ![r] = j]

Answer(r, outcome) == Step(r, outcome, NoJob)

-----------------------------------------------------------------------------
(* Requests.  fits: the rows they refer to exist (GL account, asset type)  *)
(* and the values fit their columns.                                       *)

Begin(r, j) ==
    /\ pc[r] = "idle"
    /\ Cardinality(InFlight) < MaxInFlight
    /\ Step(r, "check", j)
    /\ UNCHANGED tables

\* UpsertFinancialFact, and UpsertFinancialRatio, which no handler calls yet.
BeginUpsert(r) ==
    \E a \in Apps, k \in Keys, m \in Amounts \cup {Garbled}, f \in BOOLEAN :
        Begin(r, [NoJob EXCEPT !.op = "upsert", !.app = a, !.key = k, !.amount = m, !.fits = f])

\* AddAsset, AddLiability.
BeginCreate(r) ==
    \E a \in Apps, d \in Kinds, m \in Amounts \cup {Garbled}, f \in BOOLEAN :
        Begin(r, [NoJob EXCEPT !.op = "create", !.app = a, !.kind = d, !.amount = m, !.fits = f])

\* UpdateAsset, UpdateLiability: the request names the item and an application.
BeginUpdate(r) ==
    \E a \in Apps, i \in Items, d \in Kinds, m \in Amounts \cup {Garbled}, f \in BOOLEAN :
        /\ OwnItems /\ items[i] # None => items[i].app = a
        /\ OwnItems => items[i] # None
        /\ Begin(r, [NoJob EXCEPT !.op = "update", !.app = a, !.item = i, !.kind = d,
                                  !.amount = m, !.fits = f])

-----------------------------------------------------------------------------
(* The usecase: checkLock, then the repository.                            *)

\* Seeded fault: only the existence of the application is checked.
NoCheckLock(r) ==
    /\ pc[r] = "check"
    /\ status[job[r].app] # None
    /\ Step(r, "write", job[r])
    /\ UNCHANGED tables

CheckLock(r) ==
    LET s == status[job[r].app]
    IN  /\ pc[r] = "check"
        /\ \/ /\ s # None /\ PassesLock(s)
              /\ Step(r, "write", job[r])
           \/ /\ s = None \/ StoppedByLock(s)
              /\ Answer(r, "failed")
        /\ UNCHANGED tables

\* INSERT ... ON CONFLICT (application_id, ...) DO UPDATE.
Upsert(r) ==
    /\ job[r].op = "upsert"
    /\ figures' = [figures EXCEPT ![job[r].app][job[r].key] = Parsed(job[r].amount)]
    /\ UNCHANGED items

\* INSERT under a fresh id.
Create(r) ==
    /\ job[r].op = "create"
    /\ \E i \in Items :
         /\ items[i] = None
         /\ items' = [items EXCEPT ![i] = [app |-> job[r].app, kind |-> job[r].kind,
                                           amount |-> Parsed(job[r].amount)]]
    /\ UNCHANGED figures

\* An update applies to a row of its own table.
Matches(r) == items[job[r].item] # None /\ items[job[r].item].kind = job[r].kind

\* UPDATE ... WHERE id = $1: the application of the row is not looked at.
Update(r) ==
    /\ job[r].op = "update"
    /\ Matches(r)
    /\ items' = [items EXCEPT ![job[r].item].amount = Parsed(job[r].amount)]
    /\ UNCHANGED figures

Stored(r) ==
    /\ pc[r] = "write"
    /\ job[r].fits
    /\ Upsert(r) \/ Create(r) \/ Update(r)
    /\ UNCHANGED status

Write(r) == Stored(r) /\ Answer(r, "ok")

\* Autocommitted, but the connection breaks before the client hears of it.
WriteLost(r) == Faults /\ Stored(r) /\ Answer(r, "failed")

\* A constraint is violated, or UPDATE ... RETURNING has no row.
Refused(r) ==
    /\ pc[r] = "write"
    /\ ~job[r].fits \/ (job[r].op = "update" /\ ~Matches(r))
    /\ Answer(r, "failed")
    /\ UNCHANGED tables

\* A statement fails or the request's context expires.
Fail(r) ==
    /\ Faults
    /\ pc[r] \in {"check", "write"}
    /\ Answer(r, "failed")
    /\ UNCHANGED tables

Return(r) ==
    /\ pc[r] \in {"ok", "failed"}
    /\ Answer(r, "idle")
    /\ UNCHANGED tables

\* Applications are created and move through their statuses, in a request of
\* ApplicationWorkflow.
StatusMoves ==
    /\ Cardinality(InFlight) < MaxInFlight
    /\ \E a \in Apps, s \in Statuses : status' = [status EXCEPT ![a] = s]
    /\ UNCHANGED <<figures, items, pc, job>>

Init ==
    /\ status = [a \in Apps |-> None]
    /\ figures = [a \in Apps |-> [k \in Keys |-> None]]
    /\ items = [i \in Items |-> None]
    /\ pc = [r \in Requests |-> "idle"]
    /\ job = [r \in Requests |-> NoJob]

Next ==
    \/ \E r \in Requests :
         \/ BeginUpsert(r) \/ BeginCreate(r) \/ BeginUpdate(r)
         \/ CheckLock(r) \/ Write(r) \/ WriteLost(r) \/ Refused(r) \/ Fail(r) \/ Return(r)
    \/ StatusMoves

Spec == Init /\ [][Next]_vars

-----------------------------------------------------------------------------
(* What has to hold.                                                       *)

TypeOK ==
    /\ status \in [Apps -> Statuses \cup {None}]
    /\ figures \in [Apps -> [Keys -> Amounts \cup {None}]]
    /\ items \in [Items -> ItemRows \cup {None}]
    /\ pc \in [Requests -> {"idle", "check", "write", "ok", "failed"}]
    /\ job \in [Requests -> Jobs]

RecordsOf(a) == <<figures[a], [i \in Items |-> IF items[i] # None /\ items[i].app = a
                                               THEN items[i] ELSE None]>>

(***************************************************************************)
(* Whatever the interleaving with the workflow and with each other, and    *)
(* however replies get lost: the records of an application change only by  *)
(* a request whose own check saw that application in a working status, and *)
(* once for each such check (biz/financial.go:84).  Holds while clients    *)
(* name an item's own application and the status lookup answers.           *)
(***************************************************************************)
Locks == INSTANCE LockedRecords WITH
    records <- [a \in Apps |-> RecordsOf(a)],
    permits <- {<<r, job[r].app>> : r \in {q \in Requests : pc[q] = "write"}}

RecordsProtected == Locks!Spec

\* The financial data of a terminal application cannot be modified
\* (biz/financial.go:91).
FinancialDataFrozen ==
    [][\A a \in Apps : status[a] \in Terminal => RecordsOf(a)' = RecordsOf(a)]_vars

=============================================================================
