------------------------------ MODULE CaseFile ------------------------------
(***************************************************************************)
(* What is filed beside an application: committee sessions, votes and      *)
(* committee decisions, final decisions (internal/service/decision.go,     *)
(* internal/data/decision.go), documents and parties                       *)
(* (internal/service/application.go, internal/data/application.go).        *)
(*                                                                         *)
(* Every operation is one INSERT or one SELECT, nothing is ever updated or *)
(* deleted.  A row is known by its id, the request that inserted it; what  *)
(* it says beside the row it belongs to is not modelled, except for the    *)
(* SLIK flag of a party, which the answer repeats from the request.        *)
(***************************************************************************)
EXTENDS Handlers

CONSTANTS
    Applications,
    Parties,
    Roles

ASSUME CaseFileAssumption ==
    /\ Applications # {}
    /\ "seed" \notin Requests
    /\ None \notin BOOLEAN

VARIABLES
    file,     \* the rows of the five tables with generated ids
    parties   \* parties[p, a, role]: the SLIK flag of that row, or None: no row

fileVars == <<file, parties>>

Filed == {"session", "vote", "committee decision", "decision", "document"}

\* Votes and committee decisions belong to a session, the others to an
\* application.
OfSession == {"vote", "committee decision"}

SeedSession(a) == [table |-> "session", id |-> "seed", of |-> a]

IdsIn(table) == {row.id : row \in {x \in file : x.table = table}}

ParentExists(table, of) ==
    IF table \in OfSession THEN of \in IdsIn("session") ELSE of \in Applications

RowsOf(table, of) == {row \in file : row.table = table /\ row.of = of}
PartiesOf(a) == {k \in Parties \X {a} \X Roles : parties[k] # None}

FileInit ==
    /\ file = {SeedSession(a) : a \in {CHOOSE x \in Applications : TRUE}}
    /\ parties = [k \in Parties \X Applications \X Roles |-> None]

-----------------------------------------------------------------------------
(* CreateCommitteeSession, SubmitCommitteeVote, FinalizeCommitteeDecision, *)
(* RecordFinalDecision, UploadApplicationDocument.                         *)

BeginFile(r) ==
    /\ \E table \in Filed :
       \E of \in Applications \cup Requests \cup {"seed", None} :
          /\ table \in OfSession => of \notin Applications
          /\ table \notin OfSession => of \in Applications \cup {None}
          /\ Begin(r, "insert", [op |-> "file", row |-> [table |-> table, id |-> r, of |-> of]])
    /\ UNCHANGED fileVars

\* Seeded fault: the reference to the session or application is not checked.
InsertUnchecked(r) ==
    /\ pc[r] = "insert"
    /\ file' = file \cup {job[r].row}
    /\ Finish(r, job[r])
    /\ UNCHANGED parties

Insert(r) ==
    /\ pc[r] = "insert"
    /\ ParentExists(job[r].row.table, job[r].row.of)
    /\ file' = file \cup {job[r].row}
    /\ Finish(r, job[r])
    /\ UNCHANGED parties

InsertRefused(r) ==
    /\ pc[r] = "insert"
    /\ ~ ParentExists(job[r].row.table, job[r].row.of)
    /\ Fail(r)
    /\ UNCHANGED fileVars

-----------------------------------------------------------------------------
(* AddPartyToApplication, RemovePartyFromApplication.                      *)

BeginParty(r) ==
    /\ \E key \in DOMAIN parties \cup {<<None, None, None>>} :
          \/ \E slik \in BOOLEAN :
                Begin(r, "add party", [op |-> "add party", key |-> key, slik |-> slik])
          \/ Begin(r, "remove party", [op |-> "remove party", key |-> key])
    /\ UNCHANGED fileVars

\* The key of the table is (application, party, role): a second row for it is
\* refused, like a party or an application that does not exist (None).
CanAdd(key) == key \in DOMAIN parties /\ parties[key] = None

\* Seeded fault: ON CONFLICT DO NOTHING, and the answer echoes the request.
AddOrKeep(r) ==
    /\ pc[r] = "add party"
    /\ job[r].key \in DOMAIN parties
    /\ parties' = [parties EXCEPT ![job[r].key] = IF @ = None THEN job[r].slik ELSE @]
    /\ Finish(r, job[r])
    /\ UNCHANGED file

AddParty(r) ==
    /\ pc[r] = "add party"
    /\ CanAdd(job[r].key)
    /\ parties' = [parties EXCEPT ![job[r].key] = job[r].slik]
    /\ Finish(r, job[r])
    /\ UNCHANGED file

AddPartyRefused(r) ==
    /\ pc[r] = "add party"
    /\ ~ CanAdd(job[r].key)
    /\ Fail(r)
    /\ UNCHANGED fileVars

\* Answered with success, and nothing is removed.
RemoveParty(r) ==
    /\ pc[r] = "remove party"
    /\ Finish(r, job[r])
    /\ UNCHANGED fileVars

-----------------------------------------------------------------------------
(* GetApplicationDecision, ListApplicationDocuments, ListApplicationParties. *)

\* history: what was answered with success before a read of application a began.
AnsweredRows(table, a) ==
    {job[q].row : q \in {x \in Requests : pc[x] = "ok" /\ job[x].op = "file"
                                            /\ job[x].row.table = table /\ job[x].row.of = a}}

AnsweredParties(a) ==
    {job[q].key : q \in {x \in Requests : pc[x] = "ok" /\ job[x].op = "add party"
                                            /\ job[x].key[2] = a}}

BeginRead(r) ==
    /\ \E a \in Applications :
       \E what \in {<<"get decision", AnsweredRows("decision", a)>>,
                    <<"list documents", AnsweredRows("document", a)>>,
                    <<"list parties", AnsweredParties(a)>>} :
          Begin(r, what[1], [op |-> what[1], of |-> a, known |-> what[2], reply |-> {}])
    /\ UNCHANGED fileVars

Reply(r, rows) == Finish(r, [job[r] EXCEPT !.reply = rows])

\* One row of several, of no particular order; NotFound if there is none.
GetDecision(r) ==
    /\ pc[r] = "get decision"
    /\ LET found == RowsOf("decision", job[r].of)
       IN  IF found = {} THEN Reply(r, {}) ELSE \E row \in found : Reply(r, {row})
    /\ UNCHANGED fileVars

ListDocuments(r) ==
    /\ pc[r] = "list documents"
    /\ Reply(r, RowsOf("document", job[r].of))
    /\ UNCHANGED fileVars

\* Seeded fault: the query asks for the parties that need a SLIK check.
ListSlikParties(r) ==
    /\ pc[r] = "list parties"
    /\ Reply(r, {k \in PartiesOf(job[r].of) : parties[k]})
    /\ UNCHANGED fileVars

ListParties(r) ==
    /\ pc[r] = "list parties"
    /\ Reply(r, PartiesOf(job[r].of))
    /\ UNCHANGED fileVars

-----------------------------------------------------------------------------
BeginCaseFile(r) == BeginFile(r) \/ BeginParty(r) \/ BeginRead(r)

CaseFileStep(r) ==
    \/ Insert(r) \/ InsertRefused(r)
    \/ AddParty(r) \/ AddPartyRefused(r) \/ RemoveParty(r)
    \/ GetDecision(r) \/ ListDocuments(r) \/ ListParties(r)

-----------------------------------------------------------------------------
(* Properties.                                                             *)

\* Rows have their types, an id names one row, and the chain of foreign keys
\* of migrations 00031 to 00036 holds: no vote and no committee decision
\* without a session, nothing without an application.
FileTypeOK ==
    /\ file \subseteq [table : Filed, id : Requests \cup {"seed"},
                       of : Applications \cup Requests \cup {"seed"}]
    /\ \A x, y \in file : x.table = y.table /\ x.id = y.id => x = y
    /\ \A x \in file : ParentExists(x.table, x.of)
    /\ parties \in [Parties \X Applications \X Roles -> BOOLEAN \cup {None}]

\* What a call was answered with is what is stored, for good and whatever
\* other calls do: the row with its parent (the document's id and time come
\* from the usecase, not from the database), and the flags of a party, which
\* the answer takes from the request.
AnsweredIsStored ==
    \A r \in Requests : pc[r] = "ok" =>
        /\ job[r].op = "file" => job[r].row \in file
        /\ job[r].op = "add party" => parties[job[r].key] = job[r].slik

\* A read finds what was answered before it began: all documents and parties
\* of the application, a decision if one was recorded; and it shows rows of
\* the application it was asked for only.
AckedIsSeen ==
    \A r \in Requests : pc[r] = "ok" =>
        /\ job[r].op \in {"list documents", "list parties"} => job[r].known \subseteq job[r].reply
        /\ job[r].op = "get decision" =>
              /\ job[r].known # {} => job[r].reply # {}
              /\ \A row \in job[r].reply : row.of = job[r].of /\ row.table = "decision"
=============================================================================
