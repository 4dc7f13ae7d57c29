------------------------------ MODULE Handlers ------------------------------
(***************************************************************************)
(* The requests the gRPC handlers work on, as AttributeCatalog and         *)
(* CaseFile see them: each request begins once, takes one step per         *)
(* database statement, and is answered or fails.                           *)
(*                                                                         *)
(* A statement outside a transaction commits by itself; one inside a       *)
(* transaction keeps the rows it locked until the transaction ends         *)
(* (Data.InTx).                                                            *)
(***************************************************************************)
CONSTANTS
    Requests,
    None,       \* no row, no value, an id that no row has
    Faults      \* TRUE: statements fail, and answers are lost after a commit

VARIABLES
    pc,      \* pc[r]: the statement request r runs next
    job,     \* job[r]: what was asked, and what has been read for it
    holds    \* holds[r]: the rows the transaction of r has locked

handlerVars == <<pc, job, holds>>

NoJob == [op |-> None]
Ended == {"ok", "failed"}

Goto(r, step) == pc' = [pc EXCEPT ![r] = step]

Begin(r, step, what) ==
    /\ pc[r] = "idle"
    /\ Goto(r, step)
    /\ job' = [job EXCEPT ![r] = what]
    /\ UNCHANGED holds

\* Seeded fault: an error leaves the transaction open.
FailHolding(r) == Goto(r, "failed") /\ UNCHANGED <<job, holds>>

\* The call returns an error; InTx has rolled back an open transaction.
Fail(r) ==
    /\ Goto(r, "failed")
    /\ holds' = [holds EXCEPT ![r] = {}]
    /\ UNCHANGED job

\* The call is answered, what says with what.  The statement is committed by
\* then; the client may still see an error, when the connection breaks.
Finish(r, what) ==
    /\ \E end \in {"ok"} \cup {e \in {"failed"} : Faults} : Goto(r, end)
    /\ job' = [job EXCEPT ![r] = what]
    /\ holds' = [holds EXCEPT ![r] = {}]

\* The statement fails before it has any effect, or the context has expired.
StatementFails(r) ==
    /\ Faults
    /\ pc[r] \notin Ended \cup {"idle"}
    /\ Fail(r)

HandlersInit ==
    /\ pc = [r \in Requests |-> "idle"]
    /\ job = [r \in Requests |-> NoJob]
    /\ holds = [r \in Requests |-> {}]
=============================================================================
