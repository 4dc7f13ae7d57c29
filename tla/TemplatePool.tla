---------------------------- MODULE TemplatePool ----------------------------
(***************************************************************************)
(* GetSurveyTemplate and the shared pool of database connections.          *)
(*                                                                         *)
(* surveyRepo.GetSurveyTemplate (internal/data/survey.go:66) reads the     *)
(* sections of a template with one query, and inside that loop the         *)
(* questions of a section, and inside that one the options of a question.  *)
(* Each query keeps its connection until its rows are closed, so one       *)
(* request holds up to three connections and waits for the second and the  *)
(* third one while it keeps the others.  Every other request (Others)      *)
(* needs one connection at a time.  The pool is the one of NewData:        *)
(* at most MaxOpenConns connections, and whoever finds none waits for as   *)
(* long as its context lives.                                              *)
(***************************************************************************)
EXTENDS Naturals, FiniteSets

CONSTANTS
    Readers,        \* requests running GetSurveyTemplate
    Others,         \* requests that use one connection
    MaxOpenConns,   \* SetMaxOpenConns
    NSections,      \* sections of the template
    NQuestions,     \* questions of each section
    Timeouts,       \* TRUE: the server's timeout can end a request
    Faults          \* TRUE: statements fail, rows cannot be scanned, connections break

ASSUME PoolAssumption ==
    /\ Readers \cap Others = {}
    /\ IsFiniteSet(Readers) /\ IsFiniteSet(Others)
    /\ {MaxOpenConns, NSections, NQuestions} \subseteq Nat
    /\ {Timeouts, Faults} \subseteq BOOLEAN

Requests == Readers \cup Others

VARIABLES
    open,      \* connections in use: <<request, nesting level of the query>>
    pc,        \* pc[p]: the query p runs or waits for
    at,        \* at[r]: the section and question reader r is in
    answer,    \* answer[r]: the parts it has collected
    intact     \* intact[p]: no statement or Scan failed, its context lives

vars == <<open, pc, at, answer, intact>>

Slots == (Readers \X (1..3)) \cup (Others \X {1})

\* A section, a question of it, the options of that question.
SectionPart(s)     == <<"section", s, 0>>
QuestionPart(s, q) == <<"question", s, q>>
OptionsPart(s, q)  == <<"options", s, q>>

Parts == {"section", "question", "options"} \X (0..NSections) \X (0..NQuestions)

WholeTemplate ==
    {SectionPart(s) : s \in 1..NSections}
        \cup {QuestionPart(s, q) : s \in 1..NSections, q \in 1..NQuestions}
        \cup {OptionsPart(s, q) : s \in 1..NSections, q \in 1..NQuestions}

Waiting == {"template", "sections", "questions", "options", "query"}
Reading == {"section", "question", "option", "busy"}
Done    == {"idle", "ok", "failed"}

Busy(p) == pc[p] \notin Done

\* A connection is free.
Available == Cardinality(open) < MaxOpenConns

Goto(p, step) == pc' = [pc EXCEPT ![p] = step]

Collect(r, parts) == answer' = [answer EXCEPT ![r] = @ \cup parts]

Fails(p) == Faults /\ intact' = [intact EXCEPT ![p] = FALSE]

-----------------------------------------------------------------------------
(* GetSurveyTemplate.                                                      *)

Begin(r) ==
    /\ pc[r] = "idle"
    /\ Goto(r, "template")
    /\ UNCHANGED <<open, at, answer, intact>>

\* QueryRowContext(...).Scan takes a connection and gives it back.
ReadTemplate(r) ==
    /\ pc[r] = "template"
    /\ Available
    /\ Goto(r, "sections")
    /\ UNCHANGED <<open, at, answer, intact>>

TemplateFails(r) ==
    /\ pc[r] \in {"template", "sections"}
    /\ Fails(r)
    /\ Goto(r, "failed")
    /\ UNCHANGED <<open, at, answer>>

OpenSections(r) ==
    /\ pc[r] = "sections"
    /\ Available
    /\ open' = open \cup {<<r, 1>>}
    /\ at' = [at EXCEPT ![r] = [section |-> 0, question |-> 0]]
    /\ Goto(r, "section")
    /\ UNCHANGED <<answer, intact>>

\* for rows.Next() over the sections.
NextSection(r) ==
    /\ pc[r] = "section"
    /\ at[r].section < NSections
    /\ at' = [at EXCEPT ![r] = [section |-> @.section + 1, question |-> 0]]
    /\ Goto(r, "questions")
    /\ UNCHANGED <<open, answer, intact>>

\* The end of that loop, and the deferred rows.Close().
CloseSections(r) ==
    /\ open' = open \ {<<r, 1>>}
    /\ Goto(r, "ok")
    /\ UNCHANGED <<at, answer>>

EndSections(r) ==
    /\ pc[r] = "section"
    /\ at[r].section = NSections
    /\ CloseSections(r)
    /\ UNCHANGED intact

\* The connection breaks between two rows: Next returns false, and nobody
\* looks at rows.Err().
SectionsBreak(r) ==
    /\ pc[r] = "section"
    /\ Fails(r)
    /\ CloseSections(r)

\* Scan cannot read a section's row: the request fails, its rows are closed.
SectionUnreadable(r) ==
    /\ pc[r] = "section"
    /\ at[r].section < NSections
    /\ Fails(r)
    /\ open' = open \ {<<r, 1>>}
    /\ Goto(r, "failed")
    /\ UNCHANGED <<at, answer>>

OpenQuestions(r) ==
    /\ pc[r] = "questions"
    /\ Available
    /\ open' = open \cup {<<r, 2>>}
    /\ Goto(r, "question")
    /\ UNCHANGED <<at, answer, intact>>

\* The query fails: the section is kept, without questions.
QuestionsFail(r) ==
    /\ pc[r] = "questions"
    /\ Fails(r)
    /\ Collect(r, {SectionPart(at[r].section)})
    /\ Goto(r, "section")
    /\ UNCHANGED <<open, at>>

\* Seeded fault: the loop runs once more after the last row.
QuestionPastTheEnd(r) ==
    /\ pc[r] = "question"
    /\ at[r].question <= NQuestions
    /\ at' = [at EXCEPT ![r].question = @ + 1]
    /\ Goto(r, "options")
    /\ UNCHANGED <<open, answer, intact>>

NextQuestion(r) ==
    /\ pc[r] = "question"
    /\ at[r].question < NQuestions
    /\ at' = [at EXCEPT ![r].question = @ + 1]
    /\ Goto(r, "options")
    /\ UNCHANGED <<open, answer, intact>>

\* Scan cannot read a question's row: it is skipped, with its options.
QuestionUnreadable(r) ==
    /\ pc[r] = "question"
    /\ at[r].question < NQuestions
    /\ Fails(r)
    /\ at' = [at EXCEPT ![r].question = @ + 1]
    /\ Goto(r, "question")
    /\ UNCHANGED <<open, answer>>

\* Seeded fault: the questions' rows stay open until the function returns.
QuestionsKeptOpen(r) ==
    /\ Collect(r, {SectionPart(at[r].section)})
    /\ Goto(r, "section")
    /\ UNCHANGED <<open, at>>

CloseQuestions(r) ==
    /\ open' = open \ {<<r, 2>>}
    /\ Collect(r, {SectionPart(at[r].section)})
    /\ Goto(r, "section")
    /\ UNCHANGED at

EndQuestions(r) ==
    /\ pc[r] = "question"
    /\ at[r].question = NQuestions
    /\ CloseQuestions(r)
    /\ UNCHANGED intact

QuestionsBreak(r) ==
    /\ pc[r] = "question"
    /\ Fails(r)
    /\ CloseQuestions(r)

\* The question the loop is in is appended after its options, with or without.
AppendQuestion(r, options) ==
    /\ Collect(r, {QuestionPart(at[r].section, at[r].question)} \cup options)
    /\ Goto(r, "question")
    /\ UNCHANGED at

OpenOptions(r) ==
    /\ pc[r] = "options"
    /\ Available
    /\ open' = open \cup {<<r, 3>>}
    /\ Goto(r, "option")
    /\ UNCHANGED <<at, answer, intact>>

\* The query fails: the question is kept, without options.
OptionsFail(r) ==
    /\ pc[r] = "options"
    /\ Fails(r)
    /\ AppendQuestion(r, {})
    /\ UNCHANGED open

\* Seeded fault: the options are read into a question that is not kept.
OptionsLost(r) ==
    /\ pc[r] = "option"
    /\ open' = open \ {<<r, 3>>}
    /\ AppendQuestion(r, {})
    /\ UNCHANGED intact

\* Seeded fault: oRows.Close() is left out and the rows stay open.
OptionsKeptOpen(r) ==
    /\ pc[r] = "option"
    /\ AppendQuestion(r, {OptionsPart(at[r].section, at[r].question)})
    /\ UNCHANGED <<open, intact>>

ReadOptions(r) ==
    /\ pc[r] = "option"
    /\ open' = open \ {<<r, 3>>}
    /\ AppendQuestion(r, {OptionsPart(at[r].section, at[r].question)})
    /\ UNCHANGED intact

\* The connection breaks between two options, or Scan cannot read one and it is
\* skipped: either way the question is kept without all its options.
OptionsBreak(r) ==
    /\ pc[r] = "option"
    /\ Fails(r)
    /\ open' = open \ {<<r, 3>>}
    /\ AppendQuestion(r, {})

-----------------------------------------------------------------------------
(* Every other request.                                                    *)

BeginOther(p) ==
    /\ pc[p] = "idle"
    /\ Goto(p, "query")
    /\ UNCHANGED <<open, at, answer, intact>>

Query(p) ==
    /\ pc[p] = "query"
    /\ Available
    /\ open' = open \cup {<<p, 1>>}
    /\ Goto(p, "busy")
    /\ UNCHANGED <<at, answer, intact>>

Release(p) ==
    /\ pc[p] = "busy"
    /\ open' = open \ {<<p, 1>>}
    /\ Goto(p, "ok")
    /\ UNCHANGED <<at, answer, intact>>

-----------------------------------------------------------------------------
(* The server's timeout.                                                   *)

ClosedRows(p) == open \ {slot \in open : slot[1] = p}

\* What the loops a reader is in still append once their rows are closed.
Unfinished(r) ==
    IF r \notin Readers \/ pc[r] \in {"template", "sections", "section"} THEN {}
    ELSE {SectionPart(at[r].section)}
         \cup (IF pc[r] \in {"options", "option"}
               THEN {QuestionPart(at[r].section, at[r].question)} ELSE {})

\* The first two queries report the end of the context.  After them the loops
\* just end and what they collected is the answer, but for the Scan of a section
\* that Next has already found when the rows are closed: it fails the request.
Expired(p) ==
    IF pc[p] \in {"template", "sections", "query", "busy"} THEN {"failed"}
    ELSE IF at[p].section < NSections THEN {"ok", "failed"} ELSE {"ok"}

\* Seeded fault: QueryContext without the request's context, so that nobody who
\* waits for a connection notices that the time is over.
ExpireReading(p) ==
    /\ Timeouts
    /\ pc[p] \in Reading
    /\ open' = ClosedRows(p)
    /\ intact' = [intact EXCEPT ![p] = FALSE]
    /\ Collect(p, Unfinished(p))
    /\ \E outcome \in Expired(p) : Goto(p, outcome)
    /\ UNCHANGED at

(***************************************************************************)
(* The context expires: database/sql closes the rows and every further     *)
(* query fails at once.                                                    *)
(***************************************************************************)
Expire(p) ==
    /\ Timeouts
    /\ Busy(p)
    /\ open' = ClosedRows(p)
    /\ intact' = [intact EXCEPT ![p] = FALSE]
    /\ Collect(p, Unfinished(p))
    /\ \E outcome \in Expired(p) : Goto(p, outcome)
    /\ UNCHANGED at

Return(p) ==
    /\ pc[p] \in {"ok", "failed"}
    /\ Goto(p, "idle")
    /\ answer' = [answer EXCEPT ![p] = {}]
    /\ intact' = [intact EXCEPT ![p] = TRUE]
    /\ UNCHANGED <<open, at>>

Init ==
    /\ open = {}
    /\ pc = [p \in Requests |-> "idle"]
    /\ at = [p \in Requests |-> [section |-> 0, question |-> 0]]
    /\ answer = [p \in Requests |-> {}]
    /\ intact = [p \in Requests |-> TRUE]

\* Steps that need a free connection.
Acquire(p) ==
    \/ p \in Readers /\ (ReadTemplate(p) \/ OpenSections(p) \/ OpenQuestions(p)
                            \/ OpenOptions(p))
    \/ p \in Others /\ Query(p)

\* Steps that do not.
Proceed(p) ==
    \/ p \in Readers /\ (NextSection(p) \/ EndSections(p) \/ NextQuestion(p)
                            \/ EndQuestions(p) \/ ReadOptions(p))
    \/ p \in Others /\ Release(p)
    \/ Return(p)

Arrive(p) == (p \in Readers /\ Begin(p)) \/ (p \in Others /\ BeginOther(p))

Break(r) ==
    \/ TemplateFails(r) \/ SectionsBreak(r) \/ SectionUnreadable(r) \/ QuestionsFail(r)
    \/ QuestionsBreak(r) \/ QuestionUnreadable(r) \/ OptionsFail(r) \/ OptionsBreak(r)

Next ==
    \/ \E p \in Requests : Arrive(p) \/ Acquire(p) \/ Proceed(p) \/ Expire(p)
    \/ \E r \in Readers : Break(r)

Spec == Init /\ [][Next]_vars

(***************************************************************************)
(* Goroutines run, database/sql serves waiting requests in the order they  *)
(* came (a waiter gets a connection although it is free only now and       *)
(* then), and with Timeouts every context expires in the end.              *)
(***************************************************************************)
Fairness ==
    \A p \in Requests : WF_vars(Proceed(p)) /\ SF_vars(Acquire(p)) /\ WF_vars(Expire(p))

FairSpec == Spec /\ Fairness

-----------------------------------------------------------------------------

TypeOK ==
    /\ open \in SUBSET Slots
    /\ pc \in [Requests -> Waiting \cup Reading \cup Done]
    /\ at \in [Requests -> [section : 0..NSections, question : 0..NQuestions]]
    /\ answer \in [Requests -> SUBSET Parts]
    /\ intact \in [Requests -> BOOLEAN]

\* How many connections a request has, by the query it is at.
Depth(step) ==
    CASE step \in {"section", "questions", "busy"} -> 1
      [] step \in {"question", "options"}          -> 2
      [] step = "option"                           -> 3
      [] OTHER                                     -> 0

\* No connection leaks: on every path, the early and the failing ones too, the
\* connections in use are those of the loops the requests are in (the Close
\* calls of data/survey.go:90-142).
NoLeak == open = {slot \in Slots : slot[2] <= Depth(pc[slot[1]])}

(***************************************************************************)
(* While the pool has more than two connections for every GetSurveyTemplate*)
(* that runs (data.go:38 sets 25), nobody waits in vain: a connection is   *)
(* free, or somebody who has one is not waiting.                           *)
(***************************************************************************)
NeverAllWaiting ==
    /\ MaxOpenConns > 2 * Cardinality({r \in Readers : Busy(r)})
    /\ \E p \in Requests : pc[p] \in Waiting
    => Available \/ \E p \in Requests : pc[p] \in Reading

\* A template is answered incomplete only if a statement or a Scan of this very
\* request failed or its context expired: contention alone never loses a part.
PartsLostOnlyByFailure ==
    \A r \in Readers : pc[r] = "ok" /\ intact[r] => answer[r] = WholeTemplate

\* Nobody waits for a connection forever.
EveryRequestAnswered == \A p \in Requests : Busy(p) ~> ~Busy(p)

=============================================================================
