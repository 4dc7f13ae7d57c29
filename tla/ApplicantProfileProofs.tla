----------------------- MODULE ApplicantProfileProofs -----------------------
(***************************************************************************)
(* Theorems about ApplicantProfile for every number of requests,           *)
(* applicants, numbers and attributes, and for every fault setting: its    *)
(* types, that it implements ApplicantStore, and that its answers show     *)
(* what was stored.                                                        *)
(***************************************************************************)
EXTENDS ApplicantProfile, TLAPS

Steps == {"idle", "insert", "find", "findattrs", "row", "ok", "failed"} \cup InTx

Profiles == [row : Rows, attrs : AttrMaps]

(***************************************************************************)
(* Types.  TypeOK alone is not inductive: JobFits says which parameters a  *)
(* request has at each statement.                                          *)
(***************************************************************************)
JobFits(step, j) ==
    /\ step \notin {"idle", "failed"} => j.op \in OpNames /\ j.app \in Applicants
    /\ step \in {"insert", "findattrs", "row", "ok"} \cup InTx => j.row \in Rows
    /\ step = "insert" => j.op = "Create"

TypeInv ==
    /\ TypeOK
    /\ since \in [Requests -> SUBSET Profiles]
    /\ \A r \in Requests : JobFits(pc[r], job[r])

(***************************************************************************)
(* The id of an INSERT is fresh until it is executed: there is no such     *)
(* row, nobody has locked it, nobody else is inserting it.                 *)
(***************************************************************************)
Fresh(r) ==
    /\ rows[job[r].app] = None
    /\ locked[job[r].app] = None
    /\ \A q \in Requests \ {r} : pc[q] = "insert" => job[q].app # job[r].app

FreshInv == \A r \in Requests : pc[r] = "insert" => Fresh(r)

LEMMA NoJobTyped == NoJob \in Jobs /\ NoJob.app = None
BY DEF NoJob, Jobs, NoAttrs, AttrMaps

\* What a step of request r leaves alone.
LEMMA Moved ==
    ASSUME TypeInv, NEW r \in Requests, NEW step, NEW j, Goto(r, step, j)
    PROVE  /\ pc'[r] = step /\ job'[r] = j
           /\ \A q \in Requests : q # r => pc'[q] = pc[q] /\ job'[q] = job[q]
BY DEF TypeInv, TypeOK, Goto

LEMMA StepTyped ==
    ASSUME TypeInv, NEW r \in Requests, NEW step \in Steps, NEW j \in Jobs,
           Goto(r, step, j),
           JobFits(step, j),
           rows' \in [Applicants -> Rows \cup {None}],
           attrs' \in [Applicants -> AttrMaps],
           locked' \in [Applicants -> Requests \cup {None}],
           since' \in [Requests -> SUBSET Profiles],
           \A a \in Applicants : locked'[a] = r <=> step \in InTx /\ j.app = a,
           \A a \in Applicants, q \in Requests : q # r => (locked'[a] = q <=> locked[a] = q)
    PROVE  TypeInv'
<1>1. /\ pc'[r] = step /\ job'[r] = j
      /\ \A q \in Requests : q # r => pc'[q] = pc[q] /\ job'[q] = job[q]
  BY Moved
<1>2. pc' \in [Requests -> Steps] /\ job' \in [Requests -> Jobs]
  BY DEF TypeInv, TypeOK, Goto, Steps
<1>3. \A q \in Requests : JobFits(pc'[q], job'[q])
  BY <1>1 DEF TypeInv
<1>4. \A a \in Applicants, q \in Requests :
        locked'[a] = q <=> pc'[q] \in InTx /\ job'[q].app = a
  BY <1>1 DEF TypeInv, TypeOK
<1>5. \A q \in Requests :
        pc'[q] \in {"insert", "findattrs", "row", "ok"} \cup InTx => job'[q].row \in Rows
  BY <1>3 DEF JobFits
<1>6. \A q \in Requests : since'[q] \subseteq [row : Rows, attrs : AttrMaps]
  BY DEF Profiles
<1>7. TypeOK'
  BY <1>2, <1>4, <1>5, <1>6 DEF TypeOK, Steps
<1>8. QED
  BY <1>3, <1>7 DEF TypeInv

\* A statement that leaves the tables and the locks alone.
LEMMA LocalTyped ==
    ASSUME TypeInv, NEW r \in Requests, NEW step \in Steps, NEW j \in Jobs,
           Local(r, step, j),
           JobFits(step, j),
           step \in InTx <=> pc[r] \in InTx,
           step \in InTx => j.app = job[r].app
    PROVE  TypeInv'
<1>1. Goto(r, step, j) /\ UNCHANGED <<rows, attrs, locked, since>>
  BY DEF Local, tables
<1>2. /\ rows \in [Applicants -> Rows \cup {None}]
      /\ attrs \in [Applicants -> AttrMaps]
      /\ locked \in [Applicants -> Requests \cup {None}]
      /\ since \in [Requests -> SUBSET Profiles]
      /\ \A a \in Applicants : locked[a] = r <=> pc[r] \in InTx /\ job[r].app = a
  BY DEF TypeInv, TypeOK
<1>3. QED
  BY <1>1, <1>2, StepTyped

LEMMA Released ==
    ASSUME TypeInv, NEW r \in Requests, locked' = Release(locked, r)
    PROVE  /\ locked' \in [Applicants -> Requests \cup {None}]
           /\ \A a \in Applicants : locked'[a] # r
           /\ \A a \in Applicants, q \in Requests : q # r => (locked'[a] = q <=> locked[a] = q)
BY ProfileAssumption DEF TypeInv, TypeOK, Release

LEMMA AbortTyped ==
    ASSUME TypeInv, NEW r \in Requests, Abort(r)
    PROVE  TypeInv'
<1>1. /\ Goto(r, "failed", NoJob) /\ locked' = Release(locked, r)
      /\ UNCHANGED <<rows, attrs>> /\ since' = [since EXCEPT ![r] = {}]
  BY DEF Abort, Forget
<1>2. /\ rows' \in [Applicants -> Rows \cup {None}]
      /\ attrs' \in [Applicants -> AttrMaps]
      /\ since' \in [Requests -> SUBSET Profiles]
  BY <1>1 DEF TypeInv, TypeOK
<1>3. "failed" \in Steps /\ "failed" \notin InTx /\ JobFits("failed", NoJob)
  BY DEF Steps, InTx, JobFits
<1>4. QED
  BY <1>1, <1>2, <1>3, NoJobTyped, Released, StepTyped

\* What a request brings along.
Arrival(r, step, j) ==
    /\ pc[r] = "idle"
    /\ Local(r, step, j)
    /\ j.app \in Applicants
    /\ step = "insert" => /\ j.op = "Create"
                          /\ rows[j.app] = None
                          /\ \A q \in Requests : job[q].app # j.app
    /\ step = "row" => j.op = "Update"
    /\ step = "find" => j.op \in {"Upsert", "Get"}
    /\ step # "find" => j.row \in Rows

LEMMA Arrivals ==
    ASSUME NEW r \in Requests, Arrive(r)
    PROVE  \E step \in {"insert", "row", "find"}, j \in Jobs : Arrival(r, step, j)
<1> USE NoJobTyped DEF Jobs, NoJob, OpNames
<1>1. CASE BeginCreate(r)
  <2>1. PICK a \in Applicants, n \in Numbers \cup {None}, given \in AttrMaps :
          /\ rows[a] = None /\ \A q \in Requests : job[q].app # a
          /\ Begin(r, "insert", [NoJob EXCEPT !.op = "Create", !.app = a, !.row = Columns(n),
                                              !.given = given, !.todo = Sent(given)])
    BY <1>1 DEF BeginCreate
  <2> DEFINE j == [NoJob EXCEPT !.op = "Create", !.app = a, !.row = Columns(n),
                                !.given = given, !.todo = Sent(given)]
  <2>2. Columns(n) \in Rows /\ Sent(given) \subseteq Attributes
    BY DEF Columns, Rows, Sent
  <2>3. j \in Jobs /\ j.op = "Create" /\ j.app = a /\ j.row \in Rows
    BY <2>2
  <2> HIDE DEF j
  <2>4. Arrival(r, "insert", j)
    BY <2>1, <2>3 DEF Arrival, Begin, j
  <2>5. QED
    BY <2>3, <2>4
<1>2. CASE BeginUpdate(r)
  <2>1. PICK a \in Applicants, n \in Numbers \cup {None}, given \in AttrMaps :
          Begin(r, "row", [NoJob EXCEPT !.op = "Update", !.app = a, !.row = Columns(n),
                                        !.given = given, !.todo = Sent(given)])
    BY <1>2 DEF BeginUpdate
  <2> DEFINE j == [NoJob EXCEPT !.op = "Update", !.app = a, !.row = Columns(n),
                                !.given = given, !.todo = Sent(given)]
  <2>2. Columns(n) \in Rows /\ Sent(given) \subseteq Attributes
    BY DEF Columns, Rows, Sent
  <2>3. j \in Jobs /\ j.op = "Update" /\ j.app = a /\ j.row \in Rows
    BY <2>2
  <2> HIDE DEF j
  <2>4. Arrival(r, "row", j)
    BY <2>1, <2>3 DEF Arrival, Begin, j
  <2>5. QED
    BY <2>3, <2>4
<1>3. ASSUME NEW j \in Jobs, Begin(r, "find", j), j.app \in Applicants,
             j.op \in {"Upsert", "Get"}
      PROVE  \E step \in {"insert", "row", "find"}, k \in Jobs : Arrival(r, step, k)
  <2>1. Arrival(r, "find", j)
    BY <1>3 DEF Arrival, Begin
  <2>2. QED
    BY <2>1
<1>4. CASE BeginUpsert(r)
  <2>1. PICK a \in Applicants, given \in AttrMaps :
          Begin(r, "find", [NoJob EXCEPT !.op = "Upsert", !.app = a,
                                         !.given = given, !.todo = Sent(given)])
    BY <1>4 DEF BeginUpsert
  <2>2. Sent(given) \subseteq Attributes
    BY DEF Sent
  <2>3. QED
    BY <1>3, <2>1, <2>2
<1>5. CASE BeginGet(r)
  BY <1>3, <1>5 DEF BeginGet
<1>6. QED
  BY <1>1, <1>2, <1>4, <1>5 DEF Arrive

LEMMA ArriveTyped ==
    ASSUME TypeInv, NEW r \in Requests, Arrive(r)
    PROVE  TypeInv'
<1>1. PICK step \in {"insert", "row", "find"}, j \in Jobs : Arrival(r, step, j)
  BY Arrivals
<1>2. pc[r] = "idle" /\ Local(r, step, j)
  BY <1>1 DEF Arrival
<1>3. step \in Steps /\ step \notin InTx /\ pc[r] \notin InTx /\ JobFits(step, j)
  BY <1>1, <1>2 DEF Arrival, Steps, InTx, JobFits, OpNames
<1>4. QED
  BY <1>2, <1>3, LocalTyped

LEMMA FindTyped ==
    ASSUME TypeInv, NEW r \in Requests, Find(r)
    PROVE  TypeInv'
<1> DEFINE a == job[r].app
           j == [job[r] EXCEPT !.row = rows[a]]
<1>1. /\ pc[r] = "find" /\ rows[a] # None
      /\ Goto(r, "findattrs", j) /\ UNCHANGED <<rows, attrs, locked>>
      /\ since' = [since EXCEPT ![r] = IF @ = {} THEN {Profile(a)} ELSE @]
  BY DEF Find, tables
<1>2. job[r] \in Jobs /\ job[r].op \in OpNames /\ a \in Applicants
  BY <1>1 DEF TypeInv, TypeOK, JobFits, InTx
<1>3. rows[a] \in Rows /\ Profile(a) \in Profiles
  BY <1>1, <1>2 DEF TypeInv, TypeOK, Profile, Profiles
<1>4. j \in Jobs /\ JobFits("findattrs", j)
  BY <1>2, <1>3 DEF Jobs, JobFits
<1>5. since' \in [Requests -> SUBSET Profiles]
  BY <1>1, <1>3 DEF TypeInv
<1>6. "findattrs" \in Steps /\ "findattrs" \notin InTx
  BY DEF Steps, InTx
<1>7. \A b \in Applicants : locked[b] # r
  BY <1>1 DEF TypeInv, TypeOK, InTx
<1> HIDE DEF j
<1>8. QED
  BY <1>1, <1>4, <1>5, <1>6, <1>7, StepTyped DEF TypeInv, TypeOK

LEMMA LockTyped ==
    ASSUME TypeInv, FreshInv, NEW r \in Requests, InsertRow(r) \/ UpdateRow(r)
    PROVE  TypeInv'
<1> DEFINE a == job[r].app
<1>1. /\ pc[r] \in {"insert", "row"} /\ locked[a] = None
      /\ locked' = [locked EXCEPT ![a] = r]
      /\ Goto(r, "index", job[r]) /\ UNCHANGED <<rows, attrs, since>>
  BY DEF InsertRow, UpdateRow, FreshInv, Fresh
<1>2. job[r] \in Jobs /\ a \in Applicants /\ JobFits("index", job[r])
  BY <1>1 DEF TypeInv, TypeOK, JobFits, InTx
<1>3. /\ \A b \in Applicants : locked[b] # r
      /\ "index" \in Steps /\ "index" \in InTx
  BY <1>1 DEF TypeInv, TypeOK, InTx, Steps
<1>4. /\ locked' \in [Applicants -> Requests \cup {None}]
      /\ \A b \in Applicants : locked'[b] = r <=> b = a
      /\ \A b \in Applicants, q \in Requests : q # r => (locked'[b] = q <=> locked[b] = q)
  BY <1>1, <1>2, <1>3, ProfileAssumption DEF TypeInv, TypeOK
<1>5. QED
  BY <1>1, <1>2, <1>3, <1>4, StepTyped DEF TypeInv, TypeOK

LEMMA OverwriteTyped ==
    ASSUME NEW old \in AttrMaps, NEW given \in AttrMaps
    PROVE  Overwrite(old, given) \in AttrMaps
BY DEF Overwrite, AttrMaps

LEMMA CommitTyped ==
    ASSUME TypeInv, NEW r \in Requests, Committed(r) \/ CommitLost(r)
    PROVE  TypeInv'
<1> DEFINE a == job[r].app
           new == [row |-> job[r].row, attrs |-> Overwrite(attrs[a], job[r].given)]
<1>1. /\ pc[r] = "commit"
      /\ rows' = [rows EXCEPT ![a] = new.row]
      /\ attrs' = [attrs EXCEPT ![a] = new.attrs]
      /\ locked' = Release(locked, r)
      /\ since' = [q \in Requests |->
                     IF q = r THEN {new}
                     ELSE IF job[q].app = a /\ since[q] # {} THEN since[q] \cup {new}
                     ELSE since[q]]
  BY DEF Committed, CommitLost, Commit
<1>2. /\ job[r] \in Jobs /\ a \in Applicants /\ job[r].row \in Rows
      /\ job[r].op \in OpNames
  BY <1>1 DEF TypeInv, TypeOK, JobFits, InTx
<1>3. new \in Profiles
  BY <1>2, OverwriteTyped DEF Profiles, Jobs, TypeInv, TypeOK
<1>4. /\ rows' \in [Applicants -> Rows \cup {None}]
      /\ attrs' \in [Applicants -> AttrMaps]
  BY <1>1, <1>3 DEF TypeInv, TypeOK, Profiles
<1> HIDE DEF new
<1>5. since' \in [Requests -> SUBSET Profiles]
  BY <1>1, <1>3 DEF TypeInv
<1>6. ASSUME NEW step \in Steps \ InTx, NEW j \in Jobs, Goto(r, step, j), JobFits(step, j)
      PROVE  TypeInv'
  BY <1>1, <1>4, <1>5, <1>6, Released, StepTyped
<1>7. CASE CommitLost(r)
  <2>1. "failed" \in Steps \ InTx /\ JobFits("failed", NoJob)
    BY DEF Steps, InTx, JobFits
  <2>2. QED
    BY <1>6, <1>7, <2>1, NoJobTyped DEF CommitLost
<1>8. CASE Committed(r)
  <2> DEFINE j == [job[r] EXCEPT !.given = NoAttrs]
             step == AfterCommit(job[r].op)
  <2>1. j \in Jobs /\ j.row = job[r].row /\ j.app = a /\ j.op = job[r].op
    BY <1>2 DEF Jobs, NoAttrs, AttrMaps
  <2>2. step \in {"ok", "find"}
    BY DEF AfterCommit
  <2>3. Goto(r, step, j)
    BY <1>8 DEF Committed
  <2> HIDE DEF j, step
  <2>4. step \in Steps \ InTx /\ JobFits(step, j)
    BY <1>2, <2>1, <2>2 DEF Steps, InTx, JobFits
  <2>5. QED
    BY <1>6, <2>1, <2>3, <2>4
<1>9. QED
  BY <1>7, <1>8

(* What a step of request r is, by what it changes.                        *)
Locks(r) == InsertRow(r) \/ UpdateRow(r)

Commits(r) == Committed(r) \/ CommitLost(r)

LEMMA StepKinds ==
    ASSUME NEW r \in Requests,
           Arrive(r) \/ Work(r) \/ CommitLost(r) \/ Fail(r) \/ DeadlockDetected(r)
    PROVE  \/ Arrive(r) \/ NotFound(r) \/ Find(r) \/ FindAttributes(r)
           \/ Locks(r) \/ EnterNumber(r) \/ UpsertAttribute(r) \/ Prepared(r)
           \/ Commits(r) \/ Abort(r)
BY DEF Work, NumberTaken, UnknownAttribute, Fail, DeadlockDetected, Locks, Commits

LEMMA NextTyped ==
    TypeInv /\ FreshInv /\ [Next]_vars => TypeInv'
<1> SUFFICES ASSUME TypeInv, FreshInv, [Next]_vars PROVE TypeInv'
  OBVIOUS
<1>1. CASE UNCHANGED vars
  BY <1>1 DEF vars, tables, TypeInv, TypeOK, JobFits
<1>2. ASSUME NEW r \in Requests,
             Arrive(r) \/ Work(r) \/ CommitLost(r) \/ Fail(r) \/ DeadlockDetected(r)
      PROVE  TypeInv'
  <2>1. job[r] \in Jobs /\ JobFits(pc[r], job[r])
    BY DEF TypeInv, TypeOK
  <2>2. CASE NotFound(r)
    <3>1. /\ "failed" \in Steps /\ "failed" \notin InTx /\ JobFits("failed", NoJob)
          /\ pc[r] \notin InTx
      BY <2>2 DEF Steps, InTx, JobFits, NotFound
    <3>2. QED
      BY <2>2, <3>1, NoJobTyped, LocalTyped DEF NotFound
  <2>3. CASE FindAttributes(r)
    <3> DEFINE j == [job[r] EXCEPT !.reply = attrs[job[r].app]]
               step == AfterFind(job[r].op)
    <3>1. pc[r] = "findattrs" /\ Local(r, step, j) /\ step \in {"row", "ok"}
      BY <2>3 DEF FindAttributes, AfterFind
    <3>2. j \in Jobs /\ JobFits("ok", j) /\ JobFits("row", j)
      BY <2>1, <3>1 DEF Jobs, JobFits, TypeInv, TypeOK
    <3> HIDE DEF j, step
    <3>3. step \in Steps /\ step \notin InTx /\ pc[r] \notin InTx
      BY <3>1 DEF Steps, InTx
    <3>4. QED
      BY <3>1, <3>2, <3>3, LocalTyped
  <2>4. ASSUME NEW step \in InTx, NEW j \in Jobs, Local(r, step, j), pc[r] \in InTx,
               j.app = job[r].app, j.op = job[r].op, j.row = job[r].row
        PROVE  TypeInv'
    <3>1. step \in Steps /\ JobFits(step, j)
      BY <2>1, <2>4 DEF Steps, JobFits, InTx
    <3>2. QED
      BY <2>4, <3>1, LocalTyped
  <2>5. CASE EnterNumber(r) \/ Prepared(r)
    BY <2>1, <2>4, <2>5 DEF EnterNumber, Prepared, InTx
  <2>6. CASE UpsertAttribute(r)
    <3>1. PICK t : Local(r, "attributes", [job[r] EXCEPT !.todo = @ \ {t}])
      BY <2>6 DEF UpsertAttribute
    <3> DEFINE j == [job[r] EXCEPT !.todo = @ \ {t}]
    <3>2. /\ j \in Jobs
          /\ j.app = job[r].app /\ j.op = job[r].op /\ j.row = job[r].row
      BY <2>1 DEF Jobs
    <3> HIDE DEF j
    <3>3. pc[r] = "attributes" /\ "attributes" \in InTx
      BY <2>6 DEF UpsertAttribute, InTx
    <3>4. QED
      BY <2>4, <3>1, <3>2, <3>3 DEF j
  <2>7. QED
    BY <1>2, <2>2, <2>3, <2>5, <2>6, StepKinds,
       ArriveTyped, FindTyped, LockTyped, CommitTyped, AbortTyped
       DEF Locks, Commits
<1>3. QED
  BY <1>1, <1>2 DEF Next

LEMMA InitTyped == Init => TypeInv /\ FreshInv
<1> SUFFICES ASSUME Init PROVE TypeInv /\ FreshInv
  OBVIOUS
<1>1. rows \in [Applicants -> Rows \cup {None}]
  BY DEF Init, Rows
<1>2. NoAttrs \in AttrMaps
  BY DEF NoAttrs, AttrMaps
<1>3. QED
  BY <1>1, <1>2, NoJobTyped, ProfileAssumption
     DEF Init, TypeInv, TypeOK, JobFits, FreshInv, InTx

\* A step of request r that inserts nothing and keeps the ids of others fresh.
LEMMA StepFresh ==
    ASSUME TypeInv, FreshInv, NEW r \in Requests, NEW step, NEW j,
           Goto(r, step, j), step # "insert",
           \A q \in Requests \ {r} :
             pc[q] = "insert" =>
               rows'[job[q].app] = rows[job[q].app] /\ locked'[job[q].app] = None
    PROVE  FreshInv'
<1>1. /\ pc'[r] = step /\ job'[r] = j
      /\ \A q \in Requests : q # r => pc'[q] = pc[q] /\ job'[q] = job[q]
  BY Moved
<1>2. ASSUME NEW q \in Requests, pc'[q] = "insert"
      PROVE  Fresh(q)'
  <2>1. q # r /\ pc[q] = "insert" /\ job'[q] = job[q] /\ Fresh(q)
    BY <1>1, <1>2 DEF FreshInv
  <2>2. \A p \in Requests \ {q} : pc'[p] = "insert" => job'[p].app # job'[q].app
    BY <1>1, <2>1 DEF Fresh
  <2>3. QED
    BY <2>1, <2>2 DEF Fresh
<1>3. QED
  BY <1>2 DEF FreshInv

LEMMA NextFresh ==
    TypeInv /\ FreshInv /\ [Next]_vars => FreshInv'
<1> SUFFICES ASSUME TypeInv, FreshInv, [Next]_vars PROVE FreshInv'
  OBVIOUS
<1>1. CASE UNCHANGED vars
  BY <1>1 DEF vars, tables, FreshInv, Fresh
<1>2. ASSUME NEW r \in Requests,
             Arrive(r) \/ Work(r) \/ CommitLost(r) \/ Fail(r) \/ DeadlockDetected(r)
      PROVE  FreshInv'
  <2>1. \A q \in Requests : pc[q] = "insert" =>
          job[q].app \in Applicants /\ rows[job[q].app] = None /\ locked[job[q].app] = None
    BY DEF FreshInv, Fresh, TypeInv, JobFits
  <2>2. ASSUME NEW step, NEW j, Local(r, step, j), step # "insert"
        PROVE  FreshInv'
    BY <2>1, <2>2, StepFresh DEF Local, tables
  <2>3. CASE Arrive(r)
    <3>1. PICK step \in {"insert", "row", "find"}, j \in Jobs : Arrival(r, step, j)
      BY <2>3, Arrivals
    <3>2. Local(r, step, j) /\ pc[r] = "idle"
      BY <3>1 DEF Arrival
    <3>3. CASE step = "insert"
      <4>1. /\ j.app \in Applicants /\ rows[j.app] = None
            /\ \A q \in Requests : job[q].app # j.app
        BY <3>1, <3>3 DEF Arrival
      <4>2. locked[j.app] = None
        BY <4>1 DEF TypeInv, TypeOK
      <4>3. /\ pc'[r] = "insert" /\ job'[r] = j
            /\ \A q \in Requests : q # r => pc'[q] = pc[q] /\ job'[q] = job[q]
            /\ UNCHANGED <<rows, locked>>
        BY <3>2, <3>3, Moved DEF Local, tables
      <4>4. ASSUME NEW q \in Requests, pc'[q] = "insert" PROVE Fresh(q)'
        <5>1. CASE q = r
          BY <4>1, <4>2, <4>3, <5>1 DEF Fresh
        <5>2. CASE q # r
          BY <4>1, <4>3, <4>4, <5>2 DEF Fresh, FreshInv
        <5>3. QED
          BY <5>1, <5>2
      <4>5. QED
        BY <4>4 DEF FreshInv
    <3>4. CASE step # "insert"
      BY <2>2, <3>2, <3>4
    <3>5. QED
      BY <3>3, <3>4
  <2>4. CASE NotFound(r) \/ FindAttributes(r) \/ EnterNumber(r) \/ UpsertAttribute(r)
             \/ Prepared(r)
    BY <2>2, <2>4
       DEF NotFound, FindAttributes, EnterNumber, UpsertAttribute, Prepared, AfterFind
  <2>5. CASE Find(r)
    BY <2>1, <2>5, StepFresh DEF Find, tables
  <2>6. CASE Locks(r)
    <3>1. /\ locked' = [locked EXCEPT ![job[r].app] = r] /\ rows' = rows
          /\ Goto(r, "index", job[r])
      BY <2>6 DEF Locks, InsertRow, UpdateRow
    <3>2. \A q \in Requests \ {r} : pc[q] = "insert" => job[q].app # job[r].app
      BY <2>1, <2>6 DEF Locks, InsertRow, UpdateRow, FreshInv, Fresh
    <3>3. QED
      BY <2>1, <3>1, <3>2, StepFresh DEF TypeInv, TypeOK
  <2>7. CASE Commits(r)
    <3>1. /\ pc[r] = "commit" /\ locked' = Release(locked, r)
          /\ \E new : rows' = [rows EXCEPT ![job[r].app] = new]
      BY <2>7 DEF Commits, Committed, CommitLost, Commit
    <3>2. PICK step, j : step \in {"ok", "find", "failed"} /\ Goto(r, step, j)
      BY <2>7 DEF Commits, Committed, CommitLost, AfterCommit
    <3>3. job[r].app \in Applicants /\ locked[job[r].app] = r
      BY <3>1 DEF TypeInv, TypeOK, JobFits, InTx
    <3>4. \A q \in Requests \ {r} : pc[q] = "insert" => job[q].app # job[r].app
      BY <2>1, <3>3, ProfileAssumption
    <3>5. \A q \in Requests \ {r} : pc[q] = "insert" => locked'[job[q].app] = None
      BY <2>1, <3>1 DEF Release
    <3>6. \A q \in Requests \ {r} : pc[q] = "insert" => rows'[job[q].app] = rows[job[q].app]
      BY <2>1, <3>1, <3>4 DEF TypeInv, TypeOK
    <3>7. QED
      BY <3>2, <3>5, <3>6, StepFresh
  <2>8. CASE Abort(r)
    BY <2>1, <2>8, StepFresh DEF Abort, Release
  <2>9. QED
    BY <1>2, <2>3, <2>4, <2>5, <2>6, <2>7, <2>8, StepKinds
<1>3. QED
  BY <1>1, <1>2 DEF Next

\* Tables, locks and jobs keep their types; a transaction has the lock of its row
\* and no other, on every path.
THEOREM ProfileTypeCorrect == Spec => []TypeOK
<1>1. Spec => [](TypeInv /\ FreshInv)
  BY InitTyped, NextTyped, NextFresh, PTL DEF Spec
<1>2. QED
  BY <1>1, PTL DEF TypeInv

-----------------------------------------------------------------------------
(***************************************************************************)
(* The unique index.  A request whose number is entered has found no other *)
(* row with it, and keeps it that way: whoever wants the same number       *)
(* finds it among the Holders and waits.                                   *)
(***************************************************************************)
Entered(r) == pc[r] \in {"attributes", "commit"}

NumberInv ==
    /\ Store!Unique(rows)
    /\ \A r \in Requests : Entered(r) => Namesakes(r) = {}
    /\ \A q, r \in Requests :
          q # r /\ Entered(q) /\ Entered(r) /\ job[q].row.number = job[r].row.number
             => job[r].row.number = None

\* A step of request r that enters no number and changes no row.
LEMMA StepNumbered ==
    ASSUME TypeInv, NumberInv, NEW r \in Requests, NEW step, NEW j,
           Goto(r, step, j), rows' = rows,
           step \in {"attributes", "commit"} =>
             Entered(r) /\ j.row = job[r].row /\ j.app = job[r].app
    PROVE  NumberInv'
<1>1. /\ pc'[r] = step /\ job'[r] = j
      /\ \A q \in Requests : q # r => pc'[q] = pc[q] /\ job'[q] = job[q]
  BY Moved
<1>2. \A q \in Requests :
        Entered(q)' => Entered(q) /\ job'[q].row = job[q].row /\ job'[q].app = job[q].app
  BY <1>1 DEF Entered
<1>3. \A q \in Requests : Entered(q)' => Namesakes(q)' = {}
  BY <1>2 DEF NumberInv, Namesakes
<1>4. Store!Unique(rows)'
  BY DEF NumberInv, Store!Unique
<1>5. \A p, q \in Requests :
        p # q /\ Entered(p)' /\ Entered(q)' /\ job'[p].row.number = job'[q].row.number
          => job'[q].row.number = None
  BY <1>2 DEF NumberInv
<1>6. QED
  BY <1>3, <1>4, <1>5 DEF NumberInv

LEMMA CommitNumbered ==
    ASSUME TypeInv, NumberInv, NEW r \in Requests, Commits(r)
    PROVE  NumberInv'
<1> DEFINE a == job[r].app
           n == job[r].row.number
<1>1. pc[r] = "commit" /\ rows' = [rows EXCEPT ![a] = job[r].row]
  BY DEF Commits, Committed, CommitLost, Commit
<1>2. PICK step, j : step \in {"ok", "find", "failed"} /\ Goto(r, step, j)
  BY DEF Commits, Committed, CommitLost, AfterCommit
<1>3. /\ pc'[r] = step
      /\ \A q \in Requests : q # r => pc'[q] = pc[q] /\ job'[q] = job[q]
  BY <1>2, Moved
<1>4. a \in Applicants /\ Entered(r)
  BY <1>1 DEF TypeInv, JobFits, InTx, Entered
<1>5. rows'[a] = job[r].row /\ \A b \in Applicants : b # a => rows'[b] = rows[b]
  BY <1>1, <1>4 DEF TypeInv, TypeOK
<1>6. \A b \in Applicants \ {a} : rows[b] # None /\ n # None => rows[b].number # n
  BY <1>4 DEF NumberInv, Namesakes
<1>7. Store!Unique(rows)'
  BY <1>5, <1>6 DEF NumberInv, Store!Unique
<1>8. \A q \in Requests : Entered(q)' => q # r /\ Entered(q) /\ job'[q] = job[q]
  BY <1>2, <1>3 DEF Entered
<1>9. ASSUME NEW q \in Requests, Entered(q)'
      PROVE  Namesakes(q)' = {}
  <2>1. q # r /\ Entered(q) /\ job'[q] = job[q]
    BY <1>8, <1>9
  <2>2. Namesakes(q) = {}
    BY <2>1 DEF NumberInv
  <2>3. job[q].row.number = n => n = None
    BY <1>4, <2>1 DEF NumberInv
  <2>4. QED
    BY <1>5, <2>1, <2>2, <2>3 DEF Namesakes
<1>10. \A p, q \in Requests :
        p # q /\ Entered(p)' /\ Entered(q)' /\ job'[p].row.number = job'[q].row.number
          => job'[q].row.number = None
  BY <1>8 DEF NumberInv
<1>11. QED
  BY <1>7, <1>9, <1>10 DEF NumberInv

LEMMA EnterNumbered ==
    ASSUME TypeInv, NumberInv, NEW r \in Requests, EnterNumber(r)
    PROVE  NumberInv'
<1>1. /\ pc'[r] = "attributes" /\ job'[r] = job[r] /\ rows' = rows
      /\ \A q \in Requests : q # r => pc'[q] = pc[q] /\ job'[q] = job[q]
  BY Moved DEF EnterNumber, Local, tables
<1>2. Namesakes(r) = {} /\ Holders(r) = {}
  BY DEF EnterNumber
<1>3. \A q \in Requests \ {r} :
        Entered(q) /\ job[q].row.number = job[r].row.number => job[r].row.number = None
  BY <1>2 DEF Holders, Entered
<1>4. \A q \in Requests : job'[q] = job[q] /\ Namesakes(q)' = Namesakes(q)
  BY <1>1 DEF Namesakes
<1>5. \A q \in Requests : Entered(q)' <=> q = r \/ Entered(q)
  BY <1>1 DEF Entered
<1>6. Store!Unique(rows)'
  BY <1>1 DEF NumberInv, Store!Unique
<1>7. \A q \in Requests : Entered(q)' => Namesakes(q)' = {}
  BY <1>2, <1>4, <1>5 DEF NumberInv
<1>8. \A p, q \in Requests :
        p # q /\ Entered(p)' /\ Entered(q)' /\ job'[p].row.number = job'[q].row.number
          => job'[q].row.number = None
  BY <1>3, <1>4, <1>5 DEF NumberInv
<1>9. QED
  BY <1>6, <1>7, <1>8 DEF NumberInv

LEMMA NextNumbered ==
    TypeInv /\ NumberInv /\ [Next]_vars => NumberInv'
<1> SUFFICES ASSUME TypeInv, NumberInv, [Next]_vars PROVE NumberInv'
  OBVIOUS
<1>1. CASE UNCHANGED vars
  BY <1>1 DEF vars, tables, NumberInv, Entered, Namesakes, Store!Unique
<1>2. ASSUME NEW r \in Requests,
             Arrive(r) \/ Work(r) \/ CommitLost(r) \/ Fail(r) \/ DeadlockDetected(r)
      PROVE  NumberInv'
  <2>1. CASE Arrive(r)
    <3>1. PICK step \in {"insert", "row", "find"}, j \in Jobs : Arrival(r, step, j)
      BY <2>1, Arrivals
    <3>2. Goto(r, step, j) /\ rows' = rows
      BY <3>1 DEF Arrival, Local, tables
    <3>3. QED
      BY <3>1, <3>2, StepNumbered
  <2>2. CASE NotFound(r) \/ Find(r) \/ FindAttributes(r) \/ Locks(r) \/ Abort(r)
    <3>1. PICK step, j :
            /\ step \in {"failed", "findattrs", "row", "ok", "index"}
            /\ Goto(r, step, j) /\ rows' = rows
      BY <2>2 DEF NotFound, Find, FindAttributes, AfterFind, Locks, InsertRow, UpdateRow,
                  Abort, Local, tables
    <3>2. QED
      BY <3>1, StepNumbered
  <2>3. CASE UpsertAttribute(r)
    <3>1. PICK t : Local(r, "attributes", [job[r] EXCEPT !.todo = @ \ {t}])
      BY <2>3 DEF UpsertAttribute
    <3> DEFINE j == [job[r] EXCEPT !.todo = @ \ {t}]
    <3>2. j.row = job[r].row /\ j.app = job[r].app
      BY DEF TypeInv, TypeOK, Jobs
    <3> HIDE DEF j
    <3>3. Goto(r, "attributes", j) /\ rows' = rows /\ Entered(r)
      BY <2>3, <3>1 DEF UpsertAttribute, Local, tables, Entered, j
    <3>4. QED
      BY <3>2, <3>3, StepNumbered
  <2>4. CASE Prepared(r)
    <3>1. Goto(r, "commit", job[r]) /\ rows' = rows /\ Entered(r)
      BY <2>4 DEF Prepared, Local, tables, Entered
    <3>2. QED
      BY <3>1, StepNumbered
  <2>5. QED
    BY <1>2, <2>1, <2>2, <2>3, <2>4, StepKinds, EnterNumbered, CommitNumbered
<1>3. QED
  BY <1>1, <1>2 DEF Next

LEMMA InitNumbered == Init => NumberInv
BY DEF Init, NumberInv, Entered, Store!Unique

-----------------------------------------------------------------------------
(***************************************************************************)
(* The refinement of ApplicantStore.  A request intends what it will write *)
(* from the step that fixed it (the arrival of an Update, the INSERT, the  *)
(* read of an Upsert) until its transaction ends.                          *)
(***************************************************************************)
Intends(step, j) ==
    \/ step \in {"row"} \cup InTx
    \/ step = "findattrs" /\ j.op = "Upsert"

IntentOf(r, j) == [by |-> r, app |-> j.app, row |-> j.row, given |-> j.given,
                   keep |-> j.op = "Upsert"]

Intents == {Intent(r) : r \in {q \in Requests :
               \/ pc[q] \in {"row"} \cup InTx
               \/ pc[q] = "findattrs" /\ job[q].op = "Upsert"}}

\* The set of intents changes by that of the request that moves.
LEMMA StepIntents ==
    ASSUME TypeInv, NEW r \in Requests, NEW step, NEW j, Goto(r, step, j)
    PROVE  /\ Intends(pc[r], job[r]) /\ Intends(step, j) /\ IntentOf(r, j) = Intent(r)
                => Intents' = Intents
           /\ ~Intends(pc[r], job[r]) /\ ~Intends(step, j) => Intents' = Intents
           /\ ~Intends(pc[r], job[r]) /\ Intends(step, j)
                => Intents' = Intents \cup {IntentOf(r, j)}
           /\ Intends(pc[r], job[r]) /\ ~Intends(step, j)
                => Intent(r) \in Intents /\ Intents' = Intents \ {Intent(r)}
<1>1. /\ pc'[r] = step /\ job'[r] = j
      /\ \A q \in Requests : q # r => pc'[q] = pc[q] /\ job'[q] = job[q]
  BY Moved
<1> DEFINE Others == {Intent(q) : q \in {p \in Requests \ {r} : Intends(pc[p], job[p])}}
<1>2. Intents = Others \cup (IF Intends(pc[r], job[r]) THEN {Intent(r)} ELSE {})
  BY DEF Intents, Intends
<1>3. Intents' = Others \cup (IF Intends(step, j) THEN {IntentOf(r, j)} ELSE {})
  <2>1. \A q \in Requests \ {r} : Intent(q)' = Intent(q)
    BY <1>1 DEF Intent
  <2>2. Intent(r)' = IntentOf(r, j)
    BY <1>1 DEF Intent, IntentOf
  <2>3. QED
    BY <1>1, <2>1, <2>2 DEF Intents, Intends
<1>4. Intent(r) \notin Others
  BY DEF Intent
<1> HIDE DEF Others
<1>5. QED
  BY <1>2, <1>3, <1>4

\* A step that neither fixes nor drops an intent is none of ApplicantStore.
LEMMA StoreStutters ==
    ASSUME TypeInv, NEW r \in Requests, NEW step, NEW j, Goto(r, step, j),
           UNCHANGED <<rows, attrs>>,
           Intends(step, j) <=> Intends(pc[r], job[r]),
           Intends(step, j) => IntentOf(r, j) = Intent(r)
    PROVE  UNCHANGED Store!vars
<1>1. Intents' = Intents
  BY StepIntents
<1>2. QED
  BY <1>1 DEF Store!vars, Intents

LEMMA StoreIntends ==
    ASSUME TypeInv, NEW r \in Requests, NEW step, NEW j \in Jobs, Goto(r, step, j),
           UNCHANGED <<rows, attrs>>,
           ~Intends(pc[r], job[r]), Intends(step, j),
           j.app \in Applicants, j.row \in Rows,
           j.op = "Upsert" => j.row = rows[j.app]
    PROVE  Store!Next
<1> DEFINE i == IntentOf(r, j)
<1>1. Intents' = Intents \cup {i}
  BY StepIntents
<1>2. i \in [by : Requests, app : Applicants, row : Rows, given : AttrMaps, keep : BOOLEAN]
  BY DEF IntentOf, Jobs
<1>3. i.keep => i.row = rows[i.app]
  BY DEF IntentOf
<1> HIDE DEF i
<1>4. Store!Intend(i)
  BY <1>1, <1>2, <1>3 DEF Store!Intend, Intents
<1>5. i \in Intents'
  BY <1>1
<1>6. QED
  BY <1>4, <1>5 DEF Store!Next, Intents

LEMMA StoreGivesUp ==
    ASSUME TypeInv, NEW r \in Requests, NEW step, NEW j, Goto(r, step, j),
           UNCHANGED <<rows, attrs>>,
           ~Intends(step, j)
    PROVE  Store!Next \/ UNCHANGED Store!vars
<1>1. CASE ~Intends(pc[r], job[r])
  BY <1>1, StoreStutters
<1>2. CASE Intends(pc[r], job[r])
  <2>1. PICK i \in Intents : Intents' = Intents \ {i}
    BY <1>2, StepIntents
  <2>2. Store!GiveUp(i)
    BY <2>1 DEF Store!GiveUp, Intents
  <2>3. QED
    BY <2>1, <2>2 DEF Store!Next, Intents
<1>3. QED
  BY <1>1, <1>2

LEMMA StoreApplies ==
    ASSUME TypeInv, NumberInv, NEW r \in Requests, Commits(r)
    PROVE  Store!Next
<1> DEFINE a == job[r].app
<1>1. /\ pc[r] = "commit"
      /\ rows' = [rows EXCEPT ![a] = job[r].row]
      /\ attrs' = [attrs EXCEPT ![a] = Overwrite(attrs[a], job[r].given)]
  BY DEF Commits, Committed, CommitLost, Commit
<1>2. PICK step, j : step \in {"ok", "find", "failed"} /\ Goto(r, step, j)
  BY DEF Commits, Committed, CommitLost, AfterCommit
<1>3. Intends(pc[r], job[r]) /\ ~Intends(step, j)
  BY <1>1, <1>2 DEF Intends, InTx
<1>4. PICK i \in Intents : i = Intent(r) /\ Intents' = Intents \ {i}
  BY <1>2, <1>3, StepIntents
<1>5. i.app = a /\ i.row = job[r].row /\ i.given = job[r].given
  BY <1>4 DEF Intent
<1>6. Store!Unique(rows')
  BY CommitNumbered DEF NumberInv, Store!Unique
<1>7. a \in Applicants /\ attrs[a] \in AttrMaps
  BY <1>1 DEF TypeInv, TypeOK, JobFits, InTx
<1>8. Store!Overwrite(attrs[a], job[r].given) = Overwrite(attrs[a], job[r].given)
  BY <1>7 DEF Store!Overwrite, Overwrite, AttrMaps
<1>9. /\ rows' = [rows EXCEPT ![i.app] = i.row]
      /\ attrs' = [attrs EXCEPT ![i.app] = Store!Overwrite(attrs[i.app], i.given)]
  BY <1>1, <1>5, <1>8
<1>10. Store!Apply(i)
  BY <1>4, <1>6, <1>9 DEF Store!Apply, Intents
<1>11. QED
  BY <1>4, <1>10 DEF Store!Next, Intents

LEMMA NextStore ==
    TypeInv /\ NumberInv /\ [Next]_vars => [Store!Next]_(Store!vars)
<1> SUFFICES ASSUME TypeInv, NumberInv, [Next]_vars
             PROVE  Store!Next \/ UNCHANGED Store!vars
  OBVIOUS
<1>1. CASE UNCHANGED vars
  BY <1>1 DEF vars, tables, Store!vars, Intent
<1>2. ASSUME NEW r \in Requests,
             Arrive(r) \/ Work(r) \/ CommitLost(r) \/ Fail(r) \/ DeadlockDetected(r)
      PROVE  Store!Next \/ UNCHANGED Store!vars
  <2>1. job[r] \in Jobs /\ JobFits(pc[r], job[r])
    BY DEF TypeInv, TypeOK
  <2>2. CASE Arrive(r)
    <3>1. PICK step \in {"insert", "row", "find"}, j \in Jobs : Arrival(r, step, j)
      BY <2>2, Arrivals
    <3>2. /\ Goto(r, step, j) /\ UNCHANGED <<rows, attrs>>
          /\ ~Intends(pc[r], job[r])
      BY <3>1 DEF Arrival, Local, tables, Intends, InTx
    <3>3. CASE step = "row"
      <4>1. Intends(step, j) /\ j.app \in Applicants /\ j.row \in Rows /\ j.op # "Upsert"
        BY <3>1, <3>3 DEF Arrival, Intends
      <4>2. QED
        BY <3>2, <4>1, StoreIntends
    <3>4. CASE step # "row"
      <4>1. ~Intends(step, j)
        BY <3>1, <3>4 DEF Intends, InTx
      <4>2. QED
        BY <3>2, <4>1, StoreStutters
    <3>5. QED
      BY <3>3, <3>4
  <2>3. CASE NotFound(r) \/ Abort(r)
    <3>1. Goto(r, "failed", NoJob) /\ UNCHANGED <<rows, attrs>>
      BY <2>3 DEF NotFound, Abort, Local, tables
    <3>2. ~Intends("failed", NoJob)
      BY DEF Intends, InTx
    <3>3. QED
      BY <3>1, <3>2, StoreGivesUp
  <2>4. CASE Find(r)
    <3> DEFINE j == [job[r] EXCEPT !.row = rows[job[r].app]]
    <3>1. /\ Goto(r, "findattrs", j) /\ UNCHANGED <<rows, attrs>>
          /\ pc[r] = "find" /\ rows[job[r].app] # None
      BY <2>4 DEF Find, tables
    <3>2. job[r].app \in Applicants /\ rows[job[r].app] \in Rows
      BY <2>1, <3>1 DEF JobFits, InTx, TypeInv, TypeOK
    <3>3. /\ j \in Jobs /\ j.app = job[r].app /\ j.op = job[r].op
          /\ j.row = rows[job[r].app]
      BY <2>1, <3>2 DEF Jobs
    <3> HIDE DEF j
    <3>4. ~Intends(pc[r], job[r])
      BY <3>1 DEF Intends, InTx
    <3>5. CASE Intends("findattrs", j)
      BY <3>1, <3>2, <3>3, <3>4, <3>5, StoreIntends
    <3>6. CASE ~Intends("findattrs", j)
      BY <3>1, <3>4, <3>6, StoreStutters
    <3>7. QED
      BY <3>5, <3>6
  <2>5. ASSUME NEW step, NEW j, Goto(r, step, j), UNCHANGED <<rows, attrs>>,
               Intends(pc[r], job[r]), Intends(step, j),
               j.app = job[r].app, j.row = job[r].row, j.given = job[r].given,
               j.op = job[r].op
        PROVE  UNCHANGED Store!vars
    <3>1. IntentOf(r, j) = Intent(r)
      BY <2>5 DEF IntentOf, Intent
    <3>2. QED
      BY <2>5, <3>1, StoreStutters
  <2>6. CASE FindAttributes(r)
    <3> DEFINE j == [job[r] EXCEPT !.reply = attrs[job[r].app]]
               step == AfterFind(job[r].op)
    <3>1. /\ pc[r] = "findattrs"
          /\ Goto(r, step, j) /\ UNCHANGED <<rows, attrs>>
      BY <2>6 DEF FindAttributes, Local, tables
    <3>2. /\ j.app = job[r].app /\ j.row = job[r].row /\ j.given = job[r].given
          /\ j.op = job[r].op
      BY <2>1 DEF Jobs
    <3>3. step = IF job[r].op = "Upsert" THEN "row" ELSE "ok"
      BY DEF AfterFind
    <3> HIDE DEF j, step
    <3>4. CASE job[r].op = "Upsert"
      BY <2>5, <3>1, <3>2, <3>3, <3>4 DEF Intends
    <3>5. CASE job[r].op # "Upsert"
      <4>1. ~Intends(step, j)
        BY <3>3, <3>5 DEF Intends, InTx
      <4>2. QED
        BY <3>1, <4>1, StoreGivesUp
    <3>6. QED
      BY <3>4, <3>5
  <2>7. CASE InsertRow(r)
    <3>1. /\ Goto(r, "index", job[r]) /\ UNCHANGED <<rows, attrs>>
          /\ pc[r] = "insert"
      BY <2>7 DEF InsertRow
    <3>2. /\ ~Intends(pc[r], job[r]) /\ Intends("index", job[r])
          /\ job[r].app \in Applicants /\ job[r].row \in Rows
      BY <2>1, <3>1 DEF Intends, InTx, JobFits
    <3>3. job[r].op # "Upsert"
      BY <2>1, <3>1 DEF JobFits
    <3>4. QED
      BY <2>1, <3>1, <3>2, <3>3, StoreIntends
  <2>8. CASE UpdateRow(r)
    <3>1. /\ Goto(r, "index", job[r]) /\ UNCHANGED <<rows, attrs>>
          /\ Intends(pc[r], job[r]) /\ Intends("index", job[r])
      BY <2>8 DEF UpdateRow, Intends, InTx
    <3>2. QED
      BY <2>5, <3>1
  <2>9. CASE EnterNumber(r) \/ Prepared(r)
    <3>1. PICK step \in InTx : Goto(r, step, job[r]) /\ UNCHANGED <<rows, attrs>>
      BY <2>9 DEF EnterNumber, Prepared, Local, tables, InTx
    <3>2. Intends(pc[r], job[r]) /\ Intends(step, job[r])
      BY <2>9, <3>1 DEF EnterNumber, Prepared, Intends, InTx
    <3>3. QED
      BY <2>5, <3>1, <3>2
  <2>10. CASE UpsertAttribute(r)
    <3>1. PICK t : Local(r, "attributes", [job[r] EXCEPT !.todo = @ \ {t}])
      BY <2>10 DEF UpsertAttribute
    <3> DEFINE j == [job[r] EXCEPT !.todo = @ \ {t}]
    <3>2. /\ j.app = job[r].app /\ j.row = job[r].row /\ j.given = job[r].given
          /\ j.op = job[r].op
      BY <2>1 DEF Jobs
    <3>3. Goto(r, "attributes", j) /\ UNCHANGED <<rows, attrs>>
      BY <3>1 DEF Local, tables
    <3> HIDE DEF j
    <3>4. Intends(pc[r], job[r]) /\ Intends("attributes", j)
      BY <2>10 DEF UpsertAttribute, Intends, InTx
    <3>5. QED
      BY <2>5, <3>2, <3>3, <3>4
  <2>11. QED
    BY <1>2, <2>2, <2>3, <2>4, <2>6, <2>7, <2>8, <2>9, <2>10, StepKinds, StoreApplies
       DEF Locks
<1>3. QED
  BY <1>1, <1>2 DEF Next

(***************************************************************************)
(* Save and Update are atomic: a request takes effect at once or not at    *)
(* all, at most once, on one applicant; numbers stay unique; and a request *)
(* for attributes rewrites only columns it once found (data/applicant.go:  *)
(* 55, 90).                                                                *)
(***************************************************************************)
THEOREM ProfilesAtomic == Spec => AtomicProfiles
<1>1. Init => Store!Init
  BY DEF Init, Store!Init, InTx
<1>2. Spec => [](TypeInv /\ FreshInv /\ NumberInv)
  BY InitTyped, NextTyped, NextFresh, InitNumbered, NextNumbered, PTL DEF Spec
<1>3. QED
  BY <1>1, <1>2, NextStore, PTL DEF Spec, AtomicProfiles, Store!Spec

-----------------------------------------------------------------------------
(***************************************************************************)
(* The answers.  While a request reads, its history has the profile as it  *)
(* is now, if it has any: commits of others add theirs.  So what each of   *)
(* the two statements of FindByID finds is in the history.                 *)
(***************************************************************************)
Told(step, j, profiles, current) ==
    /\ step = "idle" => profiles = {}
    /\ step \in {"find", "findattrs"} => profiles = {} \/ current \in profiles
    /\ step = "findattrs" => profiles # {}
    /\ step \in {"findattrs", "ok"} /\ j.op # "Upsert" =>
          \E p \in profiles : p.row = j.row
    /\ step = "ok" /\ j.op # "Upsert" => \E p \in profiles : p.attrs = j.reply

SinceInv == \A r \in Requests : Told(pc[r], job[r], since[r], Profile(job[r].app))

\* A step of request r that changes no profile.
LEMMA StepTold ==
    ASSUME TypeInv, SinceInv, NEW r \in Requests, NEW step, NEW j,
           Goto(r, step, j), UNCHANGED <<rows, attrs>>,
           \A q \in Requests : q # r => since'[q] = since[q],
           Told(step, j, since'[r], Profile(j.app))
    PROVE  SinceInv'
<1>1. /\ pc'[r] = step /\ job'[r] = j
      /\ \A q \in Requests : q # r => pc'[q] = pc[q] /\ job'[q] = job[q]
  BY Moved
<1>2. \A a : Profile(a)' = Profile(a)
  BY DEF Profile
<1>3. ASSUME NEW q \in Requests
      PROVE  Told(pc'[q], job'[q], since'[q], Profile(job[q].app)')
  <2>1. CASE q = r
    BY <1>1, <2>1 DEF Profile
  <2>2. CASE q # r
    BY <1>1, <1>2, <2>2 DEF SinceInv
  <2>3. QED
    BY <2>1, <2>2
<1>4. QED
  BY <1>3 DEF SinceInv

LEMMA CommitTold ==
    ASSUME TypeInv, SinceInv, NEW r \in Requests, Commits(r)
    PROVE  SinceInv'
<1> DEFINE a == job[r].app
           new == [row |-> job[r].row, attrs |-> Overwrite(attrs[a], job[r].given)]
<1>1. /\ pc[r] = "commit"
      /\ rows' = [rows EXCEPT ![a] = new.row]
      /\ attrs' = [attrs EXCEPT ![a] = new.attrs]
      /\ since' = [q \in Requests |->
                     IF q = r THEN {new}
                     ELSE IF job[q].app = a /\ since[q] # {} THEN since[q] \cup {new}
                     ELSE since[q]]
  BY DEF Commits, Committed, CommitLost, Commit
<1>2. a \in Applicants /\ job[r] \in Jobs
  BY <1>1 DEF TypeInv, TypeOK, JobFits, InTx
<1>3. \A b \in Applicants : [row |-> rows'[b], attrs |-> attrs'[b]]
                              = IF b = a THEN new ELSE Profile(b)
  BY <1>1, <1>2 DEF Profile, TypeInv, TypeOK
<1> HIDE DEF new
<1>4. ASSUME NEW step, NEW j, Goto(r, step, j),
             step = "failed" \/ (j.app = a /\ step = AfterCommit(j.op))
      PROVE  SinceInv'
  <2>1. /\ pc'[r] = step /\ job'[r] = j
        /\ \A q \in Requests : q # r => pc'[q] = pc[q] /\ job'[q] = job[q]
    BY <1>4, Moved
  <2>2. ASSUME NEW q \in Requests
        PROVE  Told(pc'[q], job'[q], since'[q], Profile(job[q].app)')
    <3>1. CASE q = r
      <4>1. since'[r] = {new}
        BY <1>1
      <4>2. CASE step = "failed"
        BY <2>1, <3>1, <4>2 DEF Told
      <4>3. CASE j.app = a /\ step = AfterCommit(j.op)
        <5>1. step = IF j.op = "Upsert" THEN "ok" ELSE "find"
          BY <4>3 DEF AfterCommit
        <5>2. Profile(job[q].app)' = new
          BY <1>2, <1>3, <2>1, <3>1, <4>3 DEF Profile
        <5>3. QED
          BY <2>1, <3>1, <4>1, <5>1, <5>2 DEF Told
      <4>4. QED
        BY <1>4, <4>2, <4>3
    <3>2. CASE q # r
      <4>1. /\ Told(pc[q], job[q], since[q], Profile(job[q].app))
            /\ pc'[q] = pc[q] /\ job'[q] = job[q]
        BY <2>1, <3>2 DEF SinceInv
      <4>2. since'[q] = IF job[q].app = a /\ since[q] # {} THEN since[q] \cup {new} ELSE since[q]
        BY <1>1, <3>2
      <4>3. pc[q] \in {"find", "findattrs"} =>
              Profile(job[q].app)' = IF job[q].app = a THEN new ELSE Profile(job[q].app)
        BY <1>3, <4>1 DEF Profile, TypeInv, JobFits
      <4>4. QED
        BY <4>1, <4>2, <4>3 DEF Told
    <3>3. QED
      BY <3>1, <3>2
  <2>3. QED
    BY <2>2 DEF SinceInv
<1>5. CASE Committed(r)
  <2> DEFINE j == [job[r] EXCEPT !.given = NoAttrs]
  <2>1. j.app = a /\ j.op = job[r].op
    BY <1>2 DEF Jobs
  <2>2. Goto(r, AfterCommit(job[r].op), j)
    BY <1>5 DEF Committed
  <2> HIDE DEF j
  <2>3. QED
    BY <1>4, <2>1, <2>2
<1>6. CASE CommitLost(r)
  <2>1. Goto(r, "failed", NoJob)
    BY <1>6 DEF CommitLost
  <2>2. QED
    BY <1>4, <2>1
<1>7. QED
  BY <1>5, <1>6 DEF Commits

LEMMA NextTold ==
    TypeInv /\ SinceInv /\ [Next]_vars => SinceInv'
<1> SUFFICES ASSUME TypeInv, SinceInv, [Next]_vars PROVE SinceInv'
  OBVIOUS
<1>1. CASE UNCHANGED vars
  BY <1>1 DEF vars, tables, SinceInv, Told, Profile
<1>2. ASSUME NEW r \in Requests,
             Arrive(r) \/ Work(r) \/ CommitLost(r) \/ Fail(r) \/ DeadlockDetected(r)
      PROVE  SinceInv'
  <2>1. job[r] \in Jobs /\ Told(pc[r], job[r], since[r], Profile(job[r].app))
    BY DEF TypeInv, TypeOK, SinceInv
  <2>2. ASSUME NEW step, NEW j, Goto(r, step, j), UNCHANGED <<rows, attrs, since>>,
               Told(step, j, since[r], Profile(j.app))
        PROVE  SinceInv'
    BY <2>2, StepTold
  <2>3. CASE Arrive(r)
    <3>1. PICK step \in {"insert", "row", "find"}, j \in Jobs : Arrival(r, step, j)
      BY <2>3, Arrivals
    <3>2. /\ Goto(r, step, j) /\ UNCHANGED <<rows, attrs, since>>
          /\ pc[r] = "idle"
      BY <3>1 DEF Arrival, Local, tables
    <3>3. Told(step, j, since[r], Profile(j.app))
      BY <2>1, <3>1, <3>2 DEF Told
    <3>4. QED
      BY <2>2, <3>2, <3>3
  <2>4. ASSUME NEW step \in {"failed", "row", "index", "attributes", "commit"}, NEW j,
               Goto(r, step, j), UNCHANGED <<rows, attrs>>,
               \A q \in Requests : q # r => since'[q] = since[q]
        PROVE  SinceInv'
    <3>1. Told(step, j, since'[r], Profile(j.app))
      BY <2>4 DEF Told
    <3>2. QED
      BY <2>4, <3>1, StepTold
  <2>5. CASE NotFound(r) \/ Locks(r) \/ EnterNumber(r) \/ UpsertAttribute(r) \/ Prepared(r)
    <3>1. UNCHANGED <<rows, attrs, since>>
      BY <2>5 DEF NotFound, Locks, InsertRow, UpdateRow, EnterNumber, UpsertAttribute,
                  Prepared, Local, tables
    <3>2. ASSUME NEW step \in {"failed", "row", "index", "attributes", "commit"}, NEW j,
                 Goto(r, step, j)
          PROVE  SinceInv'
      BY <2>4, <3>1, <3>2
    <3>3. CASE NotFound(r)
      BY <3>2, <3>3 DEF NotFound, Local
    <3>4. CASE Locks(r)
      BY <3>2, <3>4 DEF Locks, InsertRow, UpdateRow
    <3>5. CASE EnterNumber(r) \/ UpsertAttribute(r) \/ Prepared(r)
      BY <3>2, <3>5 DEF EnterNumber, UpsertAttribute, Prepared, Local
    <3>6. QED
      BY <2>5, <3>3, <3>4, <3>5
  <2>6. CASE Abort(r)
    BY <2>4, <2>6 DEF Abort, Forget, TypeInv
  <2>7. CASE Find(r)
    <3> DEFINE j == [job[r] EXCEPT !.row = rows[job[r].app]]
    <3>1. /\ Goto(r, "findattrs", j) /\ UNCHANGED <<rows, attrs>>
          /\ pc[r] = "find"
          /\ since' = [since EXCEPT ![r] = IF @ = {} THEN {Profile(job[r].app)} ELSE @]
      BY <2>7 DEF Find, tables
    <3>2. j.app = job[r].app /\ j.row = rows[job[r].app]
      BY <2>1 DEF Jobs
    <3>3. /\ Profile(j.app) \in since'[r]
          /\ \A q \in Requests : q # r => since'[q] = since[q]
      BY <2>1, <3>1, <3>2 DEF Told, TypeInv
    <3>4. Profile(j.app).row = j.row
      BY <3>2 DEF Profile
    <3> HIDE DEF j
    <3>5. Told("findattrs", j, since'[r], Profile(j.app))
      BY <3>3, <3>4 DEF Told
    <3>6. QED
      BY <3>1, <3>3, <3>5, StepTold
  <2>8. CASE FindAttributes(r)
    <3> DEFINE j == [job[r] EXCEPT !.reply = attrs[job[r].app]]
               step == AfterFind(job[r].op)
    <3>1. /\ pc[r] = "findattrs"
          /\ Goto(r, step, j) /\ UNCHANGED <<rows, attrs, since>>
      BY <2>8 DEF FindAttributes, Local, tables
    <3>2. /\ j.app = job[r].app /\ j.op = job[r].op /\ j.row = job[r].row
          /\ j.reply = attrs[job[r].app]
      BY <2>1 DEF Jobs
    <3>3. step = IF job[r].op = "Upsert" THEN "row" ELSE "ok"
      BY DEF AfterFind
    <3>4. /\ Profile(j.app) \in since[r] /\ Profile(j.app).attrs = j.reply
      BY <2>1, <3>1, <3>2 DEF Told, Profile
    <3> HIDE DEF j, step
    <3>5. Told(step, j, since[r], Profile(j.app))
      BY <2>1, <3>1, <3>2, <3>3, <3>4 DEF Told
    <3>6. QED
      BY <2>2, <3>1, <3>5
  <2>9. QED
    BY <1>2, <2>3, <2>5, <2>6, <2>7, <2>8, StepKinds, CommitTold
<1>3. QED
  BY <1>1, <1>2 DEF Next

LEMMA InitTold == Init => SinceInv
BY DEF Init, SinceInv, Told

\* The columns and the attributes of an answer are what the applicant had since
\* the request's own write, or since it began to read (service/applicant.go:100).
THEOREM AnswersPersisted == Spec => []AnswersArePersisted
<1>1. Spec => [](TypeInv /\ FreshInv /\ SinceInv)
  BY InitTyped, NextTyped, NextFresh, InitTold, NextTold, PTL DEF Spec
<1>2. SinceInv => AnswersArePersisted
  BY DEF SinceInv, Told, AnswersArePersisted
<1>3. QED
  BY <1>1, <1>2, PTL

=============================================================================
