------------------------- MODULE FinancialDataProofs -------------------------
(***************************************************************************)
(* Theorems about FinancialData for every number of requests, applications *)
(* and items, and for every fault setting: its types, and that it          *)
(* implements LockedRecords.                                               *)
(***************************************************************************)
EXTENDS FinancialData, TLAPS

Steps == {"idle", "check", "write", "ok", "failed"}

(***************************************************************************)
(* TypeOK alone is not inductive: a statement needs the parameters of its  *)
(* request.  JobFits says which are set while a request is under way.      *)
(***************************************************************************)
JobFits(step, j) ==
    step \in {"check", "write"} =>
        /\ j.op \in OpNames
        /\ j.app \in Apps
        /\ j.amount \in Amounts \cup {Garbled}
        /\ j.op = "upsert" => j.key \in Keys
        /\ j.op = "create" => j.kind \in Kinds
        /\ j.op = "update" => j.item \in Items

TypeInv ==
    /\ TypeOK
    /\ \A r \in Requests : JobFits(pc[r], job[r])

\* The request of an update names the application its item belongs to.  The
\* item is never deleted and never moves to another application.
OwnJob(step, j) ==
    step \in {"check", "write"} /\ j.op = "update" =>
        items[j.item] # None /\ items[j.item].app = j.app

OwnInv == \A r \in Requests : OwnJob(pc[r], job[r])

\* An item stays where it is.
ItemsStay ==
    \A i \in Items : items[i] # None => items'[i] # None /\ items'[i].app = items[i].app

-----------------------------------------------------------------------------
(* Types.                                                                  *)

LEMMA NoJobTyped == NoJob \in Jobs
BY DEF NoJob, Jobs

\* What the tables hold of a request is a number, also when it sent none.
LEMMA ParsedTyped ==
    ASSUME NEW m \in Amounts \cup {Garbled}
    PROVE  Parsed(m) \in Amounts
BY FinancialAssumption DEF Parsed

\* Moving one request along keeps the types if its new parameters fit.
LEMMA StepTyped ==
    ASSUME TypeInv,
           NEW r \in Requests, NEW step \in Steps, NEW j \in Jobs,
           Step(r, step, j), JobFits(step, j),
           status' \in [Apps -> Statuses \cup {None}],
           figures' \in [Apps -> [Keys -> Amounts \cup {None}]],
           items' \in [Items -> ItemRows \cup {None}]
    PROVE  TypeInv'
<1>1. TypeOK'
  BY DEF TypeInv, TypeOK, Step, Steps
<1>2. ASSUME NEW q \in Requests
      PROVE  JobFits(pc'[q], job'[q])
  <2>1. CASE q = r
    BY <2>1 DEF Step, TypeInv, TypeOK
  <2>2. CASE q # r
    <3>1. pc'[q] = pc[q] /\ job'[q] = job[q]
      BY <2>2 DEF Step, TypeInv, TypeOK
    <3>2. QED
      BY <3>1 DEF TypeInv
  <2>3. QED
    BY <2>1, <2>2
<1>3. QED
  BY <1>1, <1>2 DEF TypeInv, JobFits

\* The same for a step that leaves the tables alone.
LEMMA LocalTyped ==
    ASSUME TypeInv,
           NEW r \in Requests, NEW step \in Steps, NEW j \in Jobs,
           Step(r, step, j), JobFits(step, j), UNCHANGED tables
    PROVE  TypeInv'
BY StepTyped DEF tables, TypeInv, TypeOK

\* Every request brings the parameters its operation needs; an update names the
\* application of its item, as OwnItems says.
LEMMA BeginShaped ==
    ASSUME NEW r \in Requests,
           BeginUpsert(r) \/ BeginCreate(r) \/ BeginUpdate(r)
    PROVE  \E j \in Jobs : /\ Begin(r, j)
                           /\ JobFits("check", j)
                           /\ OwnItems => OwnJob("check", j)
<1>1. CASE BeginUpsert(r)
  <2>1. PICK a \in Apps, k \in Keys, m \in Amounts \cup {Garbled}, f \in BOOLEAN :
           Begin(r, [NoJob EXCEPT !.op = "upsert", !.app = a, !.key = k, !.amount = m, !.fits = f])
    BY <1>1 DEF BeginUpsert
  <2> DEFINE j == [NoJob EXCEPT !.op = "upsert", !.app = a, !.key = k, !.amount = m, !.fits = f]
  <2>2. j \in Jobs /\ JobFits("check", j) /\ (OwnItems => OwnJob("check", j))
    BY DEF NoJob, Jobs, JobFits, OpNames, OwnJob
  <2>3. QED
    BY <2>1, <2>2
<1>2. CASE BeginCreate(r)
  <2>1. PICK a \in Apps, d \in Kinds, m \in Amounts \cup {Garbled}, f \in BOOLEAN :
           Begin(r, [NoJob EXCEPT !.op = "create", !.app = a, !.kind = d, !.amount = m, !.fits = f])
    BY <1>2 DEF BeginCreate
  <2> DEFINE j == [NoJob EXCEPT !.op = "create", !.app = a, !.kind = d, !.amount = m, !.fits = f]
  <2>2. j \in Jobs /\ JobFits("check", j) /\ (OwnItems => OwnJob("check", j))
    BY DEF NoJob, Jobs, JobFits, OpNames, OwnJob
  <2>3. QED
    BY <2>1, <2>2
<1>3. CASE BeginUpdate(r)
  <2>1. PICK a \in Apps, i \in Items, d \in Kinds, m \in Amounts \cup {Garbled}, f \in BOOLEAN :
           /\ OwnItems => items[i] # None /\ items[i].app = a
           /\ Begin(r, [NoJob EXCEPT !.op = "update", !.app = a, !.item = i, !.kind = d,
                                     !.amount = m, !.fits = f])
    BY <1>3 DEF BeginUpdate
  <2> DEFINE j == [NoJob EXCEPT !.op = "update", !.app = a, !.item = i, !.kind = d,
                                !.amount = m, !.fits = f]
  <2>2. j \in Jobs /\ JobFits("check", j) /\ (OwnItems => OwnJob("check", j))
    BY <2>1 DEF NoJob, Jobs, JobFits, OpNames, OwnJob
  <2>3. QED
    BY <2>1, <2>2
<1>4. QED
  BY <1>1, <1>2, <1>3

LEMMA BeginTyped ==
    ASSUME TypeInv, NEW r \in Requests,
           BeginUpsert(r) \/ BeginCreate(r) \/ BeginUpdate(r)
    PROVE  TypeInv'
BY BeginShaped, LocalTyped DEF Begin, Steps

LEMMA StoredTyped ==
    ASSUME TypeInv, NEW r \in Requests, Stored(r)
    PROVE  /\ status' = status
           /\ figures' \in [Apps -> [Keys -> Amounts \cup {None}]]
           /\ items' \in [Items -> ItemRows \cup {None}]
<1> USE DEF TypeInv, TypeOK
<1>1. JobFits("write", job[r]) /\ status' = status
  BY DEF Stored
<1>2. job[r].app \in Apps /\ Parsed(job[r].amount) \in Amounts
  BY <1>1, ParsedTyped DEF JobFits
<1>3. CASE Upsert(r)
  <2>1. figures' \in [Apps -> [Keys -> Amounts \cup {None}]]
    BY <1>1, <1>2, <1>3 DEF Upsert, JobFits
  <2>2. QED
    BY <1>1, <1>3, <2>1 DEF Upsert
<1>4. CASE Create(r)
  <2>1. items' \in [Items -> ItemRows \cup {None}]
    BY <1>1, <1>2, <1>4 DEF Create, JobFits, ItemRows
  <2>2. QED
    BY <1>1, <1>4, <2>1 DEF Create
<1>5. CASE Update(r)
  <2>1. items' \in [Items -> ItemRows \cup {None}]
    <3>1. job[r].item \in Items /\ items[job[r].item] \in ItemRows
      BY <1>1, <1>5 DEF Update, Matches, JobFits
    <3>2. [items[job[r].item] EXCEPT !.amount = Parsed(job[r].amount)] \in ItemRows
      BY <1>2, <3>1 DEF ItemRows
    <3>3. QED
      BY <1>5, <3>1, <3>2 DEF Update
  <2>2. QED
    BY <1>1, <1>5, <2>1 DEF Update
<1>6. QED
  BY <1>3, <1>4, <1>5 DEF Stored

LEMMA NextTyped == TypeInv /\ [Next]_vars => TypeInv'
<1> SUFFICES ASSUME TypeInv, [Next]_vars PROVE TypeInv'
  OBVIOUS
<1>1. CASE UNCHANGED vars
  BY <1>1 DEF vars, TypeInv, TypeOK
<1>2. CASE StatusMoves
  BY <1>2 DEF StatusMoves, TypeInv, TypeOK
<1>3. ASSUME NEW r \in Requests,
             \/ CheckLock(r) \/ Write(r) \/ WriteLost(r) \/ Refused(r) \/ Fail(r) \/ Return(r)
      PROVE  TypeInv'
  <2>1. job[r] \in Jobs
    BY DEF TypeInv, TypeOK
  <2>2. \A outcome \in {"ok", "failed", "idle"} : JobFits(outcome, NoJob)
    BY DEF JobFits
  <2>3. CASE CheckLock(r)
    <3>1. JobFits("write", job[r]) /\ UNCHANGED tables
      BY <2>3 DEF CheckLock, TypeInv, JobFits
    <3>2. QED
      BY <2>1, <2>2, <2>3, <3>1, LocalTyped, NoJobTyped DEF CheckLock, Answer, Steps
  <2>4. CASE Write(r) \/ WriteLost(r)
    <3>1. status' \in [Apps -> Statuses \cup {None}]
      BY <2>4, StoredTyped DEF Write, WriteLost, TypeInv, TypeOK
    <3>2. QED
      BY <2>2, <2>4, <3>1, StoredTyped, StepTyped, NoJobTyped DEF Write, WriteLost, Answer, Steps
  <2>5. CASE Refused(r) \/ Fail(r) \/ Return(r)
    BY <2>2, <2>5, LocalTyped, NoJobTyped DEF Refused, Fail, Return, Answer, Steps
  <2>6. QED
    BY <1>3, <2>3, <2>4, <2>5
<1>4. QED
  BY <1>1, <1>2, <1>3, BeginTyped DEF Next

LEMMA InitTyped == Init => TypeInv
BY NoJobTyped DEF Init, TypeInv, TypeOK, JobFits

\* Whatever the requests send, numbers that are none included, every figure
\* and every item stored is a number (data/financial.go:49).
THEOREM FinancialTypeCorrect == Spec => []TypeOK
<1>1. TypeInv => TypeOK
  BY DEF TypeInv
<1>2. QED
  BY <1>1, InitTyped, NextTyped, PTL DEF Spec

-----------------------------------------------------------------------------
(* An update is of an item of the application it names.                    *)

LEMMA StepOwned ==
    ASSUME TypeInv, OwnInv, ItemsStay,
           NEW r \in Requests, NEW step \in Steps, NEW j \in Jobs,
           Step(r, step, j), JobFits(step, j), OwnJob(step, j)
    PROVE  OwnInv'
<1> SUFFICES ASSUME NEW q \in Requests, pc'[q] \in {"check", "write"}, job'[q].op = "update"
             PROVE  items'[job'[q].item] # None /\ items'[job'[q].item].app = job'[q].app
  BY DEF OwnInv, OwnJob
<1>1. CASE q = r
  <2>1. pc'[q] = step /\ job'[q] = j
    BY <1>1 DEF Step, TypeInv, TypeOK
  <2>2. j.item \in Items
    BY <2>1 DEF JobFits
  <2>3. QED
    BY <2>1, <2>2 DEF OwnJob, ItemsStay
<1>2. CASE q # r
  <2>1. pc'[q] = pc[q] /\ job'[q] = job[q]
    BY <1>2 DEF Step, TypeInv, TypeOK
  <2>2. job[q].item \in Items /\ OwnJob(pc[q], job[q])
    BY <2>1 DEF TypeInv, JobFits, OwnInv
  <2>3. QED
    BY <2>1, <2>2 DEF OwnJob, ItemsStay
<1>3. QED
  BY <1>1, <1>2

LEMMA StoredStay ==
    ASSUME TypeInv, NEW r \in Requests, Stored(r)
    PROVE  ItemsStay
<1>1. CASE Upsert(r)
  BY <1>1 DEF Upsert, ItemsStay
<1>2. CASE Create(r)
  BY <1>2 DEF Create, ItemsStay, TypeInv, TypeOK
<1>3. CASE Update(r)
  <2>1. job[r].item \in Items /\ items[job[r].item] \in ItemRows
    BY <1>3 DEF Update, Matches, Stored, TypeInv, TypeOK, JobFits
  <2>2. job[r].app \in Apps /\ Parsed(job[r].amount) \in Amounts
    BY ParsedTyped DEF Stored, TypeInv, JobFits
  <2> DEFINE new == [items[job[r].item] EXCEPT !.amount = Parsed(job[r].amount)]
  <2>3. new.app = items[job[r].item].app /\ new # None
    <3>1. new.app = items[job[r].item].app /\ new \in ItemRows
      BY <2>1, <2>2 DEF ItemRows
    <3>2. QED
      BY <3>1, FinancialAssumption
  <2>4. items' = [items EXCEPT ![job[r].item] = new]
    BY <1>3 DEF Update
  <2>5. QED
    BY <2>3, <2>4 DEF ItemsStay, TypeInv, TypeOK
<1>4. QED
  BY <1>1, <1>2, <1>3 DEF Stored

LEMMA NextOwned ==
    ASSUME OwnItems
    PROVE  TypeInv /\ OwnInv /\ [Next]_vars => OwnInv'
<1> SUFFICES ASSUME TypeInv, OwnInv, [Next]_vars PROVE OwnInv'
  OBVIOUS
<1>1. CASE UNCHANGED vars
  BY <1>1 DEF vars, OwnInv, OwnJob
<1>2. CASE StatusMoves
  BY <1>2 DEF StatusMoves, OwnInv, OwnJob
<1>3. ASSUME UNCHANGED items PROVE ItemsStay
  BY <1>3 DEF ItemsStay
<1>4. ASSUME NEW r \in Requests, BeginUpsert(r) \/ BeginCreate(r) \/ BeginUpdate(r)
      PROVE  OwnInv'
  BY <1>3, <1>4, BeginShaped, StepOwned DEF Begin, tables, Steps
<1>5. ASSUME NEW r \in Requests,
             \/ CheckLock(r) \/ Write(r) \/ WriteLost(r) \/ Refused(r) \/ Fail(r) \/ Return(r)
      PROVE  OwnInv'
  <2>1. ItemsStay
    BY <1>3, <1>5, StoredStay
       DEF CheckLock, Write, WriteLost, Refused, Fail, Return, tables
  <2>2. \A outcome \in {"ok", "failed", "idle"} :
           JobFits(outcome, NoJob) /\ OwnJob(outcome, NoJob)
    BY DEF JobFits, OwnJob
  <2>3. CASE pc[r] = "check" /\ Step(r, "write", job[r])
    <3>1. job[r] \in Jobs /\ JobFits("write", job[r]) /\ OwnJob("write", job[r])
      BY <2>3 DEF TypeInv, TypeOK, OwnInv, JobFits, OwnJob
    <3>2. QED
      BY <2>1, <2>3, <3>1, StepOwned DEF Steps
  <2>4. CASE \E outcome \in {"ok", "failed", "idle"} : Step(r, outcome, NoJob)
    BY <2>1, <2>2, <2>4, StepOwned, NoJobTyped DEF Steps
  <2>5. QED
    BY <1>5, <2>3, <2>4 DEF CheckLock, Write, WriteLost, Refused, Fail, Return, Answer
<1>6. QED
  BY <1>1, <1>2, <1>4, <1>5 DEF Next

LEMMA InitOwned == Init => OwnInv
BY DEF Init, OwnInv, OwnJob

-----------------------------------------------------------------------------
(* The refinement.                                                         *)

Records == [a \in Apps |-> RecordsOf(a)]

Permits == {<<r, job[r].app>> : r \in {q \in Requests : pc[q] = "write"}}

\* What a step of request r does to the permits.
LEMMA StepPermits ==
    ASSUME TypeInv,
           NEW r \in Requests, NEW step \in Steps, NEW j \in Jobs,
           Step(r, step, j)
    PROVE  /\ step # "write" /\ pc[r] # "write" => Permits' = Permits
           /\ step # "write" /\ pc[r] = "write" => Permits' = Permits \ {<<r, job[r].app>>}
           /\ step = "write" /\ pc[r] # "write" => Permits' = Permits \cup {<<r, j.app>>}
<1>1. pc'[r] = step /\ job'[r] = j
  BY DEF Step, TypeInv, TypeOK
<1>2. \A q \in Requests \ {r} : pc'[q] = pc[q] /\ job'[q] = job[q]
  BY DEF Step, TypeInv, TypeOK
<1>3. CASE step # "write" /\ pc[r] # "write"
  BY <1>1, <1>2, <1>3 DEF Permits
<1>4. CASE step # "write" /\ pc[r] = "write"
  BY <1>1, <1>2, <1>4 DEF Permits
<1>5. CASE step = "write" /\ pc[r] # "write"
  BY <1>1, <1>2, <1>5 DEF Permits
<1>6. QED
  BY <1>3, <1>4, <1>5

\* A stored write changes the records of the application it was checked for, and
\* of no other.
LEMMA StoredOwn ==
    ASSUME TypeInv, OwnInv, NEW r \in Requests, Stored(r),
           NEW b \in Apps, b # job[r].app
    PROVE  RecordsOf(b)' = RecordsOf(b)
<1>1. JobFits("write", job[r]) /\ OwnJob("write", job[r])
  BY DEF Stored, TypeInv, OwnInv
<1>2. CASE Upsert(r)
  BY <1>1, <1>2 DEF Upsert, RecordsOf, TypeInv, TypeOK, JobFits
<1>3. CASE Create(r)
  <2>1. \E i \in Items : /\ items[i] = None /\ figures' = figures
                         /\ items' = [items EXCEPT ![i] = [app |-> job[r].app, kind |-> job[r].kind,
                                                          amount |-> Parsed(job[r].amount)]]
    BY <1>3 DEF Create
  <2>2. \A i \in Items : (items'[i] # None /\ items'[i].app = b) => items'[i] = items[i]
    BY <2>1 DEF TypeInv, TypeOK
  <2>3. \A i \in Items : (items[i] # None /\ items[i].app = b) => items'[i] = items[i]
    BY <2>1 DEF TypeInv, TypeOK
  <2>4. QED
    BY <2>1, <2>2, <2>3 DEF RecordsOf
<1>4. CASE Update(r)
  <2>1. job[r].item \in Items /\ items[job[r].item] # None /\ items[job[r].item].app = job[r].app
    BY <1>1, <1>4 DEF Update, JobFits, OwnJob
  <2>2. ItemsStay
    BY StoredStay
  <2>3. items'[job[r].item].app = job[r].app
    BY <2>1, <2>2 DEF ItemsStay
  <2>4. \A i \in Items : i # job[r].item => items'[i] = items[i]
    BY <1>4 DEF Update, TypeInv, TypeOK
  <2>5. QED
    BY <1>4, <2>1, <2>3, <2>4 DEF Update, RecordsOf
<1>5. QED
  BY <1>2, <1>3, <1>4 DEF Stored

LEMMA NextLocks ==
    ASSUME OwnItems, ~LookupsFail
    PROVE  TypeInv /\ OwnInv /\ [Next]_vars => [Locks!Next]_(Locks!vars)
<1> SUFFICES ASSUME TypeInv, OwnInv, [Next]_vars
             PROVE  [Locks!Next]_(Locks!vars)
  OBVIOUS
<1>1. ASSUME UNCHANGED <<status, Records, Permits>> PROVE UNCHANGED Locks!vars
  BY <1>1 DEF Locks!vars, Records, Permits
<1>2. ASSUME UNCHANGED <<figures, items>> PROVE Records' = Records
  BY <1>2 DEF Records, RecordsOf
<1>3. CASE UNCHANGED vars
  <2>1. Permits' = Permits
    BY <1>3 DEF vars, Permits
  <2>2. QED
    BY <1>1, <1>2, <1>3, <2>1 DEF vars
<1>4. CASE StatusMoves
  <2>1. Permits' = Permits /\ Records' = Records
    BY <1>2, <1>4 DEF StatusMoves, Permits
  <2>2. Locks!StatusMoves
    BY <2>1 DEF Locks!StatusMoves, Records, Permits
  <2>3. QED
    BY <2>2 DEF Locks!Next
<1>5. ASSUME NEW r \in Requests,
             \E j \in Jobs : Begin(r, j)
      PROVE  UNCHANGED Locks!vars
  <2>1. Permits' = Permits
    BY <1>5, StepPermits DEF Begin, Steps
  <2>2. QED
    BY <1>1, <1>2, <1>5, <2>1 DEF Begin, tables
<1>6. ASSUME NEW r \in Requests, BeginUpsert(r) \/ BeginCreate(r) \/ BeginUpdate(r)
      PROVE  \E j \in Jobs : Begin(r, j)
  BY <1>6, BeginShaped
<1>7. ASSUME NEW r \in Requests, pc[r] # "write", UNCHANGED tables,
             \E step \in Steps \ {"write"}, j \in Jobs : Step(r, step, j)
      PROVE  UNCHANGED Locks!vars
  <2>1. Permits' = Permits
    BY <1>7, StepPermits
  <2>2. QED
    BY <1>1, <1>2, <1>7, <2>1 DEF tables
<1>8. ASSUME NEW r \in Requests, pc[r] = "write", NEW outcome \in {"ok", "failed"},
             Answer(r, outcome), UNCHANGED tables \/ Stored(r)
      PROVE  Locks!Next
  <2>1. Permits' = Permits \ {<<r, job[r].app>>} /\ <<r, job[r].app>> \in Permits
    BY <1>8, StepPermits, NoJobTyped DEF Answer, Steps, Permits
  <2>2. job[r].app \in Apps /\ status' = status
    BY <1>8 DEF TypeInv, JobFits, Stored, tables
  <2>3. \A b \in Apps \ {job[r].app} : Records'[b] = Records[b]
    BY <1>8, StoredOwn DEF Records, RecordsOf, tables
  <2>4. Locks!Write(r, job[r].app)
    BY <2>1, <2>2, <2>3 DEF Locks!Write, Records, Permits
  <2>5. QED
    BY <2>2, <2>4 DEF Locks!Next, Locks!Write
<1>9. ASSUME NEW r \in Requests, CheckLock(r)
      PROVE  [Locks!Next]_(Locks!vars)
  <2>1. CASE status[job[r].app] # None /\ PassesLock(status[job[r].app]) /\ Step(r, "write", job[r])
    <3>1. job[r].app \in Apps /\ pc[r] = "check" /\ job[r] \in Jobs
      BY <1>9 DEF CheckLock, TypeInv, TypeOK, JobFits
    <3>2. status[job[r].app] \in Statuses \ Terminal
      BY <2>1, <3>1, ~LookupsFail DEF PassesLock, TypeInv, TypeOK
    <3>3. Permits' = Permits \cup {<<r, job[r].app>>}
      BY <2>1, <3>1, StepPermits DEF Steps
    <3>4. UNCHANGED <<status, Records>>
      BY <1>2, <1>9 DEF CheckLock, tables
    <3>5. Locks!Permit(r, job[r].app)
      BY <3>2, <3>3, <3>4 DEF Locks!Permit, Records, Permits
    <3>6. QED
      BY <3>1, <3>5 DEF Locks!Next, Locks!Permit
  <2>2. CASE Answer(r, "failed")
    BY <1>7, <1>9, <2>2, NoJobTyped DEF CheckLock, Answer, Steps
  <2>3. QED
    BY <1>9, <2>1, <2>2 DEF CheckLock
<1>10. ASSUME NEW r \in Requests, Write(r) \/ WriteLost(r) \/ Refused(r)
       PROVE  Locks!Next
  BY <1>8, <1>10 DEF Write, WriteLost, Refused, Stored
<1>11. ASSUME NEW r \in Requests, Fail(r) \/ Return(r)
       PROVE  [Locks!Next]_(Locks!vars)
  BY <1>7, <1>8, <1>11, NoJobTyped DEF Fail, Return, Answer, Steps
<1>12. QED
  BY <1>3, <1>4, <1>5, <1>6, <1>9, <1>10, <1>11 DEF Next

(***************************************************************************)
(* The records of an application change only by a request whose own check  *)
(* saw that application in a working status, once for each check, whatever *)
(* the interleaving and whatever fails (biz/financial.go:84), while the    *)
(* status lookup answers and clients name an item's own application.       *)
(***************************************************************************)
THEOREM RecordsChangeByPermit ==
    ASSUME OwnItems, ~LookupsFail
    PROVE  Spec => RecordsProtected
<1>1. Init => Locks!Init
  BY DEF Init, Locks!Init
<1>2. Spec => [](TypeInv /\ OwnInv)
  BY InitTyped, NextTyped, InitOwned, NextOwned, PTL DEF Spec
<1>3. QED
  BY <1>1, <1>2, NextLocks, PTL DEF Spec, RecordsProtected, Locks!Spec

=============================================================================
