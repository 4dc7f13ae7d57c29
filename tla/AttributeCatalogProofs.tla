----------------------- MODULE AttributeCatalogProofs -----------------------
(***************************************************************************)
(* Theorems about the attribute catalogue in the server of BackOffice, for *)
(* any number of requests, categories, attributes and owners, any load and *)
(* any faults: its foreign keys hold, and a listing, an answer and a save  *)
(* are what one database state would give, but for entries deleted since.  *)
(***************************************************************************)
EXTENDS BackOfficeProofs

(***************************************************************************)
(* The tables, and the transactions of the saves.  The rows a save has     *)
(* locked are its owner and attributes that exist: this is what makes a    *)
(* deletion wait, so that a commit stores no value of a deleted attribute. *)
(***************************************************************************)
Referenced ==
    /\ \A a \in Live : CategoryKnown(regs[a].category)
    /\ \A a, b \in Live : regs[a].code = regs[b].code => a = b
    /\ options \subseteq Live
    /\ \A o \in Owners, a \in Attributes : values[o][a] # None => a \in Live
    /\ deleted \subseteq Attributes \ Live

TablesInv ==
    /\ cats \in [Categories -> Writers \cup {None}]
    /\ regs \in [Attributes -> [code : Codes, category : Categories \cup {None}] \cup {NoEntry}]
    /\ values \in [Owners -> [Attributes -> Requests \cup {None}]]
    /\ Referenced
    /\ Seeded \subseteq options \cup deleted

Locks(r) ==
    IF pc[r] = "store values"
    THEN holds[r] \subseteq {job[r].owner} \cup (job[r].attributes \cap Live)
    ELSE holds[r] = {}

LocksInv == \A r \in Requests : Locks(r)

(***************************************************************************)
(* What a request has seen or done: part by part, the properties of        *)
(* AttributeCatalog for the answered requests, and what prepares them for  *)
(* the others.                                                             *)
(***************************************************************************)
ListedFits(r) ==
    pc[r] = "ok" /\ job[r].op = "list entries" =>
        \A a \in job[r].entries \cap Seeded : a \in job[r].options \/ a \in deleted

CategoryFits(r) ==
    /\ pc[r] = "read category" => cats[job[r].category] \in since[r]
    /\ pc[r] = "ok" /\ job[r].op \in {"get category", "create category", "update category"} =>
          job[r].reply \in since[r] \ {None}

\* A save that has not ended has stored nothing yet.
SaveFits(r) ==
    /\ \A o \in Owners, a \in Attributes : values[o][a] = r => pc[r] \in Ended
    /\ job[r].op = "save values" =>
          LET row == values[job[r].owner]
          IN  (pc[r] = "ok" \/ \E a \in Attributes : row[a] = r) =>
                  \A a \in job[r].attributes : row[a] # None \/ a \in deleted

CatalogInv ==
    /\ RequestInv /\ TablesInv /\ LocksInv
    /\ DOMAIN since = Requests
    /\ \A r \in Requests : pc[r] = "idle" => job[r] = NoJob
    /\ \A r \in Requests : ListedFits(r) /\ CategoryFits(r) /\ SaveFits(r)

-----------------------------------------------------------------------------
(* The tables.                                                             *)

LEMMA NoneApart == None \notin Requests /\ None \notin Codes
BY CatalogAssumption

LEMMA NothingAsked == NoJob.op # "save values"
<1>1. None # "save values"
  BY CatalogAssumption
<1>2. NoJob.op = None
  BY DEF NoJob
<1> QED
  BY <1>1, <1>2

LEMMA OwnersApart == \A a \in Attributes : a \notin Owners
BY CatalogAssumption

\* The references a step leaves alone, or only adds to.
LEMMA SameEntries ==
    ASSUME TablesInv, regs' = regs, options' = options, deleted' = deleted,
           cats' \in [Categories -> Writers \cup {None}],
           \A c \in Categories : cats[c] # None => cats'[c] # None,
           values' \in [Owners -> [Attributes -> Requests \cup {None}]],
           \A o \in Owners, a \in Attributes : values'[o][a] # None => a \in Live
    PROVE  TablesInv' /\ Live' = Live
<1>1. Live' = Live
  BY DEF Live
<1>2. \A a \in Live : CategoryKnown(regs[a].category)'
  BY DEF TablesInv, Referenced, CategoryKnown
<1> QED
  BY <1>1, <1>2 DEF TablesInv, Referenced

LEMMA CategoryWritten ==
    ASSUME TablesInv, NEW r \in Requests, NEW c \in Categories, NEW row \in Writers \cup {None},
           SetCategory(r, c, row)
    PROVE  /\ cats' \in [Categories -> Writers \cup {None}]
           /\ \A x \in Categories : cats'[x] = IF x = c THEN row ELSE cats[x]
BY DEF SetCategory, TablesInv

LEMMA CategoryTables ==
    ASSUME RequestInv, TablesInv, NEW r \in Requests, CreateCategory(r) \/ UpdateCategory(r)
    PROVE  TablesInv' /\ Live' = Live
<1>1. /\ job[r].category \in Categories
      /\ regs' = regs /\ options' = options /\ deleted' = deleted /\ values' = values
  BY CatalogJobs DEF CreateCategory, UpdateCategory, CategoryJob
<1>2. PICK row \in Writers \cup {None} :
         /\ SetCategory(r, job[r].category, row)
         /\ cats[job[r].category] # None => row # None
  <2>1. r \in Writers \cup {None} /\ r # None
    BY NoneApart DEF Writers
  <2>2. CASE CreateCategory(r)
    BY <2>1, <2>2 DEF CreateCategory
  <2>3. CASE UpdateCategory(r)
    <3>1. SetCategory(r, job[r].category, IF cats[job[r].category] = None THEN None ELSE r)
      BY <2>3 DEF UpdateCategory
    <3> QED
      BY <2>1, <3>1
  <2> QED
    BY <2>2, <2>3
<1>3. /\ cats' \in [Categories -> Writers \cup {None}]
      /\ \A c \in Categories : cats[c] # None => cats'[c] # None
  BY <1>1, <1>2, CategoryWritten
<1> QED
  BY <1>1, <1>3, SameEntries DEF TablesInv, Referenced

LEMMA DeleteCategoryTables ==
    ASSUME RequestInv, TablesInv, NEW r \in Requests, DeleteCategory(r)
    PROVE  TablesInv' /\ Live' = Live
<1> DEFINE c == job[r].category
<1>1. /\ c \in Categories /\ SetCategory(r, c, None)
      /\ regs' = [a \in Attributes |->
                     IF regs[a].category = c THEN [regs[a] EXCEPT !.category = None] ELSE regs[a]]
      /\ options' = options /\ deleted' = deleted /\ values' = values
  BY CatalogJobs DEF DeleteCategory, CategoryJob
<1>2. /\ cats' \in [Categories -> Writers \cup {None}]
      /\ \A x \in Categories : cats'[x] = IF x = c THEN None ELSE cats[x]
  BY <1>1, CategoryWritten
<1> HIDE DEF c
<1>3. ASSUME NEW a \in Attributes
      PROVE  /\ regs'[a] \in [code : Codes, category : Categories \cup {None}] \cup {NoEntry}
             /\ regs'[a] # NoEntry <=> regs[a] # NoEntry
             /\ regs'[a].code = regs[a].code
             /\ regs'[a].category = IF regs[a].category = c THEN None ELSE regs[a].category
  <2>1. CASE regs[a] = NoEntry
    BY <1>1, <2>1 DEF NoEntry
  <2>2. CASE regs[a] \in [code : Codes, category : Categories \cup {None}]
    <3>1. regs[a] # NoEntry /\ regs[a].code # None
      BY <2>2, NoneApart DEF NoEntry
    <3> QED
      BY <1>1, <2>2, <3>1 DEF NoEntry
  <2> QED
    BY <2>1, <2>2 DEF TablesInv
<1>4. Live' = Live
  BY <1>3 DEF Live
<1>5. \A a \in Live : CategoryKnown(regs[a].category)'
  <2>1. SUFFICES ASSUME NEW a \in Live PROVE CategoryKnown(regs[a].category)'
    OBVIOUS
  <2>2. CategoryKnown(regs[a].category) /\ a \in Attributes
    BY DEF TablesInv, Referenced, Live
  <2> QED
    BY <1>2, <1>3, <2>2 DEF CategoryKnown
<1>6. regs' \in [Attributes -> [code : Codes, category : Categories \cup {None}] \cup {NoEntry}]
  BY <1>1, <1>3
<1>7. \A a, b \in Live : regs'[a].code = regs'[b].code => a = b
  BY <1>3 DEF TablesInv, Referenced, Live
<1> QED
  BY <1>1, <1>2, <1>4, <1>5, <1>6, <1>7 DEF TablesInv, Referenced

LEMMA CreateEntryTables ==
    ASSUME RequestInv, TablesInv, NEW r \in Requests, CreateEntry(r)
    PROVE  TablesInv' /\ Live \subseteq Live'
<1>1. /\ job[r] \in CreateJob
      /\ \A a \in Live : regs[a].code # job[r].code
      /\ CategoryKnown(job[r].category)
      /\ cats' = cats /\ options' = options /\ deleted' = deleted /\ values' = values
  BY CatalogJobs DEF CreateEntry
<1>2. PICK n \in Attributes \ (Live \cup deleted) :
         regs' = [regs EXCEPT ![n] = [code |-> job[r].code, category |-> job[r].category]]
  BY DEF CreateEntry
<1>3. job[r].code \in Codes /\ job[r].category \in Categories \cup {None} /\ job[r].code # None
  BY <1>1, NoneApart DEF CreateJob, Category
<1>4. /\ regs'[n].code = job[r].code /\ regs'[n].category = job[r].category /\ regs'[n] # NoEntry
      /\ regs'[n] \in [code : Codes, category : Categories \cup {None}]
  BY <1>2, <1>3 DEF TablesInv, NoEntry
<1>5. \A a \in Attributes : a # n => regs'[a] = regs[a]
  BY <1>2 DEF TablesInv
<1>6. Live' = Live \cup {n}
  BY <1>4, <1>5 DEF Live
<1>7. \A a \in Live' : CategoryKnown(regs[a].category)'
  BY <1>1, <1>4, <1>5, <1>6 DEF TablesInv, Referenced, CategoryKnown, Live
<1>8. regs' \in [Attributes -> [code : Codes, category : Categories \cup {None}] \cup {NoEntry}]
  BY <1>2, <1>4 DEF TablesInv
<1>9. \A a, b \in Live' : regs'[a].code = regs'[b].code => a = b
  BY <1>1, <1>4, <1>5, <1>6 DEF TablesInv, Referenced, Live
<1> QED
  BY <1>1, <1>2, <1>6, <1>7, <1>8, <1>9 DEF TablesInv, Referenced

LEMMA UpdateEntryTables ==
    ASSUME RequestInv, TablesInv, NEW r \in Requests, UpdateEntry(r)
    PROVE  TablesInv' /\ Live' = Live
<1> DEFINE e == job[r].entry
<1>1. /\ e \in Live /\ e \in Attributes /\ job[r].category \in Categories \cup {None}
      /\ CategoryKnown(job[r].category)
      /\ regs' = [regs EXCEPT ![e].category = job[r].category]
      /\ cats' = cats /\ options' = options /\ deleted' = deleted /\ values' = values
  BY CatalogJobs DEF UpdateEntry, UpdateJob, Category
<1> HIDE DEF e
<1>2. regs[e] \in [code : Codes, category : Categories \cup {None}]
  BY <1>1 DEF TablesInv, Live
<1>3. regs'[e] = [regs[e] EXCEPT !.category = job[r].category]
  BY <1>1 DEF TablesInv
<1>4. /\ regs'[e].code = regs[e].code /\ regs'[e].category = job[r].category
      /\ regs'[e] \in [code : Codes, category : Categories \cup {None}]
  BY <1>1, <1>2, <1>3
<1>5. regs'[e] # NoEntry
  BY <1>4, NoneApart DEF NoEntry
<1>6. \A a \in Attributes : a # e => regs'[a] = regs[a]
  BY <1>1 DEF TablesInv
<1>7. Live' = Live
  BY <1>1, <1>5, <1>6 DEF Live
<1>8. \A a \in Live' : CategoryKnown(regs[a].category)'
  BY <1>1, <1>4, <1>6, <1>7 DEF TablesInv, Referenced, CategoryKnown, Live
<1>9. regs' \in [Attributes -> [code : Codes, category : Categories \cup {None}] \cup {NoEntry}]
  BY <1>1, <1>4, <1>6 DEF TablesInv
<1>10. \A a, b \in Live' : regs'[a].code = regs'[b].code => a = b
  BY <1>1, <1>4, <1>6, <1>7 DEF TablesInv, Referenced, Live
<1> QED
  BY <1>1, <1>7, <1>8, <1>9, <1>10 DEF TablesInv, Referenced

LEMMA DeleteEntryTables ==
    ASSUME RequestInv, TablesInv, NEW r \in Requests, DeleteEntry(r)
    PROVE  /\ TablesInv' /\ Live' = Live \ {job[r].entry} /\ deleted \subseteq deleted'
           /\ \A o \in Owners, a \in Attributes :
                 \/ values'[o][a] = values[o][a]
                 \/ values'[o][a] = None /\ (values[o][a] # None => a \in deleted')
<1> DEFINE e == job[r].entry
<1>1. /\ e \in Attributes
      /\ regs' = [regs EXCEPT ![e] = NoEntry]
      /\ options' = options \ {e}
      /\ values' = [o \in Owners |-> [values[o] EXCEPT ![e] = None]]
      /\ deleted' = deleted \cup ({e} \cap Live)
      /\ cats' = cats
  BY CatalogJobs DEF DeleteEntry, DeleteJob
<1> HIDE DEF e
<1>2. \A a \in Attributes : regs'[a] = IF a = e THEN NoEntry ELSE regs[a]
  BY <1>1 DEF TablesInv
<1>3. Live' = Live \ {e}
  BY <1>1, <1>2 DEF Live
<1>4. \A o \in Owners, a \in Attributes : values'[o][a] = IF a = e THEN None ELSE values[o][a]
  BY <1>1 DEF TablesInv
<1>5. \A a \in Live' : CategoryKnown(regs[a].category)'
  BY <1>1, <1>2, <1>3 DEF TablesInv, Referenced, CategoryKnown, Live
<1>6. regs' \in [Attributes -> [code : Codes, category : Categories \cup {None}] \cup {NoEntry}]
  BY <1>1, <1>2 DEF TablesInv
<1>7. \A a, b \in Live' : regs'[a].code = regs'[b].code => a = b
  BY <1>2, <1>3 DEF TablesInv, Referenced, Live
<1>8. values' \in [Owners -> [Attributes -> Requests \cup {None}]]
  BY <1>1 DEF TablesInv
<1>9. \A o \in Owners, a \in Attributes : values'[o][a] # None => a \in Live'
  BY <1>3, <1>4 DEF TablesInv, Referenced
<1>10. options' \subseteq Live' /\ deleted' \subseteq Attributes \ Live'
  BY <1>1, <1>3 DEF TablesInv, Referenced, Live
<1>11. Seeded \subseteq options' \cup deleted'
  BY <1>1 DEF TablesInv, Referenced
<1>12. Referenced'
  BY <1>5, <1>7, <1>9, <1>10 DEF Referenced
<1>13. TablesInv'
  BY <1>1, <1>6, <1>8, <1>11, <1>12 DEF TablesInv
<1>14. \A o \in Owners, a \in Attributes : values[o][a] # None => a \in Live
  BY DEF TablesInv, Referenced
<1> QED
  BY <1>1, <1>3, <1>4, <1>13, <1>14 DEF e

LEMMA CommitTables ==
    ASSUME RequestInv, TablesInv, LocksInv, NEW r \in Requests, Commit(r)
    PROVE  /\ TablesInv' /\ Live' = Live
           /\ \A o \in Owners, a \in Attributes :
                 values'[o][a] = IF o = job[r].owner /\ a \in job[r].attributes
                                 THEN r ELSE values[o][a]
<1> DEFINE w == job[r].owner
<1>1. /\ w \in Owners /\ job[r].attributes \subseteq Attributes /\ pc[r] = "store values"
      /\ job[r].attributes \subseteq holds[r]
      /\ values' = [values EXCEPT ![w] = [a \in Attributes |-> IF a \in holds[r] THEN r ELSE @[a]]]
      /\ cats' = cats /\ regs' = regs /\ options' = options /\ deleted' = deleted
  BY CatalogJobs DEF Commit, Unstored, SaveJob
<1>2. \A a \in Attributes : a \in holds[r] <=> a \in job[r].attributes
  BY <1>1, OwnersApart DEF LocksInv, Locks
<1>3. job[r].attributes \subseteq Live
  <2>1. holds[r] \subseteq {job[r].owner} \cup (job[r].attributes \cap Live)
    BY <1>1 DEF LocksInv, Locks
  <2> QED
    BY <1>1, <2>1, OwnersApart
<1> HIDE DEF w
<1>4. \A o \in Owners, a \in Attributes :
         values'[o][a] = IF o = w /\ a \in job[r].attributes THEN r ELSE values[o][a]
  BY <1>1, <1>2 DEF TablesInv
<1>5. values' \in [Owners -> [Attributes -> Requests \cup {None}]]
  <2>1. values[w] \in [Attributes -> Requests \cup {None}]
    BY <1>1 DEF TablesInv
  <2>2. [a \in Attributes |-> IF a \in holds[r] THEN r ELSE values[w][a]]
           \in [Attributes -> Requests \cup {None}]
    BY <2>1
  <2> QED
    BY <1>1, <2>2 DEF TablesInv
<1>6. \A o \in Owners, a \in Attributes : values'[o][a] # None => a \in Live
  BY <1>3, <1>4 DEF TablesInv, Referenced
<1>7. TablesInv' /\ Live' = Live
  BY <1>1, <1>5, <1>6, SameEntries DEF TablesInv
<1> QED
  BY <1>4, <1>7 DEF w

\* What every step keeps: the types and references of the tables; a value
\* that goes, goes with its entry.
LEMMA TablesKept ==
    ASSUME CatalogInv, NEW r \in Requests, CatalogActs(r) \/ CaseFileActs(r) \/ FailsOnly(r)
    PROVE  /\ TablesInv' /\ deleted \subseteq deleted'
           /\ \/ Live \subseteq Live'
              \/ DeleteEntry(r) /\ Live' = Live \ {job[r].entry}
           /\ \A o \in Owners, a \in Attributes :
                 \/ values'[o][a] = values[o][a]
                 \/ values'[o][a] = r /\ Commit(r)
                 \/ values'[o][a] = None /\ (values[o][a] # None => a \in deleted')
<1> USE DEF CatalogInv
<1>1. CASE UNCHANGED <<cats, regs, options, values, deleted>>
  BY <1>1 DEF TablesInv, Referenced, Live, CategoryKnown
<1>2. CASE CreateCategory(r) \/ UpdateCategory(r)
  <2>1. values' = values /\ deleted' = deleted
    BY <1>2 DEF CreateCategory, UpdateCategory
  <2> QED
    BY <1>2, <2>1, CategoryTables
<1>3. CASE DeleteCategory(r)
  <2>1. values' = values /\ deleted' = deleted
    BY <1>3 DEF DeleteCategory
  <2> QED
    BY <1>3, <2>1, DeleteCategoryTables
<1>4. CASE CreateEntry(r)
  <2>1. values' = values /\ deleted' = deleted
    BY <1>4 DEF CreateEntry
  <2> QED
    BY <1>4, <2>1, CreateEntryTables
<1>5. CASE UpdateEntry(r)
  <2>1. values' = values /\ deleted' = deleted
    BY <1>5 DEF UpdateEntry
  <2> QED
    BY <1>5, <2>1, UpdateEntryTables
<1>6. CASE DeleteEntry(r)
  BY <1>6, DeleteEntryTables
<1>7. CASE Commit(r)
  <2>1. deleted' = deleted
    BY <1>7 DEF Commit
  <2> QED
    BY <1>7, <2>1, CommitTables
<1>8. CASE BeginCatalog(r)
  BY <1>1, <1>8 DEF BeginCatalog, BeginCategory, BeginCreateEntry, BeginUpdateEntry,
                    BeginDeleteEntry, BeginList, BeginSave, catalogVars
<1>9. CASE \/ CategoryExists(r) \/ GetCategory(r) \/ EntryRefused(r) \/ ListEntries(r)
           \/ ListOptions(r) \/ WriteOwner(r) \/ StoreValue(r)
  BY <1>1, <1>9 DEF CategoryExists, GetCategory, EntryRefused, ListEntries, ListOptions,
                    WriteOwner, StoreValue, catalogVars
<1> QED
  BY <1>1, <1>2, <1>3, <1>4, <1>5, <1>6, <1>7, <1>8, <1>9
     DEF CatalogActs, CatalogStep, CaseFileActs, FailsOnly, catalogVars

-----------------------------------------------------------------------------
(* The locks of the saves.                                                 *)

LEMMA OwnLocks ==
    ASSUME CatalogInv, NEW r \in Requests, CatalogActs(r) \/ CaseFileActs(r) \/ FailsOnly(r)
    PROVE  Locks(r)'
<1> USE DEF CatalogInv
<1>1. CASE holds'[r] = {} /\ pc'[r] # "store values"
  BY <1>1 DEF Locks
<1>2. CASE BeginCatalog(r) \/ BeginCaseFile(r)
  <2>1. pc[r] = "idle" /\ holds'[r] = holds[r] /\ pc'[r] # "store values"
    BY <1>2, CatalogBegins, CaseFileBegins DEF ReadOps
  <2> QED
    BY <2>1, <1>1 DEF LocksInv, Locks
<1>3. CASE CaseFileStep(r) \/ FailsOnly(r)
  BY <1>1, <1>3, CaseFileEnds, FailureMoves DEF Ended
<1>4. CASE CreateCategory(r) \/ UpdateCategory(r) \/ ListEntries(r)
  <2>1. holds'[r] = holds[r] /\ pc[r] # "store values" /\ pc'[r] # "store values"
    BY <1>4 DEF CreateCategory, UpdateCategory, ListEntries, Goto, RequestInv
  <2> QED
    BY <2>1 DEF LocksInv, Locks
<1>5. CASE \/ CategoryExists(r) \/ GetCategory(r) \/ DeleteCategory(r) \/ CreateEntry(r)
           \/ UpdateEntry(r) \/ EntryRefused(r) \/ DeleteEntry(r) \/ ListOptions(r) \/ Commit(r)
  <2>1. holds'[r] = {} /\ pc'[r] \in Ended
    <3>1. Fail(r) \/ \E j : Finish(r, j)
      BY <1>5 DEF CategoryExists, GetCategory, FinishCategory, DeleteCategory, CreateEntry,
                  UpdateEntry, EntryRefused, DeleteEntry, ListOptions, Commit
    <3> QED
      BY <3>1 DEF Fail, Finish, Goto, Ended, RequestInv
  <2> QED
    BY <1>1, <2>1 DEF Ended
<1>6. CASE WriteOwner(r)
  <2>1. holds'[r] = {job[r].owner} /\ job'[r] = job[r] /\ pc'[r] = "store values"
    BY <1>6 DEF WriteOwner, Goto, RequestInv
  <2> QED
    BY <2>1 DEF Locks
<1>7. CASE StoreValue(r)
  <2>1. CASE Fail(r)
    BY <1>1, <2>1 DEF Fail, Goto, RequestInv
  <2>2. ASSUME NEW a \in Unstored(r), a \in Live, UNCHANGED <<pc, job>>,
               holds' = [holds EXCEPT ![r] = @ \cup {a}]
        PROVE  Locks(r)'
    <3>1. Live' = Live
      BY <1>7 DEF StoreValue, catalogVars, Live
    <3>2. holds'[r] = holds[r] \cup {a} /\ a \in job[r].attributes /\ pc[r] = "store values"
      BY <1>7, <2>2 DEF RequestInv, Unstored, StoreValue
    <3> QED
      BY <2>2, <3>1, <3>2 DEF LocksInv, Locks
  <2> QED
    BY <1>7, <2>1, <2>2 DEF StoreValue
<1> QED
  BY <1>2, <1>3, <1>4, <1>5, <1>6, <1>7 DEF CatalogActs, CaseFileActs, CatalogStep

\* An entry goes only when no save holds it.
LEMMA LocksKept ==
    ASSUME CatalogInv, NEW r \in Requests, CatalogActs(r) \/ CaseFileActs(r) \/ FailsOnly(r)
    PROVE  LocksInv'
<1> USE DEF CatalogInv
<1>1. Moved(r)
  BY EachMoves
<1>2. ASSUME NEW q \in Requests \ {r} PROVE Locks(q)'
  <2>1. pc'[q] = pc[q] /\ job'[q] = job[q] /\ holds'[q] = holds[q]
    BY <1>1 DEF Moved
  <2>2. CASE Live \subseteq Live'
    BY <2>1, <2>2 DEF LocksInv, Locks
  <2>3. CASE DeleteEntry(r) /\ Live' = Live \ {job[r].entry}
    <3>1. job[r].entry \notin holds[q]
      BY <2>3 DEF DeleteEntry
    <3> QED
      BY <2>1, <2>3, <3>1 DEF LocksInv, Locks
  <2> QED
    BY <2>2, <2>3, TablesKept
<1> QED
  BY <1>2, OwnLocks DEF LocksInv

-----------------------------------------------------------------------------
(* Listings.                                                               *)

LEMMA ListedKept ==
    ASSUME CatalogInv, NEW r \in Requests, CatalogActs(r) \/ CaseFileActs(r) \/ FailsOnly(r)
    PROVE  \A q \in Requests : ListedFits(q)'
<1> USE DEF CatalogInv
<1>1. Moved(r) /\ deleted \subseteq deleted'
  BY EachMoves, TablesKept
<1>2. SUFFICES ListedFits(r)'
  <2>1. \A q \in Requests \ {r} : ListedFits(q)'
    BY <1>1 DEF Moved, ListedFits
  <2> QED
    BY <2>1
<1>3. CASE pc'[r] # "ok" \/ job'[r].op # "list entries"
  BY <1>3 DEF ListedFits
<1>4. CASE ListOptions(r)
  <2>1. /\ job[r] \in ListJob /\ deleted' = deleted
        /\ job'[r] = [job[r] EXCEPT !.options = options \cap job[r].entries]
    BY <1>4, CatalogJobs DEF ListOptions, Finish, RequestInv, catalogVars
  <2>2. job'[r].options = options \cap job[r].entries /\ job'[r].entries = job[r].entries
    BY <2>1 DEF ListJob
  <2>3. Seeded \subseteq options \cup deleted
    BY DEF TablesInv
  <2> QED
    BY <2>1, <2>2, <2>3 DEF ListedFits
<1>5. CASE BeginCatalog(r) \/ BeginCaseFile(r) \/ FailsOnly(r)
  BY <1>3, <1>5, CatalogBegins, CaseFileBegins, FailureMoves DEF Ended, ReadOps
<1>6. CASE CaseFileStep(r)
  BY <1>3, <1>6, CaseFileEnds DEF CatalogOps
<1>7. CASE \/ CreateCategory(r) \/ UpdateCategory(r) \/ CategoryExists(r)
           \/ DeleteCategory(r) \/ GetCategory(r)
  <2>1. job[r] \in CategoryJob
    BY <1>7, CatalogJobs DEF CreateCategory, UpdateCategory, CategoryExists, DeleteCategory,
                             GetCategory
  <2>2. job'[r].op = job[r].op
    BY <1>7, CatalogKeepsOp DEF CatalogStep
  <2> QED
    BY <1>3, <2>1, <2>2 DEF CategoryJob
<1>8. CASE \/ CreateEntry(r) \/ UpdateEntry(r) \/ EntryRefused(r) \/ DeleteEntry(r)
           \/ WriteOwner(r) \/ StoreValue(r) \/ Commit(r)
  <2>1. job[r] \in CreateJob \cup UpdateJob \cup DeleteJob \cup SaveJob
    BY <1>8, CatalogJobs DEF CreateEntry, UpdateEntry, EntryRefused, DeleteEntry,
                             WriteOwner, StoreValue, Commit
  <2>2. job'[r].op = job[r].op
    BY <1>8, CatalogKeepsOp DEF CatalogStep
  <2> QED
    BY <1>3, <2>1, <2>2 DEF CreateJob, UpdateJob, DeleteJob, SaveJob
<1>9. CASE ListEntries(r)
  <2>1. pc'[r] # "ok"
    BY <1>9 DEF ListEntries, Goto, RequestInv
  <2> QED
    BY <1>3, <2>1
<1> QED
  BY <1>4, <1>5, <1>6, <1>7, <1>8, <1>9 DEF CatalogActs, CaseFileActs, CatalogStep

-----------------------------------------------------------------------------
(* Categories: since[r] has the version in the table while r reads.        *)

LEMMA VersionWritten ==
    ASSUME CatalogInv, NEW r \in Requests, Moved(r), NEW c \in Categories,
           NEW row \in Writers \cup {None}, SetCategory(r, c, row)
    PROVE  /\ DOMAIN since' = Requests /\ since'[r] = {row} /\ cats'[c] = row
           /\ \A q \in Requests \ {r} : CategoryFits(q)'
<1>1. \A x \in Categories : cats'[x] = IF x = c THEN row ELSE cats[x]
  BY CategoryWritten DEF CatalogInv
<1>2. \A q \in Requests \ {r} :
         since'[q] = IF pc[q] = "read category" /\ job[q].category = c
                     THEN since[q] \cup {row} ELSE since[q]
  BY DEF SetCategory
<1>3. ASSUME NEW q \in Requests \ {r} PROVE CategoryFits(q)'
  <2>1. CategoryFits(q) /\ pc'[q] = pc[q] /\ job'[q] = job[q]
    BY DEF CatalogInv, Moved
  <2>2. pc[q] = "read category" => job[q].category \in Categories
    BY CatalogJobs DEF CatalogInv, CategoryJob
  <2> QED
    BY <1>1, <1>2, <2>1, <2>2 DEF CategoryFits
<1> QED
  BY <1>1, <1>3 DEF SetCategory

LEMMA CategoriesKept ==
    ASSUME CatalogInv, NEW r \in Requests, CatalogActs(r) \/ CaseFileActs(r) \/ FailsOnly(r)
    PROVE  DOMAIN since' = Requests /\ \A q \in Requests : CategoryFits(q)'
<1> USE DEF CatalogInv
<1>1. Moved(r)
  BY EachMoves
<1>2. CASE /\ UNCHANGED <<cats, since>>
           /\ pc'[r] # "read category"
           /\ pc'[r] = "ok" => job'[r].op \notin {"get category", "create category", "update category"}
  <2>1. \A q \in Requests \ {r} : CategoryFits(q)'
    BY <1>1, <1>2 DEF Moved, CategoryFits
  <2>2. CategoryFits(r)'
    BY <1>2 DEF CategoryFits
  <2> QED
    BY <1>2, <2>1, <2>2
<1>3. CASE BeginCategory(r)
  <2>1. PICK op \in {"get category", "create category", "update category", "delete category"},
             c \in Categories :
           /\ Begin(r, IF op = "get category" THEN "read category" ELSE op,
                    [op |-> op, category |-> c, reply |-> None])
           /\ since' = [since EXCEPT ![r] = {cats[c]}]
    BY <1>3 DEF BeginCategory
  <2>2. /\ cats' = cats /\ job'[r].category = c /\ pc'[r] # "ok"
        /\ DOMAIN since' = Requests /\ since'[r] = {cats[c]}
        /\ \A q \in Requests \ {r} : since'[q] = since[q]
    BY <1>3, <2>1 DEF BeginCategory, Begin, Goto, RequestInv
  <2>3. CategoryFits(r)'
    BY <2>2 DEF CategoryFits
  <2>4. \A q \in Requests \ {r} : CategoryFits(q)'
    BY <1>1, <2>2 DEF Moved, CategoryFits
  <2> QED
    BY <2>2, <2>3, <2>4
<1>4. CASE CreateCategory(r) \/ UpdateCategory(r)
  <2>1. job[r].category \in Categories /\ job'[r] = job[r] /\ pc'[r] = "read category"
    BY <1>4, CatalogJobs DEF CreateCategory, UpdateCategory, CategoryJob, Goto, RequestInv
  <2>2. PICK row \in Writers \cup {None} : SetCategory(r, job[r].category, row)
    BY <1>4 DEF CreateCategory, UpdateCategory, Writers
  <2>3. /\ DOMAIN since' = Requests /\ since'[r] = {row} /\ cats'[job[r].category] = row
        /\ \A q \in Requests \ {r} : CategoryFits(q)'
    BY <1>1, <2>1, <2>2, VersionWritten
  <2>4. CategoryFits(r)'
    BY <2>1, <2>3 DEF CategoryFits
  <2> QED
    BY <2>3, <2>4
<1>5. CASE DeleteCategory(r)
  <2>1. /\ job[r].category \in Categories /\ job[r].op = "delete category"
        /\ job'[r] = job[r] /\ pc'[r] \in Ended
    BY <1>5, CatalogJobs DEF DeleteCategory, CategoryJob, Finish, Goto, Ended, RequestInv
  <2>2. SetCategory(r, job[r].category, None)
    BY <1>5 DEF DeleteCategory
  <2>3. DOMAIN since' = Requests /\ \A q \in Requests \ {r} : CategoryFits(q)'
    BY <1>1, <2>1, <2>2, VersionWritten
  <2>4. CategoryFits(r)'
    BY <2>1 DEF CategoryFits, Ended
  <2> QED
    BY <2>3, <2>4
<1>6. CASE GetCategory(r)
  <2>1. /\ UNCHANGED <<cats, since>> /\ pc[r] = "read category" /\ job[r] \in CategoryJob
        /\ CategoryFits(r)
    BY <1>6, CatalogJobs DEF GetCategory, catalogVars
  <2>2. \A q \in Requests \ {r} : CategoryFits(q)'
    BY <1>1, <2>1 DEF Moved, CategoryFits
  <2>3. CASE Fail(r)
    BY <2>1, <2>2, <2>3 DEF Fail, Goto, RequestInv, CategoryFits
  <2>4. CASE cats[job[r].category] # None /\ FinishCategory(r, cats[job[r].category])
    <3>1. /\ pc'[r] \in Ended
          /\ job'[r] = [job[r] EXCEPT !.reply = cats[job[r].category]]
      BY <2>4 DEF FinishCategory, Finish, Goto, Ended, RequestInv
    <3>2. job'[r].reply = cats[job[r].category]
      BY <2>1, <3>1 DEF CategoryJob
    <3>3. cats[job[r].category] \in since'[r] \ {None}
      BY <2>1, <2>4 DEF CategoryFits
    <3>4. CategoryFits(r)'
      BY <3>1, <3>2, <3>3 DEF CategoryFits, Ended
    <3> QED
      BY <2>1, <2>2, <3>4
  <2> QED
    BY <1>6, <2>3, <2>4 DEF GetCategory
<1>7. CASE CategoryExists(r)
  BY <1>2, <1>7 DEF CategoryExists, Fail, Goto, RequestInv, catalogVars
<1>8. CASE FailsOnly(r)
  BY <1>2, <1>8, FailureMoves DEF FailsOnly, catalogVars
<1>9. CASE CaseFileActs(r)
  <2>1. pc'[r] # "read category" /\ (pc'[r] = "ok" => job'[r].op \notin CatalogOps)
    BY <1>9, CaseFileBegins, CaseFileEnds DEF CaseFileActs, Ended, ReadOps
  <2> QED
    BY <1>2, <1>9, <2>1 DEF CaseFileActs, CatalogOps, catalogVars
<1>10. CASE \/ BeginCreateEntry(r) \/ BeginUpdateEntry(r) \/ BeginDeleteEntry(r)
            \/ BeginList(r) \/ BeginSave(r)
  <2>1. pc'[r] \in {"create entry", "update entry", "delete entry", "list entries", "write owner"}
    BY <1>10 DEF BeginCreateEntry, BeginUpdateEntry, BeginDeleteEntry, BeginList, BeginSave,
                 Begin, Goto, RequestInv
  <2>2. UNCHANGED <<cats, since>>
    BY <1>10 DEF BeginCreateEntry, BeginUpdateEntry, BeginDeleteEntry, BeginList, BeginSave,
                 catalogVars
  <2> QED
    BY <1>2, <2>1, <2>2
<1>11. CASE \/ CreateEntry(r) \/ UpdateEntry(r) \/ EntryRefused(r) \/ DeleteEntry(r)
            \/ ListEntries(r) \/ ListOptions(r) \/ WriteOwner(r) \/ StoreValue(r) \/ Commit(r)
  <2>1. job[r] \in CreateJob \cup UpdateJob \cup DeleteJob \cup ListJob \cup SaveJob
    BY <1>11, CatalogJobs DEF CreateEntry, UpdateEntry, EntryRefused, DeleteEntry,
                              ListEntries, ListOptions, WriteOwner, StoreValue, Commit
  <2>2. job'[r].op = job[r].op
    BY <1>11, CatalogKeepsOp DEF CatalogStep
  <2>3. job'[r].op \notin {"get category", "create category", "update category"}
    BY <2>1, <2>2 DEF CreateJob, UpdateJob, DeleteJob, ListJob, SaveJob
  <2>4. UNCHANGED <<cats, since>>
    BY <1>11 DEF CreateEntry, UpdateEntry, EntryRefused, DeleteEntry, ListEntries, ListOptions,
                 WriteOwner, StoreValue, Commit, catalogVars
  <2>5. pc'[r] # "read category"
    BY <1>11 DEF CreateEntry, UpdateEntry, EntryRefused, DeleteEntry, ListEntries, ListOptions,
                 WriteOwner, StoreValue, Commit, Goto, Fail, Finish, Ended, RequestInv
  <2> QED
    BY <1>2, <2>3, <2>4, <2>5
<1> QED
  BY <1>3, <1>4, <1>5, <1>6, <1>7, <1>8, <1>9, <1>10, <1>11
     DEF CatalogActs, BeginCatalog, CatalogStep

-----------------------------------------------------------------------------
(* Saves.                                                                  *)

\* A save of another request, and the values it stored.
LEMMA OtherSaves ==
    ASSUME CatalogInv, NEW r \in Requests, CatalogActs(r) \/ CaseFileActs(r) \/ FailsOnly(r),
           NEW q \in Requests \ {r}
    PROVE  SaveFits(q)'
<1> USE DEF CatalogInv
<1>1. SaveFits(q) /\ pc'[q] = pc[q] /\ job'[q] = job[q]
  BY EachMoves DEF Moved
<1>2. \A o \in Owners, a \in Attributes :
         \/ values'[o][a] = values[o][a]
         \/ values'[o][a] = r
         \/ values'[o][a] = None /\ (values[o][a] # None => a \in deleted')
  BY TablesKept
<1>3. q # r /\ q # None /\ r # None /\ deleted \subseteq deleted'
  BY TablesKept, NoneApart
<1>4. \A o \in Owners, a \in Attributes : values'[o][a] = q => values[o][a] = q
  BY <1>2, <1>3
<1>5. ASSUME job[q].op = "save values",
             pc[q] = "ok" \/ \E a \in Attributes : values'[job[q].owner][a] = q,
             NEW b \in job[q].attributes
      PROVE  values'[job[q].owner][b] # None \/ b \in deleted'
  <2>1. pc[q] # "idle"
    BY <1>5, NothingAsked
  <2>2. job[q] \in SaveJob
    BY <1>5, <2>1 DEF RequestInv, Fits, FitsCaseFile, FitsCatalog, FileJob, AddJob, RemoveJob,
                      ReadJob, ReadOps, CategoryJob, CreateJob, UpdateJob, DeleteJob, ListJob
  <2>3. job[q].owner \in Owners /\ b \in Attributes
    BY <1>5, <2>2 DEF SaveJob
  <2>4. values[job[q].owner][b] # None \/ b \in deleted
    BY <1>1, <1>4, <1>5, <2>3 DEF SaveFits
  <2> QED
    BY <1>2, <1>3, <2>3, <2>4
<1> QED
  BY <1>1, <1>4, <1>5 DEF SaveFits

LEMMA OwnSave ==
    ASSUME CatalogInv, NEW r \in Requests, CatalogActs(r) \/ CaseFileActs(r) \/ FailsOnly(r)
    PROVE  SaveFits(r)'
<1> USE DEF CatalogInv
<1>1. pc[r] \notin Ended
  BY EachMoves DEF Moved
<1>2. \A o \in Owners, a \in Attributes : values[o][a] # r
  BY <1>1 DEF SaveFits
<1>3. \A o \in Owners, a \in Attributes : values'[o][a] = r => Commit(r)
  BY <1>2, TablesKept, NoneApart
<1>4. CASE Commit(r)
  <2>1. /\ job'[r] = job[r] /\ job[r] \in SaveJob /\ pc'[r] \in Ended
    BY <1>4, CatalogJobs DEF Commit, Finish, Goto, Ended, RequestInv
  <2>2. \A a \in job[r].attributes : values'[job[r].owner][a] = r
    BY <1>4, <2>1, CommitTables DEF SaveJob
  <2> QED
    BY <2>1, <2>2, NoneApart DEF SaveFits
<1>5. CASE ~ Commit(r)
  <2>1. \A o \in Owners, a \in Attributes : values'[o][a] # r
    BY <1>3, <1>5
  <2>2. Fits(r, pc'[r], job'[r]) /\ pc'[r] # "idle"
    BY EachMoves DEF Moved
  <2>3. job'[r].op = "save values" => job'[r] \in SaveJob
    BY <2>2 DEF Fits, FitsCaseFile, FitsCatalog, FileJob, AddJob, RemoveJob,
                ReadJob, ReadOps, CategoryJob, CreateJob, UpdateJob, DeleteJob, ListJob
  <2>4. pc'[r] = "ok" => job'[r].op # "save values"
    <3>1. CASE BeginCatalog(r) \/ BeginCaseFile(r) \/ FailsOnly(r)
      BY <3>1, CatalogBegins, CaseFileBegins, FailureMoves DEF Ended, ReadOps
    <3>2. CASE CaseFileStep(r)
      BY <3>2, CaseFileEnds DEF CatalogOps
    <3>3. CASE \/ CreateCategory(r) \/ UpdateCategory(r) \/ CategoryExists(r)
               \/ DeleteCategory(r) \/ GetCategory(r)
      <4>1. job[r] \in CategoryJob
        BY <3>3, CatalogJobs DEF CreateCategory, UpdateCategory, CategoryExists, DeleteCategory,
                                 GetCategory
      <4>2. job'[r].op = job[r].op
        BY <3>3, CatalogKeepsOp DEF CatalogStep
      <4> QED
        BY <4>1, <4>2 DEF CategoryJob
    <3>4. CASE \/ CreateEntry(r) \/ UpdateEntry(r) \/ EntryRefused(r) \/ DeleteEntry(r)
               \/ ListEntries(r) \/ ListOptions(r)
      <4>1. job[r] \in CreateJob \cup UpdateJob \cup DeleteJob \cup ListJob
        BY <3>4, CatalogJobs DEF CreateEntry, UpdateEntry, EntryRefused, DeleteEntry,
                                 ListEntries, ListOptions
      <4>2. job'[r].op = job[r].op
        BY <3>4, CatalogKeepsOp DEF CatalogStep
      <4> QED
        BY <4>1, <4>2 DEF CreateJob, UpdateJob, DeleteJob, ListJob
    <3>5. CASE WriteOwner(r) \/ StoreValue(r)
      BY <3>5 DEF WriteOwner, StoreValue, Goto, Fail, RequestInv
    <3> QED
      BY <1>5, <3>1, <3>2, <3>3, <3>4, <3>5 DEF CatalogActs, CaseFileActs, CatalogStep
  <2> QED
    BY <2>1, <2>3, <2>4 DEF SaveFits, SaveJob
<1> QED
  BY <1>4, <1>5

-----------------------------------------------------------------------------
(* The invariant, and what it says.                                        *)

LEMMA CatalogStart ==
    ASSUME Init
    PROVE  CatalogInv
<1>1. \A a \in Seeded : /\ a \in Attributes /\ regs[a].code = CodeOf[a] /\ CodeOf[a] \in Codes
                      /\ \A b \in Seeded : CodeOf[a] = CodeOf[b] => a = b
  BY CatalogAssumption DEF Init, CatalogInit
<1>2. Live = Seeded
  <2>1. \A a \in Seeded : regs[a] # NoEntry /\ a \in Attributes
    BY <1>1, NoneApart DEF NoEntry
  <2>2. \A a \in Attributes \ Seeded : regs[a] = NoEntry
    BY DEF Init, CatalogInit
  <2> QED
    BY <2>1, <2>2 DEF Live
<1>3. Referenced
  <2>1. \A a, b \in Live : regs[a].code = regs[b].code => a = b
    BY <1>1, <1>2
  <2>2. \A a \in Live : CategoryKnown(regs[a].category)
    BY DEF Live, Init, CatalogInit
  <2>3. \A o \in Owners, a \in Attributes : values[o][a] = None
    BY DEF Init, CatalogInit
  <2>4. options \subseteq Live /\ deleted \subseteq Attributes \ Live
    BY <1>2 DEF Init, CatalogInit
  <2> QED
    BY <2>1, <2>2, <2>3, <2>4 DEF Referenced
<1>4. TablesInv
  <2>1. cats \in [Categories -> Writers \cup {None}]
    BY DEF Init, CatalogInit, Writers
  <2>2. values \in [Owners -> [Attributes -> Requests \cup {None}]]
    BY DEF Init, CatalogInit
  <2> QED
    BY <1>3, <2>1, <2>2 DEF TablesInv, Init, CatalogInit
<1>5. \A r \in Requests : pc[r] = "idle" /\ job[r] = NoJob /\ Locks(r)
  BY DEF Init, HandlersInit, Locks
<1>6. ASSUME NEW r \in Requests PROVE ListedFits(r) /\ CategoryFits(r) /\ SaveFits(r)
  <2>1. \A o \in Owners, a \in Attributes : values[o][a] # r
    BY NoneApart DEF Init, CatalogInit
  <2>2. job[r].op # "save values"
    BY <1>5, NothingAsked
  <2> QED
    BY <1>5, <2>1, <2>2 DEF ListedFits, CategoryFits, SaveFits
<1>7. DOMAIN since = Requests
  BY DEF Init, CatalogInit
<1> QED
  BY <1>4, <1>5, <1>6, <1>7, RequestInit DEF CatalogInv, LocksInv

LEMMA CatalogStays ==
    ASSUME CatalogInv, UNCHANGED <<handlerVars, catalogVars, fileVars>>
    PROVE  CatalogInv'
<1> USE DEF CatalogInv, handlerVars, catalogVars, fileVars
<1>1. RequestInv'
  BY DEF RequestInv
<1>2. TablesInv'
  BY DEF TablesInv, Referenced, Live, CategoryKnown
<1>3. LocksInv'
  BY DEF LocksInv, Locks, Live
<1>4. \A r \in Requests : ListedFits(r)' /\ CategoryFits(r)' /\ SaveFits(r)'
  BY DEF ListedFits, CategoryFits, SaveFits
<1> QED
  BY <1>1, <1>2, <1>3, <1>4

LEMMA CatalogStepKeeps ==
    ASSUME CatalogInv, [Next]_vars
    PROVE  CatalogInv'
<1>1. CASE UNCHANGED <<handlerVars, catalogVars, fileVars>>
  BY <1>1, CatalogStays
<1>2. ASSUME NEW r \in Requests, CatalogActs(r) \/ CaseFileActs(r) \/ FailsOnly(r)
      PROVE  CatalogInv'
  <2>1. RequestInv' /\ TablesInv' /\ LocksInv'
    BY <1>2, RequestStep, TablesKept, LocksKept DEF CatalogInv
  <2>2. DOMAIN since' = Requests
    BY <1>2, CategoriesKept
  <2>3. \A q \in Requests : ListedFits(q)' /\ CategoryFits(q)' /\ SaveFits(q)'
    BY <1>2, ListedKept, CategoriesKept, OwnSave, OtherSaves
  <2>4. \A q \in Requests : pc'[q] = "idle" => job'[q] = NoJob
    BY <1>2, EachMoves DEF CatalogInv, Moved
  <2> QED
    BY <2>1, <2>2, <2>3, <2>4 DEF CatalogInv
<1> QED
  BY <1>1, <1>2, NextActs

LEMMA CatalogInvariant == Spec => []CatalogInv
BY CatalogStart, CatalogStepKeeps, PTL DEF Spec

LEMMA CatalogFacts ==
    ASSUME CatalogInv
    PROVE  CatalogTypeOK /\ ListedWhole /\ CategoryAnswers /\ SavesAreWhole
<1>1. CatalogTypeOK
  BY DEF CatalogInv, TablesInv, Referenced, CatalogTypeOK
<1>2. ListedWhole
  BY DEF CatalogInv, ListedFits, ListedWhole
<1>3. CategoryAnswers
  BY DEF CatalogInv, CategoryFits, CategoryAnswers
<1>4. SavesAreWhole
  BY DEF CatalogInv, SaveFits, SavesAreWhole
<1> QED
  BY <1>1, <1>2, <1>3, <1>4

\* The rows of the catalogue have their types and refer to rows that exist, and
\* attribute codes stay unique, whatever deletions and saves run at once.
THEOREM CatalogTypeCorrect == Spec => []CatalogTypeOK
BY CatalogInvariant, CatalogFacts, PTL

\* The two statements of a listing of the registry never show an attribute that
\* still exists without its options.
THEOREM ListingsWhole == Spec => []ListedWhole
BY CatalogInvariant, CatalogFacts, PTL

\* The answer read back after a write of a category is a version that was in
\* the table since the write.
THEOREM CategoriesAnswered == Spec => []CategoryAnswers
BY CatalogInvariant, CatalogFacts, PTL

\* The values of a save become visible together, and none of them is that of
\* an entry that is already deleted.
THEOREM SavesWhole == Spec => []SavesAreWhole
BY CatalogInvariant, CatalogFacts, PTL
=============================================================================
