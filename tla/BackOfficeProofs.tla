-------------------------- MODULE BackOfficeProofs --------------------------
(***************************************************************************)
(* Theorems about the server of BackOffice, for any load and any faults:   *)
(* the lists it serves are those of KeysetListing, and what the case file  *)
(* answers is what it stores.  The catalogue's theorems are those of       *)
(* AttributeCatalogProofs, which share the invariant of the requests.      *)
(***************************************************************************)
EXTENDS BackOffice, KeysetListingProofs

\* No step of the catalogue, of the case file or of the server's requests
\* touches the lists; their own steps are those of ListingNext.
LEMMA NextOnLists == [Next]_vars => [ListingNext]_listingVars
<1> SUFFICES ASSUME [Next]_vars PROVE [ListingNext]_listingVars
  OBVIOUS
<1>1. CASE UNCHANGED vars
  BY <1>1 DEF vars, listingVars
<1>2. CASE \E r \in Requests :
               \/ Admits(1) /\ OfCatalog(BeginCatalog(r))
               \/ Admits(1) /\ OfCaseFile(BeginCaseFile(r))
               \/ Step(r)
               \/ StatementFails(r) /\ UNCHANGED <<catalogVars, fileVars, listingVars>>
  BY <1>2 DEF Step, OfCatalog, OfCaseFile
<1>3. CASE \E w \in Walkers :
               \/ Admits(WalkLoad) /\ OfListing(StartWalk(w))
               \/ OfListing(WalkStep(w))
               \/ OfListing(CallFails(w))
               \/ OfListing(Retry(w))
  BY <1>3 DEF OfListing, ListingNext
<1>4. CASE OfListing(Changes)
  BY <1>4 DEF OfListing, ListingNext
<1> QED
  BY <1>1, <1>2, <1>3, <1>4 DEF Next

\* Every behaviour of the server is one of the lists.
THEOREM ServesLists == Spec => ListingSpec
<1>1. Init => ListingInit
  BY DEF Init
<1> QED
  BY <1>1, NextOnLists, PTL DEF Spec, ListingSpec

\* Walks through the server's lists miss no row that was there all the time.
THEOREM ServerWalksComplete == Spec => []WalkComplete
BY ServesLists, WalksAreComplete, PTL

\* Walks through the server's lists show no row twice.
THEOREM ServerWalksDescend == Spec => []WalkDescends
BY ServesLists, WalksDescend, PTL

-----------------------------------------------------------------------------
(***************************************************************************)
(* The requests.  Fits(r, step, j) says which operation may be at which    *)
(* statement, and what a request for it holds.                             *)
(***************************************************************************)
Versions == Writers \cup {None}
PartyKeys == Parties \X Applications \X Roles
AnyKey   == PartyKeys \cup {<<None, None, None>>}
Asked    == [table : Filed, id : Requests,
             of : Applications \cup Requests \cup {"seed", None}]
FileRows == [table : Filed, id : Requests \cup {"seed"},
             of : Applications \cup Requests \cup {"seed"}]
Shown    == SUBSET (Asked \cup FileRows \cup AnyKey)
Category == Categories \cup {None}

FileJob   == [op : {"file"}, row : Asked]
AddJob    == [op : {"add party"}, key : AnyKey, slik : BOOLEAN]
RemoveJob == [op : {"remove party"}, key : AnyKey]
ReadOps   == {"get decision", "list documents", "list parties"}
ReadJob   == [op : ReadOps, of : Applications, known : Shown, reply : Shown]

CategoryJob == [op : {"get category", "create category", "update category", "delete category"},
                category : Categories, reply : Versions]
CreateJob   == [op : {"create entry"}, code : Codes, category : Category]
UpdateJob   == [op : {"update entry"}, entry : Attributes, category : Category]
DeleteJob   == [op : {"delete entry"}, entry : Attributes]
ListJob     == [op : {"list entries"}, by : {"all", None} \cup Categories,
                entries : SUBSET Attributes, options : SUBSET Attributes]
SaveJob     == [op : {"save values"}, owner : Owners, attributes : SUBSET Attributes]

FitsCaseFile(r, step, j) ==
    \/ j \in FileJob /\ j.row.id = r /\ step \in {"insert"} \cup Ended
    \/ j \in AddJob /\ step \in {"add party"} \cup Ended
    \/ j \in RemoveJob /\ step \in {"remove party"} \cup Ended
    \/ j \in ReadJob /\ step \in {j.op} \cup Ended

FitsCatalog(step, j) ==
    \/ /\ j \in CategoryJob
       /\ \/ step \in Ended
          \/ step = "read category" /\ j.op # "delete category"
          \/ step = j.op /\ j.op # "get category"
    \/ j \in CreateJob /\ step \in {"create entry"} \cup Ended
    \/ j \in UpdateJob /\ step \in {"update entry"} \cup Ended
    \/ j \in DeleteJob /\ step \in {"delete entry"} \cup Ended
    \/ j \in ListJob /\ step \in {"list entries", "list options"} \cup Ended
    \/ j \in SaveJob /\ step \in {"write owner", "store values"} \cup Ended

Fits(r, step, j) == FitsCaseFile(r, step, j) \/ FitsCatalog(step, j)

RequestInv ==
    /\ DOMAIN pc = Requests /\ DOMAIN job = Requests /\ DOMAIN holds = Requests
    /\ \A r \in Requests : pc[r] = "idle" \/ Fits(r, pc[r], job[r])
    /\ cats \in [Categories -> Versions]
    /\ options \subseteq Attributes
    /\ file \subseteq FileRows
    /\ DOMAIN parties = PartyKeys

\* A step of request r, and of no other request.
Moved(r) ==
    /\ DOMAIN pc' = Requests /\ DOMAIN job' = Requests /\ DOMAIN holds' = Requests
    /\ \A q \in Requests \ {r} : pc'[q] = pc[q] /\ job'[q] = job[q] /\ holds'[q] = holds[q]
    /\ pc[r] \notin Ended
    /\ pc'[r] # "idle"
    /\ Fits(r, pc'[r], job'[r])

LEMMA Beginning ==
    ASSUME RequestInv, NEW r \in Requests, NEW step, NEW j, Begin(r, step, j),
           step # "idle", Fits(r, step, j)
    PROVE  Moved(r)
BY DEF RequestInv, Begin, Goto, Moved, Ended

LEMMA Failing ==
    ASSUME RequestInv, NEW r \in Requests, Fail(r), pc[r] \notin Ended \cup {"idle"}
    PROVE  Moved(r) /\ pc'[r] = "failed" /\ job' = job
<1>1. Fits(r, "failed", job[r])
  BY DEF RequestInv, Fits, FitsCaseFile, FitsCatalog, Ended
<1> QED
  BY <1>1 DEF RequestInv, Fail, Goto, Moved, Ended

LEMMA Finishing ==
    ASSUME RequestInv, NEW r \in Requests, NEW j, Finish(r, j), pc[r] \notin Ended,
           Fits(r, "ok", j)
    PROVE  Moved(r) /\ pc'[r] \in Ended /\ job'[r] = j
<1>1. Fits(r, "failed", j)
  BY DEF Fits, FitsCaseFile, FitsCatalog, Ended
<1> QED
  BY <1>1 DEF RequestInv, Finish, Goto, Moved, Ended

-----------------------------------------------------------------------------
(* The beginnings and the steps of the case file.                          *)

LEMMA CaseFileBegins ==
    ASSUME RequestInv, NEW r \in Requests, BeginCaseFile(r)
    PROVE  /\ Moved(r) /\ holds' = holds /\ pc[r] = "idle"
           /\ pc'[r] \in {"insert", "add party", "remove party"} \cup ReadOps
<1>1. CASE BeginFile(r)
  <2>1. PICK table \in Filed, of \in Applications \cup Requests \cup {"seed", None} :
           Begin(r, "insert", [op |-> "file", row |-> [table |-> table, id |-> r, of |-> of]])
    BY <1>1 DEF BeginFile
  <2>2. [table |-> table, id |-> r, of |-> of] \in Asked
    BY DEF Asked
  <2>3. Fits(r, "insert", [op |-> "file", row |-> [table |-> table, id |-> r, of |-> of]])
    BY <2>2 DEF Fits, FitsCaseFile, FileJob
  <2>4. Moved(r)
    BY <2>1, <2>3, Beginning
  <2> QED
    BY <2>1, <2>4 DEF Begin, Goto, RequestInv
<1>2. CASE BeginParty(r)
  <2>1. PICK key \in AnyKey :
           \/ \E slik \in BOOLEAN :
                 Begin(r, "add party", [op |-> "add party", key |-> key, slik |-> slik])
           \/ Begin(r, "remove party", [op |-> "remove party", key |-> key])
    BY <1>2 DEF BeginParty, AnyKey, RequestInv
  <2>2. \A slik \in BOOLEAN :
           Fits(r, "add party", [op |-> "add party", key |-> key, slik |-> slik])
    BY DEF Fits, FitsCaseFile, AddJob
  <2>3. Fits(r, "remove party", [op |-> "remove party", key |-> key])
    BY DEF Fits, FitsCaseFile, RemoveJob
  <2>4. Moved(r)
    BY <2>1, <2>2, <2>3, Beginning
  <2> QED
    BY <2>1, <2>4 DEF Begin, Goto, RequestInv
<1>3. CASE BeginRead(r)
  <2>1. PICK a \in Applications :
           \E what \in {<<"get decision", AnsweredRows("decision", a)>>,
                       <<"list documents", AnsweredRows("document", a)>>,
                       <<"list parties", AnsweredParties(a)>>} :
             Begin(r, what[1], [op |-> what[1], of |-> a, known |-> what[2], reply |-> {}])
    BY <1>3 DEF BeginRead
  <2>2. PICK what \in {<<"get decision", AnsweredRows("decision", a)>>,
                       <<"list documents", AnsweredRows("document", a)>>,
                       <<"list parties", AnsweredParties(a)>>} :
           Begin(r, what[1], [op |-> what[1], of |-> a, known |-> what[2], reply |-> {}])
    BY <2>1
  <2>3. \A q \in Requests : pc[q] = "ok" /\ job[q].op = "file" => job[q].row \in Asked
    BY DEF RequestInv, Fits, FitsCaseFile, FitsCatalog, Ended, FileJob, AddJob, RemoveJob,
           ReadJob, ReadOps, CategoryJob, CreateJob, UpdateJob, DeleteJob, ListJob, SaveJob
  <2>4. \A q \in Requests : pc[q] = "ok" /\ job[q].op = "add party" => job[q].key \in AnyKey
    BY DEF RequestInv, Fits, FitsCaseFile, FitsCatalog, Ended, FileJob, AddJob, RemoveJob,
           ReadJob, ReadOps, CategoryJob, CreateJob, UpdateJob, DeleteJob, ListJob, SaveJob
  <2>5. what[1] \in ReadOps /\ what[2] \in Shown
    <3>1. AnsweredRows("decision", a) \in Shown /\ AnsweredRows("document", a) \in Shown
      <4>1. AnsweredRows("decision", a) \subseteq Asked
        BY <2>3 DEF AnsweredRows
      <4>2. AnsweredRows("document", a) \subseteq Asked
        BY <2>3 DEF AnsweredRows
      <4> QED
        BY <4>1, <4>2 DEF Shown
    <3>2. AnsweredParties(a) \in Shown
      <4>1. AnsweredParties(a) \subseteq AnyKey
        BY <2>4 DEF AnsweredParties
      <4> QED
        BY <4>1 DEF Shown
    <3>3. CASE what = <<"get decision", AnsweredRows("decision", a)>>
      BY <3>1, <3>3 DEF ReadOps
    <3>4. CASE what = <<"list documents", AnsweredRows("document", a)>>
      BY <3>1, <3>4 DEF ReadOps
    <3>5. CASE what = <<"list parties", AnsweredParties(a)>>
      BY <3>2, <3>5 DEF ReadOps
    <3> QED
      BY <3>3, <3>4, <3>5
  <2>6. [op |-> what[1], of |-> a, known |-> what[2], reply |-> {}] \in ReadJob
    BY <2>5 DEF ReadJob, Shown
  <2>7. what[1] # "idle"
    BY <2>5 DEF ReadOps
  <2>8. Moved(r)
    BY <2>2, <2>6, <2>7, Beginning DEF Fits, FitsCaseFile
  <2> QED
    BY <2>2, <2>5, <2>8 DEF Begin, Goto, RequestInv
<1> QED
  BY <1>1, <1>2, <1>3 DEF BeginCaseFile

\* What the statement a request is at says about the request.
LEMMA CaseFileJobs ==
    ASSUME RequestInv, NEW r \in Requests
    PROVE  /\ pc[r] = "insert" => job[r] \in FileJob /\ job[r].row.id = r
           /\ pc[r] = "add party" => job[r] \in AddJob
           /\ pc[r] = "remove party" => job[r] \in RemoveJob
           /\ pc[r] \in ReadOps => job[r] \in ReadJob /\ job[r].op = pc[r]
BY DEF RequestInv, Fits, FitsCaseFile, FitsCatalog, Ended, ReadOps, CategoryJob, ReadJob

LEMMA CaseFileMoves ==
    ASSUME RequestInv, NEW r \in Requests, CaseFileStep(r)
    PROVE  Moved(r)
<1> USE CaseFileJobs
<1>1. CASE Insert(r) \/ AddParty(r) \/ RemoveParty(r)
  <2>1. Finish(r, job[r]) /\ pc[r] \in {"insert", "add party", "remove party"}
    BY <1>1 DEF Insert, AddParty, RemoveParty
  <2>2. Fits(r, "ok", job[r])
    BY <2>1 DEF Fits, FitsCaseFile, Ended
  <2> QED
    BY <2>1, <2>2, Finishing DEF Ended
<1>2. CASE InsertRefused(r) \/ AddPartyRefused(r)
  BY <1>2, Failing DEF InsertRefused, AddPartyRefused, Ended
<1>3. CASE GetDecision(r) \/ ListDocuments(r) \/ ListParties(r)
  <2>1. pc[r] \in ReadOps /\ \E found \in Shown : Reply(r, found)
    <3>1. RowsOf("decision", job[r].of) \in Shown /\ RowsOf("document", job[r].of) \in Shown
      BY DEF RequestInv, RowsOf, Shown
    <3>2. PartiesOf(job[r].of) \in Shown \/ pc[r] # "list parties"
      BY DEF PartiesOf, Shown, AnyKey, PartyKeys, ReadOps, ReadJob
    <3> QED
      BY <1>3, <3>1, <3>2 DEF GetDecision, ListDocuments, ListParties, ReadOps, Shown
  <2>2. PICK found \in Shown : Finish(r, [job[r] EXCEPT !.reply = found])
    BY <2>1 DEF Reply
  <2>3. [job[r] EXCEPT !.reply = found] \in ReadJob
    BY <2>1 DEF ReadJob
  <2>4. pc[r] \notin Ended
    BY <2>1 DEF ReadOps, Ended
  <2> QED
    BY <2>2, <2>3, <2>4, Finishing DEF Fits, FitsCaseFile, Ended
<1> QED
  BY <1>1, <1>2, <1>3 DEF CaseFileStep

-----------------------------------------------------------------------------
(* The beginnings and the steps of the catalogue.                          *)

LEMMA CatalogBegins ==
    ASSUME RequestInv, NEW r \in Requests, BeginCatalog(r)
    PROVE  /\ Moved(r) /\ holds' = holds /\ pc[r] = "idle"
           /\ pc'[r] \notin Ended \cup ReadOps \cup {"store values"}
<1> USE DEF Ended, ReadOps
<1> DEFINE Began(step, j) == Begin(r, step, j) /\ step \notin {"idle", "store values"} \cup Ended \cup ReadOps
                             /\ Fits(r, step, j)
<1>1. ASSUME NEW step, NEW j, Began(step, j)
      PROVE  /\ Moved(r) /\ holds' = holds /\ pc[r] = "idle"
             /\ pc'[r] \notin Ended \cup ReadOps \cup {"store values"}
  BY <1>1, Beginning DEF RequestInv, Begin, Goto
<1> HIDE DEF Began
<1>2. CASE BeginCategory(r)
  <2>1. PICK op \in {"get category", "create category", "update category", "delete category"},
             c \in Categories :
           Begin(r, IF op = "get category" THEN "read category" ELSE op,
                    [op |-> op, category |-> c, reply |-> None])
    BY <1>2 DEF BeginCategory
  <2>2. [op |-> op, category |-> c, reply |-> None] \in CategoryJob
    BY DEF CategoryJob, Versions
  <2>3. Began(IF op = "get category" THEN "read category" ELSE op,
              [op |-> op, category |-> c, reply |-> None])
    BY <2>1, <2>2 DEF Began, Fits, FitsCatalog
  <2> QED
    BY <2>3, <1>1
<1>3. CASE BeginCreateEntry(r)
  <2>1. PICK k \in Codes, c \in Categories \cup {None} :
          Begin(r, "create entry", [op |-> "create entry", code |-> k, category |-> c])
    BY <1>3 DEF BeginCreateEntry
  <2>2. [op |-> "create entry", code |-> k, category |-> c] \in CreateJob
    BY DEF CreateJob, Category
  <2>3. Fits(r, "create entry", [op |-> "create entry", code |-> k, category |-> c])
    BY <2>2 DEF Fits, FitsCatalog
  <2>4. Began("create entry", [op |-> "create entry", code |-> k, category |-> c])
    BY <2>1, <2>3 DEF Began
  <2> QED
    BY <2>4, <1>1
<1>4. CASE BeginUpdateEntry(r)
  <2>1. PICK a \in Attributes, c \in Categories \cup {None} :
          Begin(r, "update entry", [op |-> "update entry", entry |-> a, category |-> c])
    BY <1>4 DEF BeginUpdateEntry
  <2>2. [op |-> "update entry", entry |-> a, category |-> c] \in UpdateJob
    BY DEF UpdateJob, Category
  <2>3. Fits(r, "update entry", [op |-> "update entry", entry |-> a, category |-> c])
    BY <2>2 DEF Fits, FitsCatalog
  <2>4. Began("update entry", [op |-> "update entry", entry |-> a, category |-> c])
    BY <2>1, <2>3 DEF Began
  <2> QED
    BY <2>4, <1>1
<1>5. CASE BeginDeleteEntry(r)
  <2>1. PICK a \in Attributes :
          Begin(r, "delete entry", [op |-> "delete entry", entry |-> a])
    BY <1>5 DEF BeginDeleteEntry
  <2>2. [op |-> "delete entry", entry |-> a] \in DeleteJob
    BY DEF DeleteJob
  <2>3. Fits(r, "delete entry", [op |-> "delete entry", entry |-> a])
    BY <2>2 DEF Fits, FitsCatalog
  <2>4. Began("delete entry", [op |-> "delete entry", entry |-> a])
    BY <2>1, <2>3 DEF Began
  <2> QED
    BY <2>4, <1>1
<1>6. CASE BeginList(r)
  <2>1. PICK by \in {"all", None} \cup Categories :
          Begin(r, "list entries",
                [op |-> "list entries", by |-> by, entries |-> {}, options |-> {}])
    BY <1>6 DEF BeginList
  <2>2. [op |-> "list entries", by |-> by, entries |-> {}, options |-> {}] \in ListJob
    BY DEF ListJob
  <2>3. Fits(r, "list entries", [op |-> "list entries", by |-> by, entries |-> {}, options |-> {}])
    BY <2>2 DEF Fits, FitsCatalog
  <2>4. Began("list entries", [op |-> "list entries", by |-> by, entries |-> {}, options |-> {}])
    BY <2>1, <2>3 DEF Began
  <2> QED
    BY <2>4, <1>1
<1>7. CASE BeginSave(r)
  <2>1. PICK o \in Owners, as \in (SUBSET Attributes) \ {{}} :
          Begin(r, "write owner", [op |-> "save values", owner |-> o, attributes |-> as])
    BY <1>7 DEF BeginSave
  <2>2. [op |-> "save values", owner |-> o, attributes |-> as] \in SaveJob
    BY DEF SaveJob
  <2>3. Fits(r, "write owner", [op |-> "save values", owner |-> o, attributes |-> as])
    BY <2>2 DEF Fits, FitsCatalog
  <2>4. Began("write owner", [op |-> "save values", owner |-> o, attributes |-> as])
    BY <2>1, <2>3 DEF Began
  <2> QED
    BY <2>4, <1>1
<1> QED
  BY <1>2, <1>3, <1>4, <1>5, <1>6, <1>7 DEF BeginCatalog

\* What the statement a request is at says about the request.
LEMMA CatalogJobs ==
    ASSUME RequestInv, NEW r \in Requests
    PROVE  /\ pc[r] \in {"create category", "update category", "delete category"} =>
                  job[r] \in CategoryJob /\ job[r].op = pc[r]
           /\ pc[r] = "read category" =>
                  job[r] \in CategoryJob /\ job[r].op # "delete category"
           /\ pc[r] = "create entry" => job[r] \in CreateJob
           /\ pc[r] = "update entry" => job[r] \in UpdateJob
           /\ pc[r] = "delete entry" => job[r] \in DeleteJob
           /\ pc[r] \in {"list entries", "list options"} => job[r] \in ListJob
           /\ pc[r] \in {"write owner", "store values"} => job[r] \in SaveJob
BY DEF RequestInv, Fits, FitsCaseFile, FitsCatalog, Ended, ReadOps, CategoryJob, ReadJob

LEMMA CatalogMoves ==
    ASSUME RequestInv, NEW r \in Requests, CatalogStep(r)
    PROVE  Moved(r)
<1> USE CatalogJobs DEF Ended
<1>1. CASE CreateCategory(r) \/ UpdateCategory(r)
  <2>1. /\ pc[r] \in {"create category", "update category"}
        /\ pc' = [pc EXCEPT ![r] = "read category"] /\ job' = job /\ holds' = holds
    BY <1>1 DEF CreateCategory, UpdateCategory, Goto
  <2>2. Fits(r, "read category", job[r])
    BY <2>1 DEF Fits, FitsCatalog
  <2> QED
    BY <2>1, <2>2 DEF RequestInv, Moved
<1>2. CASE CategoryExists(r) \/ EntryRefused(r)
  BY <1>2, Failing DEF CategoryExists, EntryRefused
<1>3. CASE GetCategory(r)
  <2>1. pc[r] = "read category" /\ job[r] \in CategoryJob
    BY <1>3 DEF GetCategory
  <2>2. PICK row \in Versions : Fail(r) \/ Finish(r, [job[r] EXCEPT !.reply = row])
    BY <1>3, <2>1 DEF GetCategory, FinishCategory, RequestInv, CategoryJob
  <2>3. [job[r] EXCEPT !.reply = row] \in CategoryJob
    BY <2>1 DEF CategoryJob
  <2>4. Fits(r, "ok", [job[r] EXCEPT !.reply = row])
    BY <2>3 DEF Fits, FitsCatalog
  <2> QED
    BY <2>1, <2>2, <2>4, Failing, Finishing
<1>4. CASE DeleteCategory(r) \/ CreateEntry(r) \/ UpdateEntry(r) \/ DeleteEntry(r) \/ Commit(r)
  <2>1. /\ Finish(r, job[r])
        /\ pc[r] \in {"delete category", "create entry", "update entry", "delete entry",
                       "store values"}
    BY <1>4 DEF DeleteCategory, CreateEntry, UpdateEntry, DeleteEntry, Commit
  <2>2. Fits(r, "ok", job[r])
    BY <2>1 DEF Fits, FitsCatalog
  <2> QED
    BY <2>1, <2>2, Finishing
<1>5. CASE ListEntries(r)
  <2>1. /\ pc[r] = "list entries" /\ job[r] \in ListJob /\ holds' = holds
        /\ pc' = [pc EXCEPT ![r] = "list options"]
        /\ job' = [job EXCEPT ![r].entries = Listed(job[r].by)]
    BY <1>5 DEF ListEntries, Goto
  <2>2. Listed(job[r].by) \in SUBSET Attributes
    BY DEF Listed, Live
  <2>3. job'[r] \in ListJob
    BY <2>1, <2>2 DEF ListJob, RequestInv
  <2>4. Fits(r, "list options", job'[r])
    BY <2>3 DEF Fits, FitsCatalog
  <2> QED
    BY <2>1, <2>4 DEF RequestInv, Moved
<1>6. CASE ListOptions(r)
  <2>1. /\ pc[r] = "list options" /\ job[r] \in ListJob
        /\ Finish(r, [job[r] EXCEPT !.options = options \cap job[r].entries])
    BY <1>6 DEF ListOptions
  <2>2. [job[r] EXCEPT !.options = options \cap job[r].entries] \in ListJob
    BY <2>1 DEF ListJob, RequestInv
  <2>3. Fits(r, "ok", [job[r] EXCEPT !.options = options \cap job[r].entries])
    BY <2>2 DEF Fits, FitsCatalog
  <2> QED
    BY <2>1, <2>3, Finishing
<1>7. CASE WriteOwner(r)
  <2>1. /\ pc[r] = "write owner" /\ job' = job
        /\ holds' = [holds EXCEPT ![r] = {job[r].owner}]
        /\ pc' = [pc EXCEPT ![r] = "store values"]
    BY <1>7 DEF WriteOwner, Goto
  <2>2. Fits(r, "store values", job[r])
    BY <2>1 DEF Fits, FitsCatalog
  <2> QED
    BY <2>1, <2>2 DEF RequestInv, Moved
<1>8. CASE StoreValue(r)
  <2>1. pc[r] = "store values"
    BY <1>8 DEF StoreValue
  <2>2. CASE Fail(r)
    BY <2>1, <2>2, Failing
  <2>3. CASE UNCHANGED <<pc, job>> /\ \E a \in Attributes : holds' = [holds EXCEPT ![r] = @ \cup {a}]
    BY <2>1, <2>3 DEF RequestInv, Moved
  <2>4. Unstored(r) \subseteq Attributes
    BY <2>1 DEF Unstored, SaveJob
  <2> QED
    BY <1>8, <2>2, <2>3, <2>4 DEF StoreValue
<1> QED
  BY <1>1, <1>2, <1>3, <1>4, <1>5, <1>6, <1>7, <1>8 DEF CatalogStep

-----------------------------------------------------------------------------
(* The requests go on as they began.                                       *)

CatalogOps == {"get category", "create category", "update category", "delete category",
               "create entry", "update entry", "delete entry", "list entries", "save values"}

LEMMA CatalogKeepsOp ==
    ASSUME RequestInv, NEW r \in Requests, CatalogStep(r)
    PROVE  /\ job'[r].op = job[r].op /\ job[r].op \in CatalogOps
           /\ pc'[r] \in {"read category", "list options", "store values"} \cup Ended
<1> USE CatalogJobs DEF Ended
<1>1. CASE \/ CreateCategory(r) \/ UpdateCategory(r) \/ CategoryExists(r)
           \/ DeleteCategory(r)
  <2>1. /\ job'[r] = job[r] /\ job[r] \in CategoryJob
        /\ pc'[r] \in {"read category"} \cup Ended
    BY <1>1 DEF CreateCategory, UpdateCategory, CategoryExists, DeleteCategory,
                Goto, Fail, Finish, RequestInv
  <2> QED
    BY <2>1 DEF CategoryJob, CatalogOps
<1>2. CASE GetCategory(r)
  <2>1. job[r] \in CategoryJob
    BY <1>2 DEF GetCategory
  <2>2. CASE Fail(r)
    BY <2>1, <2>2 DEF Fail, Goto, RequestInv, CategoryJob, CatalogOps
  <2>3. ASSUME NEW row, FinishCategory(r, row)
        PROVE  job'[r] = [job[r] EXCEPT !.reply = row] /\ pc'[r] \in Ended
    BY <2>3 DEF FinishCategory, Finish, Goto, RequestInv
  <2> QED
    BY <1>2, <2>1, <2>2, <2>3 DEF GetCategory, CategoryJob, CatalogOps
<1>3. CASE \/ CreateEntry(r) \/ UpdateEntry(r) \/ EntryRefused(r) \/ DeleteEntry(r)
  <2>1. /\ job'[r] = job[r] /\ job[r] \in CreateJob \cup UpdateJob \cup DeleteJob
        /\ pc'[r] \in Ended
    BY <1>3 DEF CreateEntry, UpdateEntry, EntryRefused, DeleteEntry, Goto, Fail, Finish, RequestInv
  <2> QED
    BY <2>1 DEF CreateJob, UpdateJob, DeleteJob, CatalogOps
<1>4. CASE ListEntries(r)
  <2>1. /\ job[r] \in ListJob /\ job'[r] = [job[r] EXCEPT !.entries = Listed(job[r].by)]
        /\ pc'[r] = "list options"
    BY <1>4 DEF ListEntries, Goto, RequestInv
  <2> QED
    BY <2>1 DEF ListJob, CatalogOps
<1>5. CASE ListOptions(r)
  <2>1. /\ job[r] \in ListJob /\ pc'[r] \in Ended
        /\ job'[r] = [job[r] EXCEPT !.options = options \cap job[r].entries]
    BY <1>5 DEF ListOptions, Finish, Goto, RequestInv
  <2> QED
    BY <2>1 DEF ListJob, CatalogOps
<1>6. CASE WriteOwner(r) \/ StoreValue(r) \/ Commit(r)
  <2>1. job'[r] = job[r] /\ job[r] \in SaveJob /\ pc'[r] \in {"store values"} \cup Ended
    BY <1>6 DEF WriteOwner, StoreValue, Commit, Goto, Fail, Finish, RequestInv
  <2> QED
    BY <2>1 DEF SaveJob, CatalogOps
<1> QED
  BY <1>1, <1>2, <1>3, <1>4, <1>5, <1>6 DEF CatalogStep

LEMMA CaseFileEnds ==
    ASSUME RequestInv, NEW r \in Requests, CaseFileStep(r)
    PROVE  /\ pc'[r] \in Ended /\ job'[r].op = job[r].op /\ job[r].op \notin CatalogOps
           /\ pc[r] \in {"insert", "add party", "remove party"} \cup ReadOps
           /\ holds'[r] = {}
<1> USE CaseFileJobs DEF Ended
<1>1. CASE \/ Insert(r) \/ InsertRefused(r) \/ AddParty(r) \/ AddPartyRefused(r)
           \/ RemoveParty(r)
  <2>1. /\ job'[r] = job[r] /\ job[r] \in FileJob \cup AddJob \cup RemoveJob
        /\ pc'[r] \in Ended /\ holds'[r] = {}
        /\ pc[r] \in {"insert", "add party", "remove party"}
    BY <1>1 DEF Insert, InsertRefused, AddParty, AddPartyRefused, RemoveParty,
                Goto, Fail, Finish, RequestInv
  <2> QED
    BY <2>1 DEF FileJob, AddJob, RemoveJob, CatalogOps
<1>2. CASE GetDecision(r) \/ ListDocuments(r) \/ ListParties(r)
  <2>1. pc[r] \in ReadOps /\ \E found : Reply(r, found)
    BY <1>2 DEF GetDecision, ListDocuments, ListParties, ReadOps
  <2>2. PICK found : job'[r] = [job[r] EXCEPT !.reply = found] /\ pc'[r] \in Ended /\ holds'[r] = {}
    BY <2>1 DEF Reply, Finish, Goto, RequestInv
  <2> QED
    BY <2>1, <2>2 DEF ReadJob, ReadOps, CatalogOps
<1> QED
  BY <1>1, <1>2 DEF CaseFileStep

\* The steps of the server, as far as requests and their tables go.
CatalogActs(r)  == (BeginCatalog(r) \/ CatalogStep(r)) /\ UNCHANGED fileVars
CaseFileActs(r) == (BeginCaseFile(r) \/ CaseFileStep(r)) /\ UNCHANGED catalogVars
FailsOnly(r)    == StatementFails(r) /\ UNCHANGED <<catalogVars, fileVars>>

LEMMA NextActs ==
    ASSUME [Next]_vars
    PROVE  \/ UNCHANGED <<handlerVars, catalogVars, fileVars>>
           \/ \E r \in Requests : CatalogActs(r) \/ CaseFileActs(r) \/ FailsOnly(r)
<1>1. CASE UNCHANGED vars
  BY <1>1 DEF vars
<1>2. CASE \E r \in Requests :
               \/ Admits(1) /\ OfCatalog(BeginCatalog(r))
               \/ Admits(1) /\ OfCaseFile(BeginCaseFile(r))
               \/ Step(r)
               \/ StatementFails(r) /\ UNCHANGED <<catalogVars, fileVars, listingVars>>
  BY <1>2 DEF Step, OfCatalog, OfCaseFile, CatalogActs, CaseFileActs, FailsOnly
<1>3. CASE \E w \in Walkers :
               \/ Admits(WalkLoad) /\ OfListing(StartWalk(w))
               \/ OfListing(WalkStep(w))
               \/ OfListing(CallFails(w))
               \/ OfListing(Retry(w))
  BY <1>3 DEF OfListing
<1>4. CASE OfListing(Changes)
  BY <1>4 DEF OfListing
<1> QED
  BY <1>1, <1>2, <1>3, <1>4 DEF Next

LEMMA FailureMoves ==
    ASSUME RequestInv, NEW r \in Requests, FailsOnly(r)
    PROVE  Moved(r) /\ pc'[r] = "failed" /\ job' = job /\ holds'[r] = {}
<1>1. Fail(r) /\ pc[r] \notin Ended \cup {"idle"}
  BY DEF FailsOnly, StatementFails
<1> QED
  BY <1>1, Failing DEF Fail, RequestInv

LEMMA EachMoves ==
    ASSUME RequestInv, NEW r \in Requests, CatalogActs(r) \/ CaseFileActs(r) \/ FailsOnly(r)
    PROVE  Moved(r)
BY CatalogBegins, CatalogMoves, CaseFileBegins, CaseFileMoves, FailureMoves
   DEF CatalogActs, CaseFileActs

-----------------------------------------------------------------------------
(* The tables the requests read have the types their answers need.         *)

LEMMA CatsTyped ==
    ASSUME RequestInv, NEW r \in Requests, CatalogActs(r)
    PROVE  cats' \in [Categories -> Versions] /\ options' \subseteq Attributes
<1> USE DEF RequestInv
<1>1. CASE UNCHANGED <<cats, options>>
  BY <1>1
<1>2. ASSUME NEW c \in Categories, NEW row \in Versions, SetCategory(r, c, row)
      PROVE  cats' \in [Categories -> Versions]
  BY <1>2 DEF SetCategory
<1>3. CASE CreateCategory(r) \/ UpdateCategory(r) \/ DeleteCategory(r)
  <2>1. job[r].category \in Categories
    BY <1>3, CatalogJobs DEF CreateCategory, UpdateCategory, DeleteCategory, CategoryJob
  <2>2. r \in Versions /\ None \in Versions
    BY DEF Versions, Writers
  <2>3. options' = options /\ \E row \in Versions : SetCategory(r, job[r].category, row)
    BY <1>3, <2>2 DEF CreateCategory, UpdateCategory, DeleteCategory
  <2> QED
    BY <1>2, <2>1, <2>3
<1>4. CASE DeleteEntry(r)
  BY <1>4 DEF DeleteEntry
<1>5. CASE BeginCatalog(r)
  BY <1>1, <1>5 DEF BeginCatalog, BeginCategory, BeginCreateEntry, BeginUpdateEntry,
                    BeginDeleteEntry, BeginList, BeginSave, catalogVars
<1> QED
  BY <1>1, <1>3, <1>4, <1>5
     DEF CatalogActs, CatalogStep, CategoryExists, GetCategory, CreateEntry, UpdateEntry,
         EntryRefused, ListEntries, ListOptions, WriteOwner, StoreValue, Commit, catalogVars

\* What a step does to the case file.
LEMMA CaseFileTables ==
    ASSUME RequestInv, NEW r \in Requests, CaseFileActs(r)
    PROVE  \/ UNCHANGED fileVars
           \/ Insert(r) /\ job[r].row \in FileRows /\ job[r].row.id = r
           \/ AddParty(r) /\ job[r].key \in PartyKeys /\ job[r].slik \in BOOLEAN
<1>1. CASE Insert(r)
  <2>1. job[r].row \in Asked /\ job[r].row.id = r
    BY <1>1, CaseFileJobs DEF Insert, FileJob
  <2>2. job[r].row.of \in Applications \cup Requests \cup {"seed"}
    BY <1>1 DEF Insert, ParentExists, IdsIn, RequestInv, FileRows
  <2> QED
    BY <1>1, <2>1, <2>2 DEF Asked, FileRows
<1>2. CASE AddParty(r)
  BY <1>2, CaseFileJobs DEF AddParty, CanAdd, RequestInv, AddJob
<1> QED
  BY <1>1, <1>2
     DEF CaseFileActs, BeginCaseFile, BeginFile, BeginParty, BeginRead, CaseFileStep,
         InsertRefused, AddPartyRefused, RemoveParty, GetDecision, ListDocuments, ListParties

LEMMA RequestInit ==
    ASSUME Init
    PROVE  RequestInv
<1>1. file \subseteq FileRows
  <2>1. (CHOOSE x \in Applications : TRUE) \in Applications
    BY CaseFileAssumption
  <2>2. \A x \in file : \E a \in Applications : x = SeedSession(a)
    BY <2>1 DEF Init, FileInit
  <2>3. \A a \in Applications : SeedSession(a) \in FileRows
    BY DEF SeedSession, FileRows, Filed
  <2> QED
    BY <2>2, <2>3
<1>2. cats \in [Categories -> Versions] /\ options \subseteq Attributes
  BY CatalogAssumption DEF Init, CatalogInit, Versions, Writers
<1> QED
  BY <1>1, <1>2 DEF Init, HandlersInit, FileInit, RequestInv, PartyKeys

LEMMA RequestStep ==
    ASSUME RequestInv, [Next]_vars
    PROVE  RequestInv'
<1>1. CASE UNCHANGED <<handlerVars, catalogVars, fileVars>>
  BY <1>1 DEF handlerVars, catalogVars, fileVars, RequestInv
<1>2. ASSUME NEW r \in Requests, CatalogActs(r) \/ CaseFileActs(r) \/ FailsOnly(r)
      PROVE  RequestInv'
  <2>1. Moved(r)
    BY <1>2, EachMoves
  <2>2. /\ DOMAIN pc' = Requests /\ DOMAIN job' = Requests /\ DOMAIN holds' = Requests
        /\ \A q \in Requests : pc'[q] = "idle" \/ Fits(q, pc'[q], job'[q])
    BY <2>1 DEF Moved, RequestInv
  <2>3. cats' \in [Categories -> Versions] /\ options' \subseteq Attributes
    BY <1>2, CatsTyped DEF RequestInv, CaseFileActs, FailsOnly, catalogVars
  <2>4. file' \subseteq FileRows /\ DOMAIN parties' = PartyKeys
    <3>1. CASE UNCHANGED fileVars
      BY <3>1 DEF RequestInv, fileVars
    <3>2. CASE CaseFileActs(r)
      BY <3>1, <3>2, CaseFileTables DEF RequestInv, Insert, AddParty
    <3> QED
      BY <1>2, <3>1, <3>2 DEF CatalogActs, FailsOnly
  <2> QED
    BY <2>2, <2>3, <2>4 DEF RequestInv
<1> QED
  BY <1>1, <1>2, NextActs

-----------------------------------------------------------------------------
(***************************************************************************)
(* The case file.  Stored(op, a) is what a read of application a finds;    *)
(* Told says of each request what it was told, or will be told at least.   *)
(***************************************************************************)
Stored(op, a) ==
    IF op = "list parties" THEN PartiesOf(a)
    ELSE RowsOf(IF op = "get decision" THEN "decision" ELSE "document", a)

Told(r) ==
    /\ pc[r] = "ok" /\ job[r].op = "file" => job[r].row \in file
    /\ pc[r] = "ok" /\ job[r].op = "add party" =>
          job[r].key \in PartyKeys /\ parties[job[r].key] = job[r].slik
    /\ pc[r] \in ReadOps => job[r].known \subseteq Stored(pc[r], job[r].of)
    /\ pc[r] = "ok" /\ job[r].op \in {"list documents", "list parties"} =>
          job[r].known \subseteq job[r].reply
    /\ pc[r] = "ok" /\ job[r].op = "get decision" =>
          /\ job[r].known # {} => job[r].reply # {}
          /\ \A row \in job[r].reply : row.of = job[r].of /\ row.table = "decision"

\* The id of a row is that of a request that has ended: the INSERT of a
\* request that is still at work brings an id no row has.
RowsInv ==
    /\ \A x, y \in file : x.id = y.id => x = y
    /\ \A x \in file : x.id \in Requests => pc[x.id] \in Ended
    /\ \A x \in file : ParentExists(x.table, x.of)
    /\ parties \in [PartyKeys -> BOOLEAN \cup {None}]

FileInv == RequestInv /\ RowsInv /\ \A r \in Requests : Told(r)

Grows ==
    /\ file \subseteq file'
    /\ \A k \in PartyKeys : parties[k] # None => parties'[k] = parties[k]

LEMMA AnsweredJobs ==
    ASSUME RequestInv, NEW r \in Requests, pc[r] \in Ended
    PROVE  /\ job[r].op = "file" => job[r] \in FileJob
           /\ job[r].op = "add party" => job[r] \in AddJob
           /\ job[r].op \in ReadOps => job[r] \in ReadJob
BY DEF RequestInv, Fits, FitsCaseFile, FitsCatalog, Ended, FileJob, AddJob, RemoveJob,
       ReadJob, ReadOps, CategoryJob, CreateJob, UpdateJob, DeleteJob, ListJob, SaveJob

LEMMA StoredGrows ==
    ASSUME Grows, NEW op, NEW a \in Applications
    PROVE  Stored(op, a) \subseteq Stored(op, a)'
<1>1. PartiesOf(a) \subseteq PartiesOf(a)'
  BY DEF PartiesOf, Grows, PartyKeys
<1>2. \A table : RowsOf(table, a) \subseteq RowsOf(table, a)'
  BY DEF RowsOf, Grows
<1> QED
  BY <1>1, <1>2 DEF Stored

\* What a request was told stays true when others move on.
LEMMA ToldStays ==
    ASSUME RequestInv, Grows, NEW r \in Requests, Told(r), pc'[r] = pc[r], job'[r] = job[r]
    PROVE  Told(r)'
<1>1. pc[r] = "ok" /\ job[r].op = "add party" => parties'[job[r].key] = job[r].slik
  BY AnsweredJobs, CaseFileAssumption DEF Grows, Told, AddJob, Ended
<1>2. (pc[r] \in ReadOps => job[r].known \subseteq Stored(pc[r], job[r].of))'
  <2>1. pc[r] \in ReadOps => job[r].of \in Applications
    BY CaseFileJobs DEF ReadJob
  <2>2. pc[r] \in ReadOps => \E op \in ReadOps, a \in Applications :
           /\ pc[r] = op /\ job[r].of = a
           /\ job[r].known \subseteq Stored(op, a)
    BY <2>1 DEF Told
  <2>3. pc[r] \in ReadOps => \E op \in ReadOps, a \in Applications :
           /\ pc'[r] = op /\ job'[r].of = a
           /\ job'[r].known \subseteq Stored(op, a)'
    BY <2>2, StoredGrows
  <2> QED
    BY <2>3 DEF Stored, PartiesOf, RowsOf
<1> QED
  BY <1>1, <1>2 DEF Told, Grows

LEMMA RowsKept ==
    ASSUME FileInv, NEW r \in Requests, CatalogActs(r) \/ CaseFileActs(r) \/ FailsOnly(r)
    PROVE  Grows /\ RowsInv'
<1>1. Moved(r)
  BY EachMoves DEF FileInv
<1>2. \A q \in Requests : pc[q] \in Ended => pc'[q] \in Ended
  BY <1>1 DEF Moved
<1>3. CASE UNCHANGED fileVars
  <2>1. \A x \in file : ParentExists(x.table, x.of)'
    BY <1>3 DEF FileInv, RowsInv, ParentExists, IdsIn, fileVars
  <2> QED
    BY <1>2, <1>3, <2>1 DEF FileInv, RowsInv, Grows, fileVars
<1>4. CASE Insert(r) /\ job[r].row \in FileRows /\ job[r].row.id = r
  <2>1. /\ file' = file \cup {job[r].row} /\ parties' = parties /\ pc'[r] \in Ended
        /\ ParentExists(job[r].row.table, job[r].row.of) /\ pc[r] = "insert"
    BY <1>4 DEF Insert, Finish, Goto, Ended, FileInv, RequestInv
  <2>2. \A x \in file : x.id # r
    BY <2>1 DEF FileInv, RowsInv, Ended
  <2>3. \A table, of : ParentExists(table, of) => ParentExists(table, of)'
    BY <2>1 DEF ParentExists, IdsIn
  <2> QED
    BY <1>2, <1>4, <2>1, <2>2, <2>3 DEF FileInv, RowsInv, Grows
<1>5. CASE AddParty(r) /\ job[r].key \in PartyKeys /\ job[r].slik \in BOOLEAN
  <2>1. /\ file' = file /\ parties' = [parties EXCEPT ![job[r].key] = job[r].slik]
        /\ parties[job[r].key] = None
    BY <1>5 DEF AddParty, CanAdd
  <2>2. parties' \in [PartyKeys -> BOOLEAN \cup {None}]
    BY <1>5, <2>1 DEF FileInv, RowsInv
  <2>3. \A x \in file : ParentExists(x.table, x.of)'
    BY <2>1 DEF FileInv, RowsInv, ParentExists, IdsIn
  <2>4. Grows
    BY <1>5, <2>1 DEF FileInv, RowsInv, Grows
  <2> QED
    BY <1>2, <2>1, <2>2, <2>3, <2>4 DEF FileInv, RowsInv
<1> QED
  BY <1>3, <1>4, <1>5, CaseFileTables DEF FileInv, CatalogActs, FailsOnly

LEMMA ReadAsks ==
    ASSUME FileInv, NEW r \in Requests, UNCHANGED fileVars,
           NEW op \in ReadOps, NEW a \in Applications, NEW known \in SUBSET Stored(op, a),
           Begin(r, op, [op |-> op, of |-> a, known |-> known, reply |-> {}])
    PROVE  Told(r)'
<1>1. pc'[r] = op /\ job'[r] = [op |-> op, of |-> a, known |-> known, reply |-> {}]
  BY DEF Begin, Goto, FileInv, RequestInv
<1>2. pc'[r] = op /\ job'[r].of = a /\ job'[r].known = known
  BY <1>1
<1>3. /\ op = "list parties" => known \subseteq PartiesOf(a)'
      /\ op # "list parties" => known \subseteq RowsOf(IF op = "get decision" THEN "decision" ELSE "document", a)'
  BY DEF Stored, PartiesOf, RowsOf, fileVars
<1>4. (pc[r] \in ReadOps => job[r].known \subseteq Stored(pc[r], job[r].of))'
  BY <1>2, <1>3 DEF Stored, PartiesOf, RowsOf
<1> QED
  BY <1>2, <1>4 DEF Told, ReadOps

LEMMA ReadBegins ==
    ASSUME FileInv, NEW r \in Requests, BeginRead(r)
    PROVE  Told(r)'
<1>1. PICK a \in Applications :
         \E what \in {<<"get decision", AnsweredRows("decision", a)>>,
                     <<"list documents", AnsweredRows("document", a)>>,
                     <<"list parties", AnsweredParties(a)>>} :
           Begin(r, what[1], [op |-> what[1], of |-> a, known |-> what[2], reply |-> {}])
  BY DEF BeginRead
<1>2. PICK what \in {<<"get decision", AnsweredRows("decision", a)>>,
                     <<"list documents", AnsweredRows("document", a)>>,
                     <<"list parties", AnsweredParties(a)>>} :
         Begin(r, what[1], [op |-> what[1], of |-> a, known |-> what[2], reply |-> {}])
  BY <1>1
<1>3. \A table : AnsweredRows(table, a) \subseteq RowsOf(table, a)
  BY DEF FileInv, Told, AnsweredRows, RowsOf
<1>4. AnsweredParties(a) \subseteq PartiesOf(a)
  <2>1. ASSUME NEW q \in Requests, pc[q] = "ok", job[q].op = "add party", job[q].key[2] = a
        PROVE  job[q].key \in PartiesOf(a)
    <3>1. job[q].key \in PartyKeys /\ parties[job[q].key] \in BOOLEAN
      BY <2>1, AnsweredJobs DEF FileInv, Told, AddJob, Ended
    <3>2. job[q].key \in Parties \X {a} \X Roles
      BY <2>1, <3>1 DEF PartyKeys
    <3> QED
      BY <3>1, <3>2, CaseFileAssumption DEF PartiesOf
  <2> QED
    BY <2>1 DEF AnsweredParties
<1>5. what[1] \in ReadOps /\ what[2] \subseteq Stored(what[1], a)
  <2>1. CASE what = <<"get decision", AnsweredRows("decision", a)>>
    BY <1>3, <2>1 DEF ReadOps, Stored
  <2>2. CASE what = <<"list documents", AnsweredRows("document", a)>>
    BY <1>3, <2>2 DEF ReadOps, Stored
  <2>3. CASE what = <<"list parties", AnsweredParties(a)>>
    BY <1>4, <2>3 DEF ReadOps, Stored
  <2> QED
    BY <2>1, <2>2, <2>3
<1>6. UNCHANGED fileVars
  BY DEF BeginRead
<1> QED
  BY <1>2, <1>5, <1>6, ReadAsks

LEMMA ReadEnds ==
    ASSUME FileInv, NEW r \in Requests, GetDecision(r) \/ ListDocuments(r) \/ ListParties(r)
    PROVE  Told(r)'
<1>1. /\ pc[r] \in ReadOps /\ job[r] \in ReadJob /\ job[r].op = pc[r]
      /\ job[r].known \subseteq Stored(pc[r], job[r].of)
  BY CaseFileJobs DEF GetDecision, ListDocuments, ListParties, ReadOps, FileInv, Told
<1>2. ASSUME NEW found, Reply(r, found)
      PROVE  /\ pc'[r] \in Ended /\ job'[r].reply = found /\ job'[r].op = pc[r]
             /\ job'[r].known = job[r].known /\ job'[r].of = job[r].of
  BY <1>1, <1>2 DEF Reply, Finish, Goto, Ended, FileInv, RequestInv, ReadJob
<1>3. CASE GetDecision(r)
  <2>1. PICK found \in SUBSET RowsOf("decision", job[r].of) :
           Reply(r, found) /\ (RowsOf("decision", job[r].of) # {} => found # {})
    BY <1>3 DEF GetDecision
  <2>2. /\ job[r].known \subseteq RowsOf("decision", job[r].of)
        /\ pc[r] = "get decision"
    BY <1>1, <1>3 DEF Stored, GetDecision
  <2> QED
    BY <1>2, <2>1, <2>2 DEF Told, RowsOf, Ended, ReadOps
<1>4. CASE ListDocuments(r) \/ ListParties(r)
  BY <1>1, <1>2, <1>4 DEF Told, Stored, ListDocuments, ListParties, Ended, ReadOps
<1> QED
  BY <1>3, <1>4

LEMMA ToldNext ==
    ASSUME FileInv, NEW r \in Requests, CatalogActs(r) \/ CaseFileActs(r) \/ FailsOnly(r)
    PROVE  Told(r)'
<1> USE DEF FileInv
<1>1. CASE CatalogActs(r)
  <2>1. pc'[r] \notin ReadOps /\ (pc'[r] \in Ended => job'[r].op \in CatalogOps)
    BY <1>1, CatalogBegins, CatalogKeepsOp DEF CatalogActs, ReadOps, Ended
  <2> QED
    BY <2>1 DEF Told, CatalogOps, Ended
<1>2. CASE FailsOnly(r)
  BY <1>2, FailureMoves DEF Told, ReadOps
<1>3. CASE BeginFile(r) \/ BeginParty(r)
  <2>1. pc'[r] \in {"insert", "add party", "remove party"}
    BY <1>3 DEF BeginFile, BeginParty, Begin, Goto, RequestInv
  <2> QED
    BY <2>1 DEF Told, ReadOps
<1>4. CASE Insert(r)
  <2>1. job[r] \in FileJob /\ job'[r] = job[r] /\ pc'[r] \in Ended /\ job[r].row \in file'
    BY <1>4, CaseFileJobs DEF Insert, Finish, Goto, Ended, RequestInv
  <2> QED
    BY <2>1 DEF Told, FileJob, ReadOps, Ended
<1>5. CASE AddParty(r)
  <2>1. /\ job[r] \in AddJob /\ job'[r] = job[r] /\ pc'[r] \in Ended
        /\ job[r].key \in PartyKeys /\ parties'[job[r].key] = job[r].slik
    BY <1>5, CaseFileJobs DEF AddParty, CanAdd, Finish, Goto, Ended, RequestInv
  <2> QED
    BY <2>1 DEF Told, AddJob, ReadOps, Ended
<1>6. CASE InsertRefused(r) \/ AddPartyRefused(r)
  <2>1. pc'[r] = "failed"
    BY <1>6 DEF InsertRefused, AddPartyRefused, Fail, Goto, RequestInv
  <2> QED
    BY <2>1 DEF Told, ReadOps
<1>7. CASE RemoveParty(r)
  <2>1. job[r] \in RemoveJob /\ job'[r] = job[r] /\ pc'[r] \in Ended
    BY <1>7, CaseFileJobs DEF RemoveParty, Finish, Goto, Ended, RequestInv
  <2> QED
    BY <2>1 DEF Told, RemoveJob, ReadOps, Ended
<1> QED
  BY <1>1, <1>2, <1>3, <1>4, <1>5, <1>6, <1>7, ReadBegins, ReadEnds
     DEF CaseFileActs, BeginCaseFile, CaseFileStep

LEMMA CaseFileInit ==
    ASSUME Init
    PROVE  FileInv
<1>1. \A x, y \in file : x = y
  BY DEF Init, FileInit
<1>2. \A x \in file : x.table = "session" /\ x.id = "seed" /\ x.of \in Applications
  <2>1. (CHOOSE x \in Applications : TRUE) \in Applications
    BY CaseFileAssumption
  <2>2. \A x \in file : \E a \in Applications : x = SeedSession(a)
    BY <2>1 DEF Init, FileInit
  <2> QED
    BY <2>2 DEF SeedSession
<1>3. parties \in [PartyKeys -> BOOLEAN \cup {None}]
  BY DEF Init, FileInit, PartyKeys
<1>4. RowsInv
  BY <1>1, <1>2, <1>3, CaseFileAssumption DEF RowsInv, ParentExists, OfSession
<1>5. \A r \in Requests : Told(r)
  BY DEF Init, HandlersInit, Told, ReadOps
<1> QED
  BY <1>4, <1>5, RequestInit DEF FileInv

LEMMA FileStep ==
    ASSUME FileInv, [Next]_vars
    PROVE  FileInv'
<1>1. RequestInv'
  BY RequestStep DEF FileInv
<1>2. CASE UNCHANGED <<handlerVars, catalogVars, fileVars>>
  <2>1. RowsInv'
    BY <1>2 DEF FileInv, RowsInv, ParentExists, IdsIn, handlerVars, fileVars
  <2>2. \A r \in Requests : Told(r)'
    BY <1>2, ToldStays DEF FileInv, Grows, handlerVars, fileVars
  <2> QED
    BY <1>1, <2>1, <2>2 DEF FileInv
<1>3. ASSUME NEW r \in Requests, CatalogActs(r) \/ CaseFileActs(r) \/ FailsOnly(r)
      PROVE  FileInv'
  <2>1. Grows /\ RowsInv' /\ Moved(r) /\ Told(r)'
    BY <1>3, RowsKept, ToldNext, EachMoves DEF FileInv
  <2>2. \A q \in Requests : Told(q)'
    BY <2>1, ToldStays DEF FileInv, Moved
  <2> QED
    BY <1>1, <2>1, <2>2 DEF FileInv
<1> QED
  BY <1>2, <1>3, NextActs

LEMMA FileInvariant == Spec => []FileInv
BY CaseFileInit, FileStep, PTL DEF Spec

LEMMA FileFacts ==
    ASSUME FileInv
    PROVE  FileTypeOK /\ AnsweredIsStored /\ AckedIsSeen
<1>1. FileTypeOK
  BY DEF FileInv, RequestInv, RowsInv, FileTypeOK, FileRows, PartyKeys
<1>2. AnsweredIsStored
  BY DEF FileInv, Told, AnsweredIsStored
<1>3. AckedIsSeen
  BY DEF FileInv, Told, AckedIsSeen
<1> QED
  BY <1>1, <1>2, <1>3

\* The tables of the case file have their types, an id names one row, and
\* every row has its parent: the foreign keys hold in the server.
THEOREM CaseFileTypeCorrect == Spec => []FileTypeOK
BY FileInvariant, FileFacts, PTL

\* What CreateCommitteeSession, SubmitCommitteeVote and the other INSERTs, and
\* AddPartyToApplication, were answered with stays stored.
THEOREM AnswersStayStored == Spec => []AnsweredIsStored
BY FileInvariant, FileFacts, PTL

\* GetApplicationDecision and the two lists find what was answered before the
\* read began.
THEOREM ReadsSeeAnswered == Spec => []AckedIsSeen
BY FileInvariant, FileFacts, PTL
=============================================================================
