---------------------------- MODULE KeysetListing ----------------------------
(***************************************************************************)
(* Walking through ListApplications, ListApplicants or ListSurveys, page   *)
(* by page, while the rows of the table change.                            *)
(*                                                                         *)
(* A page is the first rows, in descending order, below the cursor of the  *)
(* request; one row more than asked for is read, to know if there is a     *)
(* next page, and the cursor handed out is the last row of the page.  A    *)
(* key stands for the place of a row in that order, by creation time and   *)
(* id, or by id for surveys.  Times are those of the start of a            *)
(* transaction, and ids are made before the commit, so a row may show up   *)
(* anywhere in the order; no row is ever deleted.                          *)
(***************************************************************************)
EXTENDS Integers, FiniteSets

CONSTANTS
    Walkers,      \* clients
    N,            \* bound of the model: places in the order
    Statuses,
    PageSizes,    \* the page sizes clients ask for, any integers
    NoRow,        \* no row at this place, no filter by status
    Tables,       \* the tables a behaviour may start with
    ListFaults    \* TRUE: statements fail, answers are lost

ASSUME ListingAssumption ==
    /\ N \in Nat
    /\ PageSizes \subseteq Int
    /\ NoRow \notin Statuses
    /\ Tables \subseteq [1..N -> Statuses \cup {NoRow}]
    /\ ListFaults \in BOOLEAN

VARIABLES
    rows,   \* rows[k]: the status of the row at place k, or NoRow
    walk    \* walk[w]: the client's walk, and the call it has under way

listingVars == <<rows, walk>>

Keys    == 1..N
First   == N + 1          \* the cursor of a first page: none
Lists   == {"applications", "applicants", "surveys"}
Clamped == {"applications", "applicants"}
Steps   == {"idle", "page", "attributes", "answer", "next", "failed", "done"}

MaxInt32 == 2147483647

\* Seeded fault: page sizes below one are not replaced.
LimitFromAbove(list, size) == IF list \in Clamped /\ size > 100 THEN 100 ELSE size

\* applicationRepo.List and applicantRepo.List clamp the size the services
\* have clamped before; ListSurveys takes the request's size as it is.
Limit(list, size) ==
    IF list \notin Clamped THEN size
    ELSE IF size <= 0 THEN 10
    ELSE IF size > 100 THEN 100 ELSE size

\* limit + 1, as an int32
LimitPlusOne(limit) == IF limit = MaxInt32 THEN -MaxInt32 - 1 ELSE limit + 1

Matches(k, filter) == rows[k] # NoRow /\ filter \in {NoRow, rows[k]}

\* Seeded fault: the row of the cursor itself is read again.
NotAbove(cursor, filter) == {k \in Keys : k <= cursor /\ Matches(k, filter)}

\* Seeded fault: the cursor is a time only, and each two rows share one.
BelowInTime(cursor, filter) ==
    {k \in Keys : (cursor = First \/ (k + 1) \div 2 < (cursor + 1) \div 2) /\ Matches(k, filter)}

Below(cursor, filter) == {k \in Keys : k < cursor /\ Matches(k, filter)}

\* The n first of keys in descending order, all of them if there are fewer.
IsTop(page, keys, n) ==
    /\ page \subseteq keys
    /\ Cardinality(page) <= n
    /\ page # keys => Cardinality(page) = n
    /\ \A k \in page, j \in keys \ page : j < k

\* Seeded fault: an empty page hands out a cursor below all rows.
LastOrZero(page) == IF page = {} THEN 0 ELSE CHOOSE k \in page : \A j \in page : k <= j

\* The cursor of the next page, none for a page without rows.
Last(page) == IF page = {} THEN First ELSE CHOOSE k \in page : \A j \in page : k <= j

NewWalk(step, list, size, filter) ==
    [at |-> step, list |-> list, size |-> size, filter |-> filter, cursor |-> First,
     page |-> {}, more |-> FALSE, shown |-> {}, steady |-> {}]

UnderWay(w) == walk[w].at \notin {"idle", "done"}

ListingInit ==
    /\ rows \in Tables
    /\ walk = [w \in Walkers |-> NewWalk("idle", "surveys", 1, NoRow)]

-----------------------------------------------------------------------------
(* The table changes under the walks: CreateApplication, CreateSurvey,     *)
(* ChangeApplicationStatus, ...  steady is a history: the rows that were   *)
(* there, and matched the filter, at every moment since the walk's first   *)
(* page was read.                                                          *)

SetRow(k, status) ==
    /\ rows' = [rows EXCEPT ![k] = status]
    /\ walk' = [w \in Walkers |->
                   IF walk[w].filter \in {NoRow, status} THEN walk[w]
                   ELSE [walk[w] EXCEPT !.steady = @ \ {k}]]

Changes ==
    /\ \E w \in Walkers : UnderWay(w)
    /\ \E k \in Keys, status \in Statuses : rows[k] # status /\ SetRow(k, status)

-----------------------------------------------------------------------------
(* A walk.                                                                 *)

\* ListApplicants has no filter.
StartWalk(w) ==
    /\ walk[w].at = "idle"
    /\ \E list \in Lists, size \in PageSizes, filter \in Statuses \cup {NoRow} :
          /\ list = "applicants" => filter = NoRow
          /\ walk' = [walk EXCEPT ![w] = NewWalk("page", list, size, filter)]
    /\ UNCHANGED rows

Goes(w, step) == walk' = [walk EXCEPT ![w].at = step]

\* ListApplications, ListApplicants, ListSurveys: the statement for the rows.
\* For applications and applicants another one follows, for the attributes of
\* the page's rows, unless there are none.
ReadPage(w) ==
    LET v     == walk[w]
        limit == Limit(v.list, v.size)
        keys  == Below(v.cursor, v.filter)
        more  == Cardinality(keys) > limit
    IN  /\ v.at = "page"
        /\ limit >= 0 /\ LimitPlusOne(limit) >= 0
        /\ \E page \in SUBSET keys :
              /\ IsTop(page, keys, limit)
              /\ walk' = [walk EXCEPT ![w] =
                    [v EXCEPT !.page = page, !.more = more,
                              !.steady = IF v.cursor = First THEN keys ELSE v.steady,
                              !.at = IF v.list \in Clamped /\ page # {}
                                     THEN "attributes" ELSE "answer"]]
        /\ UNCHANGED rows

\* A negative LIMIT is an error; for the limit -1, LIMIT 0 is none, but the
\* slice expression rows[:-1] panics, and the recovery answers with an error.
PageRefused(w) ==
    LET limit == Limit(walk[w].list, walk[w].size)
    IN  /\ walk[w].at = "page"
        /\ limit < 0 \/ LimitPlusOne(limit) < 0
        /\ Goes(w, "failed")
        /\ UNCHANGED rows

ReadAttributes(w) ==
    /\ walk[w].at = "attributes"
    /\ Goes(w, "answer")
    /\ UNCHANGED rows

\* The client gets the page, has_next and the cursor.
Answer(w) ==
    LET v == walk[w]
    IN  /\ v.at = "answer"
        /\ walk' = [walk EXCEPT ![w] =
              [v EXCEPT !.shown = v.shown \cup v.page,
                        !.cursor = IF v.more THEN Last(v.page) ELSE v.cursor,
                        !.at = IF v.more THEN "next" ELSE "done",
                        !.page = {}, !.more = FALSE]]
        /\ UNCHANGED rows

\* The client asks for the next page.
NextPage(w) ==
    /\ walk[w].at = "next"
    /\ Goes(w, "page")
    /\ UNCHANGED rows

CallFails(w) ==
    /\ ListFaults
    /\ walk[w].at \in {"page", "attributes", "answer"}
    /\ walk' = [walk EXCEPT ![w] =
          [walk[w] EXCEPT !.at = "failed", !.page = {}, !.more = FALSE]]
    /\ UNCHANGED rows

\* The client asks for the same page again.
Retry(w) ==
    /\ walk[w].at = "failed"
    /\ Goes(w, "page")
    /\ UNCHANGED rows

WalkStep(w) ==
    ReadPage(w) \/ PageRefused(w) \/ ReadAttributes(w) \/ Answer(w) \/ NextPage(w)

ListingNext ==
    \/ Changes
    \/ \E w \in Walkers : StartWalk(w) \/ WalkStep(w) \/ CallFails(w) \/ Retry(w)

ListingSpec == ListingInit /\ [][ListingNext]_listingVars

-----------------------------------------------------------------------------
(* Properties.                                                             *)

Walks ==
    [at : Steps, list : Lists, size : PageSizes \cup {1}, filter : Statuses \cup {NoRow},
     cursor : 1..First, page : SUBSET Keys, more : BOOLEAN, shown : SUBSET Keys,
     steady : SUBSET Keys]

\* Rows and walks have their types.
ListingTypeOK ==
    /\ rows \in [Keys -> Statuses \cup {NoRow}]
    /\ walk \in [Walkers -> Walks]

\* A walk that has come to its end has shown every row that was there and
\* matched the filter since its first page was read, whatever other rows came,
\* or changed their status, between the pages (applicationRepo.List and its
\* likes).
WalkComplete ==
    \A w \in Walkers : walk[w].at = "done" => walk[w].steady \subseteq walk[w].shown

\* A page continues where the pages before it ended: its rows are all below
\* those, so none is shown twice, also after a failed call is repeated.
WalkDescends ==
    \A w \in Walkers : walk[w].at \in {"attributes", "answer"} =>
        \A new \in walk[w].page, old \in walk[w].shown : new < old

\* Every call of a walk with a page size above zero, or through a list that
\* clamps it, leads to its last page or to an error: a client that follows
\* has_next does not go on for ever.
WalksEnd ==
    \A w \in Walkers :
        (walk[w].at = "page" /\ (walk[w].list \in Clamped \/ walk[w].size > 0))
            ~> walk[w].at \in {"failed", "done"}
=============================================================================
