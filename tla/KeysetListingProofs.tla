------------------------ MODULE KeysetListingProofs ------------------------
(***************************************************************************)
(* Theorems about KeysetListing for every table, every number of clients   *)
(* and every page size.                                                    *)
(***************************************************************************)
EXTENDS KeysetListing, FiniteSetTheorems, TLAPS

(***************************************************************************)
(* The inductive invariant of a walk v.                                    *)
(***************************************************************************)

\* The steady rows match the filter.
Tracked(v) == \A k \in v.steady : Matches(k, v.filter)

\* While the walk goes on, the rows shown are those at the cursor and above, as
\* far as they are steady.
ShownAbove(v) ==
    v.at # "done" =>
        /\ \A k \in v.shown : v.cursor <= k
        /\ \A k \in v.steady : v.cursor <= k => k \in v.shown

\* A page that is read and not answered yet lies below the cursor; the steady
\* rows it leaves out lie below all of it, and it leaves none out if there is
\* no next page.
PageBelow(v) ==
    v.at \in {"attributes", "answer"} =>
        /\ \A k \in v.page : k < v.cursor
        /\ \A k \in v.steady \ v.page : k < v.cursor => v.more /\ \A j \in v.page : k < j

\* Only a page size of zero, which only ListSurveys takes, gives an empty page
\* that is not the last one.  Such a walk shows nothing.
EmptyPage(v) ==
    /\ Limit(v.list, v.size) = 0 => v.shown = {} /\ v.page = {}
    /\ v.at \in {"attributes", "answer"} /\ v.more /\ v.page = {} =>
          Limit(v.list, v.size) = 0

Finished(v) == v.at = "done" => v.steady \subseteq v.shown

WalkInv(v) == Tracked(v) /\ ShownAbove(v) /\ PageBelow(v) /\ EmptyPage(v) /\ Finished(v)

ListingInv == ListingTypeOK /\ \A w \in Walkers : WalkInv(walk[w])

(***************************************************************************)
(* Pages and their last rows.                                              *)
(***************************************************************************)

LEMMA TopOf ==
    ASSUME NEW keys \in SUBSET Keys, NEW page \in SUBSET keys, NEW n \in Nat,
           IsTop(page, keys, n)
    PROVE  /\ ~ (Cardinality(keys) > n) => page = keys
           /\ Cardinality(keys) > n /\ page = {} => n = 0
           /\ n = 0 => page = {}
           /\ \A k \in page, j \in keys \ page : j < k
<1>1. IsFiniteSet(keys) /\ IsFiniteSet(page)
  <2>1. IsFiniteSet(Keys)
    BY FS_Interval, ListingAssumption DEF Keys
  <2>2. IsFiniteSet(keys)
    BY <2>1, FS_Subset
  <2> QED
    BY <2>2, FS_Subset
<1>2. /\ Cardinality(keys) \in Nat /\ Cardinality(page) \in Nat
      /\ Cardinality(page) <= Cardinality(keys)
      /\ Cardinality(keys) = Cardinality(page) => keys = page
  BY <1>1, FS_Subset, FS_CardinalityType
<1>3. Cardinality(page) = 0 <=> page = {}
  BY <1>1, FS_EmptySet
<1> QED
  BY <1>2, <1>3 DEF IsTop

LEMMA LastOf ==
    ASSUME NEW page \in SUBSET Keys
    PROVE  /\ page = {} => Last(page) = First
           /\ page # {} => Last(page) \in page /\ \A j \in page : Last(page) <= j
<1>1. CASE page = {}
  BY <1>1 DEF Last
<1>2. CASE page # {}
  <2>1. page \subseteq Nat
    BY ListingAssumption DEF Keys
  <2>2. PICK k \in page : \A j \in page : ~ (<<j, k>> \in OpToRel(<, Nat))
    BY <1>2, <2>1, WFMin, NatLessThanWellFounded, Zenon
  <2>3. \A j \in page : ~ (j < k)
    BY <2>1, <2>2, Zenon DEF OpToRel
  <2>4. \A j \in page : k <= j
    BY <2>1, <2>3
  <2> QED
    BY <1>2, <2>4 DEF Last
<1> QED
  BY <1>1, <1>2

LEMMA LimitIsInt ==
    ASSUME NEW list \in Lists, NEW size \in PageSizes \cup {1}
    PROVE  Limit(list, size) \in Int
BY ListingAssumption DEF Limit

(***************************************************************************)
(* Steps.                                                                  *)
(***************************************************************************)

\* A step of walker w leaves the table and the other walks alone.
LEMMA WalkerStep ==
    ASSUME ListingInv, NEW w \in Walkers, NEW v \in Walks,
           walk' = [walk EXCEPT ![w] = v], UNCHANGED rows,
           WalkInv(v)
    PROVE  ListingInv'
<1>1. ListingTypeOK'
  BY DEF ListingInv, ListingTypeOK
<1>2. walk'[w] = v /\ \A q \in Walkers : q # w => walk'[q] = walk[q]
  BY DEF ListingInv, ListingTypeOK
<1>3. ASSUME NEW q \in Walkers PROVE WalkInv(walk[q])'
  <2>1. CASE q = w
    BY <1>2, <2>1 DEF WalkInv, Tracked, Matches, ShownAbove, PageBelow, EmptyPage, Finished
  <2>2. CASE q # w
    BY <1>2, <2>2 DEF ListingInv, WalkInv, Tracked, Matches, ShownAbove, PageBelow, EmptyPage, Finished
  <2> QED
    BY <2>1, <2>2
<1> QED
  BY <1>1, <1>3 DEF ListingInv

LEMMA NewWalkInv ==
    ASSUME NEW step \in {"idle", "page"}, NEW list \in Lists,
           NEW size \in PageSizes \cup {1}, NEW filter \in Statuses \cup {NoRow}
    PROVE  NewWalk(step, list, size, filter) \in Walks /\ WalkInv(NewWalk(step, list, size, filter))
<1> DEFINE v == NewWalk(step, list, size, filter)
<1>1. First \in 1..First
  BY ListingAssumption DEF First
<1>2. v \in Walks
  BY <1>1 DEF NewWalk, Walks, Steps
<1>3. v.at = step /\ v.page = {} /\ v.shown = {} /\ v.steady = {} /\ v.more = FALSE
  BY DEF NewWalk
<1> HIDE DEF v
<1>4. WalkInv(v)
  BY <1>3 DEF WalkInv, Tracked, ShownAbove, PageBelow, EmptyPage, Finished
<1> QED
  BY <1>2, <1>4 DEF v

LEMMA StartKeeps ==
    ASSUME ListingInv, NEW w \in Walkers, StartWalk(w)
    PROVE  ListingInv'
<1>1. PICK list \in Lists, size \in PageSizes, filter \in Statuses \cup {NoRow} :
          walk' = [walk EXCEPT ![w] = NewWalk("page", list, size, filter)]
  BY DEF StartWalk
<1> DEFINE v == NewWalk("page", list, size, filter)
<1>2. v \in Walks /\ WalkInv(v)
  BY NewWalkInv
<1> QED
  BY <1>1, <1>2, WalkerStep DEF StartWalk

LEMMA ReadPageKeeps ==
    ASSUME ListingInv, NEW w \in Walkers, ReadPage(w)
    PROVE  ListingInv'
<1> DEFINE v     == walk[w]
           limit == Limit(v.list, v.size)
           keys  == Below(v.cursor, v.filter)
           more  == Cardinality(keys) > limit
<1>1. v \in Walks /\ WalkInv(v) /\ v.at = "page"
  BY DEF ListingInv, ListingTypeOK, ReadPage
<1>2. limit \in Nat
  BY <1>1, LimitIsInt DEF ReadPage, Walks
<1>3. keys \in SUBSET Keys /\ \A k \in Keys : k \in keys <=> k < v.cursor /\ Matches(k, v.filter)
  BY DEF Below
<1>4. PICK page \in SUBSET keys :
          /\ IsTop(page, keys, limit)
          /\ walk' = [walk EXCEPT ![w] =
                [v EXCEPT !.page = page, !.more = more,
                          !.steady = IF v.cursor = First THEN keys ELSE v.steady,
                          !.at = IF v.list \in Clamped /\ page # {}
                                 THEN "attributes" ELSE "answer"]]
  BY DEF ReadPage
<1> DEFINE at     == IF v.list \in Clamped /\ page # {} THEN "attributes" ELSE "answer"
           steady == IF v.cursor = First THEN keys ELSE v.steady
           u == [v EXCEPT !.page = page, !.more = more, !.steady = steady, !.at = at]
<1>5a. walk' = [walk EXCEPT ![w] = u]
  BY <1>4
<1> HIDE DEF keys, limit
<1>5. /\ ~ more => page = keys
      /\ more /\ page = {} => limit = 0
      /\ limit = 0 => page = {}
      /\ \A k \in page, j \in keys \ page : j < k
  BY <1>2, <1>3, <1>4, TopOf
<1>5b. at \in {"attributes", "answer"} /\ steady \in SUBSET Keys /\ more \in BOOLEAN
  BY <1>1, <1>3 DEF Walks
<1> HIDE DEF at, steady, more
<1>6. /\ u.page = page /\ u.more = more /\ u.steady = steady
      /\ u.list = v.list /\ u.size = v.size /\ u.filter = v.filter
      /\ u.cursor = v.cursor /\ u.shown = v.shown
      /\ u.at \in {"attributes", "answer"}
  BY <1>1, <1>5b DEF Walks
<1>7. u \in Walks
  BY <1>1, <1>3, <1>5b DEF Walks, Steps
<1> HIDE DEF u, v
<1>8. Tracked(u)
  BY <1>1, <1>3, <1>6 DEF WalkInv, Tracked, Walks, steady
<1>9. ShownAbove(u)
  <2>1. v.cursor = First => \A k \in keys : ~ (v.cursor <= k)
    BY <1>3, ListingAssumption DEF First, Keys
  <2> QED
    BY <1>1, <1>6, <2>1 DEF WalkInv, ShownAbove, steady
<1>10. PageBelow(u)
  <2>1. \A k \in u.steady : k < v.cursor => k \in keys
    BY <1>1, <1>3, <1>6 DEF WalkInv, Tracked, Walks, steady
  <2> QED
    BY <1>3, <1>4, <1>5, <1>6, <2>1 DEF PageBelow
<1>11. EmptyPage(u)
  BY <1>1, <1>5, <1>6 DEF WalkInv, EmptyPage, limit
<1>12. Finished(u)
  BY <1>6 DEF Finished
<1> QED
  BY <1>7, <1>8, <1>9, <1>10, <1>11, <1>12, <1>5a, WalkerStep DEF WalkInv, ReadPage

\* A step that leaves everything but its place to a walk.
LEMMA GoesKeeps ==
    ASSUME ListingInv, NEW w \in Walkers, NEW step \in {"page", "failed", "answer"},
           step = "answer" => walk[w].at = "attributes",
           walk[w].at # "done",
           Goes(w, step), UNCHANGED rows
    PROVE  ListingInv'
<1> DEFINE u == [walk[w] EXCEPT !.at = step]
<1>1. walk[w] \in Walks /\ WalkInv(walk[w])
  BY DEF ListingInv, ListingTypeOK
<1>2. u \in Walks
  BY <1>1 DEF Walks, Steps
<1>3. WalkInv(u)
  BY <1>1 DEF Walks, WalkInv, Tracked, ShownAbove, PageBelow, EmptyPage, Finished
<1>4. walk' = [walk EXCEPT ![w] = u]
  BY DEF Goes
<1> HIDE DEF u
<1> QED
  BY <1>2, <1>3, <1>4, WalkerStep

LEMMA FailureKeeps ==
    ASSUME ListingInv, NEW w \in Walkers, CallFails(w)
    PROVE  ListingInv'
<1> DEFINE u == [walk[w] EXCEPT !.at = "failed", !.page = {}, !.more = FALSE]
<1>1. walk[w] \in Walks /\ WalkInv(walk[w]) /\ walk[w].at # "done"
  BY DEF ListingInv, ListingTypeOK, CallFails
<1>2. u \in Walks
  BY <1>1 DEF Walks, Steps
<1>3. WalkInv(u)
  BY <1>1 DEF Walks, WalkInv, Tracked, ShownAbove, PageBelow, EmptyPage, Finished
<1>4. walk' = [walk EXCEPT ![w] = u]
  BY DEF CallFails
<1> HIDE DEF u
<1> QED
  BY <1>2, <1>3, <1>4, WalkerStep DEF CallFails

LEMMA AnswerKeeps ==
    ASSUME ListingInv, NEW w \in Walkers, Answer(w)
    PROVE  ListingInv'
<1> DEFINE v == walk[w]
           u == [v EXCEPT !.shown = v.shown \cup v.page,
                          !.cursor = IF v.more THEN Last(v.page) ELSE v.cursor,
                          !.at = IF v.more THEN "next" ELSE "done",
                          !.page = {}, !.more = FALSE]
<1>1. v \in Walks /\ WalkInv(v) /\ v.at = "answer"
  BY DEF ListingInv, ListingTypeOK, Answer
<1>2. walk' = [walk EXCEPT ![w] = u]
  BY DEF Answer
<1>3. /\ u.shown = v.shown \cup v.page
      /\ u.cursor = IF v.more THEN Last(v.page) ELSE v.cursor
      /\ u.at = IF v.more THEN "next" ELSE "done"
      /\ u.page = {}
      /\ u.list = v.list /\ u.size = v.size /\ u.filter = v.filter /\ u.steady = v.steady
  BY <1>1 DEF Walks
<1>4. /\ v.page \subseteq Keys /\ v.steady \subseteq Keys /\ v.shown \subseteq Keys
      /\ v.cursor \in 1..First /\ v.more \in BOOLEAN
      /\ \A k \in Keys : k \in Int /\ k < First
      /\ \A k \in 1..First : k \in Int
      /\ Keys \subseteq 1..First /\ First \in 1..First
  BY <1>1, ListingAssumption DEF Walks, Keys, First
<1>5. /\ v.page = {} => Last(v.page) = First
      /\ v.page # {} => Last(v.page) \in v.page /\ \A j \in v.page : Last(v.page) <= j
  BY <1>4, LastOf
<1>6. u \in Walks
  <2>1. Last(v.page) \in 1..First
    BY <1>4, <1>5
  <2> QED
    BY <1>1, <2>1 DEF Walks, Steps
<1> HIDE DEF u, v
<1>7. Tracked(u)
  BY <1>1, <1>3 DEF WalkInv, Tracked
<1>8. v.more /\ v.page = {} => v.shown = {}
  BY <1>1 DEF WalkInv, EmptyPage
<1>9. ShownAbove(u)
  <2>1. CASE ~ v.more
    BY <1>3, <2>1 DEF ShownAbove
  <2>2. CASE v.more /\ v.page = {}
    <3>1. u.cursor = First
      BY <1>3, <1>5, <2>2
    <3>2. ASSUME NEW k \in u.steady PROVE ~ (u.cursor <= k)
      <4>1. k \in Int /\ k < First /\ First \in Int
        BY <1>3, <1>4
      <4> QED
        BY <3>1, <4>1
    <3> QED
      BY <1>3, <1>8, <2>2, <3>2 DEF ShownAbove
  <2>3. CASE v.more /\ v.page # {}
    <3> DEFINE last == Last(v.page)
    <3>1. u.cursor = last /\ last \in v.page /\ last < v.cursor /\ last \in Int
      BY <1>1, <1>3, <1>4, <1>5, <2>3 DEF WalkInv, PageBelow
    <3>2. ASSUME NEW k \in u.shown PROVE last <= k
      <4>1. CASE k \in v.page
        BY <1>5, <2>3, <4>1
      <4>2. CASE k \in v.shown
        <5>1. v.cursor <= k
          BY <1>1, <4>2 DEF WalkInv, ShownAbove
        <5>2. k \in Int /\ v.cursor \in Int
          BY <1>4, <4>2
        <5> QED
          BY <3>1, <5>1, <5>2
      <4> QED
        BY <1>3, <4>1, <4>2
    <3>3. ASSUME NEW k \in u.steady, last <= k PROVE k \in u.shown
      <4>1. k \in v.steady /\ k \in Int
        BY <1>3, <1>4
      <4>2. CASE v.cursor <= k
        BY <1>1, <1>3, <4>1, <4>2 DEF WalkInv, ShownAbove
      <4>3. CASE k < v.cursor /\ k \notin v.page
        BY <1>1, <3>1, <3>3, <4>1, <4>3 DEF WalkInv, PageBelow
      <4> QED
        BY <1>3, <1>4, <4>1, <4>2, <4>3
    <3> QED
      BY <3>1, <3>2, <3>3 DEF ShownAbove
  <2> QED
    BY <1>4, <2>1, <2>2, <2>3
<1>10. PageBelow(u)
  BY <1>3 DEF PageBelow
<1>11. EmptyPage(u)
  <2>1. Limit(u.list, u.size) = 0 => u.shown = {}
    BY <1>1, <1>3 DEF WalkInv, EmptyPage
  <2> QED
    BY <1>3, <2>1 DEF EmptyPage
<1>12. Finished(u)
  <2> SUFFICES ASSUME ~ v.more, NEW k \in v.steady
               PROVE  k \in v.shown \cup v.page
    BY <1>3 DEF Finished
  <2>1. k \in Int /\ v.cursor \in Int
    BY <1>4
  <2>2. CASE v.cursor <= k
    BY <1>1, <2>2 DEF WalkInv, ShownAbove
  <2>3. CASE k < v.cursor
    BY <1>1, <2>3 DEF WalkInv, PageBelow
  <2> QED
    BY <2>1, <2>2, <2>3
<1> QED
  BY <1>2, <1>6, <1>7, <1>9, <1>10, <1>11, <1>12, WalkerStep DEF WalkInv, Answer

LEMMA ChangesKeep ==
    ASSUME ListingInv, Changes
    PROVE  ListingInv'
<1>1. PICK k \in Keys, status \in Statuses : SetRow(k, status)
  BY DEF Changes
<1>2. rows' = [rows EXCEPT ![k] = status] /\ rows' \in [Keys -> Statuses \cup {NoRow}]
  BY <1>1 DEF SetRow, ListingInv, ListingTypeOK
<1>3. ASSUME NEW w \in Walkers
      PROVE  /\ walk'[w] \in Walks
             /\ \E steady \in SUBSET walk[w].steady :
                   /\ walk'[w] = [walk[w] EXCEPT !.steady = steady]
                   /\ k \in steady => walk[w].filter \in {NoRow, status}
  <2>1. walk[w] \in Walks
    BY DEF ListingInv, ListingTypeOK
  <2>2. CASE walk[w].filter \in {NoRow, status}
    <3>1. walk'[w] = walk[w]
      BY <1>1, <2>2 DEF SetRow
    <3>2. walk[w] = [walk[w] EXCEPT !.steady = walk[w].steady]
      BY <2>1 DEF Walks
    <3> QED
      BY <2>1, <2>2, <3>1, <3>2
  <2>3. CASE walk[w].filter \notin {NoRow, status}
    <3> DEFINE left == walk[w].steady \ {k}
    <3>1. walk'[w] = [walk[w] EXCEPT !.steady = left]
      BY <1>1, <2>3 DEF SetRow
    <3>2. walk'[w] \in Walks
      BY <2>1, <3>1 DEF Walks
    <3>3. left \in SUBSET walk[w].steady /\ k \notin left
      OBVIOUS
    <3> HIDE DEF left
    <3> QED
      BY <3>1, <3>2, <3>3
  <2> QED
    BY <2>2, <2>3
<1>4. walk' \in [Walkers -> Walks]
  <2>1. walk' = [w \in Walkers |-> walk'[w]]
    BY <1>1 DEF SetRow
  <2> QED
    BY <1>3, <2>1
<1>5. ASSUME NEW w \in Walkers PROVE WalkInv(walk[w])'
  <2> DEFINE v == walk[w]
             u == walk'[w]
  <2>1. v \in Walks /\ WalkInv(v)
    BY DEF ListingInv, ListingTypeOK
  <2>2. PICK steady \in SUBSET v.steady :
            u = [v EXCEPT !.steady = steady] /\ (k \in steady => v.filter \in {NoRow, status})
    BY <1>3
  <2>3. /\ u.at = v.at /\ u.list = v.list /\ u.size = v.size /\ u.filter = v.filter
        /\ u.cursor = v.cursor /\ u.page = v.page /\ u.more = v.more /\ u.shown = v.shown
        /\ u.steady = steady
    BY <2>1, <2>2 DEF Walks
  <2>4. steady \subseteq Keys
    BY <2>1 DEF Walks
  <2> HIDE DEF u, v
  <2>5. \A j \in steady : rows'[j] # NoRow /\ v.filter \in {NoRow, rows'[j]}
    <3> SUFFICES ASSUME NEW j \in steady
                 PROVE  rows'[j] # NoRow /\ v.filter \in {NoRow, rows'[j]}
      OBVIOUS
    <3>1. CASE j = k
      <4>1. rows'[j] = status
        BY <1>2, <3>1 DEF ListingInv, ListingTypeOK
      <4> QED
        BY <2>2, <3>1, <4>1, ListingAssumption
    <3>2. CASE j # k
      <4>1. rows'[j] = rows[j]
        BY <1>2, <2>4, <3>2 DEF ListingInv, ListingTypeOK
      <4> QED
        BY <2>1, <4>1 DEF WalkInv, Tracked, Matches
    <3> QED
      BY <3>1, <3>2, Zenon
  <2>6. \A j \in u.steady : rows'[j] # NoRow /\ u.filter \in {NoRow, rows'[j]}
    BY <2>3, <2>5
  <2>7. ShownAbove(u) /\ PageBelow(u) /\ EmptyPage(u) /\ Finished(u)
    BY <2>1, <2>3 DEF WalkInv, ShownAbove, PageBelow, EmptyPage, Finished
  <2> QED
    BY <2>6, <2>7 DEF WalkInv, Tracked, Matches, ShownAbove, PageBelow, EmptyPage, Finished, u
<1> QED
  BY <1>2, <1>4, <1>5 DEF ListingInv, ListingTypeOK

(***************************************************************************)
(* The invariant and its consequences.                                     *)
(***************************************************************************)

LEMMA ListingInvInit == ListingInit => ListingInv
<1> SUFFICES ASSUME ListingInit PROVE ListingInv
  OBVIOUS
<1>1. NewWalk("idle", "surveys", 1, NoRow) \in Walks /\ WalkInv(NewWalk("idle", "surveys", 1, NoRow))
  BY NewWalkInv DEF Lists
<1>2. rows \in [Keys -> Statuses \cup {NoRow}]
  BY ListingAssumption DEF ListingInit, Keys
<1> QED
  BY <1>1, <1>2 DEF ListingInit, ListingInv, ListingTypeOK

LEMMA ListingInvNext == ListingInv /\ [ListingNext]_listingVars => ListingInv'
<1> SUFFICES ASSUME ListingInv, [ListingNext]_listingVars PROVE ListingInv'
  OBVIOUS
<1>1. CASE Changes
  BY <1>1, ChangesKeep
<1>2. ASSUME NEW w \in Walkers, StartWalk(w) PROVE ListingInv'
  BY <1>2, StartKeeps
<1>3. ASSUME NEW w \in Walkers, ReadPage(w) PROVE ListingInv'
  BY <1>3, ReadPageKeeps
<1>4. ASSUME NEW w \in Walkers, PageRefused(w) PROVE ListingInv'
  BY <1>4, GoesKeeps DEF PageRefused
<1>5. ASSUME NEW w \in Walkers, ReadAttributes(w) PROVE ListingInv'
  BY <1>5, GoesKeeps DEF ReadAttributes
<1>6. ASSUME NEW w \in Walkers, Answer(w) PROVE ListingInv'
  BY <1>6, AnswerKeeps
<1>7. ASSUME NEW w \in Walkers, NextPage(w) PROVE ListingInv'
  BY <1>7, GoesKeeps DEF NextPage
<1>8. ASSUME NEW w \in Walkers, CallFails(w) PROVE ListingInv'
  BY <1>8, FailureKeeps
<1>9. ASSUME NEW w \in Walkers, Retry(w) PROVE ListingInv'
  BY <1>9, GoesKeeps DEF Retry
<1>10. CASE UNCHANGED listingVars
  BY <1>10 DEF listingVars, ListingInv, ListingTypeOK, WalkInv, Tracked, Matches,
               ShownAbove, PageBelow, EmptyPage, Finished
<1> QED
  BY <1>1, <1>2, <1>3, <1>4, <1>5, <1>6, <1>7, <1>8, <1>9, <1>10 DEF ListingNext, WalkStep

THEOREM ListingInvariant == ListingSpec => []ListingInv
<1> QED
  BY ListingInvInit, ListingInvNext, PTL DEF ListingSpec

\* ListingTypeOK for every table and any page sizes.
THEOREM ListingTypeCorrect == ListingSpec => []ListingTypeOK
<1>1. ListingInv => ListingTypeOK
  BY DEF ListingInv
<1> QED
  BY <1>1, ListingInvariant, PTL

\* However many pages a walk takes, and however rows come and change meanwhile,
\* its end has shown every row that was there from its first page on.
THEOREM WalksAreComplete == ListingSpec => []WalkComplete
<1>1. ListingInv => WalkComplete
  BY DEF ListingInv, WalkInv, Finished, WalkComplete
<1> QED
  BY <1>1, ListingInvariant, PTL

\* No row is shown twice in a walk, and rows come in descending order of pages.
THEOREM WalksDescend == ListingSpec => []WalkDescends
<1>1. ListingInv => WalkDescends
  <2> SUFFICES ASSUME ListingInv, NEW w \in Walkers, walk[w].at \in {"attributes", "answer"},
                      NEW new \in walk[w].page, NEW old \in walk[w].shown
               PROVE  new < old
    BY DEF WalkDescends
  <2>1. new < walk[w].cursor /\ walk[w].cursor <= old
    BY DEF ListingInv, WalkInv, PageBelow, ShownAbove
  <2>2. new \in Int /\ old \in Int /\ walk[w].cursor \in Int
    BY ListingAssumption DEF ListingInv, ListingTypeOK, Walks, Keys, First
  <2> QED
    BY <2>1, <2>2
<1> QED
  BY <1>1, ListingInvariant, PTL
=============================================================================
