-------------------------- MODULE AttributeCatalog --------------------------
(***************************************************************************)
(* The catalogue of custom attributes (internal/service/reference.go,      *)
(* internal/data/reference.go): categories, the registry of attributes,    *)
(* their options, and the values that applications and applicants store    *)
(* for them, which a deletion of an attribute takes along.                 *)
(*                                                                         *)
(* A stored label or value is identified with the request that wrote it.   *)
(* Options are only created by the seed migrations, for Seeded attributes. *)
(***************************************************************************)
EXTENDS Handlers, FiniteSets

CONSTANTS
    Categories,
    Attributes,   \* ids of registry entries: Seeded ones, and spare ones
    Seeded,       \* the attributes of the seed data, all with options
    Codes,        \* attribute codes
    CodeOf,       \* CodeOf[a]: the code of the seeded attribute a
    Owners        \* applications or applicants, whose rows hold values

ASSUME CatalogAssumption ==
    /\ Seeded \subseteq Attributes
    /\ CodeOf \in [Seeded -> Codes]
    /\ \A a, b \in Seeded : CodeOf[a] = CodeOf[b] => a = b
    /\ None \notin Requests \cup Codes
    /\ None # "save values"
    /\ Owners \cap Attributes = {}

VARIABLES
    cats,      \* cats[c]: who last wrote category c, or None: no such row
    regs,      \* regs[a]: code and category of an entry, or None
    options,   \* the attributes that have options
    values,    \* values[o][a]: the committed value of attribute a of owner o
    deleted,   \* history: the ids of deleted entries
    since      \* history: since[r]: the versions of its category since r wrote it

catalogVars == <<cats, regs, options, values, deleted, since>>

Writers == Requests \cup {"seed"}
NoEntry == [code |-> None, category |-> None]
Live    == {a \in Attributes : regs[a] # NoEntry}

CategoryKnown(c) == c \in {None} \cup {x \in Categories : cats[x] # None}

CatalogInit ==
    /\ cats \in [Categories -> {"seed", None}]
    /\ regs \in [Attributes -> [code : Codes, category : Categories \cup {None}] \cup {NoEntry}]
    /\ \A a \in Attributes :
          /\ IF a \in Seeded THEN regs[a].code = CodeOf[a] ELSE regs[a] = NoEntry
          /\ CategoryKnown(regs[a].category)
    /\ options = Seeded
    /\ values = [o \in Owners |-> [a \in Attributes |-> None]]
    /\ deleted = {}
    /\ since = [r \in Requests |-> {}]

-----------------------------------------------------------------------------
(* Categories.  Create and update write the row with one statement and     *)
(* read it back with another one, for the answer.                          *)

BeginCategory(r) ==
    /\ \E op \in {"get category", "create category", "update category", "delete category"},
          c \in Categories :
          /\ Begin(r, IF op = "get category" THEN "read category" ELSE op,
                   [op |-> op, category |-> c, reply |-> None])
          /\ since' = [since EXCEPT ![r] = {cats[c]}]
    /\ UNCHANGED <<cats, regs, options, values, deleted>>

\* The row of category c becomes row by r's statement; requests that are about
\* to read it back may find that version.
SetCategory(r, c, row) ==
    /\ cats' = [cats EXCEPT ![c] = row]
    /\ since' = [q \in Requests |->
                    IF q = r THEN {row}
                    ELSE IF pc[q] = "read category" /\ job[q].category = c
                         THEN since[q] \cup {row} ELSE since[q]]

CreateCategory(r) ==
    /\ pc[r] = "create category"
    /\ cats[job[r].category] = None
    /\ SetCategory(r, job[r].category, r)
    /\ Goto(r, "read category")
    /\ UNCHANGED <<job, holds, regs, options, values, deleted>>

CategoryExists(r) ==
    /\ pc[r] = "create category"
    /\ cats[job[r].category] # None
    /\ Fail(r)
    /\ UNCHANGED catalogVars

\* An UPDATE that finds no row is no error.
UpdateCategory(r) ==
    /\ pc[r] = "update category"
    /\ LET c == job[r].category
       IN  SetCategory(r, c, IF cats[c] = None THEN None ELSE r)
    /\ Goto(r, "read category")
    /\ UNCHANGED <<job, holds, regs, options, values, deleted>>

FinishCategory(r, row) == Finish(r, [job[r] EXCEPT !.reply = row])

\* Seeded fault: the handler answers from the request instead of reading back.
AnswerFromRequest(r) ==
    /\ pc[r] = "read category"
    /\ FinishCategory(r, r)
    /\ UNCHANGED catalogVars

GetCategory(r) ==
    /\ pc[r] = "read category"
    /\ LET row == cats[job[r].category]
       IN  IF row = None THEN Fail(r) ELSE FinishCategory(r, row)
    /\ UNCHANGED catalogVars

\* ON DELETE SET NULL keeps the entries of the category.
DeleteCategory(r) ==
    /\ pc[r] = "delete category"
    /\ LET c == job[r].category
       IN  /\ SetCategory(r, c, None)
           /\ regs' = [a \in Attributes |->
                          IF regs[a].category = c
                          THEN [regs[a] EXCEPT !.category = None] ELSE regs[a]]
    /\ Finish(r, job[r])
    /\ UNCHANGED <<options, values, deleted>>

-----------------------------------------------------------------------------
(* The registry.                                                           *)

BeginCreateEntry(r) ==
    /\ \E k \in Codes, c \in Categories \cup {None} :
          Begin(r, "create entry", [op |-> "create entry", code |-> k, category |-> c])
    /\ UNCHANGED catalogVars

BeginUpdateEntry(r) ==
    /\ \E a \in Attributes, c \in Categories \cup {None} :
          Begin(r, "update entry", [op |-> "update entry", entry |-> a, category |-> c])
    /\ UNCHANGED catalogVars

BeginDeleteEntry(r) ==
    /\ \E a \in Attributes :
          Begin(r, "delete entry", [op |-> "delete entry", entry |-> a])
    /\ UNCHANGED catalogVars

\* attribute_code is unique; the id is one that was never used.
CreateEntry(r) ==
    /\ pc[r] = "create entry"
    /\ \A a \in Live : regs[a].code # job[r].code
    /\ CategoryKnown(job[r].category)
    /\ \E a \in Attributes \ (Live \cup deleted) :
          regs' = [regs EXCEPT ![a] = [code |-> job[r].code, category |-> job[r].category]]
    /\ Finish(r, job[r])
    /\ UNCHANGED <<cats, options, values, deleted, since>>

\* The UPDATE sets the category of an entry, but never its attribute_code.
UpdateEntry(r) ==
    /\ pc[r] = "update entry"
    /\ job[r].entry \in Live
    /\ CategoryKnown(job[r].category)
    /\ regs' = [regs EXCEPT ![job[r].entry].category = job[r].category]
    /\ Finish(r, job[r])
    /\ UNCHANGED <<cats, options, values, deleted, since>>

EntryRefused(r) ==
    /\ \/ /\ pc[r] = "create entry"
          /\ \/ \E a \in Live : regs[a].code = job[r].code
             \/ ~ CategoryKnown(job[r].category)
       \/ /\ pc[r] = "update entry"
          /\ \/ job[r].entry \notin Live
             \/ ~ CategoryKnown(job[r].category)
    /\ Fail(r)
    /\ UNCHANGED catalogVars

\* Seeded fault: no foreign key, so the deletion waits for nobody.
DeleteUnawaited(r) ==
    /\ pc[r] = "delete entry"
    /\ LET a == job[r].entry
       IN  /\ regs' = [regs EXCEPT ![a] = NoEntry]
           /\ options' = options \ {a}
           /\ values' = [o \in Owners |-> [values[o] EXCEPT ![a] = None]]
           /\ deleted' = deleted \cup ({a} \cap Live)
    /\ Finish(r, job[r])
    /\ UNCHANGED <<cats, since>>

\* The deletion waits for the transactions that have stored a value of the
\* attribute, and cascades to its options and to every value of it.
DeleteEntry(r) ==
    /\ pc[r] = "delete entry"
    /\ LET a == job[r].entry
       IN  /\ \A q \in Requests : a \notin holds[q]
           /\ regs' = [regs EXCEPT ![a] = NoEntry]
           /\ options' = options \ {a}
           /\ values' = [o \in Owners |-> [values[o] EXCEPT ![a] = None]]
           /\ deleted' = deleted \cup ({a} \cap Live)
    /\ Finish(r, job[r])
    /\ UNCHANGED <<cats, since>>

-----------------------------------------------------------------------------
(* Listing the registry, whole or by category: one statement for the       *)
(* entries and one for the options of all attributes.                      *)

BeginList(r) ==
    /\ \E by \in {"all", None} \cup Categories :
          Begin(r, "list entries",
                [op |-> "list entries", by |-> by, entries |-> {}, options |-> {}])
    /\ UNCHANGED catalogVars

\* An empty category code is passed as NULL, which equals nothing.
Listed(by) ==
    {a \in Live : by = "all" \/ (by # None /\ regs[a].category = by)}

ListEntries(r) ==
    /\ pc[r] = "list entries"
    /\ job' = [job EXCEPT ![r].entries = Listed(job[r].by)]
    /\ Goto(r, "list options")
    /\ UNCHANGED <<holds, catalogVars>>

\* Seeded fault: the error of the second query is dropped.
OptionsOrNone(r) ==
    /\ pc[r] = "list options"
    /\ \E found \in {options, {}} :
          Finish(r, [job[r] EXCEPT !.options = found \cap job[r].entries])
    /\ UNCHANGED catalogVars

ListOptions(r) ==
    /\ pc[r] = "list options"
    /\ Finish(r, [job[r] EXCEPT !.options = options \cap job[r].entries])
    /\ UNCHANGED catalogVars

-----------------------------------------------------------------------------
(* Saving an owner together with its attributes, in one transaction.       *)

BeginSave(r) ==
    /\ \E o \in Owners, as \in (SUBSET Attributes) \ {{}} :
          Begin(r, "write owner", [op |-> "save values", owner |-> o, attributes |-> as])
    /\ UNCHANGED catalogVars

WriteOwner(r) ==
    /\ pc[r] = "write owner"
    /\ \A q \in Requests : job[r].owner \notin holds[q]
    /\ holds' = [holds EXCEPT ![r] = {job[r].owner}]
    /\ Goto(r, "store values")
    /\ UNCHANGED <<job, catalogVars>>

Unstored(r) == job[r].attributes \ holds[r]

\* Seeded fault: the upsert runs on the pool instead of the transaction.
StoreOutsideTx(r) ==
    /\ pc[r] = "store values"
    /\ \E a \in Unstored(r) :
          IF a \in Live
          THEN /\ holds' = [holds EXCEPT ![r] = @ \cup {a}]
               /\ values' = [values EXCEPT ![job[r].owner][a] = r]
               /\ UNCHANGED <<pc, job>>
          ELSE Fail(r) /\ UNCHANGED values
    /\ UNCHANGED <<cats, regs, options, deleted, since>>

\* One upsert, of the next attribute in the order of the request.
StoreValue(r) ==
    /\ pc[r] = "store values"
    /\ \E a \in Unstored(r) :
          IF a \in Live
          THEN /\ holds' = [holds EXCEPT ![r] = @ \cup {a}]
               /\ UNCHANGED <<pc, job>>
          ELSE Fail(r)
    /\ UNCHANGED catalogVars

Commit(r) ==
    /\ pc[r] = "store values"
    /\ Unstored(r) = {}
    /\ values' = [values EXCEPT ![job[r].owner] =
                     [a \in Attributes |-> IF a \in holds[r] THEN r ELSE @[a]]]
    /\ Finish(r, job[r])
    /\ UNCHANGED <<cats, regs, options, deleted, since>>

-----------------------------------------------------------------------------
BeginCatalog(r) ==
    \/ BeginCategory(r) \/ BeginCreateEntry(r) \/ BeginUpdateEntry(r)
    \/ BeginDeleteEntry(r) \/ BeginList(r) \/ BeginSave(r)

CatalogStep(r) ==
    \/ CreateCategory(r) \/ CategoryExists(r) \/ UpdateCategory(r)
    \/ GetCategory(r) \/ DeleteCategory(r)
    \/ CreateEntry(r) \/ UpdateEntry(r) \/ EntryRefused(r) \/ DeleteEntry(r)
    \/ ListEntries(r) \/ ListOptions(r)
    \/ WriteOwner(r) \/ StoreValue(r) \/ Commit(r)

-----------------------------------------------------------------------------
(* Properties.                                                             *)

\* Rows have their types and refer to rows that exist (the foreign keys of
\* migrations 00004 to 00006 and 00011), and codes are unique.
CatalogTypeOK ==
    /\ cats \in [Categories -> Writers \cup {None}]
    /\ regs \in [Attributes -> [code : Codes, category : Categories \cup {None}] \cup {NoEntry}]
    /\ values \in [Owners -> [Attributes -> Requests \cup {None}]]
    /\ \A a \in Live : CategoryKnown(regs[a].category)
    /\ \A a, b \in Live : regs[a].code = regs[b].code => a = b
    /\ options \subseteq Live
    /\ \A o \in Owners, a \in Attributes : values[o][a] # None => a \in Live
    /\ deleted \subseteq Attributes \ Live

\* A listing (ListAttributeRegistry and ...ByCategory) that shows an attribute
\* without the options it has, shows one that was deleted between the two
\* statements: an attribute that still exists is listed with its options.
ListedWhole ==
    \A r \in Requests : pc[r] = "ok" /\ job[r].op = "list entries" =>
        \A a \in job[r].entries \cap Seeded : a \in job[r].options \/ a \in deleted

\* The category a create, an update or a get answers with is the row as it was
\* at a moment after the request's own write: never one that was replaced
\* before, and never one that did not exist.
CategoryAnswers ==
    \A r \in Requests :
        pc[r] = "ok" /\ job[r].op \in {"get category", "create category", "update category"} =>
            job[r].reply \in since[r] \ {None}

\* Values of an owner come and go as a whole.  Once one value of a save can be
\* seen, or the save was answered, all of its attributes have a value, the
\* save's own or a later one, except those whose entry was deleted since.
SavesAreWhole ==
    \A r \in Requests : job[r].op = "save values" =>
        LET row == values[job[r].owner]
        IN  (pc[r] = "ok" \/ \E a \in Attributes : row[a] = r) =>
                \A a \in job[r].attributes : row[a] # None \/ a \in deleted
=============================================================================
