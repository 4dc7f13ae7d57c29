---------------------------- MODULE ApplicantStore ----------------------------
(***************************************************************************)
(* What Save and Update of the applicants (internal/data/applicant.go:55)  *)
(* promise: a request changes one applicant, at once, its columns and the  *)
(* attributes it sends together, and leaves the other attributes alone.    *)
(*                                                                         *)
(* A request that is to change attributes only rewrites the columns too,   *)
(* as it found them (internal/service/applicant.go:136), however long ago. *)
(***************************************************************************)
CONSTANTS Requests, Applicants, Rows, AttrMaps, None

VARIABLES
    rows,      \* rows[a]: the columns of an applicant, None if there is none
    attrs,     \* attrs[a]: its attributes
    intents    \* what running requests may still write

vars == <<rows, attrs, intents>>

Init == intents = {}

\* Whoever keeps the columns has none of its own.
Intend(i) ==
    /\ i \in [by : Requests, app : Applicants, row : Rows, given : AttrMaps, keep : BOOLEAN]
    /\ i.keep => i.row = rows[i.app]
    /\ intents' = intents \cup {i}
    /\ UNCHANGED <<rows, attrs>>

GiveUp(i) ==
    /\ i \in intents
    /\ intents' = intents \ {i}
    /\ UNCHANGED <<rows, attrs>>

Overwrite(old, given) ==
    [t \in DOMAIN old |-> IF given[t] = None THEN old[t] ELSE given[t]]

Unique(f) == \A a, b \in Applicants :
    a # b /\ f[a] # None /\ f[b] # None /\ f[a].number = f[b].number => f[a].number = None

Apply(i) ==
    /\ i \in intents
    /\ rows' = [rows EXCEPT ![i.app] = i.row]
    /\ Unique(rows')
    /\ attrs' = [attrs EXCEPT ![i.app] = Overwrite(@, i.given)]
    /\ intents' = intents \ {i}

Next ==
    \/ \E i \in intents' : Intend(i)
    \/ \E i \in intents : GiveUp(i) \/ Apply(i)

Spec == Init /\ [][Next]_vars

=============================================================================
