----------------------------- MODULE BackOffice -----------------------------
(***************************************************************************)
(* The services beside the workflow, in one server: the handlers work on   *)
(* requests to the attribute catalogue and to the case file while clients  *)
(* walk through the lists.  Each component keeps its own tables; what they *)
(* share is the server, whose load the model bounds.                       *)
(***************************************************************************)
EXTENDS AttributeCatalog, CaseFile, KeysetListing

\* Bounds of the model: the load of a behaviour, and what a walk adds to it
\* where a request adds one.
CONSTANTS Load, WalkLoad

vars == <<handlerVars, catalogVars, fileVars, listingVars>>

Admits(load) ==
    Cardinality({r \in Requests : pc[r] # "idle"})
        + WalkLoad * Cardinality({w \in Walkers : walk[w].at # "idle"})
        + load <= Load

Init == HandlersInit /\ CatalogInit /\ FileInit /\ ListingInit

OfCatalog(A) == A /\ UNCHANGED <<fileVars, listingVars>>
OfCaseFile(A) == A /\ UNCHANGED <<catalogVars, listingVars>>
OfListing(A) == A /\ UNCHANGED <<handlerVars, catalogVars, fileVars>>

Step(r) == OfCatalog(CatalogStep(r)) \/ OfCaseFile(CaseFileStep(r))

Next ==
    \/ \E r \in Requests :
          \/ Admits(1) /\ OfCatalog(BeginCatalog(r))
          \/ Admits(1) /\ OfCaseFile(BeginCaseFile(r))
          \/ Step(r)
          \/ StatementFails(r) /\ UNCHANGED <<catalogVars, fileVars, listingVars>>
    \/ \E w \in Walkers :
          \/ Admits(WalkLoad) /\ OfListing(StartWalk(w))
          \/ OfListing(WalkStep(w))
          \/ OfListing(CallFails(w))
          \/ OfListing(Retry(w))
    \/ OfListing(Changes)

Spec == Init /\ [][Next]_vars

\* The server goes on with the calls it has taken, and a client that is told
\* there is a next page asks for it.  Nobody has to start a call, to repeat
\* one, or to change a row.
Fairness ==
    /\ \A r \in Requests : WF_vars(Step(r))
    /\ \A w \in Walkers : WF_vars(OfListing(WalkStep(w)))

FairSpec == Spec /\ Fairness

\* Every request is answered, with success or an error: a save that waits for
\* the owner's row and a deletion that waits for the saves of the attribute
\* get their turn, since InTx ends every transaction it began.
RequestsAnswered ==
    \A r \in Requests : pc[r] # "idle" ~> pc[r] \in Ended
=============================================================================
