---------------------------- MODULE LockedRecords ----------------------------
(***************************************************************************)
(* What checkLock (biz/financial.go:84, biz/survey.go:125) promises about  *)
(* the records that belong to an application: a request that found the     *)
(* application in a working status may write to that application's         *)
(* records, once, however late.  Nobody else may.                          *)
(*                                                                         *)
(* It is the strongest promise that check can give: the status can become  *)
(* terminal between the check and the write.                               *)
(***************************************************************************)
CONSTANTS Requests, Apps, Statuses, Terminal

VARIABLES
    status,    \* status[a]: the status of an application
    records,   \* records[a]: whatever belongs to it
    permits    \* <<r, a>>: r may still write to the records of a

vars == <<status, records, permits>>

Init == permits = {}

\* The workflow, which this module knows nothing about.
StatusMoves == UNCHANGED <<records, permits>>

Permit(r, a) ==
    /\ status[a] \in Statuses \ Terminal
    /\ permits' = permits \cup {<<r, a>>}
    /\ UNCHANGED <<status, records>>

Write(r, a) ==
    /\ <<r, a>> \in permits
    /\ permits' = permits \ {<<r, a>>}
    /\ \A b \in Apps \ {a} : records'[b] = records[b]
    /\ UNCHANGED status

Next == StatusMoves \/ \E r \in Requests, a \in Apps : Permit(r, a) \/ Write(r, a)

Spec == Init /\ [][Next]_vars

=============================================================================
