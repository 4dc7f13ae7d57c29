----------------------------- MODULE StatusAudit -----------------------------
(***************************************************************************)
(* What the application module promises about statuses: an application is  *)
(* created in an initial status, moves along permitted edges until it is   *)
(* in a terminal one, and every move is appended to its audit trail in the *)
(* step that makes it.                                                     *)
(***************************************************************************)
EXTENDS Sequences

CONSTANTS
    Apps,       \* application ids
    Initials,   \* statuses an application is created in
    Terminal,   \* statuses nothing leaves
    Edges,      \* permitted moves <<from, to>>
    None        \* no such application yet

VARIABLES
    status,     \* status[a], or None
    trail       \* trail[a]: the moves so far, oldest first

avars == <<status, trail>>

AInit ==
    /\ status = [a \in Apps |-> None]
    /\ trail = [a \in Apps |-> <<>>]

Create(a, s) ==
    /\ status[a] = None
    /\ s \in Initials
    /\ status' = [status EXCEPT ![a] = s]
    /\ UNCHANGED trail

Move(a, t) ==
    /\ status[a] \notin Terminal \cup {None, t}
    /\ <<status[a], t>> \in Edges
    /\ status' = [status EXCEPT ![a] = t]
    /\ trail' = [trail EXCEPT ![a] = Append(@, [from |-> status[a], to |-> t])]

ANext ==
    \E a \in Apps :
        \/ \E s \in Initials : Create(a, s)
        \/ \E e \in Edges : Move(a, e[2])

ASpec == AInit /\ [][ANext]_avars

=============================================================================
