---------------------------- MODULE MCBackOffice ----------------------------
(* BackOffice for TLC. *)
EXTENDS BackOffice, TLC

CONSTANTS r1, r2, a1, a2, spare, k1, k2, k3

MCCodeOf == a1 :> k1 @@ a2 :> k2
MCTables == {[k \in 1..N |-> NoRow]}
MCPageSizes == {-1, 0, 1, 2, MaxInt32}
=============================================================================
