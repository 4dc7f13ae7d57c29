--------------------------- MODULE MCFinancialData ---------------------------
(* Instances of FinancialData for TLC.                                     *)
EXTENDS FinancialData, TLC

CONSTANTS r1, r2, a1, a2, i1, i2, k1, m1

Symmetric == Permutations(Requests) \cup Permutations(Apps) \cup Permutations(Items)

=============================================================================
