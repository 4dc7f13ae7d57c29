--------------------------- MODULE MCTemplatePool ---------------------------
(* Instances of TemplatePool for TLC.                                      *)
EXTENDS TemplatePool, TLC

CONSTANTS r1, r2, o1

Symmetric == Permutations(Readers)

=============================================================================
