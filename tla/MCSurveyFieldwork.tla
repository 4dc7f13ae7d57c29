-------------------------- MODULE MCSurveyFieldwork --------------------------
(* Instances of SurveyFieldwork for TLC.                                   *)
EXTENDS SurveyFieldwork, TLC

CONSTANTS r1, r2, a1, a2, s1, s2, t1, t2, q1, q2, v1, v2, u1

Symmetric == Permutations(Requests) \cup Permutations(Surveys) \cup Permutations(Apps)

=============================================================================
