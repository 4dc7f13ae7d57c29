-------------------------- MODULE MCApplicantProfile --------------------------
(* Instances of ApplicantProfile for TLC.                                  *)
EXTENDS ApplicantProfile

CONSTANTS r1, r2, a1, a2, n1, n2, d1, t1, t2, v1

=============================================================================
