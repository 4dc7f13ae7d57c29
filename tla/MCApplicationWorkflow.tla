------------------------ MODULE MCApplicationWorkflow ------------------------
(* Instances of ApplicationWorkflow for TLC.  Statuses and flows are those  *)
(* of the seed data (schema/seeds/00051, 00052), cut down where noted.      *)
EXTENDS ApplicationWorkflow, TLC

CONSTANTS r1, r2, r3, a1, a2, p1, p2, nobody, ao1, x1, v1, v2

\* Every status of application_status_refs.
SeedStatuses == {"INTAKE", "SURVEY", "ANALYSIS", "COMMITTEE", "APPROVED",
                 "REJECTED", "CANCELLED"}

SeedTerminal == {"APPROVED", "REJECTED", "CANCELLED"} \cap Statuses

SeedFlows == {<<p1, "INTAKE", "SURVEY">>, <<p1, "SURVEY", "ANALYSIS">>,
              <<p1, "ANALYSIS", "APPROVED">>, <<p1, "ANALYSIS", "COMMITTEE">>,
              <<p2, "INTAKE", "SURVEY">>}

\* A product whose flow also has edges to REJECTED, which the table permits
\* although the seed data has none: RunEarlyChecks can reject.
RejectingFlows == {<<p1, "INTAKE", "SURVEY">>, <<p1, "SURVEY", "APPROVED">>,
                   <<p1, "INTAKE", "REJECTED">>}

TwoProductFlows == RejectingFlows \cup {<<p2, "INTAKE", "SURVEY">>}

ShortStatuses == {"INTAKE", "SURVEY", "APPROVED", "REJECTED"}

\* UpdateApplication without a status writes the empty string.
LooseStatuses == {"INTAKE", "SURVEY", "APPROVED", "REJECTED", ""}

Symmetric == Permutations(Requests)

=============================================================================
