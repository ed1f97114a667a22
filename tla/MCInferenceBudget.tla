------------------------ MODULE MCInferenceBudget ------------------------
(***************************************************************************)
(* Small instances of InferenceBudget for TLC.                             *)
(***************************************************************************)
EXTENDS InferenceBudget

CONSTANTS r1, r2, r3, org, project, user

\* Two calls of one unit and one of two.
MCCost == [r \in Requests |-> IF r = r2 THEN 2 ELSE 1]

\* The organization budget covers every call, the project budget every
\* call, the user budget only the calls of r1's principal.
MCScope == [b \in Budgets |-> IF b = user THEN {r1} ELSE Requests]

\* Room for one call of each cost, or for two small ones, never for all.
MCLimit == [b \in Budgets |-> IF b = user THEN 1 ELSE 2]
=============================================================================
