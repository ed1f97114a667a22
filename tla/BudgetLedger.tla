---------------------------- MODULE BudgetLedger ----------------------------
(***************************************************************************)
(* What the accounting promises of an organization's money: what is spent  *)
(* and held grows only by an amount that still fits every hard budget of   *)
(* the organization, money is spent only while it is held, and money that  *)
(* was spent or given back never moves again (the module comment of        *)
(* apps/api/src/repositories/budgets.rs).  How a call is admitted, served, *)
(* cancelled or lost is no part of the ledger.                             *)
(***************************************************************************)
EXTENDS Naturals

CONSTANTS
    Requests,        \* the calls whose money the ledger keeps
    Minor(_),        \* Minor(S): the minor units the calls of S amount to
    Budgets,         \* the organization's budgets
    OrgBudgets       \* those that cover every call

VARIABLES
    limit,           \* the limit of each budget
    hard,            \* the budgets that are enforced
    position         \* where the money of each call is

vars == <<limit, hard, position>>

Outstanding == Minor({r \in Requests : position[r] \in {"held", "spent"}})

Init ==
    /\ limit \in [Budgets -> Nat]
    /\ hard \in [Budgets -> BOOLEAN]
    /\ position = [r \in Requests |-> "none"]

\* Money is put aside for a call if afterwards everything still fits.
Hold(r) ==
    /\ position[r] = "none"
    /\ position' = [position EXCEPT ![r] = "held"]
    /\ \A b \in OrgBudgets : hard[b] => Outstanding' <= limit[b]
    /\ UNCHANGED <<limit, hard>>

Spend(r) ==
    /\ position[r] = "held"
    /\ position' = [position EXCEPT ![r] = "spent"]
    /\ UNCHANGED <<limit, hard>>

\* Some of the held amounts are given back: by their calls, or because their
\* time is over.
GiveBack(S) ==
    /\ \A r \in S : position[r] = "held"
    /\ position' = [r \in Requests |-> IF r \in S THEN "returned" ELSE position[r]]
    /\ UNCHANGED <<limit, hard>>

\* An administrator changes the budgets.
Change ==
    /\ UNCHANGED position
    /\ limit' \in [Budgets -> Nat]
    /\ hard' \in [Budgets -> BOOLEAN]

Next ==
    \/ Change
    \/ \E r \in Requests : Hold(r) \/ Spend(r)
    \/ \E S \in SUBSET Requests : GiveBack(S)

Spec == Init /\ [][Next]_vars
=============================================================================
