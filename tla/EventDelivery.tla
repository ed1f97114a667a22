--------------------------- MODULE EventDelivery ---------------------------
(***************************************************************************)
(* What the outbox promises for a committed business event: it stays open  *)
(* until exactly one of two outcomes is recorded, delivered or dead_letter;*)
(* an outcome never changes, and "delivered" is recorded only for an event *)
(* the handler has processed.  Processing may happen more than once, also  *)
(* after the outcome is known: Queue delivery is at least once             *)
(* (apps/api/src/lib.rs, modules/outbox/consumer.rs).                      *)
(***************************************************************************)
CONSTANT Events      \* outbox events, named by their event_id

VARIABLES
    outcome,         \* what the durable record says of each event
    handled          \* the events some handler run has processed

vars == <<outcome, handled>>

Init ==
    /\ outcome = [e \in Events |-> "uncommitted"]
    /\ handled = {}

\* The business transaction that carries the event commits.
Commit(e) ==
    /\ outcome[e] = "uncommitted"
    /\ outcome' = [outcome EXCEPT ![e] = "open"]
    /\ UNCHANGED handled

\* A handler run processes the event.
Process(e) ==
    /\ outcome[e] # "uncommitted"
    /\ handled' = handled \cup {e}
    /\ UNCHANGED outcome

Deliver(e) ==
    /\ outcome[e] = "open"
    /\ e \in handled
    /\ outcome' = [outcome EXCEPT ![e] = "delivered"]
    /\ UNCHANGED handled

GiveUp(e) ==
    /\ outcome[e] = "open"
    /\ outcome' = [outcome EXCEPT ![e] = "dead_letter"]
    /\ UNCHANGED handled

Next == \E e \in Events : Commit(e) \/ Process(e) \/ Deliver(e) \/ GiveUp(e)

Spec == Init /\ [][Next]_vars
=============================================================================
