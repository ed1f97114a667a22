----------------------------- MODULE MCTenancy -----------------------------
(***************************************************************************)
(* Idempotency, Organizations, DeviceCodes, ToolCalls and MachineIdentity  *)
(* for TLC: what stands between a caller and what it asks for.  They share *)
(* no row, so TLC explores one of them at a time: `part` is chosen once    *)
(* and the others keep one initial state.                                  *)
(***************************************************************************)
EXTENDS Idempotency, Organizations, DeviceCodes, ToolCalls, MachineIdentity, TLC

\* Of Idempotency: one key, two identical requests and one with another body.
CONSTANTS q1, q2, q3, k1
MCKeyOf == [q \in Requests |-> k1]
MCCommand == [q \in Requests |-> IF q = q3 THEN "other" ELSE "same"]

VARIABLE part

allVars == <<vars, orgVars, codeVars, toolVars, machineVars, part>>

\* The configurations give the first two requests of every part the same names.
MCSymmetry == Permutations(Deciders) \cup Permutations(ToolCallIds)

MCInit ==
    /\ Init /\ OrgInit /\ CodeInit /\ ToolInit /\ MachineInit
    /\ part \in {"idempotency", "organizations", "device_codes", "tool_calls", "machine_identity"}
    /\ part # "idempotency" => \A k \in Keys : route[k] = "batch"
    \* A bound on the start: no plain member, who could only leave, and no
    \* invitation of the founder.
    /\ \A u \in Users : member[u].status = "active" => member[u].role # "member"
    /\ \A i \in Invitations : invitation[i].status = "pending" => invitation[i].email # Founder
    /\ part # "organizations" =>
           /\ \A u \in Users \ {Founder} : member[u].status = "absent"
           /\ \A i \in Invitations : invitation[i].status = "absent"
    /\ part # "machine_identity" => \A a \in ServiceAccounts : account[a].status = "absent"
    \* And a policy that gates tool calls; an edit may allow or deny them.
    /\ policy.verdict \in IF part = "tool_calls" THEN {"session", "per_use"} ELSE {"deny"}

MCNext ==
    \/ /\ part = "idempotency" /\ Next
       /\ UNCHANGED <<orgVars, codeVars, toolVars, machineVars, part>>
    \/ /\ part = "organizations" /\ OrgNext
       /\ UNCHANGED <<vars, codeVars, toolVars, machineVars, part>>
    \/ /\ part = "device_codes" /\ CodeNext
       /\ UNCHANGED <<vars, orgVars, toolVars, machineVars, part>>
    \/ /\ part = "tool_calls" /\ ToolNext
       /\ UNCHANGED <<vars, orgVars, codeVars, machineVars, part>>
    \/ /\ part = "machine_identity" /\ MachineNext
       /\ UNCHANGED <<vars, orgVars, codeVars, toolVars, part>>

MCSpec == MCInit /\ [][MCNext]_allVars

\* One type invariant for the five: of the part that moves.
MCTypeOK ==
    /\ part = "idempotency" => TypeOK
    /\ part = "organizations" => OrgTypeOK
    /\ part = "device_codes" => CodeTypeOK
    /\ part = "tool_calls" => ToolTypeOK
    /\ part = "machine_identity" => MachineTypeOK
=============================================================================
