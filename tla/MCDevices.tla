----------------------------- MODULE MCDevices -----------------------------
(***************************************************************************)
(* Devices, Accounts, Runs and ToolPolicy for TLC: a managed device, the   *)
(* user who approves it, the runs it works on and the policy of its tools. *)
(* Each of the four keeps its own tables and reads of the others only that *)
(* a row is live, which they leave out; so TLC explores one of them at a   *)
(* time: `part` is chosen once and the others keep one initial state.      *)
(***************************************************************************)
EXTENDS Devices, Accounts, Runs, ToolPolicy, TLC

CONSTANTS
    d0, d1,     \* device keys
    t1, g1      \* a tool and a registration

VARIABLE part

\* Two device keys, the first device's and another.
MCKeys == {d0, d1}
MCKeyOf == [e \in Enrollments |-> IF e = FirstOf THEN d0 ELSE d1]

\* Every tool allowed, one of them only per use; what is listed allowed, in a
\* session; everything allowed but a tool that is denied.
MCDocuments ==
    LET Document(posture, tools, denied, mode, modes) ==
            [posture |-> posture, tools |-> tools, denied |-> denied, mcp |-> {g1}, mode |-> mode,
             modes |-> modes]
    IN  {[Document("allow", {}, {}, 0, t1 :> 2) EXCEPT !.mcp = {}],
         Document("deny", {t1}, {}, 1, <<>>), Document("allow", {t1}, {t1}, 0, <<>>)}
MCTools == {t1}
MCRegistrations == {g1}

ASSUME MCConstants == Constants

allVars == <<deviceVars, accountVars, runVars, policyVars, part>>

MCSymmetry == Permutations(Calls) \cup Permutations(RunCalls)

\* A bound on the start: no tool yet, or one of a plugin that a policy lists,
\* and no snapshot or the present one; edits publish the other policies.
MCPolicyInit ==
    /\ document # Absent =>
           /\ document.content.posture = "deny"
           /\ entry[t1].source = "plugin" /\ entry[t1].fingerprint = "f1"
    /\ section \in {NoSection, SectionOf(document)}

MCInit ==
    /\ Init /\ AccountInit /\ RunInit /\ PolicyInit /\ MCPolicyInit
    /\ part \in {"devices", "accounts", "runs", "policy"}
    /\ part # "policy" => document = Absent /\ section = NoSection
    /\ part # "devices" => snapshots = {}
    /\ part # "accounts" =>
           /\ password /\ grant[FirstSession].purpose = "password_change"
           /\ \A x \in Codes : code[x].status = "absent"

\* A bound on the runs: a note is under way or written only where there are
\* fewer than three.
MCRunBound ==
    Len(run) < MaxRuns \/ \A r \in NotedRuns, c \in RunCalls :
        /\ runCall[c].phase # "idle" => runCall[c].op # "note"
        /\ \A e \in timeline[r] : e.kind # "note"

MCNext ==
    \/ part = "devices" /\ Next /\ UNCHANGED <<accountVars, runVars, policyVars, part>>
    \/ part = "accounts" /\ AccountNext /\ UNCHANGED <<deviceVars, runVars, policyVars, part>>
    \/ part = "runs" /\ RunNext /\ MCRunBound' /\ UNCHANGED <<deviceVars, accountVars, policyVars, part>>
    \/ part = "policy" /\ PolicyNext /\ UNCHANGED <<deviceVars, accountVars, runVars, part>>

MCSpec == MCInit /\ [][MCNext]_allVars

\* One type invariant for the four: of the part that moves.
MCTypeOK ==
    /\ part = "devices" => TypeOK
    /\ part = "accounts" => AccountTypeOK
    /\ part = "runs" => RunTypeOK
    /\ part = "policy" => PolicyTypeOK
=============================================================================
