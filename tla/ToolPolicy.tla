----------------------------- MODULE ToolPolicy -----------------------------
(***************************************************************************)
(* What an organization allows its devices to call: the tool policy, the   *)
(* tools and the MCP registrations of the catalog, the policy section that *)
(* a snapshot copies, and the evaluation of a call against all of them     *)
(* (apps/api/src/routes/tools.rs, modules/tool_policy.rs).                 *)
(*                                                                         *)
(* An edit reads its row, and then sends one batch behind a guard on the   *)
(* version.  A decision reads tool, registration, policy and snapshot one  *)
(* after the other, and evaluates what it has read.  What is then stored   *)
(* of a decision is in ToolCalls, how snapshots are numbered in Devices.   *)
(***************************************************************************)
EXTENDS Naturals, FiniteSets, Functions, Records

CONSTANTS
    Tools, Registrations, Fingerprints, Sources,
    Risks,          \* the least approval modes of the risk classes that occur
    NoRegistration, NoFingerprint,
    Documents,      \* the policies that administrators publish
    Editors,        \* invocations of the mutations, one request each
    Publishers,     \* invocations of refresh_policy_snapshot
    Askers          \* invocations of create_tool_decision

\* Approval modes in their order, and a denial above them (ApprovalMode::rank).
Modes == 0..2
Denied == 3

ASSUME PolicyConstants ==
    /\ Risks \subseteq Modes
    /\ "policy" \notin Tools \cup Registrations
    /\ Documents \subseteq
           [posture : {"allow", "deny"}, tools : SUBSET Tools, denied : SUBSET Tools,
            mcp : SUBSET Registrations, mode : Modes, modes : UNION {[T -> Modes] : T \in SUBSET Tools}]

VARIABLES
    document,       \* the tool_policies row of the organization
    entry,          \* tool_definitions and mcp_registrations rows
    section,        \* the tools section of the latest snapshot
    editor, publisher, asker,
    opened          \* history: the gates that an asker's call found open since it arrived

policyVars == <<document, entry, section, editor, publisher, asker, opened>>

Larger(a, b) == IF a >= b THEN a ELSE b

Entries == Tools \cup Registrations
\* A tool under review is as good as disabled; pending, denied and disabled
\* registrations are all withheld.
States(x) == IF x \in Tools THEN {"active", "disabled"} ELSE {"approved", "withheld"}

\* No row has version 0.
Absent == [version |-> 0]
Tool(version, source, fingerprint, risk) ==
    [version |-> version, state |-> "active", source |-> source, fingerprint |-> fingerprint, risk |-> risk]
Registration(state, source, fingerprint) ==
    [version |-> 1, state |-> state, source |-> source, fingerprint |-> fingerprint]

\* ToolPolicyLayer::allows_tool and approval_for.
Allows(d, t) == t \notin d.denied /\ (t \in d.tools \/ d.posture = "allow")
ApprovalFor(d, t) == IF t \in DOMAIN d.modes THEN d.modes[t] ELSE d.mode

\* What a snapshot keeps of a policy, and of none.
SectionOf(row) ==
    IF row = Absent THEN [posture |-> "deny", tools |-> {}]
    ELSE [posture |-> row.content.posture, tools |-> row.content.tools]
\* No snapshot narrows nothing.
NoSection == [posture |-> "allow", tools |-> {}]

\* narrow_with_snapshot; a section never has rules, for no policy has them.
Narrowed(d, s) ==
    IF s.posture = "allow" THEN d
    ELSE [d EXCEPT !.tools = d.tools \cap s.tools, !.modes = Restrict(d.modes, DOMAIN d.modes \cap s.tools)]

-----------------------------------------------------------------------------
\* Nothing yet, or a policy, tools, and a registration for the first of them,
\* with a snapshot or without.
PolicyInit ==
    /\ \/ /\ document = Absent
          /\ entry = [x \in Entries |-> Absent]
       \/ \E d \in Documents, prints \in Injection(Tools, Fingerprints), source \in Sources, risk \in Risks :
              /\ document = [version |-> 1, content |-> d]
              /\ \E t \in Tools :
                     entry = [x \in Entries |->
                         IF x \in Tools THEN Tool(1, source, prints[x], risk)
                         ELSE Registration("approved", source, prints[t])]
    /\ section \in {NoSection, SectionOf(Absent), SectionOf(document)}
    /\ editor = [a \in Editors |-> [at |-> "new"]]
    /\ publisher = [p \in Publishers |-> [at |-> "new"]]
    /\ asker = [k \in Askers |-> [at |-> "new"]]
    /\ opened = [k \in Askers |-> {}]

-----------------------------------------------------------------------------
(* Edits.                                                                  *)

Ends(a) == editor' = [editor EXCEPT ![a] = [at |-> "over"]]

\* A caller names the version that it has loaded; only the present one passes
\* the first test.
Begins(a, row, change) ==
    /\ editor[a].at = "new"
    /\ editor' = [editor EXCEPT ![a] = With(change, [at |-> "write", row |-> row])]
    /\ UNCHANGED <<document, entry, section, publisher, asker>>

\* put_tool_policy
ReadPolicy(a) == \E d \in Documents : Begins(a, document, [target |-> "policy", content |-> d])

\* create_tool and create_mcp: the id is of the caller's key, and a tool's
\* fingerprint is looked for.
PrintIsFree(x, f) == x \in Tools => \A t \in Tools \ {x} : entry[t] = Absent \/ entry[t].fingerprint # f
NewRows(x) ==
    IF x \in Tools THEN {Tool(1, s, f, risk) : s \in Sources, f \in Fingerprints, risk \in Risks}
    ELSE {Registration("withheld", s, f) : s \in Sources, f \in Fingerprints \cup {NoFingerprint}}
Create(a, x) ==
    /\ entry[x] = Absent
    /\ \E row \in NewRows(x) :
           PrintIsFree(x, row.fingerprint) /\ Begins(a, Absent, [target |-> x, fields |-> row])

\* update_tool and update_mcp: what a request leaves out is taken from the row
\* that was read.  A new fingerprint of a tool needs a lifecycle beside it: the
\* one that the code would take, deprecated, cannot be stored.
Fields(x) ==
    [state : States(x)] \cup [state : States(x), fingerprint : Fingerprints]
    \cup IF x \in Tools THEN [risk : Risks] ELSE [fingerprint : Fingerprints]
ReadEntry(a, x) ==
    /\ entry[x] # Absent
    /\ \E fields \in Fields(x) : Begins(a, entry[x], [target |-> x, fields |-> fields])

\* Variant for the sensitivity runs: no version guard.
UnmovedUnchecked(a, row) == editor[a].row = Absent => row = Absent
\* The version guard that opens the batch, or the guard that no row is there.
Unmoved(a, row) == row.version = editor[a].row.version

\* A statement of the batch fails, and nothing is written.
Fails(a) == Ends(a) /\ UNCHANGED <<document, entry, section, publisher, asker>>

WritePolicy(a) ==
    /\ editor[a].at = "write" /\ editor[a].target = "policy"
    /\ \/ ~Unmoved(a, document) /\ Fails(a)
       \/ /\ Unmoved(a, document)
          /\ document' = [version |-> editor[a].row.version + 1, content |-> editor[a].content]
          /\ Ends(a)
          /\ UNCHANGED <<entry, section, publisher, asker>>

\* The row as the handler wants it (`next`).
Edited(row, fields) == IF row = Absent THEN fields ELSE [With(row, fields) EXCEPT !.version = row.version + 1]

\* An INSERT or UPDATE; fingerprints of tools are unique.
WriteEntry(a) ==
    LET x == editor[a].target
        edited == Edited(editor[a].row, editor[a].fields)
        holds == Unmoved(a, entry[x]) /\ PrintIsFree(x, edited.fingerprint)
    IN
    /\ editor[a].at = "write" /\ x # "policy"
    /\ \/ ~holds /\ Fails(a)
       \/ /\ holds
          /\ entry' = [entry EXCEPT ![x] = edited]
          /\ Ends(a)
          /\ UNCHANGED <<document, section, publisher, asker>>

-----------------------------------------------------------------------------
(* refresh_policy_snapshot: it reads the policy among other things, and    *)
(* publishes later; it does not when its payload is not new or its version *)
(* has been taken.                                                         *)

CompileSection(p) ==
    /\ publisher[p].at = "new"
    /\ publisher' = [publisher EXCEPT ![p] = [at |-> "publish", tools |-> SectionOf(document)]]
    /\ UNCHANGED <<document, entry, section, editor, asker>>

PublishSection(p) ==
    /\ publisher[p].at = "publish"
    /\ publisher' = [publisher EXCEPT ![p] = [at |-> "over"]]
    /\ section' \in {section, publisher[p].tools}
    /\ UNCHANGED <<document, entry, editor, asker>>

-----------------------------------------------------------------------------
(* create_tool_decision.                                                   *)

\* The call, and find_tool.
ReadTool(k) ==
    /\ asker[k].at = "new"
    /\ \E t \in Tools, f \in Fingerprints, risk \in Risks :
           asker' = [asker EXCEPT ![k] =
               [at |-> "registration", tool |-> t, fingerprint |-> f, risk |-> risk, row |-> entry[t]]]
    /\ UNCHANGED <<document, entry, section, editor, publisher>>

\* find_mcp_registration_by_fingerprint
Registered(f) == {m \in Registrations : entry[m] # Absent /\ entry[m].fingerprint = f}
ReadRegistration(k) ==
    LET found == Registered(asker[k].fingerprint)
    IN
    /\ asker[k].at = "registration"
    /\ \E m \in IF found = {} THEN {NoRegistration} ELSE found :
           asker' = [asker EXCEPT ![k] =
               With(asker[k], [at |-> "policy", id |-> m,
                               registration |-> IF found = {} THEN Absent ELSE entry[m]])]
    /\ UNCHANGED <<document, entry, section, editor, publisher>>

\* effective_policy: the document.
ReadDocument(k) ==
    /\ asker[k].at = "policy"
    /\ asker' = [asker EXCEPT ![k] = With(asker[k], [at |-> "section", document |-> document])]
    /\ UNCHANGED <<document, entry, section, editor, publisher>>

\* tool_catalog and evaluate: the tool is the one that the device has, and may run.
ToolFits(row, call) ==
    row # Absent /\ row.state = "active" /\ row.risk = call.risk /\ row.fingerprint = call.fingerprint

\* The registration behind a tool that is not built in.
Reviewed(row, tool) == row # Absent /\ row.state = "approved" /\ row.source = tool.source

\* evaluate with the layer that it is given.
Passes(call, layer) ==
    /\ Allows(layer, call.tool)
    /\ ToolFits(call.row, call)
    /\ call.row.source # "built_in" => call.id \in layer.mcp /\ Reviewed(call.registration, call.row)

\* The snapshot, whose failing read is ignored, and the evaluation.  The agent,
\* the device's capabilities, and the rules for browser and computer may deny
\* or ask for more.
EvaluateCall(k) ==
    LET call == asker[k]
        Verdicts(s) ==
            IF call.document = Absent THEN {Denied}
            ELSE LET layer == Narrowed(call.document.content, s)
                 IN  IF ~Passes(call, layer) THEN {Denied}
                     ELSE {v \in Modes \cup {Denied} :
                               v >= Larger(call.risk, ApprovalFor(layer, call.tool))}
    IN
    /\ call.at = "section"
    /\ \E s \in {section, NoSection} : \E v \in Verdicts(s) :
           asker' = [asker EXCEPT ![k] = [at |-> "over", tool |-> call.tool, fingerprint |-> call.fingerprint,
                                          risk |-> call.risk, verdict |-> v]]
    /\ UNCHANGED <<document, entry, section, editor, publisher>>

-----------------------------------------------------------------------------
Gates == {"policy", "tool", "registration", "list"}

\* The gates that stand open for a call; a tool that is built in has no
\* registration, and the list names the registration that was found.
OpenTo(call) ==
    LET row == entry[call.tool]
        builtIn == row # Absent /\ row.source = "built_in"
        reviewed == \E m \in Registered(call.fingerprint) : Reviewed(entry[m], row)
        listed == "id" \in DOMAIN call /\ document # Absent /\ call.id \in document.content.mcp
        Open(g) ==
            CASE g = "policy" -> document # Absent /\ Allows(document.content, call.tool)
              [] g = "tool" -> ToolFits(row, call)
              [] g = "registration" -> builtIn \/ (row # Absent /\ reviewed)
              [] g = "list" -> builtIn \/ listed
    IN  {g \in Gates : Open(g)}

Watch == opened' = [k \in Askers |-> IF asker'[k].at = "new" \/ asker[k].at = "over" THEN opened[k]
                                     ELSE opened[k] \cup OpenTo(asker[k])']

Step ==
    \/ \E a \in Editors :
           \/ ReadPolicy(a) \/ WritePolicy(a) \/ WriteEntry(a)
           \/ \E x \in Entries : Create(a, x) \/ ReadEntry(a, x)
    \/ \E p \in Publishers : CompileSection(p) \/ PublishSection(p)
    \/ \E k \in Askers : ReadTool(k) \/ ReadRegistration(k) \/ ReadDocument(k) \/ EvaluateCall(k)

PolicyNext == Step /\ Watch

PolicySpec == PolicyInit /\ [][PolicyNext]_policyVars

-----------------------------------------------------------------------------
PolicyTypeOK ==
    /\ document = Absent \/ document.content \in Documents
    /\ \A x \in Entries : entry[x] = Absent \/ entry[x].state \in States(x)
    /\ section.posture \in {"allow", "deny"} /\ section.tools \subseteq Tools
    /\ \A a \in Editors : editor[a].at \in {"new", "write", "over"}
    /\ \A p \in Publishers : publisher[p].at \in {"new", "publish", "over"}
    /\ \A k \in Askers : asker[k].at \in {"new", "registration", "policy", "section", "over"}

\* A call that may go on has found every gate open at some time since it
\* arrived, and asks for no less than the risk of the tool that it names.
DecisionsWereOpen ==
    \A k \in Askers : asker[k].at = "over" /\ asker[k].verdict # Denied =>
        opened[k] = Gates /\ asker[k].verdict >= asker[k].risk

\* The edit gives a registration another fingerprint.
Reprinted(x) ==
    x \in Registrations /\ entry[x] # Absent /\ entry'[x].fingerprint # entry[x].fingerprint

\* An edit changes what it names and keeps the rest of the row as it stands:
\* the review that another edit withdraws meanwhile is not brought back.  A
\* registration with a new fingerprint may or may not go back to review.
EditsKeepTheRest ==
    /\ document' # document => document'.version = document.version + 1
    /\ \A a \in Editors, x \in Entries :
           LET edited == Edited(entry[x], editor[a].fields)
           IN  editor[a].at = "write" /\ editor'[a].at = "over" /\ entry'[x] # entry[x] =>
                   /\ x = editor[a].target
                   /\ \/ entry'[x] = edited
                      \/ Reprinted(x) /\ entry'[x] = [edited EXCEPT !.state = "withheld"]

\* Decisions and edits interleave row by row, and still a call that may go on
\* was allowed by the policy, the tool's row, the registration and its review
\* (specs/f13: hosts enforce the current policy), and no edit undoes another.
\* This does not say that a new fingerprint goes back to review, which specs/f13
\* and gates/P05-CG ask for: update_mcp keeps policy_status unless the request
\* names another.
PolicyStands == [][DecisionsWereOpen' /\ EditsKeepTheRest]_policyVars
=============================================================================
