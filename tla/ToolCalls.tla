------------------------------ MODULE ToolCalls ------------------------------
(***************************************************************************)
(* The tool calls of one run and their approvals: decisions that a device  *)
(* asks for, resolutions by users, results that the device reports         *)
(* (apps/api/src/routes/tools.rs, routes/approvals.rs).                    *)
(*                                                                         *)
(* A decision evaluates the policy, then looks up the call and its         *)
(* approval, then reads the next event sequence, then sends one batch; the *)
(* batch asserts nothing that was read, and only the unique keys of        *)
(* tool_call_refs, approval_requests and run_events can abort it.          *)
(***************************************************************************)
EXTENDS Naturals, FiniteSets, Records

CONSTANTS
    ToolCallIds,
    Deciders,     \* invocations of create_tool_decision, one request each
    Resolvers,    \* invocations of resolve_approval, one request each
    Reporters,    \* invocations of record_tool_result, one request each
    Policies,     \* what the effective policy may say of the tool
    ApprovalTTL,  \* APPROVAL_TTL_SECONDS
    LastMoment,   \* bound: clock values 0..LastMoment
    MaxEdits      \* bound: policy edits

ASSUME ToolConstants ==
    /\ Policies \subseteq {"allow", "session", "per_use", "deny"}
    /\ ApprovalTTL \in Nat /\ LastMoment \in Nat

VARIABLES
    moment,       \* server time
    policy,       \* [verdict, edits] of the effective policy
    open,         \* the run is not terminal
    events,       \* number of run_events of the run
    tool,         \* tool[c]: status of the tool_call_refs row, or "absent"
    approval,     \* approval[c]: the approval_requests row, or NoApproval
    decider, resolver, reporter,
    answers,      \* history: what deciders were told
    granted       \* history: the approvals that users have given

toolVars == <<moment, policy, open, events, tool, approval, decider, resolver, reporter, answers,
              granted>>

NoApproval == [status |-> "absent"]
New  == [phase |-> "new"]
Over == [phase |-> "over"]

ToolInit ==
    /\ moment = 0
    /\ \E v \in Policies : policy = [verdict |-> v, edits |-> 0]
    /\ open = TRUE
    /\ events = 1
    /\ tool = [c \in ToolCallIds |-> "absent"]
    /\ approval = [c \in ToolCallIds |-> NoApproval]
    /\ decider = [d \in Deciders |-> New]
    /\ resolver = [a \in Resolvers |-> New]
    /\ reporter = [p \in Reporters |-> New]
    /\ answers = {}
    /\ granted = {}

\* An approval that is approved and whose window is open at t.
Grants(row, t) == row.status = "approved" /\ row.expires > t

-----------------------------------------------------------------------------
\* create_tool_decision up to the evaluation: the run can ask, and the policy
\* is what it is now.
Evaluate(d, c) ==
    /\ decider[d].phase = "new"
    /\ open
    /\ decider' = [decider EXCEPT ![d] =
           [phase |-> "lookup", call |-> c, at |-> moment, verdict |-> policy.verdict]]
    /\ UNCHANGED <<moment, policy, open, events, tool, approval, resolver, reporter, answers, granted>>

\* Variant for the sensitivity runs: any approval of the run is reused.
ReusableLoosely(d, c) == {x \in ToolCallIds \ {c} : approval[x].status # "absent"}
\* find_reusable_session_approval.
Reusable(d, c) ==
    {x \in ToolCallIds : /\ Grants(approval[x], decider[d].at)
                         /\ approval[x].mode = "session"}

\* resolve_decision: what the batch will write and answer, or, for a pending
\* or a granted approval, the answer at once.  Reuse writes an approved row of
\* its own for the call, with the window of the row that it reuses.
Resolved(d, c) ==
    LET seen == approval[c]
        verdict == decider[d].verdict
        Answer(answer, row) == [answer |-> answer, row |-> row]
        Requested(mode) == [status |-> "pending", mode |-> mode, version |-> 1, used |-> FALSE,
                            expires |-> decider[d].at + ApprovalTTL]
        Inherited(end) == [status |-> "approved", mode |-> "session", version |-> 1, used |-> FALSE,
                           expires |-> end]
    IN  IF verdict = "deny" THEN {Answer("deny", NoApproval)}
        ELSE IF seen.status # "absent"
        THEN IF seen.status = "pending" THEN {Answer("replay_wait", NoApproval)}
             ELSE IF Grants(seen, decider[d].at) THEN {Answer("replay_allow", NoApproval)}
             ELSE {Answer("deny", NoApproval)}
        ELSE IF verdict = "allow" THEN {Answer("allow", NoApproval)}
        ELSE IF verdict = "session" /\ Reusable(d, c) # {}
        THEN {Answer("allow", Inherited(approval[x].expires)) : x \in Reusable(d, c)}
        ELSE {Answer("wait", Requested(verdict))}

LookUpApproval(d) ==
    LET c == decider[d].call IN
    /\ decider[d].phase = "lookup"
    /\ \E r \in Resolved(d, c) :
           IF r.answer \in {"replay_wait", "replay_allow"}
           THEN /\ decider' = [decider EXCEPT ![d] = Over]
                /\ answers' = answers \cup
                       {[call |-> c, at |-> decider[d].at, verdict |-> decider[d].verdict,
                         allow |-> r.answer = "replay_allow"]}
           ELSE /\ decider' = [decider EXCEPT ![d] =
                       With(decider[d], [phase |-> "sequence", known |-> tool[c] # "absent",
                                         answer |-> r.answer, row |-> r.row])]
                /\ UNCHANGED answers
    /\ UNCHANGED <<moment, policy, open, events, tool, approval, resolver, reporter, granted>>

ReadEvents(d) ==
    /\ decider[d].phase = "sequence"
    /\ decider' = [decider EXCEPT ![d] = With(decider[d], [phase |-> "write", seq |-> events + 1])]
    /\ UNCHANGED <<moment, policy, open, events, tool, approval, resolver, reporter, answers, granted>>

\* UPDATE_TOOL_CALL_STATUS_SQL.
Updated(status, next) == IF status \in {"requested", "allowed"} THEN next ELSE status

\* call_writes.  A new row is 'requested' whatever was decided; an existing one
\* is not touched by a request for approval.
CallAfter(d, status) ==
    IF ~decider[d].known THEN "requested"
    ELSE IF decider[d].answer = "allow" THEN Updated(status, "allowed")
    ELSE IF decider[d].answer = "deny" THEN Updated(status, "denied")
    ELSE status

\* The primary key of tool_call_refs and the two unique indexes.
Insertable(d) ==
    LET c == decider[d].call IN
    /\ ~decider[d].known => tool[c] = "absent"
    /\ decider[d].row # NoApproval => approval[c] = NoApproval
    /\ decider[d].seq = events + 1

\* persist_decision.
Decide(d) ==
    LET c == decider[d].call IN
    /\ decider[d].phase = "write"
    /\ IF Insertable(d)
       THEN /\ tool' = [tool EXCEPT ![c] = CallAfter(d, @)]
            /\ approval' = IF decider[d].row = NoApproval THEN approval
                           ELSE [approval EXCEPT ![c] = decider[d].row]
            /\ events' = events + 1
            /\ answers' = answers \cup
                   {[call |-> c, at |-> decider[d].at, verdict |-> decider[d].verdict,
                     allow |-> decider[d].answer = "allow"]}
       ELSE UNCHANGED <<tool, approval, events, answers>>
    /\ decider' = [decider EXCEPT ![d] = Over]
    /\ UNCHANGED <<moment, policy, open, resolver, reporter, granted>>

-----------------------------------------------------------------------------
\* resolve_approval: a pending approval is answered, or expired when its
\* window is closed at the time the request arrived.
ResolveBegin(a, c, decision) ==
    /\ resolver[a].phase = "new"
    /\ approval[c].status = "pending"
    /\ resolver' = [resolver EXCEPT ![a] =
           [phase |-> "sequence", call |-> c, at |-> moment, version |-> approval[c].version,
            status |-> IF approval[c].expires > moment THEN decision ELSE "expired"]]
    /\ UNCHANGED <<moment, policy, open, events, tool, approval, decider, reporter, answers, granted>>

ResolveSequence(a) ==
    /\ resolver[a].phase = "sequence"
    /\ resolver' = [resolver EXCEPT ![a] = With(resolver[a], [phase |-> "write", seq |-> events + 1])]
    /\ UNCHANGED <<moment, policy, open, events, tool, approval, decider, reporter, answers, granted>>

\* Variant for the sensitivity runs: only the version of the row's arguments.
PendingUnchecked(a) == TRUE
\* assert_pending_statement, assert_pending_version_statement: status and
\* version; the window was tested against the same `at`.
Pending(a) ==
    LET row == approval[resolver[a].call]
    IN  row.status = "pending" /\ row.version = resolver[a].version

Given(a) ==
    LET c == resolver[a].call
    IN  [call |-> c, mode |-> approval[c].mode, at |-> resolver[a].at, expires |-> approval[c].expires]

ResolveWrite(a) ==
    LET c == resolver[a].call IN
    /\ resolver[a].phase = "write"
    /\ IF Pending(a) /\ resolver[a].seq = events + 1
       THEN /\ approval' = [approval EXCEPT ![c].status = resolver[a].status,
                                            ![c].version = approval[c].version + 1]
            /\ events' = events + 1
            /\ granted' = IF resolver[a].status = "approved" THEN granted \cup {Given(a)} ELSE granted
       ELSE UNCHANGED <<approval, events, granted>>
    /\ resolver' = [resolver EXCEPT ![a] = Over]
    /\ UNCHANGED <<moment, policy, open, tool, decider, reporter, answers>>

-----------------------------------------------------------------------------
\* record_tool_result: an approval that was asked for must have been approved.
\* Neither the run's state nor the call's decision is looked at.
ReportBegin(p, c, status) ==
    /\ reporter[p].phase = "new"
    /\ tool[c] \notin {"absent", "denied", "failed", "cancelled", status}
    /\ approval[c].status \in {"absent", "approved"}
    /\ reporter' = [reporter EXCEPT ![p] =
           [phase |-> "write", call |-> c, at |-> moment, status |-> status,
            consume |-> approval[c].status = "approved" /\ approval[c].mode = "per_use"]]
    /\ UNCHANGED <<moment, policy, open, events, tool, approval, decider, resolver, answers, granted>>

\* consume_approval_statement is an UPDATE that may match no row.
Consumable(p) ==
    LET row == approval[reporter[p].call]
    IN  reporter[p].consume /\ Grants(row, reporter[p].at) /\ ~row.used

ReportWrite(p) ==
    LET c == reporter[p].call IN
    /\ reporter[p].phase = "write"
    /\ approval' = IF Consumable(p)
                   THEN [approval EXCEPT ![c].used = TRUE, ![c].version = approval[c].version + 1]
                   ELSE approval
    /\ tool' = [tool EXCEPT ![c] = Updated(@, reporter[p].status)]
    /\ reporter' = [reporter EXCEPT ![p] = Over]
    /\ UNCHANGED <<moment, policy, open, events, decider, resolver, answers, granted>>

-----------------------------------------------------------------------------
EditPolicy(v) ==
    /\ policy.edits < MaxEdits /\ v # policy.verdict
    /\ policy' = [verdict |-> v, edits |-> policy.edits + 1]
    /\ UNCHANGED <<moment, open, events, tool, approval, decider, resolver, reporter, answers, granted>>

\* The run ends, with an event (Runs).
EndRun ==
    /\ open
    /\ open' = FALSE /\ events' = events + 1
    /\ UNCHANGED <<moment, policy, tool, approval, decider, resolver, reporter, answers, granted>>

Elapse ==
    /\ moment < LastMoment
    /\ moment' = moment + 1
    /\ UNCHANGED <<policy, open, events, tool, approval, decider, resolver, reporter, answers, granted>>

ToolNext ==
    \/ \E d \in Deciders :
           (\E c \in ToolCallIds : Evaluate(d, c)) \/ LookUpApproval(d) \/ ReadEvents(d) \/ Decide(d)
    \/ \E a \in Resolvers :
           \/ \E c \in ToolCallIds, decision \in {"approved", "denied"} :
                  ResolveBegin(a, c, decision)
           \/ ResolveSequence(a) \/ ResolveWrite(a)
    \/ \E p \in Reporters :
           \/ \E c \in ToolCallIds, status \in {"completed", "failed"} :
                  ReportBegin(p, c, status)
           \/ ReportWrite(p)
    \/ \E v \in Policies : EditPolicy(v)
    \/ EndRun \/ Elapse

ToolSpec == ToolInit /\ [][ToolNext]_toolVars

-----------------------------------------------------------------------------
ToolTypeOK ==
    /\ moment \in 0..LastMoment /\ policy.verdict \in Policies /\ open \in BOOLEAN
    /\ \A c \in ToolCallIds :
           /\ tool[c] \in {"absent", "requested", "allowed", "denied", "completed", "failed"}
           /\ approval[c] \in {NoApproval} \cup
                  [status : {"pending", "approved", "denied", "expired"},
                   mode : {"session", "per_use"}, version : 1..3, used : BOOLEAN,
                   expires : Nat]
           /\ approval[c] # NoApproval => tool[c] # "absent"
    /\ granted \subseteq
           [call : ToolCallIds, mode : {"session", "per_use"}, at : Nat, expires : Nat]

\* No device is told to go ahead with a gated call unless a user has approved
\* it before, or has approved another call of the run for the whole session, in
\* time and for a window that was open when the device asked.  A row that a
\* decision has inserted as approved counts for nothing here, however long the
\* chain of calls that reuse one another.
AllowIsEarned ==
    \A r \in answers : r.allow /\ r.verdict # "allow" =>
        \E g \in granted :
            /\ g.at < g.expires /\ r.at < g.expires
            /\ g.call = r.call \/ g.mode = "session"

\* A recorded resolution is final: whoever resolves or expires an approval
\* second changes nothing.
ResolutionIsFinal ==
    [][\A c \in ToolCallIds :
           approval[c].status \notin {"absent", "pending"} =>
               approval'[c].status = approval[c].status]_toolVars
=============================================================================
