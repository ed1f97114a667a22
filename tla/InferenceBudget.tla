-------------------------- MODULE InferenceBudget --------------------------
(***************************************************************************)
(* One organization's inference gateway and the hard budgets it spends     *)
(* against (apps/api/src/routes/inference.rs, repositories/budgets.rs,     *)
(* repositories/ai.rs).                                                    *)
(*                                                                         *)
(* Every inference call is served by a worker invocation of its own.  A    *)
(* worker reads the rate counters, reads the budgets, and only then writes *)
(* the request row together with a conditional reservation; the workers    *)
(* interleave between any two database batches, and each batch is atomic   *)
(* (adapters/d1/mod.rs).  What a call costs is reserved before dispatch    *)
(* and turned into a usage event, or released, by one finalization batch.  *)
(*                                                                         *)
(* Amounts are sets of minor units: the SQL SUM over a set S of requests   *)
(* is the number of pairs <<r, k>> with r in S and k in 1..Cost[r].        *)
(***************************************************************************)
EXTENDS Naturals, FiniteSets

CONSTANTS
    Requests,        \* inference calls, named by their request_id
    Managed,         \* the calls that carry a run_id (the P05 path)
    Streamed,        \* the calls that asked for a streaming response
    HostSettled,     \* the calls whose host uses the accounting endpoints
    Cost,            \* Cost[r]: reservation_minor, the bounded token estimate
    MaxCost,         \* MAX_RESERVATION_MINOR
    Budgets,         \* budget rows of the organization, one period
    OrgBudgets,      \* those whose scope_type is 'organization'
    Scope,           \* Scope[b]: the calls inside b's scope
    InitLimit,       \* InitLimit[b]: limit_minor when the budget is created
    PatchLimits,     \* limits an administrator may set with PATCH
    NoBudget,        \* budget_id IS NULL
    MaxConcurrent,   \* max_concurrent_requests of the organization policy
    Candidates,      \* route candidates a call may try
    TTL,             \* life of a reservation (P05_RESERVATION_TTL_SECONDS)
    LastArrival,     \* bound: calls arrive at clock values 0..LastArrival
    MaxFaults        \* bound: lost invocations and failed batches

ASSUME ParametersOK ==
    /\ IsFiniteSet(Requests)
    /\ Managed \subseteq Requests
    /\ Streamed \subseteq Requests
    /\ HostSettled \subseteq Managed
    /\ MaxCost \in Nat
    /\ Cost \in [Requests -> 1 .. MaxCost]
    /\ OrgBudgets \subseteq Budgets
    /\ Scope \in [Budgets -> SUBSET Requests]
    /\ \A b \in OrgBudgets : Scope[b] = Requests
    /\ InitLimit \in [Budgets -> Nat]
    /\ PatchLimits \subseteq Nat
    /\ NoBudget \notin Budgets
    /\ MaxConcurrent \in Nat
    /\ Candidates \in Nat \ {0}
    /\ TTL \in Nat \ {0}
    /\ LastArrival \in Nat
    /\ MaxFaults \in Nat

VARIABLES
    clock,     \* server time, in steps of at most one TTL
    limit,     \* budgets.limit_minor
    hard,      \* budgets.hard
    row,       \* inference_requests.response_state, "absent" before the insert
    hold,      \* budget_reservations.status, "absent" before the insert
    heldFor,   \* budget_reservations.budget_id
    expires,   \* budget_reservations.expires_at
    used,      \* the calls that have a usage event
    worker,    \* where the invocation that serves the call stands
    arrived,   \* context.received_at of that invocation
    bound,     \* the budget_id its budget read chose
    tries,     \* candidates left to it
    flag,      \* the Cell `finalized` shared by a stream's finalizers
    pending,   \* the finalization batch a stream has sent
    faults     \* lost invocations and failed batches so far

vars == <<clock, limit, hard, row, hold, heldFor, expires, used, worker,
          arrived, bound, tries, flag, pending, faults>>

budgetVars == <<limit, hard>>
holdVars   == <<hold, heldFor, expires>>
localVars  == <<arrived, bound, tries, flag, pending>>

ActiveStates   == {"not_dispatched", "dispatched_no_output", "stream_committed"}
TerminalStates == {"completed", "failed"}
Phases == {"new", "rate", "budget", "admit", "denied", "unwind", "attempt",
           "await", "failing", "collect", "stream", "drain", "gone"}

(***************************************************************************)
(* The sums the SQL computes.                                              *)
(***************************************************************************)
Units(S) == {u \in S \X (1 .. MaxCost) : u[2] <= Cost[u[1]]}
Minor(S) == Cardinality(Units(S))

\* A managed success records its reserved amount as estimated cost; an
\* unmanaged one records zero (finalize_request).
Charged == used \cap Managed

\* Reservations that still hold money for an observer whose clock reads now.
\* Variant for the sensitivity runs: expires_at is not compared.
LiveForever(now) == {r \in Requests : hold[r] = "reserved"}
LiveAt(now) == {r \in Requests : hold[r] = "reserved" /\ now < expires[r]}

\* An organization budget counts every hold, a narrower budget only the
\* holds that name it.
HeldAgainst(b, now) ==
    IF b \in OrgBudgets THEN LiveAt(now)
                        ELSE {r \in LiveAt(now) : heldFor[r] = b}

Committed(b, now) == Minor(Charged \cap Scope[b]) + Minor(HeldAgainst(b, now))

Fits(b, now, amount) == hard[b] => Committed(b, now) + amount <= limit[b]

\* Variant for the sensitivity runs: committed usage alone is compared.
SpendGate(r, b, now) == \A c \in OrgBudgets : hard[c] => Minor(Charged) + Cost[r] <= limit[c]

\* The conditional insert of a managed call.
ScopedGate(r, b, now) == \A c \in OrgBudgets \cup ({b} \ {NoBudget}) : Fits(c, now, Cost[r])

\* The conditional insert of an unmanaged call holds every hard budget,
\* whatever its scope, against the spend of the whole organization.
OrgTotal(now) == Minor(Charged) + Minor(LiveAt(now))
OrgGate(r, now) == \A c \in Budgets : hard[c] => OrgTotal(now) + Cost[r] <= limit[c]

Gate(r) == IF r \in Managed THEN ScopedGate(r, bound[r], arrived[r])
                            ELSE OrgGate(r, arrived[r])

\* The hard budgets that apply to a call and leave it the least room.
Applicable(r) == {b \in Budgets : hard[b] /\ r \in Scope[b]}
MostRestrictive(r) ==
    LET now == arrived[r]
    IN  IF Applicable(r) = {} THEN {NoBudget}
        ELSE {b \in Applicable(r) : \A c \in Applicable(r) :
                  limit[b] + Committed(c, now) <= limit[c] + Committed(b, now)}

-----------------------------------------------------------------------------
Init ==
    /\ clock = 0
    /\ limit = InitLimit
    /\ hard = [b \in Budgets |-> TRUE]
    /\ row = [r \in Requests |-> "absent"]
    /\ hold = [r \in Requests |-> "absent"]
    /\ heldFor = [r \in Requests |-> NoBudget]
    /\ expires = [r \in Requests |-> 0]
    /\ used = {}
    /\ worker = [r \in Requests |-> "new"]
    /\ arrived = [r \in Requests |-> 0]
    /\ bound = [r \in Requests |-> NoBudget]
    /\ tries = [r \in Requests |-> Candidates]
    /\ flag = [r \in Requests |-> FALSE]
    /\ pending = [r \in Requests |-> "none"]
    /\ faults = 0

Goto(r, phase) == worker' = [worker EXCEPT ![r] = phase]
NoFault == UNCHANGED faults
Fault   == faults < MaxFaults /\ faults' = faults + 1

(***************************************************************************)
(* Admission: three reads, then one conditional write.                     *)
(***************************************************************************)
Arrive(r) ==
    /\ worker[r] = "new"
    /\ clock <= LastArrival
    /\ arrived' = [arrived EXCEPT ![r] = clock]
    /\ Goto(r, IF r \in Managed THEN "rate" ELSE "budget")
    /\ UNCHANGED <<clock, budgetVars, row, holdVars, used, bound, tries, flag, pending, faults>>

\* p05_rate_admission: the concurrency count is a read of its own.
RateAdmission(r) ==
    /\ worker[r] = "rate"
    /\ Goto(r, IF Cardinality({q \in Requests : row[q] \in ActiveStates}) + 1 > MaxConcurrent
               THEN "gone" ELSE "budget")
    /\ UNCHANGED <<clock, budgetVars, row, holdVars, used, localVars, faults>>

\* p05_budget_admission: deny on a budget without room, else pick the one
\* the reservation will name.
ScopedBudgetAdmission(r) ==
    /\ worker[r] = "budget" /\ r \in Managed
    /\ IF \E b \in Applicable(r) : ~Fits(b, arrived[r], Cost[r])
       THEN Goto(r, "gone") /\ UNCHANGED bound
       ELSE /\ Goto(r, "admit")
            /\ \E b \in MostRestrictive(r) : bound' = [bound EXCEPT ![r] = b]
    /\ UNCHANGED <<clock, budgetVars, row, holdVars, used, arrived, tries, flag, pending, faults>>

\* The unmanaged path only asks hard_budget_remaining.
OrgBudgetAdmission(r) ==
    /\ worker[r] = "budget" /\ r \notin Managed
    /\ Goto(r, IF OrgGate(r, arrived[r]) THEN "admit" ELSE "gone")
    /\ UNCHANGED <<clock, budgetVars, row, holdVars, used, localVars, faults>>

\* Request row and conditional reservation, in one batch.
InsertRequest(r) == row' = [row EXCEPT ![r] = "not_dispatched"]

Granted(r) ==
    /\ worker[r] = "admit" /\ Gate(r)
    /\ InsertRequest(r)
    /\ hold' = [hold EXCEPT ![r] = "reserved"]
    /\ heldFor' = [heldFor EXCEPT ![r] = bound[r]]
    /\ expires' = [expires EXCEPT ![r] = arrived[r] + TTL]
    /\ \/ Goto(r, "attempt") /\ NoFault
       \* the run carries another policy snapshot
       \/ r \in Managed /\ Goto(r, "unwind") /\ NoFault
       \* the event batch that follows fails
       \/ Goto(r, "unwind") /\ Fault
    /\ UNCHANGED <<clock, budgetVars, used, localVars>>

Refused(r) ==
    /\ worker[r] = "admit" /\ ~Gate(r)
    /\ InsertRequest(r)
    /\ Goto(r, "denied")
    /\ UNCHANGED <<clock, budgetVars, holdVars, used, localVars, faults>>

\* The insert batch itself fails and is rolled back.
AdmissionLost(r) ==
    /\ worker[r] = "admit"
    /\ Fault
    /\ Goto(r, "gone")
    /\ UNCHANGED <<clock, budgetVars, row, holdVars, used, localVars>>

\* The row of a refused call is closed on a best-effort basis.
Denied(r) ==
    /\ worker[r] = "denied"
    /\ Goto(r, "gone")
    /\ \/ row' = [row EXCEPT ![r] = "failed"] /\ NoFault
       \/ UNCHANGED row /\ Fault
    /\ UNCHANGED <<clock, budgetVars, holdVars, used, localVars>>

(***************************************************************************)
(* Finalization.  finalize_request writes the row without looking at its   *)
(* state, moves the reservation only out of 'reserved', and on success     *)
(* adds the usage event, whose request_id is unique: a second success      *)
(* would abort the whole batch.                                            *)
(***************************************************************************)
\* Variant for the sensitivity runs: without WHERE status = 'reserved'.
ReleaseAlways(r, status) == hold' = [hold EXCEPT ![r] = status]
Release(r, status) == hold' = [hold EXCEPT ![r] = IF @ = "reserved" THEN status ELSE @]

Settle(r, ok) ==
    /\ ok => r \notin used
    /\ row' = [row EXCEPT ![r] = IF ok THEN "completed" ELSE "failed"]
    /\ Release(r, IF ok THEN "committed" ELSE "released")
    /\ used' = IF ok THEN used \cup {r} ELSE used
    /\ UNCHANGED <<heldFor, expires>>

\* The cleanup batch after a mismatch or a lost event.
Unwind(r) ==
    /\ worker[r] = "unwind"
    /\ Goto(r, "gone")
    /\ \/ Settle(r, FALSE) /\ NoFault
       \/ UNCHANGED <<row, holdVars, used>> /\ Fault
    /\ UNCHANGED <<clock, budgetVars, localVars>>

(***************************************************************************)
(* The candidate loop of run_inference.                                    *)
(***************************************************************************)
\* Variant for the sensitivity runs: the list of candidates has no end.
NextCandidateAlways(r) ==
    \/ tries' = [tries EXCEPT ![r] = @ - 1] /\ Goto(r, "attempt")
    \/ Goto(r, "failing") /\ UNCHANGED tries

\* The next candidate, or the end of the loop: the error is not retryable,
\* the caller went away, or no candidate is left.
NextCandidate(r) ==
    \/ /\ tries[r] > 1
       /\ tries' = [tries EXCEPT ![r] = @ - 1]
       /\ Goto(r, "attempt")
    \/ Goto(r, "failing") /\ UNCHANGED tries

\* One candidate: no credential, no provider or a failed dispatch moves on;
\* a dispatch is recorded, and a failed record leaves run_inference by `?`.
Attempt(r) ==
    /\ worker[r] = "attempt"
    /\ \/ NextCandidate(r) /\ UNCHANGED row /\ NoFault
       \/ /\ row' = [row EXCEPT ![r] = "dispatched_no_output"]
          /\ Goto(r, "await")
          /\ UNCHANGED tries /\ NoFault
       \/ Goto(r, "gone") /\ UNCHANGED <<row, tries>> /\ Fault
    /\ UNCHANGED <<clock, budgetVars, holdVars, used, arrived, bound, flag, pending>>

\* The first output of a dispatched candidate, or none; a caller that went
\* away is noticed before and after the response is committed.
Await(r) ==
    /\ worker[r] = "await"
    /\ \/ NextCandidate(r) /\ UNCHANGED row /\ NoFault
       \/ /\ row' = [row EXCEPT ![r] = "stream_committed"]
          /\ \/ Goto(r, IF r \in Streamed THEN "stream" ELSE "collect")
             \/ Goto(r, "failing")
          /\ UNCHANGED tries /\ NoFault
       \/ Goto(r, "gone") /\ UNCHANGED <<row, tries>> /\ Fault
    /\ UNCHANGED <<clock, budgetVars, holdVars, used, arrived, bound, flag, pending>>

\* `let _ = finalize_request(.., false, ..)`: one attempt, its error dropped.
Failing(r) ==
    /\ worker[r] = "failing"
    /\ Goto(r, "gone")
    /\ \/ Settle(r, FALSE) /\ NoFault
       \/ UNCHANGED <<row, holdVars, used>> /\ Fault
    /\ UNCHANGED <<clock, budgetVars, localVars>>

\* collect_non_streaming: one finalization, of either outcome.
Collect(r) ==
    /\ worker[r] = "collect"
    /\ Goto(r, "gone")
    /\ \/ \E ok \in BOOLEAN : Settle(r, ok) /\ NoFault
       \/ UNCHANGED <<row, holdVars, used>> /\ Fault
    /\ UNCHANGED <<clock, budgetVars, localVars>>

(***************************************************************************)
(* A streaming response has three finalizers that share one flag: the      *)
(* reader, the abort callback and the guard dropped with the stream.       *)
(***************************************************************************)
\* Whoever sets the flag sends the batch in the same poll.
Claim(r, sender) ==
    /\ flag' = [flag EXCEPT ![r] = TRUE]
    /\ pending' = [pending EXCEPT ![r] = sender]

\* Variant for the sensitivity runs: the reader does not look at the flag.
ReaderEndBlind(r, ok) ==
    /\ worker[r] = "stream"
    /\ Goto(r, "drain")
    /\ Claim(r, IF ok THEN "reader_ok" ELSE "reader_fail")
    /\ UNCHANGED <<clock, budgetVars, row, holdVars, used, arrived, bound, tries, faults>>

\* The reader comes to the end of the provider stream, or to an error.
ReaderEnd(r, ok) ==
    /\ worker[r] = "stream"
    /\ Goto(r, "drain")
    /\ IF flag[r] THEN UNCHANGED <<flag, pending>>
                  ELSE Claim(r, IF ok THEN "reader_ok" ELSE "reader_fail")
    /\ UNCHANGED <<clock, budgetVars, row, holdVars, used, arrived, bound, tries, faults>>

AbortCallback(r) ==
    /\ worker[r] \in {"stream", "drain"}
    /\ ~flag[r]
    /\ Claim(r, "callback")
    /\ UNCHANGED <<clock, budgetVars, row, holdVars, used, worker, arrived, bound, tries, faults>>

\* Variant for the sensitivity runs: a stream without its drop guard.
DropStreamUnguarded(r) ==
    /\ worker[r] \in {"stream", "drain"}
    /\ Goto(r, "gone")
    /\ UNCHANGED <<clock, budgetVars, row, holdVars, used, localVars, faults>>

\* The response body is dropped, and with it the reader and the guard.
DropStream(r) ==
    /\ worker[r] \in {"stream", "drain"}
    /\ Goto(r, "gone")
    /\ IF flag[r] THEN UNCHANGED <<flag, pending>> ELSE Claim(r, "callback")
    /\ UNCHANGED <<clock, budgetVars, row, holdVars, used, arrived, bound, tries, faults>>

\* The batch comes back.  An error may hide a batch that was committed; the
\* reader, if it is still there, answers an error by clearing the flag, the
\* spawned finalizers ignore it.
ClearFlag(r) ==
    IF pending[r] \in {"reader_ok", "reader_fail"} /\ worker[r] = "drain"
    THEN flag' = [flag EXCEPT ![r] = FALSE]
    ELSE UNCHANGED flag

PendingCommit(r) ==
    /\ pending[r] # "none"
    /\ pending' = [pending EXCEPT ![r] = "none"]
    /\ LET applied == Settle(r, pending[r] = "reader_ok")
           lost    == UNCHANGED <<row, holdVars, used>>
       IN  \/ applied /\ UNCHANGED flag /\ NoFault
           \/ applied /\ ClearFlag(r) /\ Fault
           \/ lost /\ ClearFlag(r) /\ Fault
    /\ UNCHANGED <<clock, budgetVars, worker, arrived, bound, tries>>

(***************************************************************************)
(* The environment: lost invocations, time, and the budget endpoints.      *)
(***************************************************************************)
InFlight(r) == worker[r] \notin {"new", "gone"} \/ pending[r] # "none"

Crash(r) ==
    /\ InFlight(r)
    /\ Fault
    /\ Goto(r, "gone")
    /\ pending' = [pending EXCEPT ![r] = "none"]
    /\ UNCHANGED <<clock, budgetVars, row, holdVars, used, arrived, bound, tries, flag>>

\* At most 16 candidates of at most 120 s each: an invocation that is still
\* alive has not outlived its own reservation.
Tick ==
    /\ clock < LastArrival + TTL
    /\ \A r \in Requests : InFlight(r) => clock + 1 < arrived[r] + TTL
    /\ clock' = clock + 1
    /\ UNCHANGED <<budgetVars, row, holdVars, used, worker, localVars, faults>>

PatchBudget(b, newLimit, newHard) ==
    /\ limit' = [limit EXCEPT ![b] = newLimit]
    /\ hard' = [hard EXCEPT ![b] = newHard]
    /\ UNCHANGED <<clock, row, holdVars, used, worker, localVars, faults>>

\* create_reservation: the host asks for a hold on a call that has a row and
\* no reservation, which is a call the gateway refused.
HostReserve(r, b) ==
    /\ r \in HostSettled \cap Scope[b]
    /\ clock <= LastArrival
    /\ row[r] # "absent" /\ hold[r] = "absent"
    /\ hard[b] /\ ScopedGate(r, b, clock)
    /\ hold' = [hold EXCEPT ![r] = "reserved"]
    /\ heldFor' = [heldFor EXCEPT ![r] = b]
    /\ \E life \in 1 .. TTL : expires' = [expires EXCEPT ![r] = clock + life]
    /\ UNCHANGED <<clock, budgetVars, row, used, worker, localVars, faults>>

\* reconcile_reservation: the host settles a hold that names a budget.
HostSettle(r, status) ==
    /\ r \in HostSettled
    /\ hold[r] = "reserved" /\ heldFor[r] # NoBudget
    /\ hold' = [hold EXCEPT ![r] = status]
    /\ UNCHANGED <<clock, budgetVars, row, heldFor, expires, used, worker, localVars, faults>>

-----------------------------------------------------------------------------
Admission(r) ==
    \/ Arrive(r) \/ RateAdmission(r) \/ ScopedBudgetAdmission(r) \/ OrgBudgetAdmission(r)
    \/ Granted(r) \/ Refused(r) \/ AdmissionLost(r) \/ Denied(r) \/ Unwind(r)

Serving(r) ==
    \/ Attempt(r) \/ Await(r) \/ Failing(r) \/ Collect(r)
    \/ \E ok \in BOOLEAN : ReaderEnd(r, ok)
    \/ AbortCallback(r) \/ DropStream(r) \/ PendingCommit(r)

Host(r) ==
    \/ \E b \in Budgets : HostReserve(r, b)
    \/ \E status \in {"committed", "released", "expired"} : HostSettle(r, status)

Environment ==
    \/ Tick
    \/ \E b \in Budgets, l \in PatchLimits, h \in BOOLEAN : PatchBudget(b, l, h)

Next ==
    \/ \E r \in Requests : Admission(r) \/ Serving(r) \/ Crash(r) \/ Host(r)
    \/ Environment

Spec == Init /\ [][Next]_vars

\* The runtime resumes an invocation whose database or provider call has
\* come back (provider calls have a deadline), delivers the answer of a
\* batch, drops a body that was read to its end, and time passes.
WorkerStep(r) ==
    \/ RateAdmission(r) \/ ScopedBudgetAdmission(r) \/ OrgBudgetAdmission(r)
    \/ Granted(r) \/ Refused(r) \/ Denied(r) \/ Unwind(r)
    \/ Attempt(r) \/ Await(r) \/ Failing(r) \/ Collect(r)
    \/ DropStream(r) \/ PendingCommit(r)

Fairness ==
    /\ \A r \in Requests : WF_vars(WorkerStep(r))
    /\ WF_vars(Tick)

FairSpec == Spec /\ Fairness

-----------------------------------------------------------------------------
(***************************************************************************)
(* Properties.                                                             *)
(***************************************************************************)
\* Every variable stays within the values its column or local can take.
TypeOK ==
    /\ clock \in Nat
    /\ limit \in [Budgets -> Nat]
    /\ hard \in [Budgets -> BOOLEAN]
    /\ row \in [Requests -> {"absent"} \cup ActiveStates \cup TerminalStates]
    /\ hold \in [Requests -> {"absent", "reserved", "committed", "released", "expired"}]
    /\ heldFor \in [Requests -> Budgets \cup {NoBudget}]
    /\ expires \in [Requests -> Nat]
    /\ used \subseteq Requests
    /\ worker \in [Requests -> Phases]
    /\ arrived \in [Requests -> Nat]
    /\ bound \in [Requests -> Budgets \cup {NoBudget}]
    /\ tries \in [Requests -> Nat]
    /\ flag \in [Requests -> BOOLEAN]
    /\ pending \in [Requests -> {"none", "reader_ok", "reader_fail", "callback"}]
    /\ faults \in Nat

\* Recorded spend of the organization together with the money still held.
Exposure == Minor(Charged \cup LiveAt(clock))

\* No step raises an organization's spend plus live reservations above a
\* hard organization budget (repositories/budgets.rs: a stale pre-request
\* read cannot let concurrent work exceed a hard limit).  An administrator
\* may lower a limit below what is spent; that step raises nothing.
HardLimitNeverCrossed ==
    [][\A b \in OrgBudgets :
          hard'[b] /\ Exposure' > Exposure => Exposure' <= limit'[b]]_vars

\* Where the money of a call is.  A hold whose time is over counts as given
\* back, whoever may still write its row; so does the hold of an unmanaged
\* success, whose usage event records nothing.
Position ==
    [r \in Requests |->
        IF r \in Charged THEN "spent"
        ELSE IF r \in LiveAt(clock) THEN "held"
        ELSE IF hold[r] = "absent" THEN "none" ELSE "returned"]

Ledger == INSTANCE BudgetLedger WITH position <- Position

\* The gateway keeps the ledger: no order of admissions, finalizers, lost
\* batches and lapses holds money that does not fit, spends money that is no
\* longer held, or charges or frees a call twice.
ImplementsLedger == Ledger!Spec

\* The request row, the reservation and the usage event tell one story,
\* whichever finalizer wrote last: a completed call has its usage event, a
\* usage event always comes with a committed hold and a closed row, and a
\* commit is never without its usage event.
Books(r) ==
    /\ row[r] = "completed" => r \in used
    /\ r \in used => hold[r] = "committed" /\ row[r] \in TerminalStates
    /\ hold[r] = "committed" => r \in used
    /\ row[r] = "failed" => hold[r] # "reserved"

BooksAgree == \A r \in Requests \ HostSettled : Books(r)

\* A call that was recorded as failed is never turned into a completed one,
\* and no closed row is opened again: the finalizers of a cancelled stream
\* cannot overtake each other, although the UPDATE has no state guard.
ClosedRowsStayClosed ==
    [][\A r \in Requests :
          /\ row[r] \in TerminalStates => row'[r] \in TerminalStates
          /\ row[r] = "failed" => row'[r] = "failed"]_vars

\* A reservation leaves 'reserved' once and for all, whether the gateway or
\* the host settles it (the budgets.rs comment on RECONCILE_RESERVATION_SQL).
SettledHoldsStaySettled ==
    [][\A r \in Requests :
          hold[r] \in {"committed", "released", "expired"} => hold'[r] = hold[r]]_vars

\* Whatever is lost, a hold stops counting against the budgets.
HoldsLapse == \A r \in Requests : (r \in LiveAt(clock)) ~> (r \notin LiveAt(clock))

\* If no batch and no invocation is ever lost, every admitted call closes.
CallsClose ==
    [](faults = 0) => \A r \in Requests : (row[r] \in ActiveStates) ~> (row[r] \in TerminalStates)

\* What the accounting documents promise, and the code does not keep:
\* recorded spend never passes any hard budget it falls under, of whatever
\* scope (repositories/budgets.rs:11, docs/specs/f12 acceptance criteria).
SpendWithinEveryLimit == \A b \in Budgets : hard[b] => Minor(Charged \cap Scope[b]) <= limit[b]

=============================================================================
