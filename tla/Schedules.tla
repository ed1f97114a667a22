------------------------------ MODULE Schedules ------------------------------
(***************************************************************************)
(* One automation definition: its schedule cursor, the requests that       *)
(* create and edit it (apps/api/src/routes/automations.rs) and the sweeps  *)
(* that turn due instants into occurrences (jobs/automations.rs).          *)
(*                                                                         *)
(* INSERT_AUTOMATION_SQL, the only statement that inserts a definition,    *)
(* names 34 columns and gives 33 values, so the database refuses the batch *)
(* of create_automation.  `repaired` says whether the value is supplied:   *)
(* where it is FALSE the code is as it stands and nothing ever comes to be *)
(* (NothingWithoutRepair); what the rest of the code does is seen where it *)
(* is TRUE.                                                                *)
(*                                                                         *)
(* A request carries the version its caller last saw and the instant it    *)
(* was received, reads the row, and later sends one batch that asserts the *)
(* version again.  A sweep lists the due definition and later sends one    *)
(* batch that asserts the cursor it read.  Between the two database calls  *)
(* anything may commit; a batch is atomic (adapters/d1/mod.rs).            *)
(***************************************************************************)
EXTENDS Naturals, FiniteSets

CONSTANTS
    Rules,        \* schedule revisions; an edit mints a new one
    Instants,     \* Instants[r]: the instants that rule r names
    Skipped,      \* Skipped[r]: those that daylight saving removes
    Keeps,        \* Keeps[r]: due slots a pass keeps (missed_policy, catch_up_limit)
    Requests,     \* administrator requests, each made at most once
    Sweepers,     \* invocations that run the generation sweep
    Never,        \* a timestamp column that is NULL
    LastTime,     \* bound: clock values 0..LastTime
    MaxLost       \* bound: sweeps that die between their two database calls

ASSUME ScheduleParameters ==
    /\ Instants \in [Rules -> SUBSET (Nat \ {0})]
    /\ DOMAIN Skipped = Rules
    /\ Keeps \in [Rules -> Nat]
    /\ Never \notin Nat
    /\ LastTime \in Nat
    /\ MaxLost \in Nat

VARIABLES
    repaired,   \* INSERT_AUTOMATION_SQL gives as many values as it names columns
    clock,      \* server time, in the seconds that the planner counts in
    orgActive,  \* organizations.state is 'active'
    def,        \* the automation_definitions row, if there is one
    slots,      \* scheduled occurrence rows, <<rule, instant>>
    skips,      \* those of them that were persisted as 'skipped'
    manual,     \* requests whose manual occurrence row exists
    request,    \* the invocation that serves each request
    sweep,      \* each sweeper's invocation
    lost,       \* sweeps lost so far
    restarted,  \* history: received_at of the last committed creation, edit
                \* of the schedule, or resume
    last,       \* history: the cursor, or the last one there was
    tie         \* history: an edit or a resume was received when the clock was
                \* at `last` still

past == <<restarted, last, tie>>
vars == <<repaired, clock, orgActive, def, slots, skips, manual, request, sweep, lost, past>>

Times    == 0..LastTime
Statuses == {"absent", "active", "paused", "deleted"}
Kinds    == {"patch", "reschedule", "pause", "resume", "delete", "run_now"}

Idle == [phase |-> "idle"]
Done == [phase |-> "done"]

-----------------------------------------------------------------------------
\* plan_next_run: the first instant strictly after t.
NextRun(r, t) ==
    LET later == {i \in Instants[r] \ Skipped[r] : i > t}
    IN  IF later = {} THEN Never ELSE CHOOSE i \in later : \A j \in later : i <= j

\* plan_due_occurrences over (from, to]: every skipped instant, and the
\* newest Keeps[r] of the due ones.
Window(r, from, to) == {i \in Instants[r] : from < i /\ i <= to}
Due(r, from, to)    == Window(r, from, to) \ Skipped[r]
Kept(r, from, to)   ==
    {i \in Due(r, from, to) : Cardinality({j \in Due(r, from, to) : j > i}) < Keeps[r]}
Planned(r, from, to) == Kept(r, from, to) \cup (Window(r, from, to) \cap Skipped[r])

-----------------------------------------------------------------------------
\* No definition yet; `rule` is the one that will be asked for.
Init ==
    /\ repaired \in BOOLEAN
    /\ clock = 0
    /\ orgActive = TRUE
    /\ \E r \in Rules :
           def = [status |-> "absent", rule |-> r, cursor |-> Never, next |-> Never, version |-> 0]
    /\ slots = {} /\ skips = {} /\ manual = {}
    /\ request = [q \in Requests |-> Idle]
    /\ sweep = [s \in Sweepers |-> Idle]
    /\ lost = 0
    /\ restarted = 0 /\ last = 0 /\ tie = FALSE

\* A restart of the cursor at the instant t.
Restart(t) == restarted' = t /\ last' = t /\ tie' = (tie \/ t <= last)

\* create_automation, received at t, when its organization was active.  It
\* reads nothing of this row, and its cursor starts at t.  Where the INSERT is
\* short of a value the batch fails and nothing is written.
Create(t) ==
    /\ repaired /\ def.status = "absent"
    /\ def' = [def EXCEPT !.status = "active", !.cursor = t, !.next = NextRun(def.rule, t),
                          !.version = 1]
    /\ restarted' = t /\ last' = t
    /\ UNCHANGED <<repaired, clock, orgActive, slots, skips, manual, request, sweep, lost, tie>>

Finish(q) == request' = [request EXCEPT ![q] = Done]
Finishing(q) == request[q].phase = "write"

\* require_automation and the status test of the handler, on the row it reads.
Acceptable(kind) ==
    /\ def.status \notin {"absent", "deleted"}
    /\ kind \in {"run_now", "pause"} => def.status = "active"
    /\ kind = "resume" => def.status = "paused"

\* A request is received, with the version its caller last saw, and reads the
\* row; authorize_org lets nobody edit in an organization that is not active.
Arrive(q, kind, r) ==
    /\ request[q].phase = "idle"
    /\ orgActive
    /\ Acceptable(kind)
    /\ kind # "reschedule" => r = def.rule
    /\ request' = [request EXCEPT ![q] =
           [phase |-> "write", kind |-> kind, rule |-> r, at |-> clock,
            cursor |-> def.cursor, version |-> def.version]]
    /\ UNCHANGED <<repaired, clock, orgActive, def, slots, skips, manual, sweep, lost, past>>

\* Variant for the sensitivity runs: the batch relies on what the handler read.
VersionUnchecked(q) == def.status # "deleted"
\* assert_automation_version_statement, the first statement of every batch.
VersionHolds(q) == def.version = request[q].version

\* patch_automation without a schedule.
Patch(q) ==
    /\ Finishing(q) /\ request[q].kind = "patch" /\ VersionHolds(q)
    /\ def' = [def EXCEPT !.version = @ + 1]
    /\ Finish(q)
    /\ UNCHANGED <<repaired, clock, orgActive, slots, skips, manual, sweep, lost, past>>

\* patch_automation with a schedule: the new revision, and the cursor restart,
\* a compare-and-set on the cursor that the handler read.  Both statements
\* count the version up.
Reschedule(q) ==
    /\ Finishing(q) /\ request[q].kind = "reschedule" /\ VersionHolds(q)
    /\ LET r == request[q].rule
           next == NextRun(r, request[q].at)
           revised == [def EXCEPT !.rule = r, !.version = @ + 1]
       IN  IF def.cursor = request[q].cursor /\ def.status # "deleted"
           THEN /\ def' = [revised EXCEPT !.cursor = request[q].at,
                               !.next = IF next = Never THEN @ ELSE next,
                               !.version = @ + 1]
                /\ Restart(request[q].at)
           ELSE def' = revised /\ UNCHANGED past
    /\ Finish(q)
    /\ UNCHANGED <<repaired, clock, orgActive, slots, skips, manual, sweep, lost>>

Pause(q) ==
    /\ Finishing(q) /\ request[q].kind = "pause"
    /\ VersionHolds(q) /\ def.status = "active"
    /\ def' = [def EXCEPT !.status = "paused", !.cursor = Never, !.next = Never,
                          !.version = @ + 1]
    /\ Finish(q)
    /\ UNCHANGED <<repaired, clock, orgActive, slots, skips, manual, sweep, lost, past>>

Resume(q) ==
    /\ Finishing(q) /\ request[q].kind = "resume"
    /\ VersionHolds(q) /\ def.status = "paused"
    /\ def' = [def EXCEPT !.status = "active", !.cursor = request[q].at,
                          !.next = NextRun(request[q].rule, request[q].at),
                          !.version = @ + 1]
    /\ Restart(request[q].at)
    /\ Finish(q)
    /\ UNCHANGED <<repaired, clock, orgActive, slots, skips, manual, sweep, lost>>

Delete(q) ==
    /\ Finishing(q) /\ request[q].kind = "delete"
    /\ VersionHolds(q) /\ def.status # "deleted"
    /\ def' = [def EXCEPT !.status = "deleted", !.next = Never, !.version = @ + 1]
    /\ Finish(q)
    /\ UNCHANGED <<repaired, clock, orgActive, slots, skips, manual, sweep, lost, past>>

\* run_now: a manual occurrence, keyed by the request's idempotency digest.
RunNow(q) ==
    /\ Finishing(q) /\ request[q].kind = "run_now"
    /\ VersionHolds(q) /\ def.status = "active"
    /\ manual' = manual \cup {q}
    /\ Finish(q)
    /\ UNCHANGED <<repaired, clock, orgActive, def, slots, skips, sweep, lost, past>>

\* A guard aborted the batch: nothing is written.
Refused(q) ==
    /\ Finishing(q) /\ ~VersionHolds(q)
    /\ Finish(q)
    /\ UNCHANGED <<repaired, clock, orgActive, def, slots, skips, manual, sweep, lost, past>>

-----------------------------------------------------------------------------
\* Variant for the sensitivity runs: strictly past its next run.
SelectedLate(row, t) == row.status = "active" /\ row.next # Never /\ row.next < t /\ orgActive
\* list_due_automations: active, next_run_at reached, in an active organization,
\* and with a rule that names instants (kind <> 'manual').
Selected(row, t) ==
    /\ row.status = "active" /\ row.next # Never /\ row.next <= t
    /\ orgActive
    /\ Instants[row.rule] # {}

SweepBegin(s) ==
    /\ sweep[s].phase = "idle"
    /\ Selected(def, clock)
    /\ sweep' = [sweep EXCEPT ![s] = [phase |-> "planned", now |-> clock, rule |-> def.rule,
                                  cursor |-> def.cursor]]
    /\ UNCHANGED <<repaired, clock, orgActive, def, slots, skips, manual, request, lost, past>>

\* Variants for the sensitivity runs: one half of the guard.
StatusHolds(s) == def.status = "active" /\ sweep[s].cursor # Never
CursorOnly(s)  == def.cursor # Never /\ def.cursor = sweep[s].cursor
\* assert_schedule_cursor_statement.  A NULL cursor is read as `now` and
\* equals no stored one.
CursorHolds(s) ==
    /\ def.status = "active"
    /\ def.cursor # Never
    /\ def.cursor = sweep[s].cursor

\* generate_for_automation: the occurrences of the window, then the cursor.
\* A slot that has a row already keeps it.  The organization is not looked at
\* again, nor is the revision.
SweepCommit(s) ==
    /\ sweep[s].phase = "planned"
    /\ CursorHolds(s)
    /\ LET r == sweep[s].rule
           to == sweep[s].now
           new == {<<r, i>> : i \in Planned(r, sweep[s].cursor, to)} \ slots
       IN  /\ slots' = slots \cup new
           /\ skips' = skips \cup {o \in new : o[2] \in Skipped[o[1]]}
           /\ def' = [def EXCEPT !.cursor = to, !.next = NextRun(r, to),
                                 !.version = @ + 1]
    /\ sweep' = [sweep EXCEPT ![s] = Idle]
    /\ last' = sweep[s].now
    /\ UNCHANGED <<repaired, clock, orgActive, manual, request, lost, restarted, tie>>

\* The cursor guard aborted the batch.
SweepRefused(s) ==
    /\ sweep[s].phase = "planned"
    /\ ~CursorHolds(s)
    /\ sweep' = [sweep EXCEPT ![s] = Idle]
    /\ UNCHANGED <<repaired, clock, orgActive, def, slots, skips, manual, request, lost, past>>

SweepLost(s) ==
    /\ sweep[s].phase = "planned"
    /\ lost < MaxLost
    /\ lost' = lost + 1
    /\ sweep' = [sweep EXCEPT ![s] = Idle]
    /\ UNCHANGED <<repaired, clock, orgActive, def, slots, skips, manual, request, past>>

Tick ==
    /\ clock < LastTime
    /\ clock' = clock + 1
    /\ UNCHANGED <<repaired, orgActive, def, slots, skips, manual, request, sweep, lost, past>>

\* transition_lifecycle: an owner suspends the organization, or resumes it; one
\* whose deletion has begun is like one that stays suspended.
Lifecycle ==
    /\ orgActive' = ~ orgActive
    /\ UNCHANGED <<repaired, clock, def, slots, skips, manual, request, sweep, lost, past>>

-----------------------------------------------------------------------------
Handle(q) ==
    \/ Patch(q) \/ Reschedule(q) \/ Pause(q) \/ Resume(q)
    \/ Delete(q) \/ RunNow(q) \/ Refused(q)

Generate(s) == SweepBegin(s) \/ SweepCommit(s) \/ SweepRefused(s) \/ SweepLost(s)

Next ==
    \/ \E t \in 0..clock : Create(t)
    \/ \E q \in Requests, kind \in Kinds, r \in Rules : Arrive(q, kind, r)
    \/ \E q \in Requests : Handle(q)
    \/ \E s \in Sweepers : Generate(s)
    \/ Lifecycle
    \/ Tick

\* The cron trigger fires every minute, and an invocation that is not lost
\* sends its batch.
Fairness == \A s \in Sweepers :
    WF_vars(SweepBegin(s)) /\ WF_vars(SweepCommit(s) \/ SweepRefused(s))

Spec == Init /\ [][Next]_vars /\ Fairness

-----------------------------------------------------------------------------
Stamps == Nat \cup {Never}
Rows == [status : Statuses, rule : Rules, cursor : Stamps, next : Stamps, version : Nat]

\* The rows and the invocations hold what their columns and locals can hold,
\* and a tombstone has no next run.
TypeOK ==
    /\ repaired \in BOOLEAN /\ orgActive \in BOOLEAN /\ tie \in BOOLEAN
    /\ clock \in Nat
    /\ def \in Rows
    /\ def.status = "deleted" => def.next = Never
    /\ slots \subseteq Rules \X Nat /\ skips \subseteq slots
    /\ manual \subseteq Requests
    /\ \A q \in Requests :
           request[q] \in
               {Idle, Done} \cup
               [phase : {"write"}, kind : Kinds, rule : Rules, at : Nat, cursor : Stamps,
                version : Nat]
    /\ \A s \in Sweepers :
           sweep[s] \in
               {Idle} \cup [phase : {"planned"}, now : Nat, rule : Rules, cursor : Stamps]
    /\ restarted \in Nat /\ last \in Nat

\* With the INSERT as it stands there is never a definition, and so never an
\* occurrence, whatever administrators ask for.
NothingWithoutRepair ==
    ~ repaired => def.status = "absent" /\ slots = {} /\ manual = {}

\* No due instant is out of the sweep's sight: while the automation is active,
\* next_run_at is never later than the first instant after its cursor, however
\* edits, pauses, resumes and overlapping sweeps interleave.  The guard of a
\* sweep tells cursors by their timestamps: once an edit or a resume was
\* received at the instant of an earlier cursor (`tie`), a sweep that planned
\* by the old revision may still pass it, and this is not promised.
NoInstantStranded ==
    ~ tie /\ def.status = "active" /\ NextRun(def.rule, def.cursor) # Never =>
        def.next # Never /\ def.next <= NextRun(def.rule, def.cursor)

\* The authoritative cursor never moves back, whoever writes it last: a
\* request with an old received_at, or a sweep with an old plan.
CursorNeverRewinds ==
    [][def.cursor # Never /\ def'.cursor # Never => def'.cursor >= def.cursor]_vars

\* A sweep never back-fills: what it persists lies after the creation, the
\* schedule edit or the resume that restarted the cursor, was due by then, and
\* belongs to the revision in force (unless a tie let an old plan pass).
NoBackfill ==
    [][\A o \in slots' \ slots :
           /\ o[1] = def.rule \/ tie
           /\ restarted < o[2] /\ o[2] <= clock /\ def.status = "active"]_vars

\* An active automation whose next run is due is generated, or stops being
\* active, or its organization does: sweeps that lose the cursor race or die
\* do not block it.
DueIsGenerated ==
    \A t \in Times \ {0} :
        LET waiting == def.status = "active" /\ def.next = t /\ Instants[def.rule] # {} /\ orgActive
        IN  waiting /\ t <= clock ~> ~ waiting
=============================================================================
