-------------------------------- MODULE Runs --------------------------------
(***************************************************************************)
(* The runs of one agent session: their rows, their append-only timelines  *)
(* and their retries.  A run is driven by its device (routes/device_runs)  *)
(* and cancelled or retried by users (routes/runs); tool decisions and     *)
(* approval resolutions append to the same timeline (routes/tools,         *)
(* routes/approvals).                                                      *)
(*                                                                         *)
(* Every invocation reads the run, then reads the next event sequence or   *)
(* the highest attempt, and only then sends its batch.  Anything may       *)
(* commit between these three database calls.                              *)
(***************************************************************************)
EXTENDS Naturals, Sequences, FiniteSetsExt, Records

CONSTANTS
    RunCalls,     \* invocations
    MaxRuns,      \* bound: runs of the session
    NotedRuns,    \* bound: runs that tools write to
    MaxNotes      \* bound: notes of a timeline that a call still adds to

ASSUME RunConstants == IsFiniteSet(RunCalls) /\ MaxRuns \in Nat \ {0}

VARIABLES
    lifecycle,    \* agent_sessions.lifecycle
    run,          \* run[r]: row r of the runs table, in the order of creation
    timeline,     \* timeline[r]: the run_events of r
    runCall       \* the invocations

runVars == <<lifecycle, run, timeline, runCall>>

Outcomes == {"succeeded", "failed", "cancelled"}
\* RunState::is_retryable.  "timed_out" is never written.
Retryable == {"failed", "cancelled"}

\* Variant for the sensitivity runs: a final state gives way to another.
CanBecomeAtAnyTime(state, next) == next \in Outcomes \/ (state = "queued" /\ next = "running")

\* RunState::can_transition_to, on the states that a handler ever stores:
\* "dispatching" exists only inside the batch of start_run, and no handler
\* writes a waiting state.
CanBecome(state, next) ==
    \/ state = "queued"  /\ next \in {"running", "failed", "cancelled"}
    \/ state = "running" /\ next \in Outcomes

Idle == [phase |-> "idle"]
Event(seq, kind, version) == [seq |-> seq, kind |-> kind, version |-> version]

\* The session's first run has just been created.
RunInit ==
    /\ lifecycle = "active"
    /\ run = <<[state |-> "queued", version |-> 1, parent |-> 0, attempt |-> 1]>>
    /\ timeline = <<{Event(1, "queued", 1)}>>
    /\ runCall = [c \in RunCalls |-> Idle]

Runs == DOMAIN run
Finish(c) == runCall' = [runCall EXCEPT ![c] = Idle]
Retrying(c) == runCall[c].phase # "idle" /\ runCall[c].op = "retry"

-----------------------------------------------------------------------------
\* start_run, complete_run, fail_run and cancel_run of the device, cancel_run
\* of a user: the run as the caller saw it can take the step.
BeginTransition(c, r, next) ==
    /\ runCall[c] = Idle
    /\ CanBecome(run[r].state, next)
    /\ runCall' = [runCall EXCEPT ![c] = [phase |-> "sequence", op |-> "transition", run |-> r,
                   next |-> next, state |-> run[r].state, version |-> run[r].version]]
    /\ UNCHANGED <<lifecycle, run, timeline>>

\* A tool decision or an approval resolution is about to tell the timeline.
BeginNote(c, r) ==
    /\ runCall[c] = Idle
    /\ r \in NotedRuns /\ Cardinality({e \in timeline[r] : e.kind = "note"}) < MaxNotes
    /\ runCall' = [runCall EXCEPT ![c] = [phase |-> "sequence", op |-> "note", run |-> r]]
    /\ UNCHANGED <<lifecycle, run, timeline>>

\* retry_run, or a run created with a parent: the session is open and the
\* parent ended without success.
BeginRetry(c, r) ==
    /\ runCall[c] = Idle
    /\ lifecycle = "active" /\ run[r].state \in Retryable
    /\ Cardinality(Runs) + Cardinality({x \in RunCalls : Retrying(x)}) < MaxRuns
    /\ runCall' = [runCall EXCEPT ![c] = [phase |-> "attempt", op |-> "retry", run |-> r,
                   state |-> run[r].state, version |-> run[r].version]]
    /\ UNCHANGED <<lifecycle, run, timeline>>

BeginClose(c) ==
    /\ runCall[c] = Idle
    /\ lifecycle = "active"
    /\ runCall' = [runCall EXCEPT ![c] = [phase |-> "write", op |-> "close"]]
    /\ UNCHANGED <<lifecycle, run, timeline>>

\* next_event_sequence.
NextSequence(r) == 1 + Max({e.seq : e \in timeline[r]})

ReadSequence(c) ==
    /\ runCall[c].phase = "sequence"
    /\ runCall' = [runCall EXCEPT ![c] =
           With(runCall[c], [phase |-> "write", seq |-> NextSequence(runCall[c].run)])]
    /\ UNCHANGED <<lifecycle, run, timeline>>

\* max_attempt, over the parent and its direct retries.
MaxAttempt(r) ==
    Max({run[x].attempt : x \in {y \in Runs : y = r \/ run[y].parent = r}})

ReadAttempt(c) ==
    /\ runCall[c].phase = "attempt"
    /\ runCall' = [runCall EXCEPT ![c] =
           With(runCall[c], [phase |-> "write", attempt |-> 1 + MaxAttempt(runCall[c].run)])]
    /\ UNCHANGED <<lifecycle, run, timeline>>

-----------------------------------------------------------------------------
\* assert_run_state_version_statement.
Stands(c) == run[runCall[c].run].state = runCall[c].state /\ run[runCall[c].run].version = runCall[c].version

\* UNIQUE(run_id, sequence) on run_events.
Free(r, seq) == \A e \in timeline[r] : e.seq # seq

\* update_run_state_statement and its events.  A queued run is started through
\* "dispatching": two updates, two events.
Transition(c) ==
    LET r == runCall[c].run
        seq == runCall[c].seq
        v == runCall[c].version
        next == runCall[c].next
        two == next = "running"
    IN  /\ runCall[c].phase = "write" /\ runCall[c].op = "transition"
        /\ Stands(c) /\ Free(r, seq) /\ (two => Free(r, seq + 1))
        /\ run' = [run EXCEPT ![r].state = next, ![r].version = IF two THEN v + 2 ELSE v + 1]
        /\ timeline' = [timeline EXCEPT ![r] = @ \cup
               IF two THEN {Event(seq, "dispatching", v + 1), Event(seq + 1, next, v + 2)}
               ELSE {Event(seq, next, v + 1)}]
        /\ Finish(c)
        /\ UNCHANGED lifecycle

\* The note carries no version and asserts nothing about the run.
Note(c) ==
    /\ runCall[c].phase = "write" /\ runCall[c].op = "note"
    /\ Free(runCall[c].run, runCall[c].seq)
    /\ timeline' = [timeline EXCEPT ![runCall[c].run] = @ \cup {Event(runCall[c].seq, "note", 0)}]
    /\ Finish(c)
    /\ UNCHANGED <<lifecycle, run>>

\* Variant for the sensitivity runs: the attempt is not asserted.
AttemptAlways(r, attempt) == TRUE
\* assert_retry_attempt_absent_statement.
AttemptAbsent(r, attempt) == \A x \in Runs : ~(run[x].parent = r /\ run[x].attempt = attempt)

\* insert_run_statement and the first event, run.created.v1; retry_run of a
\* user adds a note, run.retried.v1.  The session is not looked at again.
Retry(c) ==
    LET r == runCall[c].run
    IN  /\ runCall[c].phase = "write" /\ runCall[c].op = "retry"
        /\ Stands(c) /\ AttemptAbsent(r, runCall[c].attempt)
        /\ run' = Append(run, [state |-> "queued", version |-> 1, parent |-> r,
                               attempt |-> runCall[c].attempt])
        /\ \E more \in {{}, {Event(2, "note", 0)}} :
               timeline' = Append(timeline, {Event(1, "queued", 1)} \cup more)
        /\ Finish(c)
        /\ UNCHANGED lifecycle

\* close_session.
CloseSession(c) ==
    /\ runCall[c].phase = "write" /\ runCall[c].op = "close"
    /\ lifecycle = "active"
    /\ lifecycle' = "closed"
    /\ Finish(c)
    /\ UNCHANGED <<run, timeline>>

\* A guard or the unique index aborted the batch.
Conflict(c) ==
    LET Lost == CASE runCall[c].op = "transition" ->
                        ~Stands(c) \/ ~Free(runCall[c].run, runCall[c].seq)
                          \/ (runCall[c].next = "running" /\ ~Free(runCall[c].run, runCall[c].seq + 1))
                  [] runCall[c].op = "note" -> ~Free(runCall[c].run, runCall[c].seq)
                  [] runCall[c].op = "retry" ->
                        ~Stands(c) \/ ~AttemptAbsent(runCall[c].run, runCall[c].attempt)
                  [] runCall[c].op = "close" -> lifecycle # "active"
    IN  /\ runCall[c].phase = "write"
        /\ Lost
        /\ Finish(c)
        /\ UNCHANGED <<lifecycle, run, timeline>>

RunNext ==
    \E c \in RunCalls :
        \/ \E r \in Runs :
               (\E next \in {"running"} \cup Outcomes : BeginTransition(c, r, next))
                   \/ BeginNote(c, r) \/ BeginRetry(c, r)
        \/ BeginClose(c) \/ ReadSequence(c) \/ ReadAttempt(c)
        \/ Transition(c) \/ Note(c) \/ Retry(c) \/ CloseSession(c) \/ Conflict(c)

RunSpec == RunInit /\ [][RunNext]_runVars

-----------------------------------------------------------------------------
RunTypeOK ==
    /\ lifecycle \in {"active", "closed"}
    /\ Runs = 1..Cardinality(Runs) /\ DOMAIN timeline = Runs
    /\ \A r \in Runs :
           /\ run[r].state \in {"queued", "running"} \cup Outcomes
           /\ run[r].version \in 1..4
           /\ run[r].parent \in 0..(r - 1) /\ run[r].attempt \in 1..MaxRuns

\* The timeline tells the run: its sequence has no gap and no repetition, the
\* state events come in the order of the versions they wrote, one for each
\* version, and the newest one names the state the run is in.  So of a
\* completion, a failure and two cancellations that race, the timeline shows
\* the one that the row shows, wherever tool calls and approvals write in
\* between.
TimelineTellsRun ==
    \A r \in Runs :
        LET states == {e \in timeline[r] : e.kind # "note"}
        IN  /\ {e.seq : e \in timeline[r]} = 1..Cardinality(timeline[r])
            /\ {e.version : e \in states} = 1..run[r].version
            /\ Cardinality(states) = run[r].version
            /\ \A e, f \in states : e.seq < f.seq => e.version < f.version
            /\ \E e \in states : e.version = run[r].version /\ e.kind = run[r].state

\* A retry follows a run that ended without success, with a higher attempt,
\* and no two retries of one run share an attempt, whether users or the device
\* asked for them.
RetriesAreLinked ==
    \A x \in Runs : run[x].parent # 0 =>
        /\ run[run[x].parent].state \in Retryable
        /\ run[x].attempt > run[run[x].parent].attempt
        /\ \A y \in Runs \ {x} :
               run[y].parent = run[x].parent => run[y].attempt # run[x].attempt

\* What the rows and the timelines say of a run and of its retries is one
\* history, whichever writers raced.
HistoryIsWhole == TimelineTellsRun /\ RetriesAreLinked
=============================================================================
