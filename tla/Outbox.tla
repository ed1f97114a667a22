------------------------------- MODULE Outbox -------------------------------
(***************************************************************************)
(* The durable outbox (apps/api/src/modules/outbox, repositories/outbox.rs,*)
(* adapters/queues): D1 rows written with the business transaction, the    *)
(* dispatchers that publish them, the platform queue and its dead-letter   *)
(* queue, and the consumers that record the outcome.                       *)
(*                                                                         *)
(* A dispatcher is one record of a retry sweep, or the inline dispatch of  *)
(* a request: it works from a snapshot of the row, sends to the queue, and *)
(* only then updates the row.  Between any two of these calls other        *)
(* dispatchers and consumers run.  Every D1 statement is atomic.           *)
(***************************************************************************)
EXTENDS Naturals

CONSTANTS
    Events,          \* outbox events, named by their event_id
    Dispatchers,     \* concurrent dispatches (sweeps overlap inline sends)
    Consumers,       \* concurrent queue invocations
    Copies,          \* bound: messages the two queues hold at a time
    MaxAttempts,     \* RetryPolicy.max_attempts
    MaxRetries,      \* redeliveries before a message moves to the DLQ
    MaxDlqRetries,   \* redeliveries before the DLQ drops a message
    MaxFaults,       \* bound: lost invocations, failed writes, duplicates
    Nothing          \* no event, no message

ASSUME OutboxParameters ==
    /\ Nothing \notin Events
    /\ Nothing \notin Copies
    /\ MaxAttempts \in Nat \ {0}
    /\ MaxRetries \in Nat
    /\ MaxDlqRetries \in Nat
    /\ MaxFaults \in Nat

VARIABLES
    status,          \* delivery_status; "absent" before the commit
    attempts,        \* attempt_count
    due,             \* next_attempt_at is set and has passed
    copy,            \* the messages: event, queue and redeliveries so far
    dispatcher,      \* the snapshot each dispatch works from, and its step
    consumer,        \* the message each consumer holds, and its step
    handled,         \* history: events some handler run has processed
    dropped,         \* history: events with a message the DLQ dropped
    faults

rows == <<status, attempts, due>>
vars == <<status, attempts, due, copy, dispatcher, consumer, handled, dropped,
          faults>>

Terminal == {"delivered", "dead_letter"}
Open     == {"pending", "queued"}
Writes   == {"delivered", "bury", "retry"}

NoCopy  == [event |-> Nothing, queue |-> "none", tries |-> 0]
Idle    == [step |-> "idle", event |-> Nothing, seen |-> 0]
Waiting == [step |-> "idle", copy |-> Nothing, sawStatus |-> "absent",
            sawAttempts |-> 0]

Init ==
    /\ status = [e \in Events |-> "absent"]
    /\ attempts = [e \in Events |-> 0]
    /\ due = [e \in Events |-> FALSE]
    /\ copy = [c \in Copies |-> NoCopy]
    /\ dispatcher = [d \in Dispatchers |-> Idle]
    /\ consumer = [w \in Consumers |-> Waiting]
    /\ handled = {}
    /\ dropped = {}
    /\ faults = 0

Fault   == faults < MaxFaults /\ faults' = faults + 1
NoFault == UNCHANGED faults

-----------------------------------------------------------------------------
(***************************************************************************)
(* The statements of the outbox repository.                                *)
(***************************************************************************)
\* The WHERE clause of RECORD_RETRY_SQL, RECORD_DEAD_LETTER_SQL and
\* MARK_QUEUED_SQL: only over the very row version the caller has seen.
Matches(e, seenStatus, seenAttempts) ==
    /\ status[e] = seenStatus
    /\ attempts[e] = seenAttempts

\* Variant for the sensitivity runs: no last attempt.
BackoffForever(e) ==
    /\ attempts' = [attempts EXCEPT ![e] = @ + 1]
    /\ status' = [status EXCEPT ![e] = "pending"]
    /\ due' = [due EXCEPT ![e] = FALSE]

\* What RECORD_RETRY_SQL or RECORD_DEAD_LETTER_SQL writes; after_failure picks.
Backoff(e) ==
    LET n == attempts[e] + 1 IN
    /\ attempts' = [attempts EXCEPT ![e] = n]
    /\ status' = [status EXCEPT ![e] = IF n >= MaxAttempts THEN "dead_letter"
                                                           ELSE "pending"]
    /\ due' = [due EXCEPT ![e] = FALSE]

\* MARK_DELIVERED_SQL and MARK_DEAD_LETTER_SQL, over an open row.
Close(e, outcome) ==
    /\ status' = [status EXCEPT ![e] = outcome]
    /\ due' = [due EXCEPT ![e] = FALSE]
    /\ UNCHANGED attempts

-----------------------------------------------------------------------------
(***************************************************************************)
(* Producers and the clock.                                                *)
(***************************************************************************)
\* The business batch commits with INSERT_EVENT_SQL in it: pending, and due.
Commit(e) ==
    /\ status[e] = "absent"
    /\ status' = [status EXCEPT ![e] = "pending"]
    /\ due' = [due EXCEPT ![e] = TRUE]
    /\ NoFault
    /\ UNCHANGED <<attempts, copy, dispatcher, consumer, handled, dropped>>

\* The backoff written by RECORD_RETRY_SQL passes.
BecomeDue(e) ==
    /\ status[e] = "pending"
    /\ ~due[e]
    /\ due' = [due EXCEPT ![e] = TRUE]
    /\ NoFault
    /\ UNCHANGED <<status, attempts, copy, dispatcher, consumer, handled,
                   dropped>>

-----------------------------------------------------------------------------
(***************************************************************************)
(* dispatch_one: publish a snapshot of the row, then update the row.       *)
(***************************************************************************)
\* LIST_DUE_SQL gives the dispatch its snapshot; the inline dispatch of a
\* request builds the same snapshot from the row it has just committed.
Select(d, e) ==
    /\ dispatcher[d] = Idle
    /\ status[e] = "pending"
    /\ due[e]
    /\ dispatcher' = [dispatcher EXCEPT ![d] =
                        [step |-> "publish", event |-> e, seen |-> attempts[e]]]
    /\ NoFault
    /\ UNCHANGED <<rows, copy, consumer, handled, dropped>>

Send(c, e) ==
    /\ copy[c] = NoCopy
    /\ copy' = [copy EXCEPT ![c] = [event |-> e, queue |-> "main", tries |-> 0]]

\* queue.send answers.  A send that reports a failure may have been accepted.
Publish(d) ==
    /\ dispatcher[d].step = "publish"
    /\ \/ /\ \E c \in Copies : Send(c, dispatcher[d].event)
          /\ \E answer \in {"record", "failed"} :
                dispatcher' = [dispatcher EXCEPT ![d].step = answer]
       \/ /\ dispatcher' = [dispatcher EXCEPT ![d].step = "failed"]
          /\ UNCHANGED copy
    /\ NoFault
    /\ UNCHANGED <<rows, consumer, handled, dropped>>

\* Variant for the sensitivity runs: MARK_QUEUED_SQL without attempt_count.
QueuedOverAny(d) ==
    LET e == dispatcher[d].event IN
    IF status[e] = "pending"
    THEN /\ status' = [status EXCEPT ![e] = "queued"]
         /\ due' = [due EXCEPT ![e] = FALSE]
         /\ UNCHANGED attempts
    ELSE UNCHANGED rows

\* MARK_QUEUED_SQL: only over the pending row version that was published.
Queued(d) ==
    LET e == dispatcher[d].event IN
    IF Matches(e, "pending", dispatcher[d].seen) /\ due[e]
    THEN /\ status' = [status EXCEPT ![e] = "queued"]
         /\ due' = [due EXCEPT ![e] = FALSE]
         /\ UNCHANGED attempts
    ELSE UNCHANGED rows

\* The failed send is recorded on the version that was published.
SendFailed(d) ==
    LET e == dispatcher[d].event IN
    IF Matches(e, "pending", dispatcher[d].seen) THEN Backoff(e)
                                                 ELSE UNCHANGED rows

DispatchWrite(d) ==
    \/ dispatcher[d].step = "record" /\ Queued(d)
    \/ dispatcher[d].step = "failed" /\ SendFailed(d)

Record(d) ==
    /\ DispatchWrite(d)
    /\ dispatcher' = [dispatcher EXCEPT ![d] = Idle]
    /\ NoFault
    /\ UNCHANGED <<copy, consumer, handled, dropped>>

\* The invocation is lost, or its D1 call reports an error: the write may or
\* may not have been applied.
DispatchLost(d) ==
    /\ dispatcher[d] # Idle
    /\ DispatchWrite(d) \/ UNCHANGED rows
    /\ dispatcher' = [dispatcher EXCEPT ![d] = Idle]
    /\ Fault
    /\ UNCHANGED <<copy, consumer, handled, dropped>>

-----------------------------------------------------------------------------
(***************************************************************************)
(* The queue.  Wrangler gives the main queue MaxRetries redeliveries and a *)
(* dead-letter queue, and the dead-letter queue MaxDlqRetries and no queue *)
(* of its own.                                                             *)
(***************************************************************************)
Held(c) == \E w \in Consumers : consumer[w].copy = c

Deliver(w, c) ==
    /\ consumer[w] = Waiting
    /\ copy[c] # NoCopy
    /\ ~Held(c)
    /\ consumer' = [consumer EXCEPT ![w] =
                      [step |-> "read", copy |-> c, sawStatus |-> "absent",
                       sawAttempts |-> 0]]
    /\ NoFault
    /\ UNCHANGED <<rows, copy, dispatcher, handled, dropped>>

\* At-least-once delivery: the queue may deliver a message a second time.
Duplicate(c, d) ==
    /\ copy[c] # NoCopy
    /\ copy[d] = NoCopy
    /\ copy' = [copy EXCEPT ![d] = copy[c]]
    /\ Fault
    /\ UNCHANGED <<rows, dispatcher, consumer, handled, dropped>>

\* message.ack()
Ack(w) ==
    /\ copy' = [copy EXCEPT ![consumer[w].copy] = NoCopy]
    /\ consumer' = [consumer EXCEPT ![w] = Waiting]
    /\ UNCHANGED dropped

\* message.retry(), or an invocation that ends without an answer.
Retry(w) ==
    LET c == consumer[w].copy
        m == copy[c]
    IN
    /\ consumer' = [consumer EXCEPT ![w] = Waiting]
    /\ \/ /\ m.queue = "main" /\ m.tries < MaxRetries
          /\ copy' = [copy EXCEPT ![c].tries = @ + 1]
          /\ UNCHANGED dropped
       \/ /\ m.queue = "main" /\ m.tries = MaxRetries
          /\ copy' = [copy EXCEPT ![c] =
                        [event |-> m.event, queue |-> "dlq", tries |-> 0]]
          /\ UNCHANGED dropped
       \/ /\ m.queue = "dlq" /\ m.tries < MaxDlqRetries
          /\ copy' = [copy EXCEPT ![c].tries = @ + 1]
          /\ UNCHANGED dropped
       \/ /\ m.queue = "dlq" /\ m.tries = MaxDlqRetries
          /\ copy' = [copy EXCEPT ![c] = NoCopy]
          /\ dropped' = dropped \cup {m.event}

-----------------------------------------------------------------------------
(***************************************************************************)
(* OutboxConsumer: consume for the main queue, consume_dead_letter for the *)
(* dead-letter queue.                                                      *)
(***************************************************************************)
EventOf(w) == copy[consumer[w].copy].event

Goto(w, step) == consumer' = [consumer EXCEPT ![w].step = step]

\* get_record.  A message of the main queue is a duplicate once its event is
\* terminal, one of the dead-letter queue only once it is delivered.
Read(w) ==
    LET e == EventOf(w) IN
    /\ consumer[w].step = "read"
    /\ \/ /\ copy[consumer[w].copy].queue = "main"
          /\ status[e] \in Terminal
          /\ Ack(w)
       \/ /\ copy[consumer[w].copy].queue = "main"
          /\ status[e] \notin Terminal
          /\ consumer' = [consumer EXCEPT ![w].step = "handle",
                                          ![w].sawStatus = status[e],
                                          ![w].sawAttempts = attempts[e]]
          /\ UNCHANGED <<copy, dropped>>
       \/ /\ copy[consumer[w].copy].queue = "dlq"
          /\ status[e] = "delivered"
          /\ Ack(w)
       \/ /\ copy[consumer[w].copy].queue = "dlq"
          /\ status[e] # "delivered"
          /\ Goto(w, "bury")
          /\ UNCHANGED <<copy, dropped>>
    /\ NoFault
    /\ UNCHANGED <<rows, dispatcher, handled>>

\* handle_once succeeds, fails for good, or fails and may be retried.
Handle(w) ==
    /\ consumer[w].step = "handle"
    /\ \E answer \in Writes :
          /\ Goto(w, answer)
          /\ handled' = IF answer = "delivered" THEN handled \cup {EventOf(w)}
                                                ELSE handled
    /\ NoFault
    /\ UNCHANGED <<rows, copy, dispatcher, dropped>>

\* Variant for the sensitivity runs: MARK_DELIVERED_SQL over any row.
AppliesBlind(w) ==
    \/ consumer[w].step = "delivered"
    \/ consumer[w].step = "bury" /\ status[EventOf(w)] \in Open
    \/ /\ consumer[w].step = "retry"
       /\ Matches(EventOf(w), consumer[w].sawStatus, consumer[w].sawAttempts)

\* The WHERE clause of the write a consumer is about to send.
Applies(w) ==
    \/ consumer[w].step \in {"delivered", "bury"} /\ status[EventOf(w)] \in Open
    \/ /\ consumer[w].step = "retry"
       /\ Matches(EventOf(w), consumer[w].sawStatus, consumer[w].sawAttempts)

\* The write: mark_delivered, mark_dead_letter or record_failure.
Outcome(w) ==
    \/ consumer[w].step = "delivered" /\ Close(EventOf(w), "delivered")
    \/ consumer[w].step = "bury" /\ Close(EventOf(w), "dead_letter")
    \/ consumer[w].step = "retry" /\ Backoff(EventOf(w))

\* An applied write is acknowledged; otherwise the row is read again.
Write(w) ==
    /\ consumer[w].step \in Writes
    /\ \/ Applies(w) /\ Outcome(w) /\ Ack(w)
       \/ /\ ~Applies(w)
          /\ Goto(w, IF consumer[w].step = "delivered" THEN "recheck"
                                                       ELSE "resolve")
          /\ UNCHANGED <<rows, copy, dropped>>
    /\ NoFault
    /\ UNCHANGED <<dispatcher, handled>>

\* Variant for the sensitivity runs: every changed state counts as settled.
SettledElsewhereAlways(w) == consumer[w].step \in {"recheck", "resolve"}

\* The row a lost race left behind.  After a success only a terminal row lets
\* the message go; resolve_changed_state also accepts a pending one, whose
\* redelivery the sweep owns.
SettledElsewhere(w) ==
    \/ status[EventOf(w)] \in Terminal
    \/ consumer[w].step = "resolve" /\ status[EventOf(w)] = "pending"

ReadAgain(w) ==
    /\ consumer[w].step \in {"recheck", "resolve"}
    /\ IF SettledElsewhere(w) THEN Ack(w) ELSE Retry(w)
    /\ NoFault
    /\ UNCHANGED <<rows, dispatcher, handled>>

\* The invocation is lost or a D1 call reports an error, applied or not: the
\* platform delivers the message again.
ConsumerLost(w) ==
    /\ consumer[w] # Waiting
    /\ \/ UNCHANGED rows
       \/ consumer[w].step \in Writes /\ Applies(w) /\ Outcome(w)
    /\ Retry(w)
    /\ Fault
    /\ UNCHANGED <<dispatcher, handled>>

-----------------------------------------------------------------------------
Dispatch(d) ==
    \/ \E e \in Events : Select(d, e)
    \/ Publish(d)
    \/ Record(d)
    \/ DispatchLost(d)

Consume(w) ==
    \/ \E c \in Copies : Deliver(w, c)
    \/ Read(w)
    \/ Handle(w)
    \/ Write(w)
    \/ ReadAgain(w)
    \/ ConsumerLost(w)

Environment ==
    \/ \E e \in Events : Commit(e) \/ BecomeDue(e)
    \/ \E c, d \in Copies : Duplicate(c, d)

Next ==
    \/ \E d \in Dispatchers : Dispatch(d)
    \/ \E w \in Consumers : Consume(w)
    \/ Environment

Spec == Init /\ [][Next]_vars

\* The cron trigger runs the sweep every minute, time passes, the queue
\* delivers what it holds, and an invocation that is not lost runs on.
Fairness ==
    /\ \A e \in Events :
          /\ WF_vars(BecomeDue(e))
          /\ WF_vars(\E d \in Dispatchers : Select(d, e))
    /\ \A d \in Dispatchers : WF_vars(Publish(d)) /\ WF_vars(Record(d))
    /\ \A c \in Copies : WF_vars(\E w \in Consumers : Deliver(w, c))
    /\ \A w \in Consumers :
          WF_vars(Read(w) \/ Handle(w) \/ Write(w) \/ ReadAgain(w))

FairSpec == Spec /\ Fairness

-----------------------------------------------------------------------------
(***************************************************************************)
(* Properties.                                                             *)
(***************************************************************************)
Messages == {NoCopy} \cup
            [event : Events, queue : {"main"}, tries : 0 .. MaxRetries] \cup
            [event : Events, queue : {"dlq"}, tries : 0 .. MaxDlqRetries]

Dispatches == {Idle} \cup [step : {"publish", "record", "failed"},
                           event : Events, seen : 0 .. MaxAttempts - 1]

Consumptions == {Waiting} \cup
    [step : {"read", "handle", "recheck", "resolve"} \cup Writes,
     copy : Copies, sawStatus : Open \cup {"absent"},
     sawAttempts : 0 .. MaxAttempts - 1]

\* The state space: attempt_count stays within the retry policy, a message
\* within the redeliveries of its queue, and an open row within its attempts.
TypeOK ==
    /\ status \in [Events -> {"absent"} \cup Open \cup Terminal]
    /\ attempts \in [Events -> 0 .. MaxAttempts]
    /\ \A e \in Events : status[e] \notin Terminal => attempts[e] < MaxAttempts
    /\ due \in [Events -> BOOLEAN]
    /\ copy \in [Copies -> Messages]
    /\ dispatcher \in [Dispatchers -> Dispatches]
    /\ consumer \in [Consumers -> Consumptions]
    /\ handled \subseteq Events
    /\ dropped \subseteq Events
    /\ faults \in 0 .. MaxFaults

Carried(e) == \E c \in Copies : copy[c].event = e

\* A row says "queued" only while a queue or a consumer still has a message
\* for it: no sweep looks at queued rows, so nothing else would finish them.
\* (When both queues have given up the message is dropped, and the row stays.)
QueuedIsCarried ==
    \A e \in Events : status[e] = "queued" => Carried(e) \/ e \in dropped

\* consumer.rs: a message is acknowledged "only after either durable handling
\* or a durable retry/dead-letter transition has completed": when a message
\* leaves the queues and was not dropped, its event has an outcome, or is
\* pending with a failure on record.
AckIsDurable ==
    [][\A c \in Copies :
          LET e == copy[c].event IN
          copy[c] # NoCopy /\ copy'[c] = NoCopy /\ e \notin dropped' =>
            \/ status'[e] \in Terminal
            \/ status'[e] = "pending" /\ attempts'[e] > 0]_vars

\* A queued event goes back to the sweep only as a new version of its row, so
\* that a dispatch or a consumer with an older snapshot can no longer write.
RequeueIsNewVersion ==
    [][\A e \in Events :
          /\ attempts'[e] >= attempts[e]
          /\ status[e] = "queued" /\ status'[e] = "pending" =>
                attempts'[e] > attempts[e]]_vars

\* The outcome a delivery_status records.
Promised(s) == CASE s = "absent"   -> "uncommitted"
                 [] s \in Open     -> "open"
                 [] s \in Terminal -> s

Recorded == [e \in Events |-> Promised(status[e])]

Delivery == INSTANCE EventDelivery WITH outcome <- Recorded

\* Through every race of dispatchers, consumers and queues the outbox is an
\* event delivery: one outcome per event, final, and "delivered" only after a
\* handler run succeeded.
ImplementsDelivery == Delivery!Spec

\* P01-BE-02: "Dispatch retry is bounded": every committed event gets an
\* outcome, while the faults stay too few for the dead-letter queue to drop
\* its message.
EventuallySettled ==
    \A e \in Events : status[e] = "pending" ~> status[e] \in Terminal
=============================================================================
