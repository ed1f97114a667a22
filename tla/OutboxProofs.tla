---------------------------- MODULE OutboxProofs ----------------------------
(***************************************************************************)
(* Theorems about Outbox, for any number of events, dispatchers, consumers *)
(* and messages, any retry policy and any number of faults.                *)
(***************************************************************************)
EXTENDS Outbox, TLAPS

-----------------------------------------------------------------------------
(***************************************************************************)
(* The inductive invariant.                                                *)
(***************************************************************************)
\* A consumer that is not waiting holds a message, and holds it alone.
Holding ==
    /\ \A w \in Consumers :
          consumer[w].step # "idle" => copy[consumer[w].copy] # NoCopy
    /\ \A v, w \in Consumers :
          consumer[v].step # "idle" /\ consumer[v].copy = consumer[w].copy
             => v = w

\* Messages and dispatches are about committed events.
AfterCommit ==
    /\ \A c \in Copies : copy[c] # NoCopy => status[copy[c].event] # "absent"
    /\ \A d \in Dispatchers :
          dispatcher[d].step # "idle" => status[dispatcher[d].event] # "absent"

\* attempt_count never runs behind a snapshot, and a row seen "queued" cannot
\* be "pending" again in the same version.
Snapshots ==
    /\ \A d \in Dispatchers :
          dispatcher[d].step # "idle" =>
             dispatcher[d].seen <= attempts[dispatcher[d].event]
    /\ \A w \in Consumers :
          consumer[w].step \in {"handle", "retry"} =>
             /\ consumer[w].sawStatus \in Open
             /\ consumer[w].sawAttempts <= attempts[EventOf(w)]
             /\ consumer[w].sawStatus = "queued"
                   /\ consumer[w].sawAttempts = attempts[EventOf(w)]
                => status[EventOf(w)] # "pending"

\* A success is recorded only after the handler ran.
Processed ==
    /\ \A w \in Consumers :
          consumer[w].step = "delivered" => EventOf(w) \in handled
    /\ \A e \in Events : e \in handled => status[e] # "absent"

\* A consumer that lost the race on its row and finds it pending finds a
\* recorded failure.
Resolving ==
    \A w \in Consumers :
       consumer[w].step = "resolve" /\ status[EventOf(w)] = "pending" =>
          attempts[EventOf(w)] > 0

\* The consumer may acknowledge its message without changing the row.
Stale(w) ==
    \/ consumer[w].step = "resolve"
    \/ /\ consumer[w].step \in {"handle", "retry"}
       /\ ~Matches(EventOf(w), consumer[w].sawStatus, consumer[w].sawAttempts)

\* While a dispatch can still mark its row queued, a message for the event is
\* on its way that no consumer will acknowledge without changing the row.
Published ==
    \A d \in Dispatchers :
       LET e == dispatcher[d].event IN
       dispatcher[d].step = "record"
          /\ Matches(e, "pending", dispatcher[d].seen) =>
          \/ e \in dropped
          \/ \E c \in Copies :
                /\ copy[c].event = e
                /\ \A w \in Consumers : consumer[w].copy = c => ~Stale(w)

IInv ==
    /\ TypeOK
    /\ Holding
    /\ AfterCommit
    /\ Snapshots
    /\ Processed
    /\ Resolving
    /\ Published
    /\ QueuedIsCarried

-----------------------------------------------------------------------------
(***************************************************************************)
(* Types.                                                                  *)
(***************************************************************************)
\* What the state of a dispatch, a consumer and a message looks like.
LEMMA Shapes ==
    ASSUME TypeOK
    PROVE  /\ \A d \in Dispatchers :
                 \/ dispatcher[d] = Idle /\ dispatcher[d].step = "idle"
                 \/ /\ dispatcher[d] # Idle
                    /\ dispatcher[d].step \in {"publish", "record", "failed"}
                    /\ dispatcher[d].event \in Events
                    /\ dispatcher[d].seen \in 0 .. MaxAttempts - 1
           /\ \A w \in Consumers :
                 \/ /\ consumer[w] = Waiting
                    /\ consumer[w].step = "idle"
                    /\ consumer[w].copy = Nothing
                 \/ /\ consumer[w] # Waiting
                    /\ consumer[w].step \in
                         {"read", "handle", "recheck", "resolve"} \cup Writes
                    /\ consumer[w].copy \in Copies
                    /\ consumer[w].sawStatus \in Open \cup {"absent"}
                    /\ consumer[w].sawAttempts \in 0 .. MaxAttempts - 1
           /\ \A c \in Copies :
                 \/ copy[c] = NoCopy /\ copy[c].event = Nothing
                 \/ /\ copy[c] # NoCopy
                    /\ copy[c].event \in Events
                    /\ \/ copy[c].queue = "main"
                            /\ copy[c].tries \in 0 .. MaxRetries
                       \/ copy[c].queue = "dlq"
                            /\ copy[c].tries \in 0 .. MaxDlqRetries
<1>1. ASSUME NEW d \in Dispatchers
      PROVE  \/ dispatcher[d] = Idle /\ dispatcher[d].step = "idle"
             \/ /\ dispatcher[d] # Idle
                /\ dispatcher[d].step \in {"publish", "record", "failed"}
                /\ dispatcher[d].event \in Events
                /\ dispatcher[d].seen \in 0 .. MaxAttempts - 1
  <2>1. dispatcher[d] \in Dispatches
    BY DEF TypeOK
  <2> QED
    BY <2>1 DEF Dispatches, Idle
<1>2. ASSUME NEW w \in Consumers
      PROVE  \/ /\ consumer[w] = Waiting
                /\ consumer[w].step = "idle"
                /\ consumer[w].copy = Nothing
             \/ /\ consumer[w] # Waiting
                /\ consumer[w].step \in
                     {"read", "handle", "recheck", "resolve"} \cup Writes
                /\ consumer[w].copy \in Copies
                /\ consumer[w].sawStatus \in Open \cup {"absent"}
                /\ consumer[w].sawAttempts \in 0 .. MaxAttempts - 1
  <2>1. consumer[w] \in Consumptions
    BY DEF TypeOK
  <2> QED
    BY <2>1 DEF Consumptions, Waiting, Writes
<1>3. ASSUME NEW c \in Copies
      PROVE  \/ copy[c] = NoCopy /\ copy[c].event = Nothing
             \/ /\ copy[c] # NoCopy
                /\ copy[c].event \in Events
                /\ \/ copy[c].queue = "main" /\ copy[c].tries \in 0 .. MaxRetries
                   \/ copy[c].queue = "dlq"
                        /\ copy[c].tries \in 0 .. MaxDlqRetries
  <2>1. copy[c] \in Messages
    BY DEF TypeOK
  <2> QED
    BY <2>1 DEF Messages, NoCopy
<1> QED
  BY <1>1, <1>2, <1>3

\* The initial state is well typed.
LEMMA InitType == Init => TypeOK
<1> SUFFICES ASSUME Init PROVE TypeOK
  OBVIOUS
<1> USE OutboxParameters
<1>1. /\ status \in [Events -> {"absent"} \cup Open \cup Terminal]
      /\ attempts \in [Events -> 0 .. MaxAttempts]
      /\ \A e \in Events : status[e] \notin Terminal => attempts[e] < MaxAttempts
      /\ due \in [Events -> BOOLEAN]
      /\ faults \in 0 .. MaxFaults
  BY DEF Init, Open, Terminal
<1>2. /\ copy \in [Copies -> Messages]
      /\ dispatcher \in [Dispatchers -> Dispatches]
      /\ consumer \in [Consumers -> Consumptions]
      /\ handled \subseteq Events
      /\ dropped \subseteq Events
  BY DEF Init, Messages, Dispatches, Consumptions
<1> QED
  BY <1>1, <1>2 DEF TypeOK

\* The row part and the message part of the type invariant.
RowsOK ==
    /\ status \in [Events -> {"absent"} \cup Open \cup Terminal]
    /\ attempts \in [Events -> 0 .. MaxAttempts]
    /\ \A e \in Events : status[e] \notin Terminal => attempts[e] < MaxAttempts
    /\ due \in [Events -> BOOLEAN]

MessagesOK ==
    /\ copy \in [Copies -> Messages]
    /\ consumer \in [Consumers -> Consumptions]
    /\ dropped \subseteq Events

\* What one step may do to the row of an event: nothing, commit it, mark it
\* queued, record a failed attempt, or close it.
RowMove(e) ==
    \/ status'[e] = status[e] /\ attempts'[e] = attempts[e]
    \/ /\ status[e] = "absent" /\ status'[e] = "pending"
       /\ attempts'[e] = attempts[e]
    \/ /\ status[e] = "pending" /\ status'[e] = "queued"
       /\ attempts'[e] = attempts[e]
    \/ /\ status[e] \in Open /\ status'[e] \in {"pending", "dead_letter"}
       /\ attempts'[e] = attempts[e] + 1
    \/ /\ status[e] \in Open /\ status'[e] \in Terminal
       /\ attempts'[e] = attempts[e]

\* A recorded failure leaves a well-typed row.
LEMMA BackoffMoves ==
    ASSUME RowsOK, NEW e \in Events, status[e] \in Open, Backoff(e)
    PROVE  RowsOK' /\ \A f \in Events : RowMove(f)
<1> USE OutboxParameters
<1>1. attempts[e] \in 0 .. MaxAttempts - 1
  BY DEF RowsOK, Open, Terminal
<1>2. attempts' \in [Events -> 0 .. MaxAttempts]
  BY <1>1 DEF RowsOK, Backoff
<1>3. /\ status' \in [Events -> {"absent"} \cup Open \cup Terminal]
      /\ due' \in [Events -> BOOLEAN]
  BY DEF RowsOK, Backoff, Open, Terminal
<1>4. \A f \in Events : status'[f] \notin Terminal => attempts'[f] < MaxAttempts
  BY <1>1, <1>2, <1>3 DEF RowsOK, Backoff, Terminal
<1>5. \A f \in Events : RowMove(f)
  BY <1>1, <1>2, <1>3 DEF RowsOK, Backoff, RowMove
<1> QED
  BY <1>2, <1>3, <1>4, <1>5 DEF RowsOK

\* So does a closed one.
LEMMA CloseMoves ==
    ASSUME RowsOK, NEW e \in Events, status[e] \in Open,
           NEW out \in Terminal, Close(e, out)
    PROVE  RowsOK' /\ \A f \in Events : RowMove(f)
<1>1. RowsOK'
  BY DEF RowsOK, Close, Open, Terminal
<1>2. \A f \in Events : RowMove(f)
  BY DEF RowsOK, Close, RowMove
<1> QED
  BY <1>1, <1>2

\* The write at the end of a dispatch.
LEMMA DispatchMoves ==
    ASSUME TypeOK, NEW d \in Dispatchers, DispatchWrite(d)
    PROVE  RowsOK' /\ \A f \in Events : RowMove(f)
<1> DEFINE e == dispatcher[d].event
<1>1. RowsOK
  BY DEF TypeOK, RowsOK
<1>2. e \in Events
  BY Shapes DEF DispatchWrite
<1>3. CASE UNCHANGED rows
  BY <1>1, <1>3 DEF RowsOK, rows, RowMove
<1>4. CASE Matches(e, "pending", dispatcher[d].seen) /\ Queued(d) /\ due[e]
  <2>1. RowsOK'
    BY <1>1, <1>2, <1>4 DEF RowsOK, Queued, Matches, Open, Terminal
  <2>2. \A f \in Events : RowMove(f)
    BY <1>1, <1>2, <1>4 DEF RowsOK, Queued, Matches, RowMove
  <2> QED
    BY <2>1, <2>2
<1>5. CASE Matches(e, "pending", dispatcher[d].seen) /\ SendFailed(d)
  <2>1. Backoff(e) /\ status[e] \in Open
    BY <1>5 DEF SendFailed, Matches, Open
  <2> QED
    BY <1>1, <1>2, <2>1, BackoffMoves
<1> QED
  BY <1>3, <1>4, <1>5 DEF DispatchWrite, Queued, SendFailed

\* The write at the end of a consumption.
LEMMA OutcomeMoves ==
    ASSUME TypeOK, Holding, AfterCommit, Snapshots,
           NEW w \in Consumers, Applies(w), Outcome(w)
    PROVE  RowsOK' /\ \A f \in Events : RowMove(f)
<1> DEFINE e == EventOf(w)
<1>1. RowsOK
  BY DEF TypeOK, RowsOK
<1>2. e \in Events
  BY Shapes DEF Holding, EventOf, Applies
<1>3. status[e] \in Open
  BY DEF Applies, Snapshots, Matches
<1>4. CASE Close(e, "delivered") \/ Close(e, "dead_letter")
  BY <1>1, <1>2, <1>3, <1>4, CloseMoves DEF Terminal
<1>5. CASE Backoff(e)
  BY <1>1, <1>2, <1>3, <1>5, BackoffMoves
<1> QED
  BY <1>4, <1>5 DEF Outcome

\* Every step moves every row as RowMove says.
LEMMA RowMoves ==
    ASSUME TypeOK, Holding, AfterCommit, Snapshots, [Next]_vars
    PROVE  RowsOK' /\ \A f \in Events : RowMove(f)
<1>1. RowsOK
  BY DEF TypeOK, RowsOK
<1>2. CASE UNCHANGED rows
  BY <1>1, <1>2 DEF RowsOK, rows, RowMove
<1>3. ASSUME NEW e \in Events, Commit(e) \/ BecomeDue(e)
      PROVE  RowsOK' /\ \A f \in Events : RowMove(f)
  <2>1. CASE Commit(e)
    <3>1. attempts[e] \in 0 .. MaxAttempts
      BY <1>1 DEF RowsOK
    <3>2. RowsOK'
      BY <1>1, <2>1, <3>1 DEF RowsOK, Commit, Open, Terminal
    <3>3. \A f \in Events : RowMove(f)
      BY <1>1, <2>1 DEF RowsOK, Commit, RowMove
    <3> QED
      BY <3>2, <3>3
  <2>2. CASE BecomeDue(e)
    BY <1>1, <2>2 DEF RowsOK, BecomeDue, RowMove
  <2> QED
    BY <1>3, <2>1, <2>2
<1>4. ASSUME NEW d \in Dispatchers, Dispatch(d)
      PROVE  RowsOK' /\ \A f \in Events : RowMove(f)
  BY <1>2, <1>4, DispatchMoves
     DEF Dispatch, Select, Publish, Record, DispatchLost
<1>5. ASSUME NEW w \in Consumers, Consume(w)
      PROVE  RowsOK' /\ \A f \in Events : RowMove(f)
  BY <1>2, <1>5, OutcomeMoves
     DEF Consume, Deliver, Read, Handle, Write, ReadAgain, ConsumerLost
<1>6. ASSUME NEW c \in Copies, NEW d \in Copies, Duplicate(c, d)
      PROVE  RowsOK' /\ \A f \in Events : RowMove(f)
  BY <1>2, <1>6 DEF Duplicate
<1> QED
  BY <1>2, <1>3, <1>4, <1>5, <1>6 DEF Next, Environment, vars, rows

-----------------------------------------------------------------------------
(***************************************************************************)
(* Messages and who holds them.                                            *)
(***************************************************************************)
\* What one step may do to a message: keep its event, remove it, or send a new
\* one for a committed event.
CopyMove(c) ==
    \/ copy'[c].event = copy[c].event
    \/ copy'[c] = NoCopy
    \/ /\ copy[c] = NoCopy /\ copy'[c].event \in Events
       /\ status[copy'[c].event] # "absent"

Carrying == MessagesOK' /\ Holding' /\ \A c \in Copies : CopyMove(c)

\* A consumer that goes on keeps its message.
LEMMA GotoHolds ==
    ASSUME TypeOK, Holding, NEW w \in Consumers, consumer[w].step # "idle",
           NEW seen \in Consumptions, seen.step # "idle",
           seen.copy = consumer[w].copy,
           consumer' = [consumer EXCEPT ![w] = seen], UNCHANGED <<copy, dropped>>
    PROVE  Carrying
<1>1. MessagesOK'
  BY DEF TypeOK, MessagesOK
<1>2. \A v \in Consumers :
         /\ consumer'[v].copy = consumer[v].copy
         /\ consumer'[v].step # "idle" <=> consumer[v].step # "idle"
  BY DEF TypeOK
<1>3. Holding'
  BY <1>2 DEF Holding
<1> QED
  BY <1>1, <1>3 DEF Carrying, CopyMove

\* An acknowledged message is gone, and its consumer holds nothing.
LEMMA AckHolds ==
    ASSUME TypeOK, Holding, NEW w \in Consumers, consumer[w].step # "idle",
           Ack(w)
    PROVE  Carrying
<1> DEFINE c == consumer[w].copy
<1>1. c \in Copies
  BY Shapes
<1>2. /\ copy' = [copy EXCEPT ![c] = NoCopy]
      /\ consumer' = [consumer EXCEPT ![w] = Waiting]
      /\ dropped' = dropped
  BY DEF Ack
<1>3. MessagesOK'
  BY <1>1, <1>2 DEF TypeOK, MessagesOK, Messages, Consumptions
<1>4. \A d \in Copies : CopyMove(d)
  BY <1>1, <1>2 DEF TypeOK, CopyMove
<1>5. \A v \in Consumers : v # w => consumer'[v] = consumer[v]
  BY <1>2 DEF TypeOK
<1>6. consumer'[w] = Waiting
  BY <1>2 DEF TypeOK
<1>7. Waiting.step = "idle" /\ Waiting.copy = Nothing
  BY DEF Waiting
<1>8. \A v \in Consumers : consumer'[v].step # "idle" =>
         /\ v # w
         /\ consumer[v].copy \in Copies
         /\ consumer[v].copy # c
  BY <1>5, <1>6, <1>7, Shapes DEF Holding
<1>9. \A v \in Consumers :
         consumer'[v].step # "idle" => copy'[consumer'[v].copy] # NoCopy
  BY <1>1, <1>2, <1>5, <1>8 DEF Holding, TypeOK
<1>10. \A v, x \in Consumers :
          consumer'[v].step # "idle" /\ consumer'[v].copy = consumer'[x].copy
             => v = x
  <2> SUFFICES ASSUME NEW v \in Consumers, NEW x \in Consumers,
                      consumer'[v].step # "idle",
                      consumer'[v].copy = consumer'[x].copy
               PROVE  v = x
    OBVIOUS
  <2>1. consumer[v].copy = consumer'[x].copy /\ consumer[v].step # "idle"
    BY <1>5, <1>8
  <2>2. x # w
    BY <1>6, <1>7, <1>8, <2>1, OutboxParameters
  <2> QED
    BY <1>5, <2>1, <2>2 DEF Holding
<1>11. Holding'
  BY <1>9, <1>10 DEF Holding
<1> QED
  BY <1>3, <1>4, <1>11 DEF Carrying

\* A message given back stays in a queue, unless the dead-letter queue has
\* delivered it for the last time.
LEMMA RetryHolds ==
    ASSUME TypeOK, Holding, NEW w \in Consumers, consumer[w].step # "idle",
           Retry(w)
    PROVE  /\ Carrying
           /\ \A d \in Copies : d # consumer[w].copy => copy'[d] = copy[d]
           /\ \/ copy'[consumer[w].copy].event = copy[consumer[w].copy].event
              \/ dropped' = dropped \cup {copy[consumer[w].copy].event}
           /\ dropped \subseteq dropped'
<1> DEFINE c == consumer[w].copy
           m == copy[c]
<1> USE OutboxParameters
<1>1. c \in Copies /\ m # NoCopy
  BY Shapes DEF Holding
<1>2. /\ m.event \in Events
      /\ \/ m.queue = "main" /\ m.tries \in 0 .. MaxRetries
         \/ m.queue = "dlq" /\ m.tries \in 0 .. MaxDlqRetries
  BY <1>1, Shapes
<1>3. m \in [event : Events, queue : {"main", "dlq"}, tries : Nat]
  BY <1>1 DEF TypeOK, Messages
<1>4. consumer' = [consumer EXCEPT ![w] = Waiting]
  BY DEF Retry
<1>5. /\ copy' \in [Copies -> Messages]
      /\ \A d \in Copies : d # c => copy'[d] = copy[d]
      /\ copy'[c].event = m.event \/ dropped' = dropped \cup {m.event}
      /\ dropped' = dropped \/ dropped' = dropped \cup {m.event}
      /\ copy'[c] = NoCopy \/ copy'[c].event = m.event
  <2>1. CASE m.queue = "main" /\ m.tries < MaxRetries
    <3>1. copy' = [copy EXCEPT ![c].tries = m.tries + 1] /\ dropped' = dropped
      BY <1>2, <2>1 DEF Retry
    <3>2. [m EXCEPT !.tries = m.tries + 1] \in Messages
      BY <1>2, <1>3, <2>1 DEF Messages
    <3> QED
      BY <1>1, <1>3, <3>1, <3>2 DEF TypeOK
  <2>2. CASE m.queue = "main" /\ m.tries = MaxRetries
    <3> DEFINE n == [event |-> m.event, queue |-> "dlq", tries |-> 0]
    <3>1. copy' = [copy EXCEPT ![c] = n] /\ dropped' = dropped
      BY <1>2, <2>2 DEF Retry
    <3>2. n \in Messages /\ n.event = m.event
      BY <1>2 DEF Messages
    <3> QED
      BY <1>1, <1>3, <3>1, <3>2 DEF TypeOK
  <2>3. CASE m.queue = "dlq" /\ m.tries < MaxDlqRetries
    <3>1. copy' = [copy EXCEPT ![c].tries = m.tries + 1] /\ dropped' = dropped
      BY <1>2, <2>3 DEF Retry
    <3>2. [m EXCEPT !.tries = m.tries + 1] \in Messages
      BY <1>2, <1>3, <2>3 DEF Messages
    <3> QED
      BY <1>1, <1>3, <3>1, <3>2 DEF TypeOK
  <2>4. CASE m.queue = "dlq" /\ m.tries = MaxDlqRetries
    <3>1. /\ copy' = [copy EXCEPT ![c] = NoCopy]
          /\ dropped' = dropped \cup {m.event}
      BY <1>2, <2>4 DEF Retry
    <3> QED
      BY <1>1, <3>1 DEF TypeOK, Messages
  <2> QED
    BY <1>2, <2>1, <2>2, <2>3, <2>4
<1>6. MessagesOK'
  BY <1>2, <1>4, <1>5 DEF TypeOK, MessagesOK, Consumptions
<1>7. \A d \in Copies : CopyMove(d)
  BY <1>1, <1>5 DEF CopyMove
<1>8. \A v \in Consumers : v # w => consumer'[v] = consumer[v]
  BY <1>4 DEF TypeOK
<1>9. consumer'[w] = Waiting
  BY <1>4 DEF TypeOK
<1>10. Waiting.step = "idle" /\ Waiting.copy = Nothing
  BY DEF Waiting
<1>11. \A v \in Consumers : consumer'[v].step # "idle" =>
          /\ v # w
          /\ consumer[v].copy \in Copies
          /\ consumer[v].copy # c
  BY <1>8, <1>9, <1>10, Shapes DEF Holding
<1>12. \A v \in Consumers :
          consumer'[v].step # "idle" => copy'[consumer'[v].copy] # NoCopy
  BY <1>5, <1>8, <1>11 DEF Holding
<1>13. \A v, x \in Consumers :
          consumer'[v].step # "idle" /\ consumer'[v].copy = consumer'[x].copy
             => v = x
  <2> SUFFICES ASSUME NEW v \in Consumers, NEW x \in Consumers,
                      consumer'[v].step # "idle",
                      consumer'[v].copy = consumer'[x].copy
               PROVE  v = x
    OBVIOUS
  <2>1. consumer[v].copy = consumer'[x].copy /\ consumer[v].step # "idle"
    BY <1>8, <1>11
  <2>2. x # w
    BY <1>9, <1>10, <1>11, <2>1
  <2> QED
    BY <1>8, <2>1, <2>2 DEF Holding
<1>14. Holding'
  BY <1>12, <1>13 DEF Holding
<1> QED
  BY <1>5, <1>6, <1>7, <1>14 DEF Carrying

\* The shapes of a consumer that has moved on to another step.
LEMMA Onward ==
    ASSUME TypeOK, NEW w \in Consumers, consumer[w].step # "idle",
           NEW s \in {"read", "handle", "recheck", "resolve"} \cup Writes
    PROVE  /\ [consumer EXCEPT ![w].step = s]
                = [consumer EXCEPT ![w] = [consumer[w] EXCEPT !.step = s]]
           /\ [consumer[w] EXCEPT !.step = s] \in Consumptions
           /\ [consumer[w] EXCEPT !.step = s].step = s
           /\ [consumer[w] EXCEPT !.step = s].copy = consumer[w].copy
<1>1. consumer[w] \in
        [step : {"read", "handle", "recheck", "resolve"} \cup Writes,
         copy : Copies, sawStatus : Open \cup {"absent"},
         sawAttempts : 0 .. MaxAttempts - 1]
  BY DEF TypeOK, Consumptions, Waiting
<1> QED
  BY <1>1 DEF Consumptions

\* Every step keeps the messages well typed, and holds them one by one.
LEMMA MessageStep ==
    ASSUME TypeOK, Holding, AfterCommit, [Next]_vars
    PROVE  Carrying
<1>1. CASE UNCHANGED <<copy, consumer, dropped>>
  BY <1>1 DEF TypeOK, MessagesOK, Carrying, Holding, CopyMove
<1>2. ASSUME NEW w \in Consumers, consumer[w].step # "idle",
             NEW s \in {"read", "handle", "recheck", "resolve"} \cup Writes,
             Goto(w, s), UNCHANGED <<copy, dropped>>
      PROVE  Carrying
  <2> DEFINE seen == [consumer[w] EXCEPT !.step = s]
  <2>1. /\ consumer' = [consumer EXCEPT ![w] = seen]
        /\ seen \in Consumptions
        /\ seen.step = s /\ seen.copy = consumer[w].copy
    BY <1>2, Onward DEF Goto
  <2>2. s # "idle"
    BY DEF Writes
  <2> HIDE DEF seen
  <2> QED
    BY <1>2, <2>1, <2>2, GotoHolds
<1>3. ASSUME NEW d \in Dispatchers, Dispatch(d)
      PROVE  Carrying
  <2>1. CASE Publish(d)
    <3>1. dispatcher[d].event \in Events /\ dispatcher[d].step # "idle"
      BY <2>1, Shapes DEF Publish
    <3>2. ASSUME NEW c \in Copies, Send(c, dispatcher[d].event)
          PROVE  Carrying
      <4> DEFINE m == [event |-> dispatcher[d].event, queue |-> "main",
                       tries |-> 0]
      <4>1. m \in Messages /\ m # NoCopy
        BY <3>1, OutboxParameters DEF Messages, NoCopy
      <4>2. copy' = [copy EXCEPT ![c] = m] /\ copy[c] = NoCopy
        BY <3>2 DEF Send
      <4>3. MessagesOK'
        BY <2>1, <4>1, <4>2 DEF TypeOK, MessagesOK, Publish
      <4>4. Holding'
        BY <2>1, <4>1, <4>2 DEF TypeOK, Holding, Publish
      <4>5. \A x \in Copies : CopyMove(x)
        BY <3>1, <4>2 DEF TypeOK, CopyMove, AfterCommit
      <4> QED
        BY <4>3, <4>4, <4>5 DEF Carrying
    <3> QED
      BY <1>1, <2>1, <3>2 DEF Publish
  <2> QED
    BY <1>1, <1>3, <2>1 DEF Dispatch, Select, Record, DispatchLost
<1>4. ASSUME NEW w \in Consumers, Consume(w)
      PROVE  Carrying
  <2>1. ASSUME NEW c \in Copies, Deliver(w, c)
        PROVE  Carrying
    <3> DEFINE seen == [step |-> "read", copy |-> c, sawStatus |-> "absent",
                        sawAttempts |-> 0]
    <3>1. seen \in Consumptions /\ seen.step = "read" /\ seen.copy = c
      BY OutboxParameters DEF Consumptions
    <3>2. consumer' = [consumer EXCEPT ![w] = seen]
      BY <2>1 DEF Deliver
    <3> HIDE DEF seen
    <3>0. UNCHANGED <<copy, dropped>> /\ copy[c] # NoCopy
      BY <2>1 DEF Deliver
    <3>3. MessagesOK'
      BY <3>1, <3>2, <3>0 DEF TypeOK, MessagesOK
    <3>4. \A v \in Consumers : consumer[v].copy # c
      BY <2>1 DEF Deliver, Held
    <3>5. /\ consumer'[w] = seen
          /\ \A v \in Consumers : v # w => consumer'[v] = consumer[v]
      BY <3>2 DEF TypeOK
    <3>6. Holding'
      BY <3>1, <3>4, <3>5, <3>0 DEF Holding
    <3> QED
      BY <3>3, <3>6, <3>0 DEF Carrying, CopyMove
  <2>2. CASE Read(w)
    <3>1. consumer[w].step # "idle"
      BY <2>2 DEF Read
    <3>2. CASE Ack(w)
      BY <3>1, <3>2, AckHolds
    <3>3. CASE Goto(w, "bury") /\ UNCHANGED <<copy, dropped>>
      BY <1>2, <3>1, <3>3 DEF Writes
    <3>4. ASSUME copy[consumer[w].copy].queue = "main",
                 status[EventOf(w)] \notin Terminal,
                 consumer' = [consumer EXCEPT
                                 ![w].step = "handle",
                                 ![w].sawStatus = status[EventOf(w)],
                                 ![w].sawAttempts = attempts[EventOf(w)]],
                 UNCHANGED <<copy, dropped>>
          PROVE  Carrying
      <4> DEFINE e == EventOf(w)
                 seen == [consumer[w] EXCEPT !.step = "handle",
                                             !.sawStatus = status[e],
                                             !.sawAttempts = attempts[e]]
      <4>1. e \in Events
        BY <3>1, Shapes DEF EventOf, Holding
      <4>2. status[e] \in Open \cup {"absent"}
        BY <3>4, <4>1 DEF TypeOK
      <4>3. attempts[e] \in 0 .. MaxAttempts - 1
        BY <3>4, <4>1, OutboxParameters DEF TypeOK
      <4>4. consumer[w] \in
              [step : {"read", "handle", "recheck", "resolve"} \cup Writes,
               copy : Copies, sawStatus : Open \cup {"absent"},
               sawAttempts : 0 .. MaxAttempts - 1]
        BY <3>1 DEF TypeOK, Consumptions, Waiting
      <4>5. /\ seen \in Consumptions
            /\ seen.step = "handle" /\ seen.copy = consumer[w].copy
        BY <4>2, <4>3, <4>4 DEF Consumptions
      <4>6. consumer' = [consumer EXCEPT ![w] = seen]
        BY <3>4 DEF TypeOK
      <4> HIDE DEF seen
      <4> QED
        BY <3>1, <3>4, <4>5, <4>6, GotoHolds
    <3> QED
      BY <2>2, <3>2, <3>3, <3>4 DEF Read
  <2>3. CASE Handle(w)
    BY <1>2, <2>3 DEF Handle
  <2>4. CASE Write(w)
    <3>1. consumer[w].step # "idle"
      BY <2>4 DEF Write, Writes
    <3>2. CASE Ack(w)
      BY <3>1, <3>2, AckHolds
    <3>3. ASSUME NEW s \in {"recheck", "resolve"}, Goto(w, s),
                 UNCHANGED <<copy, dropped>>
          PROVE  Carrying
      BY <1>2, <3>1, <3>3
    <3> QED
      BY <2>4, <3>2, <3>3 DEF Write
  <2>5. CASE ReadAgain(w) \/ ConsumerLost(w)
    <3>1. consumer[w].step # "idle"
      <4>1. CASE ReadAgain(w)
        BY <4>1 DEF ReadAgain
      <4>2. CASE ConsumerLost(w)
        BY <4>2, Shapes DEF ConsumerLost, Writes
      <4> QED
        BY <2>5, <4>1, <4>2
    <3>2. Ack(w) \/ Retry(w)
      BY <2>5 DEF ReadAgain, ConsumerLost
    <3> QED
      BY <3>1, <3>2, AckHolds, RetryHolds
  <2> QED
    BY <1>4, <2>1, <2>2, <2>3, <2>4, <2>5 DEF Consume
<1>5. ASSUME NEW c \in Copies, NEW d \in Copies, Duplicate(c, d)
      PROVE  Carrying
  <2>1. copy[c] # NoCopy /\ copy[d] = NoCopy /\ copy' = [copy EXCEPT ![d] = copy[c]]
    BY <1>5 DEF Duplicate
  <2>2. copy[c].event \in Events /\ status[copy[c].event] # "absent"
    BY <2>1, Shapes DEF AfterCommit
  <2>3. MessagesOK'
    BY <1>5, <2>1 DEF TypeOK, MessagesOK, Duplicate
  <2>4. Holding'
    BY <1>5, <2>1 DEF TypeOK, Holding, Duplicate
  <2> QED
    BY <2>1, <2>2, <2>3, <2>4 DEF TypeOK, Carrying, CopyMove
<1>6. ASSUME NEW e \in Events, Commit(e) \/ BecomeDue(e)
      PROVE  Carrying
  BY <1>1, <1>6 DEF Commit, BecomeDue
<1> QED
  BY <1>1, <1>3, <1>4, <1>5, <1>6 DEF Next, Environment, vars

-----------------------------------------------------------------------------
(***************************************************************************)
(* What one step may do to a dispatch and to a consumer.                   *)
(***************************************************************************)
\* A dispatch ends, goes on with its snapshot, or takes one of a pending row.
DispatcherMove(d) ==
    \/ dispatcher'[d] = Idle
    \/ dispatcher'[d] = dispatcher[d]
    \/ /\ dispatcher[d].step = "publish"
       /\ dispatcher'[d].step \in {"record", "failed"}
       /\ dispatcher'[d].event = dispatcher[d].event
       /\ dispatcher'[d].seen = dispatcher[d].seen
       /\ UNCHANGED rows
       /\ dispatcher'[d].step = "record" =>
            \E c \in Copies :
               /\ copy[c] = NoCopy
               /\ copy'[c].event = dispatcher[d].event
               /\ UNCHANGED consumer
    \/ /\ dispatcher'[d].step = "publish"
       /\ dispatcher'[d].event \in Events
       /\ dispatcher'[d].seen = attempts[dispatcher'[d].event]
       /\ status[dispatcher'[d].event] = "pending"
       /\ UNCHANGED rows

DispatchersOK == dispatcher \in [Dispatchers -> Dispatches]

\* Every step moves every dispatch that way.
LEMMA DispatcherMoves ==
    ASSUME TypeOK, [Next]_vars
    PROVE  DispatchersOK' /\ \A d \in Dispatchers : DispatcherMove(d)
<1>1. CASE UNCHANGED dispatcher
  BY <1>1 DEF TypeOK, DispatchersOK, DispatcherMove
<1>2. ASSUME NEW d \in Dispatchers, Dispatch(d)
      PROVE  DispatchersOK' /\ \A x \in Dispatchers : DispatcherMove(x)
  <2>1. ASSUME NEW e \in Events, Select(d, e)
        PROVE  DispatchersOK' /\ \A x \in Dispatchers : DispatcherMove(x)
    <3> DEFINE snap == [step |-> "publish", event |-> e, seen |-> attempts[e]]
    <3>1. dispatcher' = [dispatcher EXCEPT ![d] = snap]
      BY <2>1 DEF Select
    <3>2. status[e] = "pending" /\ UNCHANGED rows
      BY <2>1 DEF Select
    <3>3. attempts[e] \in 0 .. MaxAttempts - 1
      BY <3>2, OutboxParameters DEF TypeOK, Terminal
    <3>4. snap \in Dispatches
      BY <3>3 DEF Dispatches
    <3>5. DispatchersOK'
      BY <3>1, <3>4 DEF TypeOK, DispatchersOK
    <3>6. dispatcher'[d] = snap
          /\ \A x \in Dispatchers : x # d => dispatcher'[x] = dispatcher[x]
      BY <3>1 DEF TypeOK
    <3> QED
      BY <3>2, <3>5, <3>6 DEF DispatcherMove
  <2>2. CASE Publish(d)
    <3>1. dispatcher[d] \in [step : {"publish", "record", "failed"},
                             event : Events, seen : 0 .. MaxAttempts - 1]
      BY <2>2 DEF TypeOK, Publish, Dispatches, Idle
    <3>2. PICK answer \in {"record", "failed"} :
             /\ dispatcher' = [dispatcher EXCEPT ![d].step = answer]
             /\ answer = "record" =>
                   \E c \in Copies : Send(c, dispatcher[d].event)
      BY <2>2 DEF Publish
    <3> DEFINE next == [dispatcher[d] EXCEPT !.step = answer]
    <3>3. dispatcher' = [dispatcher EXCEPT ![d] = next]
      BY <3>2 DEF TypeOK
    <3>4. /\ next \in Dispatches
          /\ next.step = answer
          /\ next.event = dispatcher[d].event
          /\ next.seen = dispatcher[d].seen
      BY <3>1 DEF Dispatches
    <3> HIDE DEF next
    <3>5. DispatchersOK'
      BY <3>3, <3>4 DEF TypeOK, DispatchersOK
    <3>6. dispatcher'[d] = next
          /\ \A x \in Dispatchers : x # d => dispatcher'[x] = dispatcher[x]
      BY <3>3 DEF TypeOK
    <3>7. answer = "record" =>
             \E c \in Copies : /\ copy[c] = NoCopy
                               /\ copy'[c].event = dispatcher[d].event
      BY <3>2 DEF Send, TypeOK
    <3>8. UNCHANGED <<rows, consumer>> /\ dispatcher[d].step = "publish"
      BY <2>2 DEF Publish
    <3>9. DispatcherMove(d)
      BY <3>4, <3>6, <3>7, <3>8 DEF DispatcherMove
    <3> QED
      BY <3>5, <3>6, <3>9 DEF DispatcherMove
  <2>3. CASE Record(d) \/ DispatchLost(d)
    <3>1. dispatcher' = [dispatcher EXCEPT ![d] = Idle]
      BY <2>3 DEF Record, DispatchLost
    <3>2. DispatchersOK'
      BY <3>1 DEF TypeOK, DispatchersOK, Dispatches
    <3> QED
      BY <3>1, <3>2 DEF TypeOK, DispatcherMove
  <2> QED
    BY <1>2, <2>1, <2>2, <2>3 DEF Dispatch
<1>3. ASSUME NEW w \in Consumers, Consume(w)
      PROVE  UNCHANGED dispatcher
  BY <1>3 DEF Consume, Deliver, Read, Handle, Write, ReadAgain, ConsumerLost
<1>4. ASSUME NEW e \in Events, Commit(e) \/ BecomeDue(e)
      PROVE  UNCHANGED dispatcher
  BY <1>4 DEF Commit, BecomeDue
<1>5. ASSUME NEW c \in Copies, NEW d \in Copies, Duplicate(c, d)
      PROVE  UNCHANGED dispatcher
  BY <1>5 DEF Duplicate
<1> QED
  BY <1>1, <1>2, <1>3, <1>4, <1>5 DEF Next, Environment, vars

\* A consumer holds on to its message, and its message to its event.
Kept(w) ==
    /\ consumer[w].step # "idle"
    /\ consumer'[w].copy = consumer[w].copy
    /\ copy'[consumer[w].copy].event = copy[consumer[w].copy].event

Remembers(w) ==
    /\ consumer'[w].sawStatus = consumer[w].sawStatus
    /\ consumer'[w].sawAttempts = consumer[w].sawAttempts

\* A consumer waits, starts to read, or goes one step on with its message.
ConsumerMove(w) ==
    \/ consumer'[w].step \in {"idle", "read"}
    \/ Kept(w) /\ consumer'[w] = consumer[w]
    \/ Kept(w) /\ consumer[w].step = "read" /\ consumer'[w].step = "bury"
    \/ /\ Kept(w) /\ consumer[w].step = "read" /\ consumer'[w].step = "handle"
       /\ consumer'[w].sawStatus = status[EventOf(w)]
       /\ consumer'[w].sawAttempts = attempts[EventOf(w)]
       /\ status[EventOf(w)] \notin Terminal
       /\ UNCHANGED rows
    \/ /\ Kept(w) /\ consumer[w].step = "handle" /\ consumer'[w].step \in Writes
       /\ Remembers(w)
       /\ consumer'[w].step = "delivered" => EventOf(w) \in handled'
       /\ UNCHANGED rows
    \/ Kept(w) /\ consumer'[w].step = "recheck"
    \/ /\ Kept(w) /\ consumer[w].step \in {"bury", "retry"}
       /\ consumer'[w].step = "resolve"
       /\ ~Applies(w)
       /\ UNCHANGED rows

\* A step that lets other consumers and their messages alone keeps them.
LEMMA OthersKept ==
    ASSUME TypeOK, Holding, NEW v \in Consumers, NEW w \in Consumers, v # w,
           \A x \in Copies : x # consumer[v].copy => copy'[x] = copy[x],
           consumer'[w] = consumer[w]
    PROVE  ConsumerMove(w)
<1>1. CASE consumer[w].step = "idle"
  BY <1>1 DEF ConsumerMove
<1>2. CASE consumer[w].step # "idle"
  <2>1. consumer[w].copy \in Copies
    BY <1>2, Shapes
  <2>2. consumer[w].copy # consumer[v].copy
    BY <1>2 DEF Holding
  <2> QED
    BY <1>2, <2>1, <2>2 DEF ConsumerMove, Kept
<1> QED
  BY <1>1, <1>2

\* A consumer that takes a step of its own leaves the others as they are.
LEMMA OwnStep ==
    ASSUME TypeOK, Holding, NEW v \in Consumers, NEW seen \in Consumptions,
           consumer' = [consumer EXCEPT ![v] = seen],
           \A x \in Copies : x # consumer[v].copy => copy'[x] = copy[x],
           consumer'[v] = seen => ConsumerMove(v)
    PROVE  \A w \in Consumers : ConsumerMove(w)
<1>1. consumer'[v] = seen
  BY DEF TypeOK
<1>2. \A w \in Consumers : w # v => consumer'[w] = consumer[w]
  BY DEF TypeOK
<1> QED
  BY <1>1, <1>2, OthersKept

\* Every step moves every consumer as ConsumerMove says.
LEMMA ConsumerMoves ==
    ASSUME TypeOK, Holding, [Next]_vars
    PROVE  \A w \in Consumers : ConsumerMove(w)
<1>1. ASSUME UNCHANGED consumer,
             \A c \in Copies : copy[c] # NoCopy => copy'[c] = copy[c]
      PROVE  \A w \in Consumers : ConsumerMove(w)
  <2> SUFFICES ASSUME NEW w \in Consumers PROVE ConsumerMove(w)
    OBVIOUS
  <2> QED
    BY <1>1, Shapes DEF ConsumerMove, Kept, Holding
<1>2. Waiting \in Consumptions /\ Waiting.step = "idle"
  BY DEF Consumptions, Waiting
<1>3. ASSUME NEW v \in Consumers, consumer[v].step # "idle",
             consumer' = [consumer EXCEPT ![v] = Waiting],
             \A x \in Copies : x # consumer[v].copy => copy'[x] = copy[x]
      PROVE  \A w \in Consumers : ConsumerMove(w)
  BY <1>2, <1>3, OwnStep DEF ConsumerMove
<1>4. ASSUME NEW v \in Consumers, consumer[v].step # "idle", Ack(v) \/ Retry(v)
      PROVE  \A w \in Consumers : ConsumerMove(w)
  <2>1. consumer' = [consumer EXCEPT ![v] = Waiting]
    BY <1>4 DEF Ack, Retry
  <2>2. \A x \in Copies : x # consumer[v].copy => copy'[x] = copy[x]
    BY <1>4, RetryHolds DEF Ack, TypeOK
  <2> QED
    BY <1>3, <1>4, <2>1, <2>2
<1>5. ASSUME NEW v \in Consumers, consumer[v].step # "idle",
             NEW s \in {"read", "handle", "recheck", "resolve"} \cup Writes,
             Goto(v, s), UNCHANGED copy,
             /\ Kept(v) /\ consumer'[v].step = s /\ Remembers(v)
             => ConsumerMove(v)
      PROVE  \A w \in Consumers : ConsumerMove(w)
  <2> DEFINE seen == [consumer[v] EXCEPT !.step = s]
  <2>1. /\ consumer' = [consumer EXCEPT ![v] = seen]
        /\ seen \in Consumptions
        /\ seen.step = s /\ seen.copy = consumer[v].copy
    BY <1>5, Onward DEF Goto
  <2>2. /\ seen.sawStatus = consumer[v].sawStatus
        /\ seen.sawAttempts = consumer[v].sawAttempts
    OBVIOUS
  <2> HIDE DEF seen
  <2>3. consumer'[v] = seen => ConsumerMove(v)
    BY <1>5, <2>1, <2>2 DEF Kept, Remembers
  <2> QED
    BY <1>5, <2>1, <2>3, OwnStep
<1>6. ASSUME NEW v \in Consumers, Consume(v)
      PROVE  \A w \in Consumers : ConsumerMove(w)
  <2>1. ASSUME NEW c \in Copies, Deliver(v, c)
        PROVE  \A w \in Consumers : ConsumerMove(w)
    <3> DEFINE seen == [step |-> "read", copy |-> c, sawStatus |-> "absent",
                        sawAttempts |-> 0]
    <3>1. seen \in Consumptions /\ seen.step = "read"
      BY OutboxParameters DEF Consumptions
    <3>2. consumer' = [consumer EXCEPT ![v] = seen] /\ UNCHANGED copy
      BY <2>1 DEF Deliver
    <3> HIDE DEF seen
    <3> QED
      BY <3>1, <3>2, OwnStep DEF ConsumerMove
  <2>2. CASE Read(v)
    <3>1. consumer[v].step = "read" /\ UNCHANGED rows
      BY <2>2 DEF Read
    <3>2. CASE Ack(v)
      BY <1>4, <3>1, <3>2
    <3>3. CASE Goto(v, "bury") /\ UNCHANGED <<copy, dropped>>
      <4>1. Kept(v) /\ consumer'[v].step = "bury" => ConsumerMove(v)
        BY <3>1 DEF ConsumerMove
      <4> QED
        BY <1>5, <3>1, <3>3, <4>1 DEF Writes
    <3>4. ASSUME status[EventOf(v)] \notin Terminal,
                 consumer' = [consumer EXCEPT
                                 ![v].step = "handle",
                                 ![v].sawStatus = status[EventOf(v)],
                                 ![v].sawAttempts = attempts[EventOf(v)]],
                 UNCHANGED <<copy, dropped>>
          PROVE  \A w \in Consumers : ConsumerMove(w)
      <4> DEFINE e == EventOf(v)
                 seen == [consumer[v] EXCEPT !.step = "handle",
                                             !.sawStatus = status[e],
                                             !.sawAttempts = attempts[e]]
      <4>1. e \in Events
        BY <3>1, Shapes DEF EventOf, Holding
      <4>2. status[e] \in Open \cup {"absent"}
        BY <3>4, <4>1 DEF TypeOK
      <4>3. attempts[e] \in 0 .. MaxAttempts - 1
        BY <3>4, <4>1, OutboxParameters DEF TypeOK
      <4>4. consumer[v] \in
              [step : {"read", "handle", "recheck", "resolve"} \cup Writes,
               copy : Copies, sawStatus : Open \cup {"absent"},
               sawAttempts : 0 .. MaxAttempts - 1]
        BY <3>1 DEF TypeOK, Consumptions, Waiting
      <4>5. /\ seen \in Consumptions
            /\ seen.step = "handle" /\ seen.copy = consumer[v].copy
            /\ seen.sawStatus = status[e] /\ seen.sawAttempts = attempts[e]
        BY <4>2, <4>3, <4>4 DEF Consumptions
      <4>6. consumer' = [consumer EXCEPT ![v] = seen]
        BY <3>4 DEF TypeOK
      <4> HIDE DEF seen
      <4>7. consumer'[v] = seen => ConsumerMove(v)
        BY <3>1, <3>4, <4>5 DEF ConsumerMove, Kept
      <4> QED
        BY <3>4, <4>5, <4>6, <4>7, OwnStep
    <3> QED
      BY <2>2, <3>2, <3>3, <3>4 DEF Read
  <2>3. CASE Handle(v)
    <3>1. PICK answer \in Writes :
             /\ Goto(v, answer)
             /\ handled' = IF answer = "delivered"
                           THEN handled \cup {EventOf(v)} ELSE handled
      BY <2>3 DEF Handle
    <3>2. consumer[v].step = "handle" /\ UNCHANGED <<rows, copy>>
      BY <2>3 DEF Handle
    <3>3. Kept(v) /\ consumer'[v].step = answer /\ Remembers(v)
             => ConsumerMove(v)
      BY <3>1, <3>2 DEF ConsumerMove
    <3> QED
      BY <1>5, <3>1, <3>2, <3>3
  <2>4. CASE Write(v)
    <3>1. consumer[v].step \in Writes /\ consumer[v].step # "idle"
      BY <2>4 DEF Write, Writes
    <3>2. CASE Ack(v)
      BY <1>4, <3>1, <3>2
    <3>3. ASSUME ~Applies(v), UNCHANGED <<rows, copy, dropped>>,
                 Goto(v, IF consumer[v].step = "delivered" THEN "recheck"
                                                           ELSE "resolve")
          PROVE  \A w \in Consumers : ConsumerMove(w)
      <4>1. CASE consumer[v].step = "delivered"
        <5>1. Kept(v) /\ consumer'[v].step = "recheck" => ConsumerMove(v)
          BY DEF ConsumerMove
        <5> QED
          BY <1>5, <3>1, <3>3, <4>1, <5>1
      <4>2. CASE consumer[v].step # "delivered"
        <5>1. Kept(v) /\ consumer'[v].step = "resolve" => ConsumerMove(v)
          BY <3>1, <3>3, <4>2 DEF ConsumerMove, Writes
        <5> QED
          BY <1>5, <3>1, <3>3, <4>2, <5>1
      <4> QED
        BY <4>1, <4>2
    <3> QED
      BY <2>4, <3>2, <3>3 DEF Write
  <2>5. CASE ReadAgain(v)
    BY <1>4, <2>5 DEF ReadAgain
  <2>6. CASE ConsumerLost(v)
    <3>1. consumer[v].step # "idle"
      BY <2>6, Shapes DEF ConsumerLost, Writes
    <3> QED
      BY <1>4, <2>6, <3>1 DEF ConsumerLost
  <2> QED
    BY <1>6, <2>1, <2>2, <2>3, <2>4, <2>5, <2>6 DEF Consume
<1>7. ASSUME NEW d \in Dispatchers, Dispatch(d)
      PROVE  \A w \in Consumers : ConsumerMove(w)
  <2>1. UNCHANGED consumer
    BY <1>7 DEF Dispatch, Select, Publish, Record, DispatchLost
  <2>2. \A c \in Copies : copy[c] # NoCopy => copy'[c] = copy[c]
    BY <1>7 DEF Dispatch, Select, Publish, Record, DispatchLost, Send, TypeOK
  <2> QED
    BY <1>1, <2>1, <2>2
<1>8. ASSUME NEW c \in Copies, NEW d \in Copies, Duplicate(c, d)
      PROVE  \A w \in Consumers : ConsumerMove(w)
  BY <1>1, <1>8 DEF Duplicate, TypeOK
<1>9. ASSUME NEW e \in Events, Commit(e) \/ BecomeDue(e)
      PROVE  \A w \in Consumers : ConsumerMove(w)
  BY <1>1, <1>9 DEF Commit, BecomeDue
<1>10. CASE UNCHANGED vars
  BY <1>1, <1>10 DEF vars
<1> QED
  BY <1>6, <1>7, <1>8, <1>9, <1>10 DEF Next, Environment

-----------------------------------------------------------------------------
(***************************************************************************)
(* The invariant holds initially and is kept by every step.                *)
(***************************************************************************)
\* What the next state looks like, from what this state looks like.
Settled ==
    /\ TypeOK'
    /\ Holding'
    /\ \A e \in Events : RowMove(e)
    /\ \A c \in Copies : CopyMove(c)
    /\ \A d \in Dispatchers : DispatcherMove(d)
    /\ \A w \in Consumers : ConsumerMove(w)
    /\ handled \subseteq handled' /\ dropped \subseteq dropped'

\* Every step keeps the types and moves each row, message, dispatch and
\* consumer as described above.
LEMMA StepMoves ==
    ASSUME IInv, [Next]_vars
    PROVE  Settled
<1> USE DEF IInv
<1>1. RowsOK' /\ \A e \in Events : RowMove(e)
  BY RowMoves
<1>2. MessagesOK' /\ Holding' /\ \A c \in Copies : CopyMove(c)
  BY MessageStep DEF Carrying
<1>3. DispatchersOK' /\ \A d \in Dispatchers : DispatcherMove(d)
  BY DispatcherMoves
<1>4. \A w \in Consumers : ConsumerMove(w)
  BY ConsumerMoves
<1>5. handled \subseteq handled' /\ handled' \subseteq Events
  <2>1. ASSUME NEW w \in Consumers, Handle(w)
        PROVE  handled \subseteq handled' /\ handled' \subseteq Events
    <3>1. EventOf(w) \in Events
      BY <2>1, Shapes DEF Handle, Holding, EventOf
    <3> QED
      BY <2>1, <3>1 DEF Handle, TypeOK
  <2>2. CASE UNCHANGED handled
    BY <2>2 DEF TypeOK
  <2> QED
    BY <2>1, <2>2
       DEF Next, Environment, Dispatch, Consume, Commit, BecomeDue, Select,
           Publish, Record, DispatchLost, Deliver, Duplicate, Read, Write,
           ReadAgain, ConsumerLost, vars
<1>6. dropped \subseteq dropped'
  BY DEF Next, Environment, Dispatch, Consume, Commit, BecomeDue, Select,
         Publish, Record, DispatchLost, Deliver, Duplicate, Read, Write, Handle,
         ReadAgain, ConsumerLost, Ack, Retry, vars
<1>7. (faults \in 0 .. MaxFaults)'
  <2>1. faults' = faults \/ Fault
    BY DEF Next, Environment, Dispatch, Consume, Commit, BecomeDue, Select,
           Publish, Record, DispatchLost, Deliver, Duplicate, Read, Write,
           Handle, ReadAgain, ConsumerLost, NoFault, vars
  <2> QED
    BY <2>1, OutboxParameters DEF TypeOK, Fault
<1>8. TypeOK'
  BY <1>1, <1>2, <1>3, <1>5, <1>7
     DEF TypeOK, RowsOK, MessagesOK, DispatchersOK
<1> QED
  BY <1>1, <1>2, <1>3, <1>4, <1>5, <1>6, <1>8 DEF Settled

\* Messages and dispatches stay about committed events.
LEMMA AfterCommitStep ==
    ASSUME IInv, Settled
    PROVE  AfterCommit'
<1>1. \A e \in Events : status[e] # "absent" => status'[e] # "absent"
  BY DEF Settled, RowMove, Terminal
<1>2. ASSUME NEW c \in Copies, copy'[c] # NoCopy
      PROVE  status'[copy'[c].event] # "absent"
  <2>1. copy'[c].event \in Events
    <3>1. copy'[c] \in Messages
      BY DEF Settled, TypeOK
    <3> QED
      BY <1>2, <3>1 DEF Messages
  <2>2. CASE copy'[c].event = copy[c].event
    <3>1. copy[c] # NoCopy
      BY <2>1, <2>2, OutboxParameters DEF NoCopy
    <3> QED
      BY <1>1, <2>1, <2>2, <3>1 DEF IInv, AfterCommit
  <2> QED
    BY <1>1, <1>2, <2>1, <2>2 DEF Settled, CopyMove
<1>3. ASSUME NEW d \in Dispatchers, dispatcher'[d].step # "idle"
      PROVE  status'[dispatcher'[d].event] # "absent"
  <2>1. DispatcherMove(d) /\ Idle.step = "idle"
    BY DEF Settled, Idle
  <2>2. dispatcher[d].step # "idle" => dispatcher[d].event \in Events
    BY Shapes DEF IInv
  <2> QED
    BY <1>1, <1>3, <2>1, <2>2 DEF DispatcherMove, IInv, AfterCommit
<1> QED
  BY <1>2, <1>3 DEF AfterCommit

\* No snapshot gets ahead of its row.
LEMMA SnapshotsStep ==
    ASSUME IInv, Settled
    PROVE  Snapshots'
<1>1. \A e \in Events : attempts[e] \in Nat /\ attempts'[e] \in Nat
  BY OutboxParameters DEF Settled, IInv, TypeOK
<1>2. \A e \in Events : attempts[e] <= attempts'[e]
  BY <1>1 DEF Settled, RowMove
<1>3. ASSUME NEW d \in Dispatchers, dispatcher'[d].step # "idle"
      PROVE  dispatcher'[d].seen <= attempts'[dispatcher'[d].event]
  <2>1. DispatcherMove(d) /\ Idle.step = "idle"
    BY DEF Settled, Idle
  <2>2. dispatcher[d].step # "idle" =>
           /\ dispatcher[d].event \in Events
           /\ dispatcher[d].seen \in Nat
           /\ dispatcher[d].seen <= attempts[dispatcher[d].event]
    BY Shapes, OutboxParameters DEF IInv, Snapshots
  <2> QED
    BY <1>1, <1>2, <1>3, <2>1, <2>2 DEF DispatcherMove
<1>4. ASSUME NEW w \in Consumers, consumer'[w].step \in {"handle", "retry"}
      PROVE  /\ consumer'[w].sawStatus \in Open
             /\ consumer'[w].sawAttempts <= attempts'[EventOf(w)']
             /\ consumer'[w].sawStatus = "queued"
                   /\ consumer'[w].sawAttempts = attempts'[EventOf(w)']
                => status'[EventOf(w)'] # "pending"
  <2>1. ConsumerMove(w)
    BY DEF Settled
  <2>2. Kept(w)
    BY <1>4, <2>1 DEF ConsumerMove
  <2>3. EventOf(w)' = EventOf(w) /\ EventOf(w) \in Events
    BY <2>2, Shapes DEF Kept, EventOf, IInv, Holding
  <2>4. status[EventOf(w)] # "absent"
    BY <2>2, Shapes DEF Kept, EventOf, IInv, Holding, AfterCommit
  <2>5. CASE /\ consumer[w].step = "read"
             /\ consumer'[w].sawStatus = status[EventOf(w)]
             /\ consumer'[w].sawAttempts = attempts[EventOf(w)]
             /\ status[EventOf(w)] \notin Terminal
             /\ UNCHANGED rows
    <3>1. status[EventOf(w)] \in Open
      BY <2>3, <2>4, <2>5 DEF IInv, TypeOK
    <3> QED
      BY <1>1, <2>3, <2>5, <3>1 DEF rows
  <2>6. CASE consumer[w].step \in {"handle", "retry"} /\ Remembers(w)
    <3>1. /\ consumer[w].sawStatus \in Open
          /\ consumer[w].sawAttempts <= attempts[EventOf(w)]
          /\ consumer[w].sawStatus = "queued"
                /\ consumer[w].sawAttempts = attempts[EventOf(w)]
             => status[EventOf(w)] # "pending"
          /\ consumer[w].sawAttempts \in Nat
      BY <2>6, Shapes, OutboxParameters DEF IInv, Snapshots
    <3>2. RowMove(EventOf(w))
      BY <2>3 DEF Settled
    <3> QED
      BY <1>1, <1>2, <2>3, <2>4, <2>6, <3>1, <3>2 DEF RowMove, Remembers, Terminal
  <2> QED
    BY <1>4, <2>1, <2>5, <2>6 DEF ConsumerMove, Remembers
<1> QED
  BY <1>3, <1>4 DEF Snapshots

\* A consumer records a success only after a handler run.
LEMMA ProcessedStep ==
    ASSUME IInv, Settled,
           \A e \in Events : e \in handled' => e \in handled \/ status[e] # "absent"
    PROVE  Processed'
<1>1. ASSUME NEW w \in Consumers, consumer'[w].step = "delivered"
      PROVE  EventOf(w)' \in handled'
  <2>1. ConsumerMove(w)
    BY DEF Settled
  <2>2. Kept(w)
    BY <1>1, <2>1 DEF ConsumerMove
  <2>3. EventOf(w)' = EventOf(w)
    BY <2>2 DEF Kept, EventOf
  <2> QED
    BY <1>1, <2>1, <2>3 DEF ConsumerMove, Settled, IInv, Processed
<1>2. \A e \in Events : status[e] # "absent" => status'[e] # "absent"
  BY DEF Settled, RowMove, Terminal
<1> QED
  BY <1>1, <1>2 DEF Processed, IInv

\* A consumer that lost its race to a retry finds that retry counted.
LEMMA ResolvingStep ==
    ASSUME IInv, Settled
    PROVE  Resolving'
<1> SUFFICES ASSUME NEW w \in Consumers, consumer'[w].step = "resolve",
                    status'[EventOf(w)'] = "pending"
             PROVE  attempts'[EventOf(w)'] > 0
  BY DEF Resolving
<1>1. ConsumerMove(w)
  BY DEF Settled
<1>2. Kept(w)
  BY <1>1 DEF ConsumerMove
<1>3. PICK e \in Events :
         EventOf(w) = e /\ EventOf(w)' = e /\ status[e] # "absent"
  BY <1>2, Shapes DEF Kept, EventOf, IInv, Holding, AfterCommit
<1>4. attempts[e] \in Nat /\ attempts'[e] \in Nat
  BY <1>3, OutboxParameters DEF Settled, IInv, TypeOK
<1>5. CASE consumer[w].step = "resolve"
  <2>1. RowMove(e)
    BY <1>3 DEF Settled
  <2>2. status[e] = "pending" => attempts[e] > 0
    BY <1>3, <1>5 DEF IInv, Resolving
  <2> QED
    BY <1>3, <1>4, <2>1, <2>2 DEF RowMove, Terminal
<1>6. CASE /\ consumer[w].step \in {"bury", "retry"} /\ ~Applies(w)
           /\ UNCHANGED rows
  <2>1. status[e] = "pending"
    BY <1>3, <1>6 DEF rows
  <2>2. consumer[w].step = "retry"
    BY <1>3, <1>6, <2>1 DEF Applies, Open
  <2>3. /\ consumer[w].sawStatus \in Open
        /\ consumer[w].sawAttempts \in Nat
        /\ consumer[w].sawAttempts <= attempts[e]
        /\ consumer[w].sawStatus = "queued"
              /\ consumer[w].sawAttempts = attempts[e]
           => status[e] # "pending"
    BY <1>3, <2>2, Shapes, OutboxParameters DEF IInv, Snapshots
  <2>4. consumer[w].sawAttempts # attempts[e]
    BY <1>3, <1>6, <2>1, <2>2, <2>3 DEF Applies, Matches, Open
  <2> QED
    BY <1>3, <1>4, <1>6, <2>3, <2>4 DEF rows
<1> QED
  BY <1>1, <1>5, <1>6 DEF ConsumerMove, Writes

\* While a row does not change, its message is only acknowledged by a consumer
\* that reads the row again and finds it pending.
LEMMA StillCarried ==
    ASSUME IInv, [Next]_vars, NEW e \in Events, NEW c \in Copies,
           copy[c].event = e, status[e] \in Open,
           status'[e] = status[e], attempts'[e] = attempts[e],
           \A w \in Consumers :
              consumer[w].copy = c /\ consumer[w].step = "resolve"
                 => status[e] # "pending"
    PROVE  copy'[c].event = e \/ e \in dropped'
<1> USE DEF IInv
<1>0. copy[c] # NoCopy
  BY OutboxParameters DEF NoCopy
<1>1. CASE copy'[c] = copy[c]
  BY <1>1
<1>2. ASSUME NEW x \in Copies, copy[x] = NoCopy,
             NEW m, copy' = [copy EXCEPT ![x] = m]
      PROVE  copy'[c] = copy[c]
  BY <1>0, <1>2 DEF TypeOK
<1>3. ASSUME NEW d \in Dispatchers, Dispatch(d)
      PROVE  copy'[c].event = e \/ e \in dropped'
  BY <1>1, <1>2, <1>3
     DEF Dispatch, Select, Publish, Send, Record, DispatchLost
<1>4. ASSUME NEW w \in Consumers, Consume(w)
      PROVE  copy'[c].event = e \/ e \in dropped'
  <2>1. CASE UNCHANGED copy
    BY <1>1, <2>1
  <2>2. CASE consumer[w].copy # c /\ consumer[w].step # "idle"
    BY <1>1, <1>4, <2>2, RetryHolds
       DEF Consume, Deliver, Read, Handle, Write, ReadAgain, ConsumerLost, Ack,
           TypeOK
  <2>3. CASE consumer[w].copy = c /\ consumer[w].step # "idle"
    <3>1. EventOf(w) = e
      BY <2>3 DEF EventOf
    <3>2. CASE Retry(w)
      BY <2>3, <3>2, RetryHolds
    <3>3. CASE Read(w)
      <4>1. status[e] \notin Terminal
        BY DEF Open, Terminal
      <4> QED
        BY <2>1, <3>1, <3>3, <4>1 DEF Read, Terminal
    <3>4. CASE Write(w)
      <4>1. ASSUME Outcome(w) PROVE FALSE
        <5>1. attempts[e] \in Nat
          BY OutboxParameters DEF TypeOK
        <5>2. ~Close(e, "delivered") /\ ~Close(e, "dead_letter")
          BY DEF Close, Open, TypeOK
        <5>3. ~Backoff(e)
          BY <5>1 DEF Backoff, TypeOK
        <5> QED
          BY <3>1, <4>1, <5>2, <5>3 DEF Outcome
      <4> QED
        BY <2>1, <3>4, <4>1 DEF Write
    <3>5. CASE ReadAgain(w)
      <4>1. status[e] \notin Terminal
        BY DEF Open, Terminal
      <4> QED
        BY <2>3, <3>1, <3>2, <3>5, <4>1 DEF ReadAgain, SettledElsewhere
    <3>6. CASE ConsumerLost(w)
      BY <3>2, <3>6 DEF ConsumerLost
    <3> QED
      BY <1>4, <2>1, <3>3, <3>4, <3>5, <3>6 DEF Consume, Deliver, Handle
  <2>4. CASE consumer[w].step = "idle"
    <3>1. consumer[w] = Waiting
      BY <2>4, Shapes DEF Writes
    <3> QED
      BY <1>4, <2>1, <2>4, <3>1
         DEF Consume, Deliver, Read, Handle, Write, ReadAgain, ConsumerLost,
             Writes
  <2> QED
    BY <2>2, <2>3, <2>4
<1>5. ASSUME NEW x \in Copies, NEW y \in Copies, Duplicate(x, y)
      PROVE  copy'[c].event = e \/ e \in dropped'
  BY <1>1, <1>2, <1>5 DEF Duplicate
<1>6. ASSUME NEW f \in Events, Commit(f) \/ BecomeDue(f)
      PROVE  copy'[c].event = e \/ e \in dropped'
  BY <1>1, <1>6 DEF Commit, BecomeDue
<1>7. CASE UNCHANGED vars
  BY <1>1, <1>7 DEF vars
<1> QED
  BY <1>3, <1>4, <1>5, <1>6, <1>7 DEF Next, Environment

\* While a dispatch may still mark its row queued, its message is on its way.
LEMMA PublishedStep ==
    ASSUME IInv, [Next]_vars, Settled
    PROVE  Published'
<1> SUFFICES ASSUME NEW d \in Dispatchers, NEW e \in Events,
                    dispatcher'[d].event = e,
                    dispatcher'[d].step = "record",
                    status'[e] = "pending", attempts'[e] = dispatcher'[d].seen
             PROVE  \/ e \in dropped'
                    \/ \E c \in Copies :
                          /\ copy'[c].event = e
                          /\ \A w \in Consumers :
                                consumer'[w].copy = c => ~Stale(w)'
  <2>1. \A d \in Dispatchers :
           dispatcher'[d].step = "record" => dispatcher'[d].event \in Events
    <3>1. \A d \in Dispatchers : dispatcher'[d] \in Dispatches
      BY DEF Settled, TypeOK
    <3> QED
      BY <3>1 DEF Dispatches, Idle
  <2> QED
    BY <2>1 DEF Published, Matches
<1>1. DispatcherMove(d) /\ Idle.step = "idle"
  BY DEF Settled, Idle
<1>2. CASE dispatcher'[d] = dispatcher[d]
  <2>1. /\ dispatcher[d].step = "record" /\ dispatcher[d].event = e
        /\ dispatcher[d].seen \in Nat /\ dispatcher[d].seen <= attempts[e]
        /\ status[e] # "absent"
    BY <1>2, Shapes, OutboxParameters DEF IInv, Snapshots, AfterCommit
  <2>2. attempts[e] \in Nat /\ attempts'[e] \in Nat
    BY OutboxParameters DEF IInv, Settled, TypeOK
  <2>3. status[e] = "pending" /\ attempts[e] = dispatcher[d].seen
    <3>1. RowMove(e)
      BY DEF Settled
    <3> QED
      BY <1>2, <2>1, <2>2, <3>1 DEF RowMove, Terminal
  <2>4. CASE e \in dropped
    BY <2>4 DEF Settled
  <2>5. CASE \E c \in Copies :
                /\ copy[c].event = e
                /\ \A w \in Consumers : consumer[w].copy = c => ~Stale(w)
    <3>1. PICK c \in Copies :
             /\ copy[c].event = e
             /\ \A w \in Consumers : consumer[w].copy = c => ~Stale(w)
      BY <2>5
    <3>2. copy'[c].event = e \/ e \in dropped'
      BY <1>2, <2>3, <3>1, StillCarried DEF Stale, Open
    <3>3. ASSUME NEW w \in Consumers, consumer'[w].copy = c,
                 copy'[c].event = e
          PROVE  ~Stale(w)'
      <4>1. ConsumerMove(w)
        BY DEF Settled
      <4>2. CASE consumer'[w].step \in {"idle", "read", "bury", "recheck"}
        BY <4>2 DEF Stale
      <4>3. CASE Kept(w)
        <5>1. consumer[w].copy = c /\ EventOf(w) = e /\ EventOf(w)' = e
          BY <3>1, <3>3, <4>3 DEF Kept, EventOf
        <5>2. ~Stale(w)
          BY <3>1, <5>1
        <5>3. consumer[w].step \in {"handle", "retry"} =>
                 Matches(e, consumer[w].sawStatus, consumer[w].sawAttempts)
          BY <5>1, <5>2 DEF Stale
        <5>4. CASE consumer'[w] = consumer[w]
          BY <1>2, <2>3, <5>1, <5>2, <5>4 DEF Stale, Matches
        <5>5. CASE consumer[w].step = "handle" /\ Remembers(w)
                   /\ consumer'[w].step \in Writes
          BY <1>2, <2>3, <5>1, <5>3, <5>5 DEF Stale, Matches, Remembers, Writes
        <5>6. CASE /\ consumer'[w].sawStatus = status[EventOf(w)]
                   /\ consumer'[w].sawAttempts = attempts[EventOf(w)]
                   /\ consumer'[w].step = "handle"
          BY <1>2, <2>3, <5>1, <5>6 DEF Stale, Matches
        <5>7. ~(/\ consumer[w].step \in {"bury", "retry"}
                /\ ~Applies(w))
          BY <2>3, <5>1, <5>3 DEF Applies, Open
        <5> QED
          BY <4>1, <4>2, <5>4, <5>5, <5>6, <5>7 DEF ConsumerMove
      <4> QED
        BY <4>1, <4>2, <4>3 DEF ConsumerMove
    <3> QED
      BY <3>1, <3>2, <3>3
  <2> QED
    BY <2>1, <2>3, <2>4, <2>5 DEF IInv, Published, Matches
<1>3. ASSUME NEW c \in Copies, copy[c] = NoCopy, copy'[c].event = e,
             UNCHANGED consumer
      PROVE  \A w \in Consumers : consumer'[w].copy # c
  BY <1>3, Shapes, OutboxParameters DEF IInv, Holding, Writes
<1>4. CASE dispatcher'[d] # dispatcher[d]
  <2>1. PICK c \in Copies : /\ copy[c] = NoCopy
                            /\ copy'[c].event = e
                            /\ UNCHANGED consumer
    BY <1>1, <1>4 DEF DispatcherMove
  <2> QED
    BY <1>3, <2>1
<1> QED
  BY <1>2, <1>4

\* A row becomes queued only under a dispatch that has published its message.
LEMMA QueuedStep ==
    ASSUME IInv, [Next]_vars, Settled
    PROVE  QueuedIsCarried'
<1> SUFFICES ASSUME NEW e \in Events, status'[e] = "queued"
             PROVE  (\E c \in Copies : copy'[c].event = e) \/ e \in dropped'
  BY DEF QueuedIsCarried, Carried
<1>1. RowMove(e)
  BY DEF Settled
<1>2. CASE status'[e] = status[e] /\ attempts'[e] = attempts[e]
  <2>1. CASE e \in dropped
    BY <2>1 DEF Settled
  <2>2. CASE Carried(e)
    <3>1. PICK c \in Copies : copy[c].event = e
      BY <2>2 DEF Carried
    <3>2. copy'[c].event = e \/ e \in dropped'
      BY <1>2, <3>1, StillCarried DEF Open
    <3> QED
      BY <3>1, <3>2
  <2> QED
    BY <1>2, <2>1, <2>2 DEF IInv, QueuedIsCarried
<1>3. CASE status[e] = "pending"
  <2>1. \E d \in Dispatchers :
           /\ dispatcher[d].step = "record" /\ dispatcher[d].event = e
           /\ Matches(e, "pending", dispatcher[d].seen)
           /\ UNCHANGED <<copy, dropped>>
    <3>1. ASSUME NEW d \in Dispatchers, DispatchWrite(d)
          PROVE  /\ dispatcher[d].step = "record" /\ dispatcher[d].event = e
                 /\ Matches(e, "pending", dispatcher[d].seen)
      BY <1>3, <3>1 DEF DispatchWrite, Queued, SendFailed, Backoff, rows, IInv,
                        TypeOK
    <3>2. ASSUME NEW d \in Dispatchers, Dispatch(d)
          PROVE  DispatchWrite(d) /\ UNCHANGED <<copy, dropped>>
      BY <1>3, <3>2 DEF Dispatch, Select, Publish, Record, DispatchLost, rows
    <3>3. ASSUME NEW w \in Consumers, Consume(w) PROVE FALSE
      <4>1. ~Outcome(w)
        BY <1>3 DEF Outcome, Close, Backoff, IInv, TypeOK
      <4> QED
        BY <1>3, <3>3, <4>1 DEF Consume, Deliver, Read, Handle, Write,
                                ReadAgain, ConsumerLost, rows
    <3>4. ASSUME NEW f \in Events, Commit(f) \/ BecomeDue(f) PROVE FALSE
      BY <1>3, <3>4 DEF Commit, BecomeDue, IInv, TypeOK
    <3>5. ~(\E x, y \in Copies : Duplicate(x, y)) /\ ~UNCHANGED vars
      BY <1>3 DEF Duplicate, vars, rows
    <3> QED
      BY <3>1, <3>2, <3>3, <3>4, <3>5 DEF Next, Environment
  <2> QED
    BY <2>1 DEF IInv, Published
<1> QED
  BY <1>1, <1>2, <1>3 DEF RowMove, Terminal

\* The invariant holds initially.
LEMMA InvInit == Init => IInv
<1> SUFFICES ASSUME Init PROVE IInv
  OBVIOUS
<1>1. TypeOK
  BY InitType
<1>2. Waiting.step = "idle" /\ Idle.step = "idle"
  BY DEF Waiting, Idle
<1>3. Holding /\ AfterCommit /\ Snapshots /\ Processed /\ Resolving
  BY <1>2 DEF Init, Holding, AfterCommit, Snapshots, Processed, Resolving
<1>4. Published /\ QueuedIsCarried
  BY <1>2 DEF Init, Published, QueuedIsCarried
<1> QED
  BY <1>1, <1>3, <1>4 DEF IInv

\* Every step keeps it.
LEMMA InvStep == IInv /\ [Next]_vars => IInv'
<1> SUFFICES ASSUME IInv, [Next]_vars PROVE IInv'
  OBVIOUS
<1>1. Settled
  BY StepMoves
<1>2. AfterCommit' /\ Snapshots' /\ Resolving'
  BY <1>1, AfterCommitStep, SnapshotsStep, ResolvingStep
<1>3. \A e \in Events : e \in handled' => e \in handled \/ status[e] # "absent"
  <2>1. ASSUME NEW w \in Consumers, Handle(w)
        PROVE  \A e \in Events :
                  e \in handled' => e \in handled \/ status[e] # "absent"
    <3>1. status[EventOf(w)] # "absent"
      BY <2>1, Shapes DEF Handle, EventOf, IInv, Holding, AfterCommit
    <3> QED
      BY <2>1, <3>1 DEF Handle
  <2> QED
    BY <2>1
       DEF Next, Environment, Dispatch, Consume, Commit, BecomeDue, Select,
           Publish, Record, DispatchLost, Deliver, Duplicate, Read, Write,
           ReadAgain, ConsumerLost, vars
<1>4. Processed'
  BY <1>1, <1>3, ProcessedStep
<1>5. Published' /\ QueuedIsCarried'
  BY <1>1, PublishedStep, QueuedStep
<1> QED
  BY <1>1, <1>2, <1>4, <1>5 DEF IInv, Settled

\* So it always holds.
LEMMA InvAlways == Spec => []IInv
<1> QED
  BY InvInit, InvStep, PTL DEF Spec

-----------------------------------------------------------------------------
(***************************************************************************)
(* The theorems.                                                           *)
(***************************************************************************)
\* Rows, messages, dispatches and consumers stay within their state space; in
\* particular no row is open with its attempts used up.
THEOREM TypeCorrect == Spec => []TypeOK
<1> QED
  BY InvAlways, PTL DEF IInv

\* A row is "queued" only while a queue or a consumer has a message for it, or
\* the dead-letter queue has dropped one.
THEOREM QueuedAlwaysCarried == Spec => []QueuedIsCarried
<1> QED
  BY InvAlways, PTL DEF IInv

\* A queued event goes back to the sweep only as a new version of its row.
THEOREM RequeuesAreNewVersions == Spec => RequeueIsNewVersion
<1>1. IInv /\ [Next]_vars =>
         [\A e \in Events :
            /\ attempts'[e] >= attempts[e]
            /\ status[e] = "queued" /\ status'[e] = "pending" =>
                  attempts'[e] > attempts[e]]_vars
  <2> SUFFICES ASSUME IInv, [Next]_vars, NEW e \in Events
               PROVE  /\ attempts'[e] >= attempts[e]
                      /\ status[e] = "queued" /\ status'[e] = "pending" =>
                            attempts'[e] > attempts[e]
    OBVIOUS
  <2>1. RowMove(e)
    BY StepMoves DEF Settled
  <2>2. attempts[e] \in Nat
    BY OutboxParameters DEF IInv, TypeOK
  <2> QED
    BY <2>1, <2>2 DEF RowMove, Terminal
<1> QED
  BY <1>1, InvAlways, PTL DEF Spec, RequeueIsNewVersion

\* A consumer acknowledges a message only over a durable outcome, or over a
\* pending row with a failure on record.
LEMMA AcksAreDurable ==
    ASSUME IInv, [Next]_vars, NEW c \in Copies,
           copy[c] # NoCopy, copy'[c] = NoCopy, copy[c].event \notin dropped'
    PROVE  LET e == copy[c].event IN
           \/ status'[e] \in Terminal
           \/ status'[e] = "pending" /\ attempts'[e] > 0
<1> DEFINE e == copy[c].event
<1> USE DEF IInv
<1>1. e \in Events /\ copy'[c] # copy[c] /\ attempts[e] \in Nat
  BY Shapes, OutboxParameters DEF TypeOK
<1>2. ASSUME NEW x \in Copies, copy[x] = NoCopy,
             NEW m, copy' = [copy EXCEPT ![x] = m]
      PROVE  FALSE
  BY <1>1, <1>2 DEF TypeOK
<1>3. PICK w \in Consumers : Consume(w)
  BY <1>1, <1>2
     DEF Next, Environment, Commit, BecomeDue, Duplicate, Dispatch, Select,
         Publish, Send, Record, DispatchLost, vars
<1>4. consumer[w].step # "idle"
  BY <1>1, <1>3, Shapes
     DEF Consume, Deliver, Read, Handle, Write, ReadAgain, ConsumerLost, Writes
<1>5. consumer[w].copy = c
  BY <1>1, <1>3, <1>4, RetryHolds
     DEF Consume, Deliver, Read, Handle, Write, ReadAgain, ConsumerLost, Ack,
         TypeOK
<1>6. EventOf(w) = e
  BY <1>5 DEF EventOf
<1>7. ~Retry(w)
  <2>1. ASSUME Retry(w) PROVE FALSE
    <3>1. copy'[c].event = e \/ e \in dropped'
      BY <1>4, <1>5, <2>1, RetryHolds
    <3> QED
      BY <1>1, <3>1, OutboxParameters DEF NoCopy
  <2> QED
    BY <2>1
<1>8. CASE Read(w)
  BY <1>1, <1>5, <1>6, <1>8 DEF Read, Terminal, rows
<1>9. CASE Write(w)
  <2>1. Outcome(w)
    BY <1>1, <1>9 DEF Write
  <2>2. CASE Close(e, "delivered") \/ Close(e, "dead_letter")
    BY <1>1, <2>2 DEF Close, Terminal, TypeOK
  <2>3. CASE Backoff(e)
    BY <1>1, <2>3 DEF Backoff, Terminal, TypeOK
  <2> QED
    BY <1>6, <2>1, <2>2, <2>3 DEF Outcome
<1>10. CASE ReadAgain(w)
  BY <1>5, <1>6, <1>7, <1>10 DEF ReadAgain, SettledElsewhere, Resolving, rows
<1> QED
  BY <1>1, <1>3, <1>7, <1>8, <1>9, <1>10
     DEF Consume, Deliver, Handle, ConsumerLost

\* Every acknowledgement is durable.
THEOREM AcknowledgedIsDurable == Spec => AckIsDurable
<1>1. IInv /\ [Next]_vars =>
         [\A c \in Copies :
            LET e == copy[c].event IN
            copy[c] # NoCopy /\ copy'[c] = NoCopy /\ e \notin dropped' =>
              \/ status'[e] \in Terminal
              \/ status'[e] = "pending" /\ attempts'[e] > 0]_vars
  BY AcksAreDurable
<1> QED
  BY <1>1, InvAlways, PTL DEF Spec, AckIsDurable

\* What a status records.
LEMMA PromisedIs ==
    /\ Promised("absent") = "uncommitted"
    /\ \A s \in Open : Promised(s) = "open"
    /\ \A s \in Terminal : Promised(s) = s
<1> QED
  BY DEF Promised, Open, Terminal

\* A step that changes the status of one event changes its record only.
LEMMA RecordedStep ==
    ASSUME TypeOK, TypeOK', NEW e \in Events, NEW s,
           status' = [status EXCEPT ![e] = s]
    PROVE  Recorded' = [Recorded EXCEPT ![e] = Recorded'[e]]
<1>1. \A f \in Events : f # e => status'[f] = status[f]
  BY DEF TypeOK
<1>2. \A f \in Events : f # e => Recorded'[f] = Recorded[f]
  BY <1>1 DEF Recorded
<1>3. Recorded \in [Events -> {Recorded[f] : f \in Events}]
      /\ Recorded' \in [Events -> {Recorded'[f] : f \in Events}]
  BY DEF Recorded
<1>4. \A f \in Events : Recorded'[f] = [Recorded EXCEPT ![e] = Recorded'[e]][f]
  BY <1>2, <1>3
<1> HIDE DEF Recorded
<1> QED
  BY <1>3, <1>4

\* Every step of the outbox is a step of the event delivery, or none at all.
LEMMA StepImplements ==
    ASSUME IInv, [Next]_vars
    PROVE  [Delivery!Next]_(Delivery!vars)
<1> USE DEF IInv
<1>1. TypeOK /\ TypeOK' /\ IInv'
  BY InvStep
<1>2. CASE UNCHANGED <<status, handled>>
  BY <1>2 DEF Delivery!vars, Recorded
<1>3. ASSUME NEW e \in Events, Commit(e)
      PROVE  Delivery!Next
  <2>1. status' = [status EXCEPT ![e] = "pending"] /\ status[e] = "absent"
    BY <1>3 DEF Commit
  <2>2. status'[e] = "pending" /\ UNCHANGED handled
    BY <1>3, <2>1 DEF TypeOK, Commit
  <2>3. Recorded[e] = "uncommitted" /\ Recorded'[e] = "open"
    BY <2>1, <2>2, PromisedIs DEF Recorded, Open
  <2> QED
    BY <1>1, <2>1, <2>2, <2>3, RecordedStep DEF Delivery!Commit, Delivery!Next
<1>4. ASSUME NEW e \in Events, status[e] \in Open, Backoff(e), UNCHANGED handled
      PROVE  [Delivery!Next]_(Delivery!vars)
  <2>1. PICK s \in {"pending", "dead_letter"} :
           status' = [status EXCEPT ![e] = s]
    BY <1>4 DEF Backoff
  <2>2. status'[e] = s
    BY <2>1 DEF TypeOK
  <2>3. Recorded[e] = "open"
        /\ Recorded'[e] = IF s = "pending" THEN "open" ELSE "dead_letter"
    BY <1>4, <2>2, PromisedIs DEF Recorded, Open, Terminal
  <2>4. Recorded' = [Recorded EXCEPT ![e] = Recorded'[e]]
    BY <1>1, <2>1, RecordedStep
  <2>5. CASE s = "pending"
    <3>1. Recorded' = Recorded
      BY <2>3, <2>4, <2>5 DEF Recorded
    <3> QED
      BY <1>4, <3>1 DEF Delivery!vars
  <2>6. CASE s = "dead_letter"
    BY <1>4, <2>3, <2>4, <2>6 DEF Delivery!GiveUp, Delivery!Next
  <2> QED
    BY <2>5, <2>6
<1>5. ASSUME NEW e \in Events, status[e] \in Open, NEW out \in Terminal,
             Close(e, out), out = "delivered" => e \in handled,
             UNCHANGED handled
      PROVE  Delivery!Next
  <2>1. status' = [status EXCEPT ![e] = out]
    BY <1>5 DEF Close
  <2>2. status'[e] = out
    BY <2>1 DEF TypeOK
  <2>3. Recorded[e] = "open" /\ Recorded'[e] = out
    BY <1>5, <2>2, PromisedIs DEF Recorded, Open, Terminal
  <2>4. Recorded' = [Recorded EXCEPT ![e] = out]
    BY <1>1, <2>1, <2>3, RecordedStep
  <2> QED
    BY <1>5, <2>3, <2>4
       DEF Delivery!Deliver, Delivery!GiveUp, Delivery!Next, Terminal
<1>6. ASSUME NEW d \in Dispatchers, Dispatch(d)
      PROVE  [Delivery!Next]_(Delivery!vars)
  <2>1. UNCHANGED handled
    BY <1>6 DEF Dispatch, Select, Publish, Record, DispatchLost
  <2>2. ASSUME DispatchWrite(d)
        PROVE  [Delivery!Next]_(Delivery!vars)
    <3>1. PICK e \in Events : e = dispatcher[d].event
      BY <2>2, Shapes DEF DispatchWrite
    <3>2. CASE UNCHANGED rows
      BY <1>2, <2>1, <3>2 DEF rows
    <3>3. CASE status[e] = "pending" /\ Backoff(e)
      BY <1>4, <2>1, <3>3 DEF Open
    <3>4. CASE status[e] = "pending"
               /\ status' = [status EXCEPT ![e] = "queued"]
      <4>1. status'[e] = "queued"
        BY <3>4 DEF TypeOK
      <4>2. Recorded[e] = "open" /\ Recorded'[e] = "open"
        BY <3>4, <4>1, PromisedIs DEF Recorded, Open
      <4>3. Recorded' = Recorded
        BY <1>1, <3>4, <4>2, RecordedStep DEF Recorded
      <4> QED
        BY <2>1, <4>3 DEF Delivery!vars
    <3> QED
      BY <2>2, <3>1, <3>2, <3>3, <3>4
         DEF DispatchWrite, Queued, SendFailed, Matches
  <2> QED
    BY <1>2, <1>6, <2>1, <2>2
       DEF Dispatch, Select, Publish, Record, DispatchLost, rows
<1>7. ASSUME NEW w \in Consumers, Consume(w)
      PROVE  [Delivery!Next]_(Delivery!vars)
  <2>1. CASE Handle(w)
    <3>1. PICK e \in Events : e = EventOf(w) /\ status[e] # "absent"
      BY <2>1, Shapes DEF Handle, EventOf, Holding, AfterCommit
    <3>2. UNCHANGED status /\ (handled' = handled \/ handled' = handled \cup {e})
      BY <2>1, <3>1 DEF Handle, rows
    <3>3. Recorded' = Recorded /\ Recorded[e] # "uncommitted"
      BY <3>1, <3>2, PromisedIs DEF Recorded, TypeOK, Terminal, Open
    <3> QED
      BY <3>2, <3>3 DEF Delivery!Process, Delivery!Next, Delivery!vars
  <2>2. ASSUME Applies(w), Outcome(w), UNCHANGED handled
        PROVE  [Delivery!Next]_(Delivery!vars)
    <3>1. PICK e \in Events : e = EventOf(w)
      BY <2>2, Shapes DEF Applies, EventOf, Holding
    <3>2. status[e] \in Open
      BY <2>2, <3>1 DEF Applies, Snapshots, Matches
    <3>3. consumer[w].step = "delivered" => e \in handled
      BY <3>1 DEF Processed
    <3>4. CASE Backoff(e)
      BY <1>4, <2>2, <3>2, <3>4
    <3>5. CASE consumer[w].step = "delivered" /\ Close(e, "delivered")
      BY <1>5, <2>2, <3>2, <3>3, <3>5 DEF Terminal
    <3>6. CASE Close(e, "dead_letter")
      BY <1>5, <2>2, <3>2, <3>6 DEF Terminal
    <3> QED
      BY <2>2, <3>1, <3>4, <3>5, <3>6 DEF Outcome
  <2> QED
    BY <1>2, <1>7, <2>1, <2>2
       DEF Consume, Deliver, Read, Write, ReadAgain, ConsumerLost, rows
<1>8. ASSUME NEW c \in Copies, NEW d \in Copies, Duplicate(c, d)
      PROVE  UNCHANGED <<status, handled>>
  BY <1>8 DEF Duplicate, rows
<1>9. ASSUME NEW e \in Events, BecomeDue(e)
      PROVE  UNCHANGED <<status, handled>>
  BY <1>9 DEF BecomeDue
<1>10. CASE UNCHANGED vars
  BY <1>2, <1>10 DEF vars
<1> QED
  BY <1>2, <1>3, <1>6, <1>7, <1>8, <1>9, <1>10 DEF Next, Environment

\* The outbox implements the event delivery it promises: one final outcome per
\* committed event, and "delivered" only after a handler run succeeded.
THEOREM Implements == Spec => ImplementsDelivery
<1>1. Init => Delivery!Init
  BY PromisedIs DEF Init, Delivery!Init, Recorded
<1>2. IInv /\ [Next]_vars => [Delivery!Next]_(Delivery!vars)
  BY StepImplements
<1> QED
  BY <1>1, <1>2, InvAlways, PTL DEF Spec, ImplementsDelivery, Delivery!Spec
=============================================================================
