---------------------------- MODULE Idempotency ----------------------------
(***************************************************************************)
(* The scoped idempotency record that every keyed mutation of the API goes *)
(* through (apps/api/src/repositories/idempotency.rs), and the three ways  *)
(* its routes use it.                                                      *)
(*                                                                         *)
(*   "batch"      look the key up, and later send one batch: claim, guard, *)
(*                business writes, outbox, result (routes/agents.rs)       *)
(*   "scoped"     the same, but a batch that failed on a constraint is not *)
(*                looked up again (routes/usage.rs)                        *)
(*   "two_phase"  look the key up and claim it in a statement of its own,  *)
(*                send the same batch later, and release the claim when    *)
(*                that fails (routes/ai_catalog.rs, routes/tools.rs)       *)
(*                                                                         *)
(* A key is scoped to principal, organization, method and path, so all the *)
(* requests that carry it use the same route.  Requests interleave between *)
(* any two database calls; a batch is atomic (adapters/d1/mod.rs).         *)
(***************************************************************************)
EXTENDS Naturals

CONSTANTS
    Requests,       \* requests, named by their request_id
    Keys,           \* scoped idempotency keys
    KeyOf,          \* KeyOf[q]: the key that q carries
    Command,        \* Command[q]: its request fingerprint
    Nobody,
    TTL,            \* life of a record (24 hours)
    LastArrival,    \* bound: requests arrive at clock values 0..LastArrival
    MaxFaults       \* bound: lost invocations, failed calls and lost answers

ASSUME ParametersOK ==
    /\ KeyOf \in [Requests -> Keys]
    /\ DOMAIN Command = Requests
    /\ Nobody \notin Requests
    /\ TTL \in Nat \ {0}
    /\ LastArrival \in Nat
    /\ MaxFaults \in Nat

VARIABLES
    clock,     \* server time
    route,     \* the protocol of the route a key is scoped to; never changes
    state,     \* idempotency_records.state, "absent" without a row
    by,        \* the request that wrote the row: its claim_token and
               \* request_fingerprint, and the author of its saved response
    expires,   \* idempotency_records.expires_at
    done,      \* the requests whose business writes are committed
    worker,    \* where the invocation that serves the request stands
    arrived,   \* context.received_at of that invocation
    answer,    \* what it told its caller, "none" before that
    source,    \* the request whose saved response a replay carried
    faults     \* lost invocations, failed calls and lost answers so far

vars == <<clock, route, state, by, expires, done, worker, arrived, answer, source, faults>>

rowVars == <<state, by, expires>>

Routes  == {"batch", "scoped", "two_phase"}
Phases  == {"new", "lookup", "claim", "ready", "withdraw", "release", "recheck", "gone"}
Answers == {"none", "success", "replay", "in_progress", "conflict", "refused", "guarded", "failed"}

RouteOf(q)  == route[KeyOf[q]]
InFlight(q) == worker[q] \notin {"new", "gone"}

-----------------------------------------------------------------------------
(***************************************************************************)
(* The statements of the repository, as q, with its own received_at,       *)
(* issues them.                                                            *)
(***************************************************************************)
\* Variant for the sensitivity runs: the fingerprint is not compared.
FoundAnyCommand(q) ==
    LET k == KeyOf[q]
    IN  IF state[k] = "absent" \/ expires[k] <= arrived[q] THEN "missing"
        ELSE IF state[k] = "pending" THEN "in_progress" ELSE "replay"

\* LOOKUP_ACTIVE_SQL and its classification.
Found(q) ==
    LET k == KeyOf[q]
    IN  IF state[k] = "absent" \/ expires[k] <= arrived[q] THEN "missing"
        ELSE IF Command[by[k]] # Command[q] THEN "conflict"
        ELSE IF state[k] = "pending" THEN "in_progress" ELSE "replay"

\* CLAIM_SQL inserts, or takes over a row that has expired.
Claimable(q) == LET k == KeyOf[q] IN state[k] = "absent" \/ expires[k] <= arrived[q]

\* The pending row carries q's claim token.
Owns(q) == state[KeyOf[q]] = "pending" /\ by[KeyOf[q]] = q

\* q's row, in the given state.
PutRow(q, s) ==
    /\ state' = [state EXCEPT ![KeyOf[q]] = s]
    /\ by' = [by EXCEPT ![KeyOf[q]] = q]
    /\ expires' = [expires EXCEPT ![KeyOf[q]] = arrived[q] + TTL]

\* Variant for the sensitivity runs: the batch goes on without its claim.
GuardAlways(q) == TRUE
\* ASSERT_CLAIM_SQL, which runs after the claim in the same batch.
GuardHolds(q) == Claimable(q) \/ Owns(q)

-----------------------------------------------------------------------------
Init ==
    /\ clock = 0
    /\ route \in [Keys -> Routes]
    /\ state = [k \in Keys |-> "absent"]
    /\ by = [k \in Keys |-> Nobody]
    /\ expires = [k \in Keys |-> 0]
    /\ done = {}
    /\ worker = [q \in Requests |-> "new"]
    /\ arrived = [q \in Requests |-> 0]
    /\ answer = [q \in Requests |-> "none"]
    /\ source = [q \in Requests |-> Nobody]
    /\ faults = 0

Goto(q, phase) == worker' = [worker EXCEPT ![q] = phase] /\ UNCHANGED <<answer, source>>

Reply(q, kind) ==
    /\ worker' = [worker EXCEPT ![q] = "gone"]
    /\ answer' = [answer EXCEPT ![q] = kind]
    /\ source' = IF kind = "replay" THEN [source EXCEPT ![q] = by[KeyOf[q]]] ELSE source

NoFault == UNCHANGED faults
Fault   == faults < MaxFaults /\ faults' = faults + 1

Arrive(q) ==
    /\ worker[q] = "new"
    /\ clock <= LastArrival
    /\ arrived' = [arrived EXCEPT ![q] = clock]
    /\ Goto(q, "lookup")
    /\ UNCHANGED <<clock, route, rowVars, done, faults>>

\* prepare_scoped_mutation, prepare_mutation, begin_mutation: the lookup.
Lookup(q) ==
    /\ worker[q] = "lookup"
    /\ \/ /\ Found(q) = "missing"
          /\ Goto(q, IF RouteOf(q) = "two_phase" THEN "claim" ELSE "ready")
          /\ NoFault
       \/ Found(q) # "missing" /\ Reply(q, Found(q)) /\ NoFault
       \/ Reply(q, "failed") /\ Fault
    /\ UNCHANGED <<clock, route, rowVars, done, arrived>>

\* begin_mutation: the claim, in a statement of its own.  A call that is
\* answered with an error may still have written the row.
ClaimKey(q) ==
    /\ worker[q] = "claim"
    /\ \/ Claimable(q) /\ PutRow(q, "pending") /\ Goto(q, "ready") /\ NoFault
       \/ ~Claimable(q) /\ UNCHANGED rowVars /\ Reply(q, "in_progress") /\ NoFault
       \/ UNCHANGED rowVars /\ Reply(q, "failed") /\ Fault
       \/ Claimable(q) /\ PutRow(q, "pending") /\ Reply(q, "failed") /\ Fault
    /\ UNCHANGED <<clock, route, done, arrived>>

\* The handler refuses the command on what it reads before its batch.  Only
\* then does a two-phase handler release its claim; a call that fails leaves
\* by `?` and keeps it.
Refuse(q) ==
    /\ worker[q] = "ready"
    /\ \/ RouteOf(q) # "two_phase" /\ Reply(q, "refused") /\ NoFault
       \/ RouteOf(q) = "two_phase" /\ Goto(q, "withdraw") /\ NoFault
       \/ Reply(q, "failed") /\ Fault
    /\ UNCHANGED <<clock, route, rowVars, done, arrived>>

\* Variant for the sensitivity runs: a failed batch never releases the claim.
OnErrorKeeps(q, isConstraint) ==
    IF RouteOf(q) = "scoped" /\ isConstraint THEN Reply(q, "guarded") ELSE Goto(q, "recheck")

\* What a handler does with a batch that was answered with an error.
OnError(q, isConstraint) ==
    \/ RouteOf(q) = "two_phase" /\ Goto(q, "release")
    \/ RouteOf(q) = "scoped" /\ isConstraint /\ Reply(q, "guarded")
    \/ RouteOf(q) = "scoped" /\ ~isConstraint /\ Goto(q, "recheck")
    \/ RouteOf(q) = "batch" /\ Goto(q, "recheck")

\* Variant for the sensitivity runs: the completion is not in the batch.
EffectUncompleted(q) == PutRow(q, "pending") /\ done' = done \cup {q}

\* commit_success: claim, guard, business writes, outbox, completion.  The
\* claim guard and the handler's own guards abort the batch by violating a
\* constraint; a batch answered with an error may have been committed.
Effect(q) == PutRow(q, "completed") /\ done' = done \cup {q}

Commit(q) ==
    /\ worker[q] = "ready"
    /\ \/ GuardHolds(q) /\ Effect(q) /\ Reply(q, "success") /\ NoFault
       \/ GuardHolds(q) /\ Effect(q) /\ OnError(q, FALSE) /\ Fault
       \/ UNCHANGED <<rowVars, done>> /\ OnError(q, TRUE) /\ NoFault
       \/ UNCHANGED <<rowVars, done>> /\ OnError(q, FALSE) /\ Fault
    /\ UNCHANGED <<clock, route, arrived>>

\* Variant for the sensitivity runs: what the lookup found is the answer.
RecheckRaw(q) ==
    /\ worker[q] = "recheck"
    /\ Reply(q, Found(q))
    /\ UNCHANGED <<clock, route, rowVars, done, arrived, faults>>

\* The fresh lookup after a failed batch.  Without a row, agents.rs reports a
\* conflict with current state and usage.rs an unavailable service.
Recheck(q) ==
    /\ worker[q] = "recheck"
    /\ \/ Found(q) # "missing" /\ Reply(q, Found(q)) /\ NoFault
       \/ /\ Found(q) = "missing"
          /\ Reply(q, IF RouteOf(q) = "scoped" THEN "failed" ELSE "refused")
          /\ NoFault
       \/ Reply(q, "failed") /\ Fault
    /\ UNCHANGED <<clock, route, rowVars, done, arrived>>

\* RELEASE_CLAIM_SQL deletes the row only while it is pending and carries
\* the token.
DeleteClaim(q) == state' = [state EXCEPT ![KeyOf[q]] = IF Owns(q) THEN "absent" ELSE @]

\* `let _ = release_pending_claim(..)`: its error is dropped.
Release(q) ==
    /\ worker[q] \in {"withdraw", "release"}
    /\ Reply(q, IF worker[q] = "withdraw" THEN "refused" ELSE "failed")
    /\ \/ DeleteClaim(q) /\ NoFault
       \/ UNCHANGED state /\ Fault
    /\ UNCHANGED <<clock, route, by, expires, done, arrived>>

Crash(q) ==
    /\ InFlight(q)
    /\ Fault
    /\ Goto(q, "gone")
    /\ UNCHANGED <<clock, route, rowVars, done, arrived>>

\* No invocation lives as long as a record.
Tick ==
    /\ clock < LastArrival + TTL
    /\ \A q \in Requests : InFlight(q) => clock + 1 < arrived[q] + TTL
    /\ clock' = clock + 1
    /\ UNCHANGED <<route, rowVars, done, worker, arrived, answer, source, faults>>

-----------------------------------------------------------------------------
Next ==
    \/ \E q \in Requests :
          \/ Arrive(q) \/ Lookup(q) \/ ClaimKey(q) \/ Refuse(q) \/ Commit(q)
          \/ Recheck(q) \/ Release(q) \/ Crash(q)
    \/ Tick

Spec == Init /\ [][Next]_vars

-----------------------------------------------------------------------------
(***************************************************************************)
(* Properties.                                                             *)
(***************************************************************************)
\* Every variable stays within the values its column or local can take.
TypeOK ==
    /\ clock \in Nat
    /\ route \in [Keys -> Routes]
    /\ state \in [Keys -> {"absent", "pending", "completed"}]
    /\ by \in [Keys -> Requests \cup {Nobody}]
    /\ expires \in [Keys -> Nat]
    /\ done \subseteq Requests
    /\ worker \in [Requests -> Phases]
    /\ arrived \in [Requests -> Nat]
    /\ answer \in [Requests -> Answers]
    /\ source \in [Requests -> Requests \cup {Nobody}]
    /\ faults \in Nat

\* A mutation takes effect under a key only when the record of every earlier
\* effect under that key has outlived its 24 hours, whatever was retried,
\* lost, released or taken over in between (docs/specs/f23, "retrying an
\* idempotent create does not duplicate resource").
OneEffectPerLifetime ==
    [][\A q \in done' \ done, p \in done :
          KeyOf[p] = KeyOf[q] => arrived[p] + TTL <= clock]_vars

\* The record and the business writes commit together: a completed row is
\* that of a request that took effect, a pending row that of one that has
\* not, and neither row outlives the 24 hours of its request.
RowsTellEffects ==
    \A k \in Keys :
        /\ state[k] = "completed" => by[k] \in done
        /\ state[k] = "pending" => by[k] \in Requests \ done
        /\ state[k] # "absent" => expires[k] = arrived[by[k]] + TTL

\* An answer is true: success and replay stand for a committed effect of the
\* same command under the same key, still alive when the request arrived; a
\* request that was told of a conflict, a refusal or another one in progress
\* has changed nothing.
Identical(p, q) == KeyOf[p] = KeyOf[q] /\ Command[p] = Command[q]

AnswersAreTrue ==
    \A q \in Requests :
        /\ answer[q] = "success" => q \in done
        /\ answer[q] = "replay" =>
              /\ source[q] \in done
              /\ Identical(source[q], q)
              /\ arrived[q] < arrived[source[q]] + TTL
        /\ answer[q] \in {"in_progress", "conflict", "refused", "guarded"} => q \notin done

\* Unless a call was lost, a key is never blocked by a request that is over:
\* a pending row belongs to an invocation that will still settle it
\* (repositories/idempotency.rs: no orphan pending claim).
OrphansOnlyByFault ==
    faults = 0 => \A k \in Keys : state[k] = "pending" => worker[by[k]] \in {"ready", "withdraw", "release"}

=============================================================================
