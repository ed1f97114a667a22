------------------------- MODULE IdempotencyProofs -------------------------
(***************************************************************************)
(* Theorems about Idempotency, for any set of requests and keys, any       *)
(* record life and any number of faults.                                   *)
(***************************************************************************)
EXTENDS Idempotency, TLAPS

-----------------------------------------------------------------------------
(***************************************************************************)
(* The inductive invariant.                                                *)
(***************************************************************************)
\* No request arrived in the future, and none is served longer than its
\* record lives.
Timely ==
    \A q \in Requests :
        /\ arrived[q] <= clock
        /\ InFlight(q) => clock < arrived[q] + TTL

\* A row belongs to a request with its key that has passed its claim, and
\* expires with it; it is completed exactly when that request took effect.
RowsSound ==
    \A k \in Keys : state[k] # "absent" =>
        /\ by[k] \in Requests
        /\ KeyOf[by[k]] = k
        /\ expires[k] = arrived[by[k]] + TTL
        /\ worker[by[k]] \notin {"new", "lookup", "claim"}
        /\ state[k] = "completed" <=> by[k] \in done

\* The completed row of an effect stays in place while it lives, and its
\* request is past its batch.
EffectsHeld ==
    \A p \in done :
        /\ worker[p] \in {"release", "recheck", "gone"}
        /\ \/ arrived[p] + TTL <= clock
           \/ state[KeyOf[p]] = "completed" /\ by[KeyOf[p]] = p

\* A request that was answered is over.
AnsweredIsOver == \A q \in Requests : answer[q] # "none" => worker[q] = "gone"

\* Only the two-phase routes leave a pending row between two steps.
ClaimsAreTwoPhase ==
    /\ \A q \in Requests : worker[q] = "claim" => RouteOf(q) = "two_phase"
    /\ \A k \in Keys : state[k] = "pending" => route[k] = "two_phase"

IInv ==
    /\ TypeOK
    /\ Timely
    /\ RowsSound
    /\ EffectsHeld
    /\ AnsweredIsOver
    /\ AnswersAreTrue
    /\ ClaimsAreTwoPhase
    /\ OrphansOnlyByFault

\* The invariant holds before the first request.
LEMMA InitInv == Init => IInv
<1> SUFFICES ASSUME Init PROVE IInv
  OBVIOUS
<1> USE ParametersOK DEF Init
<1>1. TypeOK
  BY DEF TypeOK, Phases, Answers
<1>2. Timely /\ RowsSound /\ EffectsHeld /\ AnsweredIsOver
  BY DEF Timely, RowsSound, EffectsHeld, AnsweredIsOver
<1>3. AnswersAreTrue /\ ClaimsAreTwoPhase /\ OrphansOnlyByFault
  BY DEF AnswersAreTrue, ClaimsAreTwoPhase, OrphansOnlyByFault
<1> QED
  BY <1>1, <1>2, <1>3 DEF IInv

\* A request that arrives has written nothing yet.
LEMMA ArriveStep ==
    ASSUME IInv, NEW q \in Requests, Arrive(q)
    PROVE  IInv'
<1> USE ParametersOK DEF IInv, Arrive, Goto, rowVars
<1>1. TypeOK'
  BY DEF TypeOK, Phases
<1>2. Timely'
  BY DEF Timely, InFlight, TypeOK
<1>3. RowsSound'
  BY DEF RowsSound
<1>4. EffectsHeld'
  BY DEF EffectsHeld
<1>5. AnsweredIsOver'
  BY DEF AnsweredIsOver
<1>6. AnswersAreTrue'
  BY DEF AnswersAreTrue, AnsweredIsOver, Timely, TypeOK
<1>7. ClaimsAreTwoPhase' /\ OrphansOnlyByFault'
  BY DEF ClaimsAreTwoPhase, OrphansOnlyByFault, RouteOf
<1> QED
  BY <1>1, <1>2, <1>3, <1>4, <1>5, <1>6, <1>7

\* A lookup writes nothing; a replay it answers is the live result of the same command.
LEMMA LookupStep ==
    ASSUME IInv, NEW q \in Requests, Lookup(q)
    PROVE  IInv'
<1> USE ParametersOK DEF IInv, Lookup, Goto, Reply, NoFault, Fault, rowVars, Found
<1>1. TypeOK'
  BY DEF TypeOK, Phases, Answers
<1>2. Timely'
  BY DEF Timely, InFlight, TypeOK
<1>3. RowsSound'
  BY DEF RowsSound, TypeOK
<1>4. EffectsHeld'
  BY DEF EffectsHeld, TypeOK
<1>5. AnsweredIsOver'
  BY DEF AnsweredIsOver, TypeOK
<1>6. AnswersAreTrue'
  BY DEF AnswersAreTrue, EffectsHeld, RowsSound, TypeOK, Identical
<1>7. ClaimsAreTwoPhase' /\ OrphansOnlyByFault'
  BY DEF ClaimsAreTwoPhase, OrphansOnlyByFault, RowsSound, TypeOK, RouteOf
<1> QED
  BY <1>1, <1>2, <1>3, <1>4, <1>5, <1>6, <1>7

\* A claim takes over an expired row only, so no effect that still lives loses its row.
LEMMA ClaimKeyStep ==
    ASSUME IInv, NEW q \in Requests, ClaimKey(q)
    PROVE  IInv'
<1> USE ParametersOK DEF IInv, ClaimKey, PutRow, Claimable, Goto, Reply, NoFault, Fault, rowVars
<1>1. TypeOK'
  BY DEF TypeOK, Phases, Answers
<1>2. Timely'
  BY DEF Timely, InFlight, TypeOK
<1>3. RowsSound'
  BY DEF RowsSound, EffectsHeld, TypeOK
<1>4. EffectsHeld'
  BY DEF EffectsHeld, RowsSound, Timely, TypeOK
<1>5. AnsweredIsOver'
  BY DEF AnsweredIsOver, TypeOK
<1>6. AnswersAreTrue'
  BY DEF AnswersAreTrue, EffectsHeld, TypeOK
<1>7. ClaimsAreTwoPhase' /\ OrphansOnlyByFault'
  BY DEF ClaimsAreTwoPhase, OrphansOnlyByFault, RowsSound, TypeOK, RouteOf
<1> QED
  BY <1>1, <1>2, <1>3, <1>4, <1>5, <1>6, <1>7

\* A refusal keeps the claim until the release that follows it.
LEMMA RefuseStep ==
    ASSUME IInv, NEW q \in Requests, Refuse(q)
    PROVE  IInv'
<1> USE ParametersOK DEF IInv, Refuse, Goto, Reply, NoFault, Fault, rowVars
<1>1. TypeOK'
  BY DEF TypeOK, Phases, Answers
<1>2. Timely'
  BY DEF Timely, InFlight, TypeOK
<1>3. RowsSound'
  BY DEF RowsSound, TypeOK
<1>4. EffectsHeld'
  BY DEF EffectsHeld, TypeOK
<1>5. AnsweredIsOver'
  BY DEF AnsweredIsOver, TypeOK
<1>6. AnswersAreTrue'
  BY DEF AnswersAreTrue, EffectsHeld, TypeOK
<1>7. ClaimsAreTwoPhase' /\ OrphansOnlyByFault'
  BY DEF ClaimsAreTwoPhase, OrphansOnlyByFault, RowsSound, TypeOK, RouteOf
<1> QED
  BY <1>1, <1>2, <1>3, <1>4, <1>5, <1>6, <1>7

\* A batch takes effect only with a row of its own, which it completes.
LEMMA CommitStep ==
    ASSUME IInv, NEW q \in Requests, Commit(q)
    PROVE  IInv'
<1> USE ParametersOK DEF IInv, Commit, OnError, Effect, PutRow, GuardHolds, Claimable,
                         Owns, Goto, Reply, NoFault, Fault, rowVars
<1>1. TypeOK'
  BY DEF TypeOK, Phases, Answers
<1>2. Timely'
  BY DEF Timely, InFlight, TypeOK
<1>3. RowsSound'
  BY DEF RowsSound, TypeOK
<1>4. EffectsHeld'
  \* A row the batch replaces has expired, or is the pending one of q.
  <2>1. ASSUME NEW p \in done, GuardHolds(q), KeyOf[p] = KeyOf[q]
        PROVE  arrived[p] + TTL <= clock
    <3>1. CASE Claimable(q)
      BY <2>1, <3>1 DEF EffectsHeld, RowsSound, Timely, TypeOK
    <3>2. CASE Owns(q)
      BY <2>1, <3>2 DEF EffectsHeld
    <3> QED
      BY <2>1, <3>1, <3>2
  <2>2. CASE GuardHolds(q) /\ Effect(q)
    BY <2>1, <2>2 DEF EffectsHeld, TypeOK
  <2>3. CASE UNCHANGED <<rowVars, done>>
    BY <2>3 DEF EffectsHeld, TypeOK
  <2> QED
    BY <2>2, <2>3
<1>5. AnsweredIsOver'
  BY DEF AnsweredIsOver, TypeOK
<1>6. AnswersAreTrue'
  BY DEF AnswersAreTrue, AnsweredIsOver, EffectsHeld, TypeOK
<1>7. ClaimsAreTwoPhase' /\ OrphansOnlyByFault'
  BY DEF ClaimsAreTwoPhase, OrphansOnlyByFault, RowsSound, TypeOK, RouteOf
<1> QED
  BY <1>1, <1>2, <1>3, <1>4, <1>5, <1>6, <1>7

\* A request that took effect finds its own row, for it is younger than the row.
LEMMA RecheckStep ==
    ASSUME IInv, NEW q \in Requests, Recheck(q)
    PROVE  IInv'
<1> USE ParametersOK DEF IInv, Recheck, Goto, Reply, NoFault, Fault, rowVars, Found
<1>1. TypeOK'
  BY DEF TypeOK, Phases, Answers
<1>2. Timely'
  BY DEF Timely, InFlight, TypeOK
<1>3. RowsSound'
  BY DEF RowsSound, TypeOK
<1>4. EffectsHeld'
  BY DEF EffectsHeld, TypeOK
<1>5. AnsweredIsOver'
  BY DEF AnsweredIsOver, TypeOK
<1>6. AnswersAreTrue'
  BY DEF AnswersAreTrue, AnsweredIsOver, EffectsHeld, RowsSound, Timely, InFlight, TypeOK,
         Identical
<1>7. ClaimsAreTwoPhase' /\ OrphansOnlyByFault'
  BY DEF ClaimsAreTwoPhase, OrphansOnlyByFault, RowsSound, TypeOK, RouteOf
<1> QED
  BY <1>1, <1>2, <1>3, <1>4, <1>5, <1>6, <1>7

\* A release deletes no row but the pending one of its own request.
LEMMA ReleaseStep ==
    ASSUME IInv, NEW q \in Requests, Release(q)
    PROVE  IInv'
<1> USE ParametersOK DEF IInv, Release, DeleteClaim, Owns, Goto, Reply, NoFault, Fault
<1>1. TypeOK'
  BY DEF TypeOK, Phases, Answers
<1>2. Timely'
  BY DEF Timely, InFlight, TypeOK
<1>3. RowsSound'
  BY DEF RowsSound, TypeOK
<1>4. EffectsHeld'
  <2>1. ASSUME NEW k \in Keys, state[k] = "completed"
        PROVE  state'[k] = "completed"
    BY <2>1 DEF TypeOK
  <2>2. worker' = [worker EXCEPT ![q] = "gone"]
    OBVIOUS
  <2>3. UNCHANGED <<clock, by, done, arrived>>
    OBVIOUS
  <2> HIDE DEF Release
  <2> QED
    BY <2>1, <2>2, <2>3 DEF EffectsHeld, TypeOK
<1>5. AnsweredIsOver'
  BY DEF AnsweredIsOver, TypeOK
<1>6. AnswersAreTrue'
  BY DEF AnswersAreTrue, EffectsHeld, TypeOK
<1>7. ClaimsAreTwoPhase' /\ OrphansOnlyByFault'
  BY DEF ClaimsAreTwoPhase, OrphansOnlyByFault, RowsSound, TypeOK, RouteOf
<1> QED
  BY <1>1, <1>2, <1>3, <1>4, <1>5, <1>6, <1>7

\* A lost invocation leaves the rows as they are.
LEMMA CrashStep ==
    ASSUME IInv, NEW q \in Requests, Crash(q)
    PROVE  IInv'
<1> USE ParametersOK DEF IInv, Crash, InFlight, Goto, Fault, rowVars
<1>1. TypeOK'
  BY DEF TypeOK, Phases, Answers
<1>2. Timely'
  BY DEF Timely, InFlight, TypeOK
<1>3. RowsSound'
  BY DEF RowsSound, TypeOK
<1>4. EffectsHeld'
  BY DEF EffectsHeld, TypeOK
<1>5. AnsweredIsOver'
  BY DEF AnsweredIsOver, TypeOK
<1>6. AnswersAreTrue'
  BY DEF AnswersAreTrue, EffectsHeld, TypeOK
<1>7. ClaimsAreTwoPhase' /\ OrphansOnlyByFault'
  BY DEF ClaimsAreTwoPhase, OrphansOnlyByFault, RowsSound, TypeOK, RouteOf
<1> QED
  BY <1>1, <1>2, <1>3, <1>4, <1>5, <1>6, <1>7

\* Time passes for rows and effects alike.
LEMMA TickStep ==
    ASSUME IInv, Tick
    PROVE  IInv'
<1> USE ParametersOK DEF IInv, Tick, rowVars
<1>1. TypeOK'
  BY DEF TypeOK
<1>2. Timely'
  BY DEF Timely, InFlight, TypeOK
<1>3. RowsSound'
  BY DEF RowsSound
<1>4. EffectsHeld'
  BY DEF EffectsHeld, TypeOK
<1>5. AnsweredIsOver'
  BY DEF AnsweredIsOver
<1>6. AnswersAreTrue'
  BY DEF AnswersAreTrue, Identical
<1>7. ClaimsAreTwoPhase' /\ OrphansOnlyByFault'
  BY DEF ClaimsAreTwoPhase, OrphansOnlyByFault, RouteOf
<1> QED
  BY <1>1, <1>2, <1>3, <1>4, <1>5, <1>6, <1>7

\* No step leaves the invariant.
LEMMA NextInv == IInv /\ [Next]_vars => IInv'
<1> SUFFICES ASSUME IInv, [Next]_vars PROVE IInv'
  OBVIOUS
<1>1. CASE UNCHANGED vars
  BY <1>1 DEF IInv, vars, TypeOK, Timely, InFlight, RowsSound, EffectsHeld, AnsweredIsOver,
              AnswersAreTrue, Identical, ClaimsAreTwoPhase, RouteOf, OrphansOnlyByFault
<1>2. CASE Tick
  BY <1>2, TickStep
<1>3. ASSUME NEW q \in Requests,
             \/ Arrive(q) \/ Lookup(q) \/ ClaimKey(q) \/ Refuse(q) \/ Commit(q)
             \/ Recheck(q) \/ Release(q) \/ Crash(q)
      PROVE  IInv'
  BY <1>3, ArriveStep, LookupStep, ClaimKeyStep, RefuseStep, CommitStep, RecheckStep,
     ReleaseStep, CrashStep
<1> QED
  BY <1>1, <1>2, <1>3 DEF Next

\* The invariant holds throughout.
LEMMA Invariant == Spec => []IInv
  BY InitInv, NextInv, PTL DEF Spec

-----------------------------------------------------------------------------
(***************************************************************************)
(* The properties.                                                         *)
(***************************************************************************)
\* Types are respected throughout (idempotency_records columns, handler
\* locals).
THEOREM TypeCorrect == Spec => []TypeOK
  BY Invariant, PTL DEF IInv

\* Record and business writes commit together: a completed row has its
\* effect, a pending one has none.
THEOREM RowsAlwaysTellEffects == Spec => []RowsTellEffects
<1>1. IInv => RowsTellEffects
  BY DEF IInv, TypeOK, RowsSound, RowsTellEffects
<1> QED
  BY <1>1, Invariant, PTL

\* Every answer a caller gets is true of what was committed.
THEOREM AnswersAlwaysTrue == Spec => []AnswersAreTrue
  BY Invariant, PTL DEF IInv

\* Without a fault no pending row outlives its invocation.
THEOREM NoOrphanWithoutFault == Spec => []OrphansOnlyByFault
  BY Invariant, PTL DEF IInv

\* No key takes effect twice within the life of a record.
THEOREM OneEffect == Spec => OneEffectPerLifetime
<1>1. ASSUME IInv, [Next]_vars,
             NEW q \in done' \ done, NEW p \in done, KeyOf[p] = KeyOf[q]
      PROVE  arrived[p] + TTL <= clock
  <2>1. PICK r \in Requests : Commit(r) /\ done' = done \cup {r} /\ GuardHolds(r)
    BY <1>1 DEF Next, vars, Arrive, Lookup, ClaimKey, Refuse, Commit, Effect, Recheck, Release,
                Crash, Tick
  <2>2. r = q
    BY <1>1, <2>1
  <2>3. CASE state[KeyOf[p]] = "completed" /\ by[KeyOf[p]] = p
    <3>1. expires[KeyOf[p]] <= arrived[q]
      BY <1>1, <2>1, <2>2, <2>3 DEF GuardHolds, Claimable, Owns
    <3>2. expires[KeyOf[p]] = arrived[p] + TTL
      BY <1>1, <2>3, ParametersOK DEF IInv, TypeOK, RowsSound
    <3>3. arrived[q] <= clock
      BY <2>1, <2>2, <1>1 DEF IInv, Timely
    <3> QED
      BY <3>1, <3>2, <3>3, <1>1, <2>1, <2>2, ParametersOK DEF IInv, TypeOK
  <2> QED
    BY <1>1, <2>3 DEF IInv, EffectsHeld
<1>2. IInv /\ [Next]_vars
        => [\A q \in done' \ done, p \in done :
               KeyOf[p] = KeyOf[q] => arrived[p] + TTL <= clock]_vars
  BY <1>1
<1> QED
  BY <1>2, Invariant, PTL DEF Spec, OneEffectPerLifetime

=============================================================================
