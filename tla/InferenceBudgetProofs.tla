---------------------- MODULE InferenceBudgetProofs ----------------------
(***************************************************************************)
(* Theorems about InferenceBudget, for any set of calls, budgets, costs    *)
(* and limits.                                                             *)
(***************************************************************************)
EXTENDS InferenceBudget, FiniteSetTheorems, TLAPS

-----------------------------------------------------------------------------
(***************************************************************************)
(* The sums of the budget queries, as cardinalities.                       *)
(***************************************************************************)
\* The units of a set of calls are finitely many, so every sum is a natural
\* number.
LEMMA UnitsFinite ==
    ASSUME NEW S \in SUBSET Requests
    PROVE  IsFiniteSet(Units(S)) /\ Minor(S) \in Nat
<1>1. IsFiniteSet(S)
  BY ParametersOK, FS_Subset
<1>2. IsFiniteSet(1 .. MaxCost)
  BY ParametersOK, FS_Interval
<1>3. IsFiniteSet(S \X (1 .. MaxCost))
  BY <1>1, <1>2, FS_Product
<1>4. Units(S) \in SUBSET (S \X (1 .. MaxCost))
  BY DEF Units
<1>5. IsFiniteSet(Units(S))
  BY <1>3, <1>4, FS_Subset
<1> QED
  BY <1>5, FS_CardinalityType DEF Minor

\* A larger set of calls costs no less.
LEMMA MinorMonotone ==
    ASSUME NEW T \in SUBSET Requests, NEW S \in SUBSET T
    PROVE  Minor(S) <= Minor(T)
<1>1. IsFiniteSet(Units(T))
  BY UnitsFinite
<1>2. Units(S) \in SUBSET Units(T)
  BY DEF Units
<1> QED
  BY <1>1, <1>2, FS_Subset DEF Minor

\* Two sets of calls together cost no more than their two sums.
LEMMA MinorUnion ==
    ASSUME NEW S \in SUBSET Requests, NEW T \in SUBSET Requests
    PROVE  Minor(S \cup T) <= Minor(S) + Minor(T)
<1>1. IsFiniteSet(Units(S)) /\ IsFiniteSet(Units(T))
  BY UnitsFinite
<1>2. Units(S \cup T) = Units(S) \cup Units(T)
  BY DEF Units
<1>3. Cardinality(Units(S) \cup Units(T))
        = Cardinality(Units(S)) + Cardinality(Units(T)) - Cardinality(Units(S) \cap Units(T))
  BY <1>1, FS_Union
<1>4. IsFiniteSet(Units(S) \cap Units(T))
  <2>1. Units(S) \cap Units(T) \in SUBSET Units(S)
    OBVIOUS
  <2> QED
    BY <1>1, <2>1, FS_Subset
<1>5. /\ Cardinality(Units(S)) \in Nat
      /\ Cardinality(Units(T)) \in Nat
      /\ Cardinality(Units(S) \cap Units(T)) \in Nat
  BY <1>1, <1>4, FS_CardinalityType
<1>6. Minor(S \cup T) = Cardinality(Units(S) \cup Units(T))
  BY <1>2 DEF Minor
<1>7. Minor(S) = Cardinality(Units(S)) /\ Minor(T) = Cardinality(Units(T))
  BY DEF Minor
<1> QED
  BY <1>3, <1>5, <1>6, <1>7

\* One call costs its reservation.
LEMMA MinorSingle ==
    ASSUME NEW r \in Requests
    PROVE  Minor({r}) = Cost[r]
<1>1. Cost[r] \in Nat /\ Cost[r] > 0 /\ Cost[r] <= MaxCost /\ MaxCost \in Nat
  BY ParametersOK
<1>2. Units({r}) = {r} \X (1 .. Cost[r])
  <2> DEFINE U == Units({r})
             P == {r} \X (1 .. Cost[r])
  <2>1. ASSUME NEW u \in U PROVE u \in P
    <3>1. PICK q \in {r}, k \in 1 .. MaxCost : u = <<q, k>>
      BY DEF Units
    <3>2. u[1] = r /\ u[2] = k /\ u[2] <= Cost[u[1]]
      BY <3>1 DEF Units
    <3>3. k \in 1 .. Cost[r]
      BY <1>1, <3>2
    <3> QED
      BY <3>1, <3>3
  <2>2. ASSUME NEW u \in P PROVE u \in U
    <3>1. PICK q \in {r}, k \in 1 .. Cost[r] : u = <<q, k>>
      OBVIOUS
    <3>2. k \in 1 .. MaxCost
      BY <1>1
    <3>3. u \in {r} \X (1 .. MaxCost)
      BY <3>1, <3>2
    <3>4. u[2] <= Cost[u[1]]
      BY <1>1, <3>1
    <3> QED
      BY <3>3, <3>4 DEF Units
  <2>3. U \subseteq P /\ P \subseteq U
    BY <2>1, <2>2
  <2> HIDE DEF U, P
  <2>4. U = P
    BY <2>3
  <2> QED
    BY <2>4 DEF U, P
<1>3. IsFiniteSet({r}) /\ Cardinality({r}) = 1
  BY FS_Singleton
<1>4. IsFiniteSet(1 .. Cost[r]) /\ Cardinality(1 .. Cost[r]) = Cost[r]
  <2>1. 1 \in Int /\ Cost[r] \in Int
    BY <1>1
  <2>2. /\ IsFiniteSet(1 .. Cost[r])
        /\ Cardinality(1 .. Cost[r]) = IF 1 > Cost[r] THEN 0 ELSE Cost[r] - 1 + 1
    BY <2>1, FS_Interval
  <2> QED
    BY <1>1, <2>2
<1>5. Cardinality({r} \X (1 .. Cost[r])) = Cardinality({r}) * Cardinality(1 .. Cost[r])
  BY <1>3, <1>4, FS_Product
<1>6. Cardinality({r} \X (1 .. Cost[r])) = Cost[r]
  BY <1>1, <1>3, <1>4, <1>5
<1> QED
  BY <1>2, <1>6 DEF Minor

-----------------------------------------------------------------------------
(***************************************************************************)
(* Type correctness.                                                       *)
(***************************************************************************)
\* The initial state is well typed.
LEMMA TypeInit == Init => TypeOK
  BY ParametersOK DEF Init, TypeOK, Phases

\* Every step leaves the state well typed.
LEMMA TypeStep == TypeOK /\ [Next]_vars => TypeOK'
<1> SUFFICES ASSUME TypeOK, [Next]_vars PROVE TypeOK'
  OBVIOUS
<1> USE DEF TypeOK, Phases, ActiveStates, TerminalStates, Goto, NoFault, Fault,
            budgetVars, holdVars, localVars
<1>1. ASSUME NEW r \in Requests, Arrive(r) PROVE TypeOK'
  BY <1>1, ParametersOK DEF Arrive
<1>2. ASSUME NEW r \in Requests, RateAdmission(r) PROVE TypeOK'
  BY <1>2 DEF RateAdmission
<1>3. ASSUME NEW r \in Requests, ScopedBudgetAdmission(r) PROVE TypeOK'
  BY <1>3, ParametersOK DEF ScopedBudgetAdmission, MostRestrictive, Applicable
<1>4. ASSUME NEW r \in Requests, OrgBudgetAdmission(r) PROVE TypeOK'
  BY <1>4 DEF OrgBudgetAdmission
<1>5. ASSUME NEW r \in Requests, Granted(r) PROVE TypeOK'
  BY <1>5, ParametersOK DEF Granted, InsertRequest
<1>6. ASSUME NEW r \in Requests, Refused(r) PROVE TypeOK'
  BY <1>6 DEF Refused, InsertRequest
<1>7. ASSUME NEW r \in Requests, AdmissionLost(r) PROVE TypeOK'
  BY <1>7 DEF AdmissionLost
<1>8. ASSUME NEW r \in Requests, Denied(r) PROVE TypeOK'
  BY <1>8 DEF Denied
<1>9. ASSUME NEW r \in Requests, Unwind(r) PROVE TypeOK'
  BY <1>9 DEF Unwind, Settle, Release
<1>10. ASSUME NEW r \in Requests, Attempt(r) PROVE TypeOK'
  BY <1>10 DEF Attempt, NextCandidate
<1>11. ASSUME NEW r \in Requests, Await(r) PROVE TypeOK'
  BY <1>11 DEF Await, NextCandidate
<1>12. ASSUME NEW r \in Requests, Failing(r) PROVE TypeOK'
  BY <1>12 DEF Failing, Settle, Release
<1>13. ASSUME NEW r \in Requests, Collect(r) PROVE TypeOK'
  BY <1>13 DEF Collect, Settle, Release
<1>14. ASSUME NEW r \in Requests, NEW ok \in BOOLEAN, ReaderEnd(r, ok) PROVE TypeOK'
  BY <1>14 DEF ReaderEnd, Claim
<1>15. ASSUME NEW r \in Requests, AbortCallback(r) PROVE TypeOK'
  BY <1>15 DEF AbortCallback, Claim
<1>16. ASSUME NEW r \in Requests, DropStream(r) PROVE TypeOK'
  BY <1>16 DEF DropStream, Claim
<1>17. ASSUME NEW r \in Requests, PendingCommit(r) PROVE TypeOK'
  <2>1. pending' = [pending EXCEPT ![r] = "none"]
        /\ UNCHANGED <<clock, limit, hard, worker, arrived, bound, tries>>
    BY <1>17 DEF PendingCommit
  <2>2. flag' \in [Requests -> BOOLEAN]
    BY <1>17 DEF PendingCommit, ClearFlag
  <2>3. ASSUME NEW ok \in BOOLEAN, Settle(r, ok)
        PROVE  /\ row' \in [Requests -> {"absent"} \cup ActiveStates \cup TerminalStates]
               /\ hold' \in [Requests -> {"absent", "reserved", "committed", "released", "expired"}]
               /\ UNCHANGED <<heldFor, expires>> /\ used' \subseteq Requests
    BY <2>3 DEF Settle, Release
  <2>4. \/ \E ok \in BOOLEAN : Settle(r, ok)
        \/ UNCHANGED <<row, hold, heldFor, expires, used>>
    BY <1>17 DEF PendingCommit
  <2>5. faults' \in Nat
    BY <1>17 DEF PendingCommit
  <2> QED
    BY <2>1, <2>2, <2>3, <2>4, <2>5
<1>18. ASSUME NEW r \in Requests, Crash(r) PROVE TypeOK'
  BY <1>18 DEF Crash
<1>19. ASSUME NEW r \in Requests, NEW b \in Budgets, HostReserve(r, b) PROVE TypeOK'
  BY <1>19, ParametersOK DEF HostReserve
<1>20. ASSUME NEW r \in Requests,
             NEW status \in {"committed", "released", "expired"}, HostSettle(r, status) PROVE TypeOK'
  BY <1>20 DEF HostSettle
<1>21. ASSUME Tick PROVE TypeOK'
  BY <1>21 DEF Tick
<1>22. ASSUME NEW b \in Budgets, NEW l \in PatchLimits, NEW h \in BOOLEAN, PatchBudget(b, l, h)
       PROVE TypeOK'
  BY <1>22, ParametersOK DEF PatchBudget
<1>23. ASSUME UNCHANGED vars PROVE TypeOK'
  BY <1>23 DEF vars
<1> QED
  BY <1>1, <1>2, <1>3, <1>4, <1>5, <1>6, <1>7, <1>8, <1>9, <1>10, <1>11, <1>12, <1>13, <1>14, <1>15, <1>16, <1>17, <1>18, <1>19, <1>20, <1>21, <1>22, <1>23
     DEF Next, Admission, Serving, Host, Environment

\* The type invariant holds in every reachable state.
THEOREM TypeCorrect == Spec => []TypeOK
<1> QED
  BY TypeInit, TypeStep, PTL DEF Spec

-----------------------------------------------------------------------------
(***************************************************************************)
(* The inductive invariant.  BooksAgree is not inductive: whether a success *)
(* may still be recorded depends on where the invocation stands.           *)
(***************************************************************************)
Early == {"new", "rate", "budget", "admit"}

\* The calls that may still be finalized as completed.
Owed(r) ==
    \/ worker[r] \in {"attempt", "await", "collect"}
    \/ worker[r] = "stream" /\ ~flag[r]
    \/ pending[r] = "reader_ok"

\* Nothing is written before the admission batch.
NothingYet(r) == worker[r] \in Early => row[r] = "absent" /\ hold[r] = "absent" /\ r \notin used

\* A refused call has a row and no hold.
RefusedClean(r) ==
    worker[r] = "denied" => row[r] \in ActiveStates /\ (r \notin HostSettled => hold[r] = "absent")

\* Whoever sent a batch holds the flag.
SenderHasFlag(r) == pending[r] # "none" => flag[r] /\ worker[r] \in {"stream", "drain", "gone"}

\* A live invocation has not outlived the reservation it made.
OnTime(r) == InFlight(r) => arrived[r] <= clock /\ clock < arrived[r] + TTL

\* A call that may still succeed is open, unrecorded, and holds its money.
StillHeld(r) ==
    Owed(r) =>
        /\ row[r] \in ActiveStates
        /\ r \notin used
        /\ r \notin HostSettled => hold[r] = "reserved" /\ expires[r] = arrived[r] + TTL

CallInv(r) ==
    /\ NothingYet(r) /\ RefusedClean(r) /\ SenderHasFlag(r) /\ OnTime(r) /\ StillHeld(r)
    /\ r \notin HostSettled => Books(r)

IInv == TypeOK /\ \A r \in Requests : CallInv(r)

\* No call has begun, so the invariant holds of every call.
LEMMA InvInit == Init => IInv
<1> SUFFICES ASSUME Init PROVE IInv
  OBVIOUS
<1>1. TypeOK
  BY TypeInit
<1>2. ASSUME NEW q \in Requests PROVE CallInv(q)
  BY DEF Init, CallInv, NothingYet, RefusedClean, SenderHasFlag, OnTime, StillHeld, Owed, Early,
         InFlight, Books, ActiveStates, TerminalStates
<1> QED
  BY <1>1, <1>2 DEF IInv

\* Every step keeps the invariant of every call: of the call it serves by
\* the order of its phases, of the others because it leaves their rows alone.
LEMMA InvStep == IInv /\ [Next]_vars => IInv'
<1> SUFFICES ASSUME IInv, [Next]_vars PROVE IInv'
  OBVIOUS
<1>t. TypeOK /\ TypeOK'
  BY TypeStep DEF IInv
<1> SUFFICES ASSUME NEW q \in Requests PROVE CallInv(q)'
  BY <1>t DEF IInv
<1>i. CallInv(q)
  BY DEF IInv
<1> USE DEF TypeOK, CallInv, NothingYet, RefusedClean, SenderHasFlag, OnTime, StillHeld, Owed, Early,
            InFlight, Books, ActiveStates, TerminalStates, Goto, NoFault, Fault,
            budgetVars, holdVars, localVars
<1>1. ASSUME NEW r \in Requests, Arrive(r) PROVE CallInv(q)'
  BY <1>1, <1>t, <1>i, ParametersOK DEF Arrive
<1>2. ASSUME NEW r \in Requests, RateAdmission(r) PROVE CallInv(q)'
  BY <1>2, <1>t, <1>i DEF RateAdmission
<1>3. ASSUME NEW r \in Requests, ScopedBudgetAdmission(r) PROVE CallInv(q)'
  BY <1>3, <1>t, <1>i DEF ScopedBudgetAdmission
<1>4. ASSUME NEW r \in Requests, OrgBudgetAdmission(r) PROVE CallInv(q)'
  BY <1>4, <1>t, <1>i DEF OrgBudgetAdmission
<1>5. ASSUME NEW r \in Requests, Granted(r) PROVE CallInv(q)'
  BY <1>5, <1>t, <1>i DEF Granted, InsertRequest
<1>6. ASSUME NEW r \in Requests, Refused(r) PROVE CallInv(q)'
  BY <1>6, <1>t, <1>i DEF Refused, InsertRequest
<1>7. ASSUME NEW r \in Requests, AdmissionLost(r) PROVE CallInv(q)'
  BY <1>7, <1>t, <1>i DEF AdmissionLost
<1>8. ASSUME NEW r \in Requests, Denied(r) PROVE CallInv(q)'
  BY <1>8, <1>t, <1>i DEF Denied
<1>9. ASSUME NEW r \in Requests, Unwind(r) PROVE CallInv(q)'
  BY <1>9, <1>t, <1>i DEF Unwind, Settle, Release
<1>10. ASSUME NEW r \in Requests, Attempt(r) PROVE CallInv(q)'
  BY <1>10, <1>t, <1>i DEF Attempt, NextCandidate
<1>11. ASSUME NEW r \in Requests, Await(r) PROVE CallInv(q)'
  BY <1>11, <1>t, <1>i DEF Await, NextCandidate
<1>12. ASSUME NEW r \in Requests, Failing(r) PROVE CallInv(q)'
  BY <1>12, <1>t, <1>i DEF Failing, Settle, Release
<1>13. ASSUME NEW r \in Requests, Collect(r) PROVE CallInv(q)'
  BY <1>13, <1>t, <1>i DEF Collect, Settle, Release
<1>14. ASSUME NEW r \in Requests, NEW ok \in BOOLEAN, ReaderEnd(r, ok) PROVE CallInv(q)'
  BY <1>14, <1>t, <1>i DEF ReaderEnd, Claim
<1>15. ASSUME NEW r \in Requests, AbortCallback(r) PROVE CallInv(q)'
  BY <1>15, <1>t, <1>i DEF AbortCallback, Claim
<1>16. ASSUME NEW r \in Requests, DropStream(r) PROVE CallInv(q)'
  BY <1>16, <1>t, <1>i DEF DropStream, Claim
<1>17. ASSUME NEW r \in Requests, PendingCommit(r) PROVE CallInv(q)'
  BY <1>17, <1>t, <1>i DEF PendingCommit, ClearFlag, Settle, Release
<1>18. ASSUME NEW r \in Requests, Crash(r) PROVE CallInv(q)'
  BY <1>18, <1>t, <1>i DEF Crash
<1>19. ASSUME NEW r \in Requests, NEW b \in Budgets, HostReserve(r, b) PROVE CallInv(q)'
  BY <1>19, <1>t, <1>i DEF HostReserve
<1>20. ASSUME NEW r \in Requests,
             NEW status \in {"committed", "released", "expired"}, HostSettle(r, status) PROVE CallInv(q)'
  BY <1>20, <1>t, <1>i DEF HostSettle
<1>21. ASSUME Tick PROVE CallInv(q)'
  BY <1>21, <1>t, <1>i DEF Tick
<1>22. ASSUME NEW b \in Budgets, NEW l \in PatchLimits, NEW h \in BOOLEAN, PatchBudget(b, l, h)
       PROVE CallInv(q)'
  BY <1>22, <1>t, <1>i DEF PatchBudget
<1>23. ASSUME UNCHANGED vars PROVE CallInv(q)'
  BY <1>23, <1>t, <1>i DEF vars
<1> QED
  BY <1>1, <1>2, <1>3, <1>4, <1>5, <1>6, <1>7, <1>8, <1>9, <1>10, <1>11, <1>12,
     <1>13, <1>14, <1>15, <1>16, <1>17, <1>18, <1>19, <1>20, <1>21, <1>22, <1>23
     DEF Next, Admission, Serving, Host, Environment

\* The invariant holds in every reachable state.
LEMMA InvAlways == Spec => []IInv
<1> QED
  BY InvInit, InvStep, PTL DEF Spec

\* Request row, reservation and usage event always tell one story, for every
\* call whose host leaves its reservation to the gateway.
THEOREM BooksAlwaysAgree == Spec => []BooksAgree
<1>1. IInv => BooksAgree
  BY DEF IInv, CallInv, BooksAgree
<1> QED
  BY <1>1, InvAlways, PTL

-----------------------------------------------------------------------------
(***************************************************************************)
(* What a step may never do to a row or to a reservation.                  *)
(***************************************************************************)
RowStep(q) ==
    /\ row[q] \in TerminalStates => row'[q] \in TerminalStates
    /\ row[q] = "failed" => row'[q] = "failed"

HoldStep(q) == hold[q] \in {"committed", "released", "expired"} => hold'[q] = hold[q]

\* How a step may move the row and the reservation of a call.
LEMMA RowHoldStep ==
    ASSUME IInv, [Next]_vars, NEW q \in Requests
    PROVE  RowStep(q) /\ HoldStep(q)
<1>t. TypeOK /\ CallInv(q)
  BY DEF IInv
<1> USE DEF TypeOK, CallInv, NothingYet, RefusedClean, StillHeld, Owed, Early,
            ActiveStates, TerminalStates, budgetVars, holdVars, localVars, RowStep, HoldStep
<1>1. ASSUME NEW r \in Requests, Arrive(r) PROVE RowStep(q) /\ HoldStep(q)
  BY <1>1, <1>t DEF Arrive
<1>2. ASSUME NEW r \in Requests, RateAdmission(r) PROVE RowStep(q) /\ HoldStep(q)
  BY <1>2, <1>t DEF RateAdmission
<1>3. ASSUME NEW r \in Requests, ScopedBudgetAdmission(r) PROVE RowStep(q) /\ HoldStep(q)
  BY <1>3, <1>t DEF ScopedBudgetAdmission
<1>4. ASSUME NEW r \in Requests, OrgBudgetAdmission(r) PROVE RowStep(q) /\ HoldStep(q)
  BY <1>4, <1>t DEF OrgBudgetAdmission
<1>5. ASSUME NEW r \in Requests, Granted(r) PROVE RowStep(q) /\ HoldStep(q)
  BY <1>5, <1>t DEF Granted, InsertRequest
<1>6. ASSUME NEW r \in Requests, Refused(r) PROVE RowStep(q) /\ HoldStep(q)
  BY <1>6, <1>t DEF Refused, InsertRequest
<1>7. ASSUME NEW r \in Requests, AdmissionLost(r) PROVE RowStep(q) /\ HoldStep(q)
  BY <1>7, <1>t DEF AdmissionLost
<1>8. ASSUME NEW r \in Requests, Denied(r) PROVE RowStep(q) /\ HoldStep(q)
  BY <1>8, <1>t DEF Denied
<1>9. ASSUME NEW r \in Requests, Unwind(r) PROVE RowStep(q) /\ HoldStep(q)
  BY <1>9, <1>t DEF Unwind, Settle, Release
<1>10. ASSUME NEW r \in Requests, Attempt(r) PROVE RowStep(q) /\ HoldStep(q)
  BY <1>10, <1>t DEF Attempt, NextCandidate
<1>11. ASSUME NEW r \in Requests, Await(r) PROVE RowStep(q) /\ HoldStep(q)
  BY <1>11, <1>t DEF Await, NextCandidate
<1>12. ASSUME NEW r \in Requests, Failing(r) PROVE RowStep(q) /\ HoldStep(q)
  BY <1>12, <1>t DEF Failing, Settle, Release
<1>13. ASSUME NEW r \in Requests, Collect(r) PROVE RowStep(q) /\ HoldStep(q)
  BY <1>13, <1>t DEF Collect, Settle, Release
<1>14. ASSUME NEW r \in Requests, NEW ok \in BOOLEAN, ReaderEnd(r, ok) PROVE RowStep(q) /\ HoldStep(q)
  BY <1>14, <1>t DEF ReaderEnd, Claim
<1>15. ASSUME NEW r \in Requests, AbortCallback(r) PROVE RowStep(q) /\ HoldStep(q)
  BY <1>15, <1>t DEF AbortCallback, Claim
<1>16. ASSUME NEW r \in Requests, DropStream(r) PROVE RowStep(q) /\ HoldStep(q)
  BY <1>16, <1>t DEF DropStream, Claim
<1>17. ASSUME NEW r \in Requests, PendingCommit(r) PROVE RowStep(q) /\ HoldStep(q)
  BY <1>17, <1>t DEF PendingCommit, Settle, Release
<1>18. ASSUME NEW r \in Requests, Crash(r) PROVE RowStep(q) /\ HoldStep(q)
  BY <1>18, <1>t DEF Crash
<1>19. ASSUME NEW r \in Requests, NEW b \in Budgets, HostReserve(r, b) PROVE RowStep(q) /\ HoldStep(q)
  BY <1>19, <1>t DEF HostReserve
<1>20. ASSUME NEW r \in Requests,
             NEW status \in {"committed", "released", "expired"}, HostSettle(r, status) PROVE RowStep(q) /\ HoldStep(q)
  BY <1>20, <1>t DEF HostSettle
<1>21. ASSUME Tick PROVE RowStep(q) /\ HoldStep(q)
  BY <1>21, <1>t DEF Tick
<1>22. ASSUME NEW b \in Budgets, NEW l \in PatchLimits, NEW h \in BOOLEAN, PatchBudget(b, l, h)
       PROVE RowStep(q) /\ HoldStep(q)
  BY <1>22, <1>t DEF PatchBudget
<1>23. ASSUME UNCHANGED vars PROVE RowStep(q) /\ HoldStep(q)
  BY <1>23, <1>t DEF vars
<1> QED
  BY <1>1, <1>2, <1>3, <1>4, <1>5, <1>6, <1>7, <1>8, <1>9, <1>10, <1>11, <1>12,
     <1>13, <1>14, <1>15, <1>16, <1>17, <1>18, <1>19, <1>20, <1>21, <1>22, <1>23
     DEF Next, Admission, Serving, Host, Environment

\* A closed call is never opened again and a failed one never completed.
THEOREM ClosedRowsStay == Spec => ClosedRowsStayClosed
<1>1. IInv /\ [Next]_vars => [\A r \in Requests : RowStep(r)]_vars
  BY RowHoldStep
<1> QED
  BY <1>1, InvAlways, PTL DEF Spec, ClosedRowsStayClosed, RowStep

\* A settled reservation is never settled again, by gateway or host.
THEOREM SettledHoldsStay == Spec => SettledHoldsStaySettled
<1>1. IInv /\ [Next]_vars => [\A r \in Requests : HoldStep(r)]_vars
  BY RowHoldStep
<1> QED
  BY <1>1, InvAlways, PTL DEF Spec, SettledHoldsStaySettled, HoldStep

-----------------------------------------------------------------------------
(***************************************************************************)
(* The hard limit of an organization.                                      *)
(***************************************************************************)
\* The calls that spend the organization's money now.
Spenders == Charged \cup LiveAt(clock)

\* A step that adds no spender raises no exposure.
LEMMA FewerSpenders ==
    ASSUME TypeOK, TypeOK', Spenders' \subseteq Spenders
    PROVE  ~(Exposure' > Exposure)
<1>1. Spenders \in SUBSET Requests /\ Spenders' \in SUBSET Requests
  BY DEF TypeOK, Spenders, Charged, LiveAt
<1>2. Minor(Spenders') <= Minor(Spenders)
  BY <1>1, MinorMonotone
<1>3. Minor(Spenders) \in Nat /\ Minor(Spenders') \in Nat
  BY <1>1, UnitsFinite
<1>4. Exposure = Minor(Spenders) /\ Exposure' = Minor(Spenders')
  BY DEF Exposure, Spenders
<1> QED
  BY <1>2, <1>3, <1>4

\* A granted reservation fits every hard organization budget, although the
\* gate reads the clock of the call's arrival and not the present one.
LEMMA GrantFits ==
    ASSUME IInv, TypeOK', NEW r \in Requests, Granted(r), NEW b \in OrgBudgets, hard'[b]
    PROVE  Exposure' <= limit'[b]
<1> USE DEF budgetVars, localVars, NoFault
<1>t. TypeOK /\ CallInv(r) /\ b \in Budgets /\ Scope[b] = Requests
  BY ParametersOK DEF IInv
<1>1. worker[r] = "admit" /\ Gate(r) /\ hard[b] /\ limit' = limit
  BY DEF Granted
<1>2. arrived[r] \in Nat /\ arrived[r] <= clock
  BY <1>t, <1>1 DEF CallInv, OnTime, InFlight, TypeOK
<1> DEFINE held == LiveAt(arrived[r])
<1>3. Charged \in SUBSET Requests /\ held \in SUBSET Requests
  BY <1>t DEF TypeOK, Charged, LiveAt
<1>4. Minor(Charged) + Minor(held) + Cost[r] <= limit[b]
  <2>1. Charged \cap Scope[b] = Charged
    BY <1>3, <1>t
  <2>2. CASE r \in Managed
    BY <2>1, <2>2, <1>1 DEF Gate, ScopedGate, Fits, Committed, HeldAgainst
  <2>3. CASE r \notin Managed
    BY <2>3, <1>1, <1>t DEF Gate, OrgGate, OrgTotal
  <2> QED
    BY <2>2, <2>3
<1>5. Spenders' \subseteq (Charged \cup held) \cup {r}
  <2>1. clock' = clock /\ used' = used /\ hold' = [hold EXCEPT ![r] = "reserved"]
        /\ expires' = [expires EXCEPT ![r] = arrived[r] + TTL]
    BY DEF Granted
  <2>2. ASSUME NEW q \in Requests, q # r, hold'[q] = "reserved", clock' < expires'[q]
        PROVE  q \in held
    <3>1. hold[q] = "reserved" /\ clock < expires[q]
      BY <2>1, <2>2, <1>t DEF TypeOK
    <3>2. arrived[r] < expires[q]
      BY <3>1, <1>2, <1>t DEF TypeOK
    <3> QED
      BY <3>1, <3>2 DEF LiveAt
  <2> QED
    BY <2>1, <2>2 DEF Spenders, Charged, LiveAt
<1> HIDE DEF held
<1>6. Minor(Spenders') <= Minor((Charged \cup held) \cup {r})
  <2>1. (Charged \cup held) \cup {r} \in SUBSET Requests
    BY <1>3
  <2>2. Spenders' \in SUBSET ((Charged \cup held) \cup {r})
    BY <1>5
  <2> QED
    BY <2>1, <2>2, MinorMonotone
<1>7. Minor((Charged \cup held) \cup {r}) <= Minor(Charged \cup held) + Minor({r})
  BY <1>3, MinorUnion
<1>8. Minor(Charged \cup held) <= Minor(Charged) + Minor(held)
  BY <1>3, MinorUnion
<1>9. Minor({r}) = Cost[r]
  BY MinorSingle
<1>10. /\ Minor(Spenders') \in Nat /\ Minor((Charged \cup held) \cup {r}) \in Nat
       /\ Minor(Charged \cup held) \in Nat /\ Minor(Charged) \in Nat /\ Minor(held) \in Nat
       /\ Cost[r] \in Nat /\ limit[b] \in Nat
  <2>1. Spenders' \in SUBSET Requests
    BY <1>5, <1>3
  <2> QED
    BY <2>1, <1>3, <1>t, UnitsFinite, ParametersOK DEF TypeOK
<1>11. Exposure' = Minor(Spenders')
  BY DEF Exposure, Spenders
<1> QED
  BY <1>1, <1>4, <1>6, <1>7, <1>8, <1>9, <1>10, <1>11

\* A success turns a live hold into spend; a failure only frees money.
LEMMA SettleMoves ==
    ASSUME IInv, NEW r \in Requests, NEW ok \in BOOLEAN, Settle(r, ok), UNCHANGED clock,
           ok => r \in LiveAt(clock)
    PROVE  Spenders' \subseteq Spenders
  BY DEF IInv, TypeOK, Settle, Release, Spenders, Charged, LiveAt

\* What a call spends at its success was held live until then.
LEMMA OwedIsLive ==
    ASSUME IInv, HostSettled = {}, NEW r \in Requests, Owed(r)
    PROVE  r \in LiveAt(clock)
<1>1. TypeOK /\ CallInv(r)
  BY DEF IInv
<1>2. hold[r] = "reserved" /\ expires[r] = arrived[r] + TTL
  BY <1>1 DEF CallInv, StillHeld
<1>3. InFlight(r)
  BY <1>1 DEF Owed, InFlight, TypeOK, Phases
<1>4. clock < expires[r]
  BY <1>1, <1>2, <1>3 DEF CallInv, OnTime
<1> QED
  BY <1>2, <1>4 DEF LiveAt

\* Every step but a grant leaves the set of spenders as it was or smaller.
LEMMA OnlyGrantsSpend ==
    ASSUME IInv, IInv', HostSettled = {}, [Next]_vars, \A r \in Requests : ~Granted(r)
    PROVE  Spenders' \subseteq Spenders
<1>t. TypeOK
  BY DEF IInv
<1>s. ASSUME UNCHANGED <<clock, hold, expires, used>> PROVE Spenders' \subseteq Spenders
  BY <1>s DEF Spenders, Charged, LiveAt
<1> USE DEF budgetVars, holdVars, localVars
<1>1. ASSUME NEW r \in Requests, Arrive(r) PROVE Spenders' \subseteq Spenders
  BY <1>1, <1>s DEF Arrive
<1>2. ASSUME NEW r \in Requests, RateAdmission(r) PROVE Spenders' \subseteq Spenders
  BY <1>2, <1>s DEF RateAdmission
<1>3. ASSUME NEW r \in Requests, ScopedBudgetAdmission(r) PROVE Spenders' \subseteq Spenders
  BY <1>3, <1>s DEF ScopedBudgetAdmission
<1>4. ASSUME NEW r \in Requests, OrgBudgetAdmission(r) PROVE Spenders' \subseteq Spenders
  BY <1>4, <1>s DEF OrgBudgetAdmission
<1>5. ASSUME NEW r \in Requests, Refused(r) PROVE Spenders' \subseteq Spenders
  BY <1>5, <1>s DEF Refused
<1>6. ASSUME NEW r \in Requests, AdmissionLost(r) PROVE Spenders' \subseteq Spenders
  BY <1>6, <1>s DEF AdmissionLost
<1>7. ASSUME NEW r \in Requests, Denied(r) PROVE Spenders' \subseteq Spenders
  BY <1>7, <1>s DEF Denied
<1>8. ASSUME NEW r \in Requests, Attempt(r) PROVE Spenders' \subseteq Spenders
  BY <1>8, <1>s DEF Attempt
<1>9. ASSUME NEW r \in Requests, Await(r) PROVE Spenders' \subseteq Spenders
  BY <1>9, <1>s DEF Await
<1>10. ASSUME NEW r \in Requests, NEW ok \in BOOLEAN, ReaderEnd(r, ok) PROVE Spenders' \subseteq Spenders
  BY <1>10, <1>s DEF ReaderEnd
<1>11. ASSUME NEW r \in Requests, AbortCallback(r) PROVE Spenders' \subseteq Spenders
  BY <1>11, <1>s DEF AbortCallback
<1>12. ASSUME NEW r \in Requests, DropStream(r) PROVE Spenders' \subseteq Spenders
  BY <1>12, <1>s DEF DropStream
<1>13. ASSUME NEW r \in Requests, Crash(r) PROVE Spenders' \subseteq Spenders
  BY <1>13, <1>s DEF Crash
<1>14. ASSUME NEW r \in Requests, Unwind(r) PROVE Spenders' \subseteq Spenders
  <2>1. clock' = clock /\ (Settle(r, FALSE) \/ UNCHANGED <<hold, expires, used>>)
    BY <1>14 DEF Unwind
  <2> QED
    BY <2>1, <1>s, SettleMoves
<1>15. ASSUME NEW r \in Requests, Failing(r) PROVE Spenders' \subseteq Spenders
  <2>1. clock' = clock /\ (Settle(r, FALSE) \/ UNCHANGED <<hold, expires, used>>)
    BY <1>15 DEF Failing
  <2> QED
    BY <2>1, <1>s, SettleMoves
<1>16. ASSUME NEW r \in Requests, Collect(r) PROVE Spenders' \subseteq Spenders
  <2>1. Owed(r) /\ clock' = clock
    BY <1>16 DEF Collect, Owed
  <2>2. (\E ok \in BOOLEAN : Settle(r, ok)) \/ UNCHANGED <<hold, expires, used>>
    BY <1>16 DEF Collect
  <2>3. r \in LiveAt(clock)
    BY <2>1, OwedIsLive
  <2> QED
    BY <2>1, <2>2, <2>3, <1>s, SettleMoves
<1>17. ASSUME NEW r \in Requests, PendingCommit(r) PROVE Spenders' \subseteq Spenders
  <2>1. clock' = clock
        /\ (Settle(r, pending[r] = "reader_ok") \/ UNCHANGED <<hold, expires, used>>)
    BY <1>17 DEF PendingCommit
  <2>2. pending[r] = "reader_ok" => r \in LiveAt(clock)
    BY OwedIsLive DEF Owed
  <2>3. CASE pending[r] = "reader_ok"
    <3>1. Settle(r, TRUE) \/ UNCHANGED <<hold, expires, used>>
      BY <2>1, <2>3
    <3> QED
      BY <3>1, <2>1, <2>2, <2>3, <1>s, SettleMoves
  <2>4. CASE pending[r] # "reader_ok"
    <3>1. Settle(r, FALSE) \/ UNCHANGED <<hold, expires, used>>
      BY <2>1, <2>4
    <3> QED
      BY <3>1, <2>1, <1>s, SettleMoves
  <2> QED
    BY <2>3, <2>4
<1>18. ASSUME Tick PROVE Spenders' \subseteq Spenders
  BY <1>18, <1>t DEF Tick, Spenders, Charged, LiveAt, TypeOK
<1>19. ASSUME NEW b \in Budgets, NEW l \in PatchLimits, NEW h \in BOOLEAN, PatchBudget(b, l, h)
       PROVE Spenders' \subseteq Spenders
  BY <1>19, <1>s DEF PatchBudget
<1>20. ASSUME NEW r \in Requests, Host(r) PROVE Spenders' \subseteq Spenders
  BY <1>20 DEF Host, HostReserve, HostSettle
<1>21. ASSUME UNCHANGED vars PROVE Spenders' \subseteq Spenders
  BY <1>21, <1>s DEF vars
<1> QED
  BY <1>1, <1>2, <1>3, <1>4, <1>5, <1>6, <1>7, <1>8, <1>9, <1>10, <1>11, <1>12,
     <1>13, <1>14, <1>15, <1>16, <1>17, <1>18, <1>19, <1>20, <1>21
     DEF Next, Admission, Serving, Environment

\* No interleaving of gateway calls, lost invocations, lost batches and
\* limit changes takes an organization's spend and live holds above one of
\* its hard budgets, as long as no host settles the gateway's own holds.
THEOREM HardLimit ==
    ASSUME HostSettled = {}
    PROVE  Spec => HardLimitNeverCrossed
<1>1. ASSUME IInv, IInv', [Next]_vars, NEW b \in OrgBudgets, hard'[b], Exposure' > Exposure
      PROVE  Exposure' <= limit'[b]
  <2>1. PICK r \in Requests : Granted(r)
    <3>1. Spenders' \subseteq Spenders => ~(Exposure' > Exposure)
      BY <1>1, FewerSpenders DEF IInv
    <3> QED
      BY <1>1, <3>1, OnlyGrantsSpend
  <2> QED
    BY <1>1, <2>1, GrantFits DEF IInv
<1>2. IInv /\ IInv' /\ [Next]_vars =>
        [\A b \in OrgBudgets : hard'[b] /\ Exposure' > Exposure => Exposure' <= limit'[b]]_vars
  BY <1>1
<1> QED
  BY <1>2, InvAlways, PTL DEF Spec, HardLimitNeverCrossed

-----------------------------------------------------------------------------
(***************************************************************************)
(* The gateway keeps the ledger.                                           *)
(***************************************************************************)
\* A call whose columns stay has its money where it was.
LEMMA MoneyStays ==
    ASSUME clock' = clock, NEW q \in Requests, hold'[q] = hold[q], expires'[q] = expires[q],
           q \in used' <=> q \in used
    PROVE  Position'[q] = Position[q]
  BY DEF Position, Charged, LiveAt

\* When the columns of all calls stay, the ledger stutters.
LEMMA LedgerStutters ==
    ASSUME UNCHANGED <<clock, limit, hard, hold, expires, used>>
    PROVE  UNCHANGED Ledger!vars
<1>1. Position' = Position
  BY DEF Position, Charged, LiveAt
<1> QED
  BY <1>1 DEF Ledger!vars

\* When the columns of one call change, only its money can move.
LEMMA OneCallMoves ==
    ASSUME TypeOK, clock' = clock, NEW r \in Requests,
           \A q \in Requests \ {r} : /\ hold'[q] = hold[q] /\ expires'[q] = expires[q]
                                     /\ q \in used' <=> q \in used
    PROVE  Position' = [Position EXCEPT ![r] = Position'[r]]
<1>1. \A q \in Requests \ {r} : Position'[q] = Position[q]
  BY MoneyStays
<1>2. Position = [q \in Requests |-> Position[q]] /\ Position' = [q \in Requests |-> Position'[q]]
  BY DEF Position
<1> HIDE DEF Position
<1> QED
  BY <1>1, <1>2

\* After a step, what the ledger calls outstanding is the exposure of the
\* organization.
LEMMA OutstandingIsExposure ==
    ASSUME TypeOK'
    PROVE  Ledger!Outstanding' = Exposure'
<1>1. {r \in Requests : Position'[r] \in {"held", "spent"}} = Spenders'
  BY DEF Position, Spenders, Charged, LiveAt, TypeOK
<1> QED
  BY <1>1 DEF Ledger!Outstanding, Exposure, Spenders

\* A grant holds money for a call that had none, and it fits.
LEMMA GrantHolds ==
    ASSUME IInv, IInv', NEW r \in Requests, Granted(r)
    PROVE  Ledger!Hold(r)
<1>t. TypeOK /\ TypeOK' /\ CallInv(r) /\ CallInv(r)'
  BY DEF IInv
<1>1. /\ worker[r] = "admit" /\ UNCHANGED <<clock, limit, hard, used, arrived>>
      /\ hold' = [hold EXCEPT ![r] = "reserved"]
      /\ expires' = [expires EXCEPT ![r] = arrived[r] + TTL]
      /\ worker'[r] \in {"attempt", "unwind"}
  BY <1>t DEF Granted, Goto, budgetVars, localVars, TypeOK
<1>2. Position[r] = "none"
  BY <1>t, <1>1 DEF CallInv, NothingYet, Early, Position, Charged, LiveAt
<1>3. clock' < expires'[r]
  <2>1. InFlight(r)'
    BY <1>1 DEF InFlight
  <2>2. clock' < arrived'[r] + TTL
    BY <1>t, <2>1 DEF CallInv, OnTime
  <2> QED
    BY <1>t, <1>1, <2>2 DEF TypeOK
<1>4. r \notin Charged'
  BY <1>t, <1>1 DEF CallInv, NothingYet, Early, Charged
<1>5. Position'[r] = "held"
  <2>1. hold'[r] = "reserved"
    BY <1>t, <1>1 DEF TypeOK
  <2> QED
    BY <1>3, <1>4, <2>1 DEF Position, LiveAt
<1>6. Position' = [Position EXCEPT ![r] = "held"]
  <2>1. \A q \in Requests \ {r} : /\ hold'[q] = hold[q] /\ expires'[q] = expires[q]
                                  /\ q \in used' <=> q \in used
    BY <1>t, <1>1 DEF TypeOK
  <2>2. Position' = [Position EXCEPT ![r] = Position'[r]]
    BY <1>t, <1>1, <2>1, OneCallMoves
  <2> QED
    BY <1>5, <2>2
<1>7. \A b \in OrgBudgets : hard[b] => Ledger!Outstanding' <= limit[b]
  BY <1>t, <1>1, GrantFits, OutstandingIsExposure
<1> QED
  BY <1>1, <1>2, <1>6, <1>7 DEF Ledger!Hold

\* A finalization spends what the call still holds, gives it back, or finds
\* nothing to move.
LEMMA SettleMovesMoney ==
    ASSUME IInv, IInv', NEW r \in Requests, NEW ok \in BOOLEAN, Settle(r, ok),
           UNCHANGED <<clock, limit, hard>>, ok => r \in LiveAt(clock),
           r \notin HostSettled
    PROVE  [Ledger!Next]_(Ledger!vars)
<1>t. TypeOK /\ TypeOK' /\ CallInv(r) /\ Books(r)
  BY DEF IInv, CallInv
<1>1. /\ hold' = [hold EXCEPT ![r] = IF @ = "reserved" THEN IF ok THEN "committed" ELSE "released" ELSE @]
      /\ expires' = expires
      /\ used' = IF ok THEN used \cup {r} ELSE used
      /\ ok => r \notin used
  BY DEF Settle, Release
<1>2. Position' = [Position EXCEPT ![r] = Position'[r]]
  <2>1. \A q \in Requests \ {r} : /\ hold'[q] = hold[q] /\ expires'[q] = expires[q]
                                  /\ q \in used' <=> q \in used
    BY <1>t, <1>1 DEF TypeOK
  <2> QED
    BY <1>t, <2>1, OneCallMoves
<1>3. CASE ok /\ r \in Managed
  <2>1. Position[r] = "held" /\ Position'[r] = "spent"
    BY <1>1, <1>3 DEF Position, Charged
  <2>2. Ledger!Spend(r)
    BY <1>2, <2>1 DEF Ledger!Spend
  <2> QED
    BY <2>2 DEF Ledger!Next
<1>4. CASE r \in LiveAt(clock) /\ ~(ok /\ r \in Managed)
  <2>1. r \notin Charged /\ r \notin Charged'
    BY <1>t, <1>1, <1>4 DEF Books, LiveAt, Charged
  <2>2. hold'[r] \notin {"reserved", "absent"}
    BY <1>t, <1>1, <1>4 DEF LiveAt, TypeOK
  <2>3. Position[r] = "held" /\ Position'[r] = "returned"
    BY <1>4, <2>1, <2>2 DEF Position, LiveAt
  <2>4. Position = [q \in Requests |-> Position[q]]
    BY DEF Position
  <2>5. Position' = [q \in Requests |-> IF q \in {r} THEN "returned" ELSE Position[q]]
    <3> HIDE DEF Position
    <3> QED
      BY <1>2, <2>3, <2>4
  <2>6. Ledger!GiveBack({r})
    BY <2>3, <2>5 DEF Ledger!GiveBack
  <2> QED
    BY <2>6 DEF Ledger!Next
<1>5. CASE r \notin LiveAt(clock)
  <2>1. used' = used /\ ~ok
    BY <1>1, <1>5
  <2>2. r \notin LiveAt(clock)'
    BY <1>t, <1>1, <1>5 DEF LiveAt, TypeOK
  <2>3. hold'[r] = "absent" <=> hold[r] = "absent"
    BY <1>t, <1>1, <2>1 DEF TypeOK
  <2>4. Position'[r] = Position[r]
    BY <1>5, <2>1, <2>2, <2>3 DEF Position, Charged
  <2>5. Position = [q \in Requests |-> Position[q]]
    BY DEF Position
  <2>6. Position' = Position
    <3> HIDE DEF Position
    <3> QED
      BY <1>2, <2>4, <2>5
  <2> QED
    BY <2>6 DEF Ledger!vars
<1> QED
  BY <1>3, <1>4, <1>5

\* When time passes, the holds whose time is over are given back at once.
LEMMA TickGivesBack ==
    ASSUME TypeOK, Tick
    PROVE  Ledger!Next
<1> DEFINE lapsed == {r \in Requests : Position[r] = "held" /\ ~(clock' < expires[r])}
<1>1. UNCHANGED <<limit, hard, hold, expires, used>> /\ clock \in Nat /\ clock' = clock + 1
  BY DEF Tick, budgetVars, holdVars, TypeOK
<1>2. ASSUME NEW r \in Requests
      PROVE  Position'[r] = IF r \in lapsed THEN "returned" ELSE Position[r]
  BY <1>1 DEF Position, Charged, LiveAt, TypeOK
<1>3. Position' = [r \in Requests |-> Position'[r]]
  BY DEF Position
<1>4. \A r \in lapsed : Position[r] = "held"
  OBVIOUS
<1> HIDE DEF lapsed, Position
<1>5. Position' = [r \in Requests |-> IF r \in lapsed THEN "returned" ELSE Position[r]]
  BY <1>2, <1>3
<1>6. Ledger!GiveBack(lapsed)
  BY <1>1, <1>4, <1>5 DEF Ledger!GiveBack
<1>7. lapsed \in SUBSET Requests
  BY DEF lapsed
<1> QED
  BY <1>6, <1>7 DEF Ledger!Next

\* A step on the durable rows is a step of the ledger or none at all.
LEMMA LedgerStep ==
    ASSUME IInv, IInv', HostSettled = {}, [Next]_vars
    PROVE  [Ledger!Next]_(Ledger!vars)
<1> DEFINE Kept == UNCHANGED <<clock, limit, hard, hold, expires, used>>
<1>t. TypeOK /\ TypeOK'
  BY DEF IInv
<1>s. Kept => [Ledger!Next]_(Ledger!vars)
  BY LedgerStutters
<1>f. ASSUME NEW r \in Requests, Settle(r, FALSE), UNCHANGED <<clock, limit, hard>>
      PROVE  [Ledger!Next]_(Ledger!vars)
  BY <1>f, SettleMovesMoney
<1> USE DEF budgetVars, holdVars, localVars
<1>1. ASSUME NEW r \in Requests,
             \/ Arrive(r) \/ RateAdmission(r) \/ ScopedBudgetAdmission(r) \/ OrgBudgetAdmission(r)
             \/ Refused(r) \/ AdmissionLost(r) \/ Denied(r)
      PROVE  Kept
  BY <1>1 DEF Arrive, RateAdmission, ScopedBudgetAdmission, OrgBudgetAdmission, Refused,
              AdmissionLost, Denied
<1>2. ASSUME NEW r \in Requests,
             \/ Attempt(r) \/ Await(r) \/ (\E ok \in BOOLEAN : ReaderEnd(r, ok))
             \/ AbortCallback(r) \/ DropStream(r) \/ Crash(r)
      PROVE  Kept
  BY <1>2 DEF Attempt, Await, ReaderEnd, AbortCallback, DropStream, Crash
<1>3. UNCHANGED vars => Kept
  BY DEF vars
<1> HIDE DEF Kept
<1>4. ASSUME NEW r \in Requests, Granted(r) PROVE [Ledger!Next]_(Ledger!vars)
  BY <1>4, GrantHolds DEF Ledger!Next
<1>5. ASSUME NEW r \in Requests, Unwind(r) \/ Failing(r) PROVE [Ledger!Next]_(Ledger!vars)
  <2>1. UNCHANGED <<clock, limit, hard>> /\ (Settle(r, FALSE) \/ Kept)
    BY <1>5 DEF Unwind, Failing, Kept
  <2> QED
    BY <2>1, <1>s, <1>f
<1>6. ASSUME NEW r \in Requests, Collect(r) PROVE [Ledger!Next]_(Ledger!vars)
  <2>1. Owed(r) /\ UNCHANGED <<clock, limit, hard>>
        /\ ((\E ok \in BOOLEAN : Settle(r, ok)) \/ Kept)
    BY <1>6 DEF Collect, Owed, Kept
  <2>2. r \in LiveAt(clock)
    BY <2>1, OwedIsLive
  <2> QED
    BY <2>1, <2>2, <1>s, SettleMovesMoney
<1>7. ASSUME NEW r \in Requests, PendingCommit(r) PROVE [Ledger!Next]_(Ledger!vars)
  <2>1. UNCHANGED <<clock, limit, hard>> /\ (Settle(r, pending[r] = "reader_ok") \/ Kept)
    BY <1>7 DEF PendingCommit, Kept
  <2>2. CASE pending[r] = "reader_ok"
    <3>1. r \in LiveAt(clock)
      BY <2>2, OwedIsLive DEF Owed
    <3>2. Settle(r, TRUE) \/ Kept
      BY <2>1, <2>2
    <3> QED
      BY <2>1, <3>1, <3>2, <1>s, SettleMovesMoney
  <2>3. CASE pending[r] # "reader_ok"
    <3>1. Settle(r, FALSE) \/ Kept
      BY <2>1, <2>3
    <3> QED
      BY <2>1, <3>1, <1>s, <1>f
  <2> QED
    BY <2>2, <2>3
<1>8. ASSUME Tick PROVE [Ledger!Next]_(Ledger!vars)
  BY <1>8, <1>t, TickGivesBack
<1>9. ASSUME NEW b \in Budgets, NEW l \in PatchLimits, NEW h \in BOOLEAN, PatchBudget(b, l, h)
      PROVE  [Ledger!Next]_(Ledger!vars)
  <2>1. Position' = Position
    BY <1>9 DEF PatchBudget, Position, Charged, LiveAt
  <2>2. Ledger!Change
    BY <1>t, <2>1 DEF TypeOK, Ledger!Change
  <2> QED
    BY <2>2 DEF Ledger!Next
<1>10. ASSUME NEW r \in Requests PROVE ~Host(r)
  BY DEF Host, HostReserve, HostSettle
<1> QED
  BY <1>s, <1>1, <1>2, <1>3, <1>4, <1>5, <1>6, <1>7, <1>8, <1>9, <1>10
     DEF Next, Admission, Serving, Environment

\* The gateway keeps the ledger, for any calls, budgets, costs and limits: a
\* hold is made only if everything outstanding then fits, only a live hold is
\* ever charged, and what was charged or given back is never touched again.
THEOREM KeepsLedger ==
    ASSUME HostSettled = {}
    PROVE  Spec => ImplementsLedger
<1>1. Init => Ledger!Init
  <2> SUFFICES ASSUME Init PROVE Ledger!Init
    OBVIOUS
  <2>1. limit \in [Budgets -> Nat] /\ hard \in [Budgets -> BOOLEAN]
    BY ParametersOK DEF Init
  <2>2. Position = [r \in Requests |-> "none"]
    BY DEF Init, Position, Charged, LiveAt
  <2> QED
    BY <2>1, <2>2 DEF Ledger!Init
<1>2. IInv /\ IInv' /\ [Next]_vars => [Ledger!Next]_(Ledger!vars)
  BY LedgerStep
<1> QED
  BY <1>1, <1>2, InvAlways, PTL DEF Spec, ImplementsLedger, Ledger!Spec

-----------------------------------------------------------------------------
(***************************************************************************)
(* What an organization may rely on as long as no administrator lowers a   *)
(* limit or makes a soft budget hard: run budget_scoped shows that it does *)
(* not extend to narrower budgets.                                         *)
(***************************************************************************)
BudgetsOnlyRelax ==
    [][\A b \in Budgets : limit'[b] >= limit[b] /\ (hard'[b] => hard[b])]_vars

\* Recorded spend and live holds together fit every hard organization budget.
ExposureFits == \A b \in OrgBudgets : hard[b] => Exposure <= limit[b]

\* Exposure and spend are sums over calls.
LEMMA SumsAreNat ==
    ASSUME TypeOK
    PROVE  /\ Exposure \in Nat
           /\ Charged \in SUBSET Requests
           /\ Minor(Charged) \in Nat
           /\ Minor(Charged) <= Exposure
<1>1. Spenders \in SUBSET Requests /\ Charged \in SUBSET Spenders
  BY DEF TypeOK, Spenders, Charged, LiveAt
<1>2. Minor(Charged) <= Minor(Spenders)
  BY <1>1, MinorMonotone
<1>3. Minor(Charged) \in Nat /\ Minor(Spenders) \in Nat
  BY <1>1, UnitsFinite
<1> QED
  BY <1>1, <1>2, <1>3 DEF Exposure, Spenders

\* No calls cost nothing.
LEMMA MinorEmpty == Minor({}) = 0
<1>1. Units({}) = {}
  BY DEF Units
<1> QED
  BY <1>1, FS_EmptySet DEF Minor

\* A call is held only if it fits, so what fitted goes on to fit.
LEMMA ExposureStep ==
    ASSUME IInv, IInv', HostSettled = {}, [Next]_vars, ExposureFits,
           \A b \in Budgets : limit'[b] >= limit[b] /\ (hard'[b] => hard[b])
    PROVE  ExposureFits'
<1>t. TypeOK /\ TypeOK'
  BY DEF IInv
<1>1. SUFFICES ASSUME NEW b \in OrgBudgets, hard'[b] PROVE Exposure' <= limit'[b]
  BY DEF ExposureFits
<1>2. b \in Budgets
  BY ParametersOK
<1>3. CASE \E r \in Requests : Granted(r)
  BY <1>1, <1>3, <1>t, GrantFits
<1>4. CASE \A r \in Requests : ~Granted(r)
  <2>1. Spenders' \subseteq Spenders
    BY <1>4, OnlyGrantsSpend
  <2>2. ~(Exposure' > Exposure)
    BY <1>t, <2>1, FewerSpenders
  <2>3. Exposure <= limit[b] /\ limit[b] <= limit'[b]
    BY <1>1, <1>2 DEF ExposureFits
  <2>4. limit[b] \in Nat /\ limit'[b] \in Nat
    BY <1>2, <1>t DEF TypeOK
  <2>5. Exposure \in Nat
    BY <1>t, SumsAreNat
  <2>6. Exposure' \in Nat
    <3>1. Spenders' \in SUBSET Requests
      BY <1>t DEF TypeOK, Spenders, Charged, LiveAt
    <3> QED
      BY <3>1, UnitsFinite DEF Exposure, Spenders
  <2> QED
    BY <2>2, <2>3, <2>4, <2>5, <2>6
<1> QED
  BY <1>3, <1>4

\* Spend and live holds never pass a hard organization budget, in any state,
\* unless an administrator tightens one below what is already outstanding.
THEOREM ExposureAlwaysFits ==
    ASSUME HostSettled = {}
    PROVE  Spec /\ BudgetsOnlyRelax => []ExposureFits
<1>1. Init => ExposureFits
  <2> SUFFICES ASSUME Init, NEW b \in OrgBudgets PROVE Exposure <= limit[b]
    BY DEF ExposureFits
  <2>1. Charged \cup LiveAt(clock) = {}
    BY DEF Init, Charged, LiveAt
  <2>2. limit[b] \in Nat
    BY ParametersOK DEF Init
  <2> QED
    BY <2>1, <2>2, MinorEmpty DEF Exposure
<1>2. /\ IInv /\ IInv' /\ [Next]_vars /\ ExposureFits
      /\ [\A b \in Budgets : limit'[b] >= limit[b] /\ (hard'[b] => hard[b])]_vars
      => ExposureFits'
  <2>1. ASSUME UNCHANGED vars, ExposureFits PROVE ExposureFits'
    BY <2>1 DEF vars, ExposureFits, Exposure, Minor, Units, Charged, LiveAt
  <2> QED
    BY <2>1, ExposureStep
<1> QED
  BY <1>1, <1>2, InvAlways, PTL DEF Spec, BudgetsOnlyRelax

-----------------------------------------------------------------------------
(***************************************************************************)
(* Narrower budgets.  A hold names one budget, so a narrower budget is     *)
(* kept if it shares its calls with no other; run budget_scoped shows two  *)
(* that overlap.                                                           *)
(***************************************************************************)
Separate ==
    \A b \in Budgets \ OrgBudgets : \A c \in Budgets \ {b} : Scope[b] \cap Scope[c] = {}

Against(b) == Managed \cap Scope[b]

\* Under an enforced narrower budget every hold, and every call about to
\* make one, names that budget.
Named(b, r) ==
    /\ worker[r] = "admit" => bound[r] = b
    /\ hold[r] = "reserved" => heldFor[r] = b

AllNamed == \A b \in Budgets \ OrgBudgets : hard[b] => \A r \in Against(b) : Named(b, r)

\* The spend and the holds of the calls of each budget fit it.
ScopesFit == \A b \in Budgets : hard[b] => Minor(Spenders \cap Against(b)) <= limit[b]

\* Only the budget read chooses the name, and it has one to choose from.
LEMMA NamedStep ==
    ASSUME TypeOK, HostSettled = {}, Separate, [Next]_vars, AllNamed,
           \A b \in Budgets : hard'[b] => hard[b]
    PROVE  AllNamed'
<1> SUFFICES ASSUME NEW b \in Budgets \ OrgBudgets, hard'[b], NEW q \in Against(b)
             PROVE  Named(b, q)'
  BY DEF AllNamed, Against
<1>i. hard[b] /\ Named(b, q) /\ q \in Requests /\ q \in Managed /\ q \in Scope[b]
  BY ParametersOK DEF AllNamed, Against
<1> USE DEF Named, Goto, budgetVars, holdVars, localVars
<1>1. ASSUME NEW r \in Requests,
             \/ Arrive(r) \/ RateAdmission(r) \/ Refused(r) \/ AdmissionLost(r) \/ Denied(r)
      PROVE  Named(b, q)'
  BY <1>1, <1>i DEF TypeOK, Arrive, RateAdmission, Refused, AdmissionLost, Denied
<1>2. ASSUME NEW r \in Requests, ScopedBudgetAdmission(r) PROVE Named(b, q)'
  <2>1. CASE r # q
    BY <1>2, <2>1, <1>i DEF TypeOK, ScopedBudgetAdmission
  <2>2. CASE r = q /\ worker'[r] = "admit"
    <3>1. PICK c \in MostRestrictive(r) : bound' = [bound EXCEPT ![r] = c]
      BY <1>2, <2>2 DEF TypeOK, ScopedBudgetAdmission
    <3>2. b \in Applicable(r)
      BY <2>2, <1>i DEF Applicable
    <3>3. c \in Budgets /\ r \in Scope[c]
      BY <3>2 DEF MostRestrictive, Applicable
    <3>4. c = b
      BY <2>2, <1>i, <3>3 DEF Separate
    <3>5. UNCHANGED <<hold, heldFor>>
      BY <1>2 DEF ScopedBudgetAdmission
    <3> QED
      BY <2>2, <1>i, <3>1, <3>4, <3>5 DEF TypeOK
  <2>3. CASE r = q /\ worker'[r] # "admit"
    BY <1>2, <2>3, <1>i DEF ScopedBudgetAdmission
  <2> QED
    BY <2>1, <2>2, <2>3
<1>3. ASSUME NEW r \in Requests, OrgBudgetAdmission(r) PROVE Named(b, q)'
  BY <1>3, <1>i DEF TypeOK, OrgBudgetAdmission
<1>4. ASSUME NEW r \in Requests, Granted(r) PROVE Named(b, q)'
  BY <1>4, <1>i DEF TypeOK, Granted
<1>5. ASSUME NEW r \in Requests, Unwind(r) \/ Failing(r) \/ Collect(r) PROVE Named(b, q)'
  BY <1>5, <1>i DEF TypeOK, Unwind, Failing, Collect, Settle, Release
<1>6. ASSUME NEW r \in Requests, Attempt(r) \/ Await(r) PROVE Named(b, q)'
  BY <1>6, <1>i DEF TypeOK, Attempt, Await, NextCandidate
<1>7. ASSUME NEW r \in Requests,
             \/ (\E ok \in BOOLEAN : ReaderEnd(r, ok)) \/ AbortCallback(r) \/ DropStream(r)
      PROVE  Named(b, q)'
  BY <1>7, <1>i DEF TypeOK, ReaderEnd, AbortCallback, DropStream
<1>8. ASSUME NEW r \in Requests, PendingCommit(r) PROVE Named(b, q)'
  BY <1>8, <1>i DEF TypeOK, PendingCommit, Settle, Release
<1>9. ASSUME NEW r \in Requests, Crash(r) PROVE Named(b, q)'
  BY <1>9, <1>i DEF TypeOK, Crash
<1>10. ASSUME NEW r \in Requests PROVE ~Host(r)
  BY DEF Host, HostReserve, HostSettle
<1>11. ASSUME Tick PROVE Named(b, q)'
  BY <1>11, <1>i DEF Tick
<1>12. ASSUME NEW c \in Budgets, NEW l \in PatchLimits, NEW h \in BOOLEAN, PatchBudget(c, l, h)
       PROVE  Named(b, q)'
  BY <1>12, <1>i DEF PatchBudget
<1>13. ASSUME UNCHANGED vars PROVE Named(b, q)'
  BY <1>13, <1>i DEF vars
<1> QED
  BY <1>1, <1>2, <1>3, <1>4, <1>5, <1>6, <1>7, <1>8, <1>9, <1>10, <1>11, <1>12, <1>13
     DEF Next, Admission, Serving, Environment

\* A grant fits every budget its call falls under, narrower ones included.
LEMMA GrantFitsScope ==
    ASSUME IInv, IInv', AllNamed, NEW r \in Requests, Granted(r),
           NEW b \in Budgets, hard'[b], r \in Against(b)
    PROVE  Minor((Spenders \cap Against(b))') <= limit'[b]
<1> USE DEF budgetVars, localVars, NoFault
<1>t. TypeOK /\ TypeOK' /\ CallInv(r) /\ r \in Managed /\ r \in Scope[b]
  BY DEF IInv, Against
<1>1. worker[r] = "admit" /\ Gate(r) /\ hard[b] /\ limit' = limit
  BY DEF Granted
<1>2. arrived[r] \in Nat /\ arrived[r] <= clock
  BY <1>t, <1>1 DEF CallInv, OnTime, InFlight, TypeOK
<1> DEFINE spent == Charged \cap Scope[b]
           held  == HeldAgainst(b, arrived[r])
<1>3. spent \in SUBSET Requests /\ held \in SUBSET Requests
  BY <1>t DEF TypeOK, Charged, HeldAgainst, LiveAt
<1>4. Minor(spent) + Minor(held) + Cost[r] <= limit[b]
  <2>1. b \in OrgBudgets \cup ({bound[r]} \ {NoBudget})
    BY <1>1, ParametersOK DEF AllNamed, Named
  <2>2. Fits(b, arrived[r], Cost[r])
    BY <1>t, <1>1, <2>1 DEF Gate, ScopedGate
  <2> QED
    BY <1>1, <2>2 DEF Fits, Committed
<1>5. (Spenders \cap Against(b))' \subseteq (spent \cup held) \cup {r}
  <2>1. clock' = clock /\ used' = used /\ hold' = [hold EXCEPT ![r] = "reserved"]
        /\ expires' = [expires EXCEPT ![r] = arrived[r] + TTL]
    BY DEF Granted
  <2>2. ASSUME NEW q \in Requests, q # r, q \in Against(b), hold'[q] = "reserved",
               clock' < expires'[q]
        PROVE  q \in held
    <3>1. hold[q] = "reserved" /\ clock < expires[q]
      BY <2>1, <2>2, <1>t DEF TypeOK
    <3>2. arrived[r] < expires[q]
      BY <3>1, <1>2, <1>t DEF TypeOK
    <3>3. b \notin OrgBudgets => heldFor[q] = b
      BY <1>1, <2>2, <3>1 DEF AllNamed, Named
    <3> QED
      BY <3>1, <3>2, <3>3 DEF HeldAgainst, LiveAt
  <2>3. \A q \in Charged' : q \in Against(b) => q \in spent
    BY <2>1 DEF Charged, Against
  <2>4. Spenders' \subseteq Charged' \cup {q \in Requests : hold'[q] = "reserved" /\ clock' < expires'[q]}
    BY DEF Spenders, LiveAt
  <2>5. (Spenders \cap Against(b))' = Spenders' \cap Against(b)
    BY DEF Against
  <2> HIDE DEF spent, held
  <2> QED
    BY <2>2, <2>3, <2>4, <2>5
<1> HIDE DEF spent, held
<1>6. (spent \cup held) \cup {r} \in SUBSET Requests
  BY <1>3
<1>7. Minor((Spenders \cap Against(b))') <= Minor((spent \cup held) \cup {r})
  BY <1>5, <1>6, MinorMonotone
<1>8. Minor((spent \cup held) \cup {r}) <= Minor(spent \cup held) + Minor({r})
  BY <1>3, MinorUnion
<1>9. Minor(spent \cup held) <= Minor(spent) + Minor(held)
  BY <1>3, MinorUnion
<1>10. Minor({r}) = Cost[r]
  BY MinorSingle
<1>11. /\ Minor((Spenders \cap Against(b))') \in Nat /\ Minor((spent \cup held) \cup {r}) \in Nat
       /\ Minor(spent \cup held) \in Nat /\ Minor(spent) \in Nat /\ Minor(held) \in Nat
       /\ Cost[r] \in Nat /\ limit[b] \in Nat
  <2>1. (Spenders \cap Against(b))' \in SUBSET Requests
    BY <1>5, <1>6
  <2> QED
    BY <2>1, <1>3, <1>6, <1>t, UnitsFinite, ParametersOK DEF TypeOK
<1> QED
  BY <1>1, <1>4, <1>7, <1>8, <1>9, <1>10, <1>11

\* A step raises what counts against a budget only by a grant inside it.
LEMMA ScopesStep ==
    ASSUME IInv, IInv', HostSettled = {}, [Next]_vars, AllNamed, ScopesFit,
           \A b \in Budgets : limit'[b] >= limit[b] /\ (hard'[b] => hard[b])
    PROVE  ScopesFit'
<1>t. TypeOK /\ TypeOK'
  BY DEF IInv
<1> SUFFICES ASSUME NEW b \in Budgets, hard'[b]
             PROVE  Minor((Spenders \cap Against(b))') <= limit'[b]
  BY DEF ScopesFit, Against
<1> DEFINE before == Spenders \cap Against(b)
           after  == (Spenders \cap Against(b))'
<1>1. before \in SUBSET Requests /\ after \in SUBSET Requests
  BY <1>t DEF TypeOK, Spenders, Charged, LiveAt
<1>2. after \subseteq before => Minor(after) <= limit'[b]
  <2>1. Minor(before) <= limit[b] /\ limit[b] <= limit'[b]
    BY DEF ScopesFit
  <2>2. limit[b] \in Nat /\ limit'[b] \in Nat
    BY <1>t DEF TypeOK
  <2>3. Minor(before) \in Nat /\ Minor(after) \in Nat
    BY <1>1, UnitsFinite
  <2> HIDE DEF before, after
  <2>4. after \subseteq before => Minor(after) <= Minor(before)
    BY <1>1, MinorMonotone
  <2> QED
    BY <2>1, <2>2, <2>3, <2>4
<1>3. CASE \E r \in Against(b) : r \in Requests /\ Granted(r)
  BY <1>3, GrantFitsScope
<1>4. CASE \E r \in Requests \ Against(b) : Granted(r)
  <2>1. PICK r \in Requests \ Against(b) : Granted(r)
    BY <1>4
  <2>2. clock' = clock /\ used' = used /\ hold' = [hold EXCEPT ![r] = "reserved"]
        /\ expires' = [expires EXCEPT ![r] = arrived[r] + TTL]
    BY <2>1 DEF Granted
  <2>3. \A q \in Requests \ {r} : q \in Spenders' => q \in Spenders
    BY <1>t, <2>2 DEF TypeOK, Spenders, Charged, LiveAt
  <2>4. after = Spenders' \cap Against(b)
    BY DEF Against
  <2>5. after \subseteq before
    BY <1>1, <2>1, <2>3, <2>4
  <2> QED
    BY <1>2, <2>5
<1>5. CASE \A r \in Requests : ~Granted(r)
  <2>1. Spenders' \subseteq Spenders
    BY <1>5, OnlyGrantsSpend
  <2>2. after = Spenders' \cap Against(b)
    BY DEF Against
  <2> QED
    BY <1>2, <2>1, <2>2
<1> QED
  BY <1>3, <1>4, <1>5

\* What the accounting documents promise of every budget, and what run
\* budget_scoped refutes for budgets that overlap, is true of organization
\* budgets and of narrower budgets that share no call with another: recorded
\* spend never passes a hard one, unless an administrator tightens it.
THEOREM SpendWithinSeparateLimits ==
    ASSUME HostSettled = {}, Separate
    PROVE  Spec /\ BudgetsOnlyRelax => []SpendWithinEveryLimit
<1>1. Init => AllNamed /\ ScopesFit
  <2> SUFFICES ASSUME Init PROVE AllNamed /\ ScopesFit
    OBVIOUS
  <2>1. AllNamed
    BY ParametersOK DEF Init, AllNamed, Named, Against
  <2>2. \A b \in Budgets : Spenders \cap Against(b) = {} /\ limit[b] \in Nat
    BY ParametersOK DEF Init, Spenders, Charged, LiveAt
  <2> QED
    BY <2>1, <2>2, MinorEmpty DEF ScopesFit
<1>2. /\ IInv /\ IInv' /\ [Next]_vars /\ AllNamed /\ ScopesFit
      /\ [\A b \in Budgets : limit'[b] >= limit[b] /\ (hard'[b] => hard[b])]_vars
      => AllNamed' /\ ScopesFit'
  <2>1. ASSUME UNCHANGED vars, AllNamed, ScopesFit PROVE AllNamed' /\ ScopesFit'
    BY <2>1 DEF vars, AllNamed, Named, ScopesFit, Spenders, Charged, LiveAt, Against
  <2> QED
    BY <2>1, NamedStep, ScopesStep DEF IInv
<1>3. TypeOK /\ ScopesFit => SpendWithinEveryLimit
  <2> SUFFICES ASSUME TypeOK, ScopesFit, NEW b \in Budgets, hard[b]
               PROVE  Minor(Charged \cap Scope[b]) <= limit[b]
    BY DEF SpendWithinEveryLimit
  <2>1. Spenders \cap Against(b) \in SUBSET Requests
    BY DEF TypeOK, Spenders, Charged, LiveAt
  <2>2. Charged \cap Scope[b] \in SUBSET (Spenders \cap Against(b))
    BY DEF Spenders, Charged, Against
  <2>3. Minor(Charged \cap Scope[b]) <= Minor(Spenders \cap Against(b))
    BY <2>1, <2>2, MinorMonotone
  <2>4. Minor(Spenders \cap Against(b)) <= limit[b] /\ limit[b] \in Nat
    BY DEF ScopesFit, TypeOK
  <2>5. Minor(Charged \cap Scope[b]) \in Nat /\ Minor(Spenders \cap Against(b)) \in Nat
    BY <2>1, <2>2, UnitsFinite
  <2> QED
    BY <2>3, <2>4, <2>5
<1> QED
  BY <1>1, <1>2, <1>3, InvAlways, TypeCorrect, PTL DEF Spec, BudgetsOnlyRelax

=============================================================================
