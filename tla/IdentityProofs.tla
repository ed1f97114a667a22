--------------------------- MODULE IdentityProofs ----------------------------
(***************************************************************************)
(* Theorems about Devices and Accounts, for any calls, enrollments, devices*)
(* and keys that meet Constants, and any requests and codes.               *)
(***************************************************************************)
EXTENDS MCDevices, AgentProofs, TLAPS

-----------------------------------------------------------------------------
(***************************************************************************)
(* Devices: enrollments, device tokens and policy snapshots.               *)
(***************************************************************************)
(***************************************************************************)
(* The inductive invariant.  What a handler has read of an approval or of  *)
(* a device stays true until it writes, because an approval is final and a *)
(* device row is never deleted; and the key index keeps an approval final. *)
(***************************************************************************)
HandlersKnow ==
    \A c \in Calls : LET r == request[c] IN
        /\ r.phase = "complete" =>
             Approved(r.enrollment) /\ r.device = enrollment[r.enrollment].device
        /\ r.phase = "revoke" => Enrolled(r.device)

\* The device of an approval is enrolled with the enrollment's key.
ApprovalsEnroll ==
    \A e \in Enrollments :
        /\ Approved(e) => /\ Enrolled(enrollment[e].device)
                          /\ device[enrollment[e].device].key = KeyOf[e]
        /\ enrollment[e].status = "completed" => Approved(e)
        /\ enrollment[e].status = "none" => ~Approved(e)

\* Versions are counted from 1 without a gap; a handler about to publish has a
\* version that is at most the next; and no version has two payloads.
Gapless == \E n \in Nat : Versions = 1..n
PublishersBehind ==
    \A c \in Calls : request[c].phase = "publish" =>
        request[c].version \in 1..LastVersion + 1
OnePayload == \A s, t \in snapshots : s.version = t.version => s = t

Inv ==
    /\ TypeOK /\ HandlersKnow /\ ApprovalsEnroll
    /\ Gapless /\ PublishersBehind /\ OnePayload

-----------------------------------------------------------------------------
(***************************************************************************)
(* Types.                                                                  *)
(***************************************************************************)
\* MAX_POLICY_VERSION_SQL finds the last of them.
LEMMA LastOfRange ==
    ASSUME NEW n \in Nat
    PROVE  (CHOOSE v \in {0} \cup 1..n : \A u \in 1..n : u <= v) = n
<1> DEFINE S == {0} \cup 1..n
           Last == CHOOSE v \in S : \A u \in 1..n : u <= v
<1>1. \E v \in S : \A u \in 1..n : u <= v
  <2>1. n \in S
    OBVIOUS
  <2> QED
    BY <2>1
<1>2. Last \in S /\ \A u \in 1..n : u <= Last
  BY <1>1, Zenon
<1> QED
  BY <1>2

\* The initial states.
LEMMA InitTypes ==
    ASSUME Constants, Init
    PROVE  TypeOK
<1>1. clock \in 0..DeviceTime
  BY DEF Constants, Init
<1>2. enrollment \in [Enrollments -> EnrollmentRow]
  BY DEF Constants, Init, EnrollmentRow
<1>3. device \in [Managed -> DeviceRow]
  <2>1. KeyOf[FirstOf] \in Keys /\ 0 \in 0..DeviceTime
    BY DEF Constants
  <2>2. [status |-> "none"] \in DeviceRow
    BY DEF DeviceRow
  <2>3. [status |-> "active", key |-> KeyOf[FirstOf], seen |-> 0] \in DeviceRow
    BY <2>1 DEF DeviceRow
  <2> QED
    BY <2>2, <2>3 DEF Init
<1>4. tokens \subseteq TokenRow
  BY DEF Constants, Init, TokenRow
<1>5. bound \subseteq Managed
  BY DEF Init
<1>6. snapshots \subseteq [version : Nat, payload : PolicyPayload]
  <2>1. [NoPayload EXCEPT !.member = TRUE] \in PolicyPayload
    BY DEF NoPayload, PolicyPayload
  <2>2. PICK completed \in BOOLEAN : snapshots = IF completed
          THEN {[version |-> 1, payload |-> [NoPayload EXCEPT !.member = TRUE]]} ELSE {}
    BY DEF Init
  <2>3. [version |-> 1, payload |-> [NoPayload EXCEPT !.member = TRUE]]
          \in [version : Nat, payload : PolicyPayload]
    BY <2>1
  <2> QED
    BY <2>2, <2>3
<1>7. request \in [Calls -> Handler]
  <2>1. [phase |-> "new"] \in Handler
    BY DEF Handler
  <2> QED
    BY <2>1 DEF Init
<1> QED
  BY <1>1, <1>2, <1>3, <1>4, <1>5, <1>6, <1>7 DEF TypeOK

\* What a handler goes on with is one of its records.
LEMMA GoesTypes ==
    ASSUME TypeOK, NEW c \in Calls, NEW r \in Handler, Goes(c, r)
    PROVE  request' \in [Calls -> Handler]
BY DEF TypeOK, Goes

\* A handler that is over is one of them too.
LEMMA OverTypes ==
    ASSUME TypeOK, NEW c \in Calls, Over(c)
    PROVE  request' \in [Calls -> Handler]
<1>1. [phase |-> "over"] \in Handler
  BY DEF Handler
<1> QED
  BY <1>1, GoesTypes DEF Over

\* An arriving call reads the tables and leaves them alone.
LEMMA ArrivalTypes ==
    ASSUME TypeOK, NEW c \in Calls, NEW r \in Handler, Arrives(c, r)
    PROVE  TypeOK'
<1>1. request' \in [Calls -> Handler]
  BY GoesTypes DEF Arrives
<1> QED
  BY <1>1 DEF Arrives, tables, TypeOK

\* Which fields a record has is told by its phase.
LEMMA PhaseFields ==
    ASSUME NEW r \in Handler
    PROVE  /\ r.phase \in {"expire", "approve", "complete"} => r.enrollment \in Enrollments
           /\ r.phase \in {"approve", "complete", "token", "heartbeat", "bind", "unbind"} =>
                r.at \in 0..DeviceTime
           /\ r.phase \in {"complete", "token", "heartbeat", "bind", "unbind", "revoke"} =>
                r.device \in Managed
           /\ r.phase \in {"latest", "compile"} => r.minimum \in BOOLEAN
           /\ r.phase \in {"version", "publish"} => r.payload \in PolicyPayload
           /\ r.phase = "publish" => r.version \in Nat
BY DEF Handler

\* Every call that reads and waits.
LEMMA ArrivalsTyped ==
    ASSUME Constants, TypeOK,
           \/ \E c \in Calls, e \in Enrollments :
                FindExpired(c, e) \/ Approve(c, e) \/ Complete(c, e)
           \/ \E c \in Calls, d \in Managed :
                \/ RefreshToken(c, d) \/ Revoke(c, d)
                \/ \E op \in {"heartbeat", "bind", "unbind"} : Enter(c, d, op)
    PROVE  TypeOK'
<1>0. clock \in 0..DeviceTime
  BY DEF TypeOK
<1>1. ASSUME NEW c \in Calls, NEW e \in Enrollments, FindExpired(c, e) PROVE TypeOK'
  <2>1. [phase |-> "expire", enrollment |-> e] \in Handler
    BY DEF Handler
  <2> QED
    BY <1>1, <2>1, ArrivalTypes DEF FindExpired
<1>2. ASSUME NEW c \in Calls, NEW e \in Enrollments, Approve(c, e) PROVE TypeOK'
  <2>1. [phase |-> "approve", enrollment |-> e, at |-> clock] \in Handler
    BY <1>0 DEF Handler
  <2> QED
    BY <1>2, <2>1, ArrivalTypes DEF Approve
<1>3. ASSUME NEW c \in Calls, NEW e \in Enrollments, Complete(c, e) PROVE TypeOK'
  <2>1. enrollment[e].device \in Managed
    BY <1>3 DEF Complete, Approved, TypeOK, EnrollmentRow
  <2>2. [phase |-> "complete", enrollment |-> e, at |-> clock,
         device |-> enrollment[e].device] \in Handler
    BY <1>0, <2>1 DEF Handler
  <2> QED
    BY <1>3, <2>2, ArrivalTypes DEF Complete
<1>4. ASSUME NEW c \in Calls, NEW d \in Managed, RefreshToken(c, d) PROVE TypeOK'
  <2>1. [phase |-> "token", device |-> d, at |-> clock] \in Handler
    BY <1>0 DEF Handler
  <2> QED
    BY <1>4, <2>1, ArrivalTypes DEF RefreshToken
<1>5. ASSUME NEW c \in Calls, NEW d \in Managed, Revoke(c, d) PROVE TypeOK'
  <2>1. [phase |-> "revoke", device |-> d] \in Handler
    BY DEF Handler
  <2> QED
    BY <1>5, <2>1, ArrivalTypes DEF Revoke
<1>6. ASSUME NEW c \in Calls, NEW d \in Managed, NEW op \in {"heartbeat", "bind", "unbind"},
             Enter(c, d, op)
      PROVE  TypeOK'
  <2>1. [phase |-> op, device |-> d, at |-> clock] \in Handler
    BY <1>0 DEF Handler
  <2> QED
    BY <1>6, <2>1, ArrivalTypes DEF Enter
<1> QED
  BY <1>1, <1>2, <1>3, <1>4, <1>5, <1>6

\* A refresh begins.
LEMMA RefreshTypes ==
    ASSUME TypeOK, NEW c \in Calls, NEW minimum \in BOOLEAN, Refreshes(c, minimum)
    PROVE  request' \in [Calls -> Handler]
<1>1. [phase |-> "latest", minimum |-> minimum] \in Handler
  BY DEF Handler
<1> QED
  BY <1>1, GoesTypes DEF Refreshes

\* A stored token is a row of device_tokens.
LEMMA TokenTypes ==
    ASSUME Constants, TypeOK, NEW c \in Calls,
           request[c].phase \in {"complete", "token"}, InsertToken(c)
    PROVE  tokens' \subseteq TokenRow
<1>1. request[c] \in Handler
  BY DEF TypeOK
<1>2. request[c].device \in Managed /\ request[c].at \in 0..DeviceTime
  BY <1>1, PhaseFields
<1>3. request[c].at + TokenTTL \in Nat
  BY <1>2 DEF Constants
<1> QED
  BY <1>2, <1>3 DEF InsertToken, TypeOK, TokenRow

\* No write of a handler, and no passing of time, breaks a type.
LEMMA WritesTyped ==
    ASSUME Constants, TypeOK, HandlersKnow, NEW c \in Calls,
           \/ Expire(c) \/ WriteApproval(c) \/ WriteCompletion(c) \/ WriteToken(c)
           \/ Heartbeat(c) \/ Bind(c) \/ Unbind(c) \/ WriteRevocation(c)
    PROVE  TypeOK'
<1> DEFINE r == request[c]
<1>0. r \in Handler
  BY DEF TypeOK
<1>1. CASE Expire(c)
  <2>1. request' \in [Calls -> Handler]
    BY <1>1, OverTypes DEF Expire
  <2>2. enrollment' \in [Enrollments -> EnrollmentRow]
    BY <1>1 DEF Expire, TypeOK, EnrollmentRow
  <2> QED
    BY <1>1, <2>1, <2>2 DEF Expire, TypeOK
<1>2. CASE WriteApproval(c)
  <2>0. r.enrollment \in Enrollments
    BY <1>0, <1>2, PhaseFields DEF WriteApproval
  <2>1. request' \in [Calls -> Handler]
    BY <1>2, OverTypes DEF WriteApproval
  <2>2. [status |-> "active", key |-> KeyOf[r.enrollment], seen |-> 0] \in DeviceRow
    BY <2>0 DEF Constants, DeviceRow
  <2>3. device' \in [Managed -> DeviceRow]
    BY <1>2, <2>2 DEF WriteApproval, TypeOK
  <2>4. enrollment' \in [Enrollments -> EnrollmentRow]
    <3>1. CASE enrollment' = enrollment
      BY <3>1 DEF TypeOK
    <3>2. CASE enrollment' # enrollment
      <4>1. PICK d \in Managed :
              enrollment' = [enrollment EXCEPT ![r.enrollment].device = d]
        BY <1>2, <3>2 DEF WriteApproval
      <4> QED
        BY <2>0, <4>1 DEF TypeOK, EnrollmentRow
    <3> QED
      BY <3>1, <3>2
  <2> QED
    BY <1>2, <2>1, <2>3, <2>4 DEF WriteApproval, TypeOK
<1>3. CASE WriteCompletion(c)
  <2>0. r.enrollment \in Enrollments /\ r.device \in Managed
    BY <1>0, <1>3, PhaseFields DEF WriteCompletion
  <2>1. request' \in [Calls -> Handler]
    BY <1>3, RefreshTypes DEF WriteCompletion
  <2>2. tokens' \subseteq TokenRow
    BY <1>3, TokenTypes DEF WriteCompletion
  <2>3. enrollment' \in [Enrollments -> EnrollmentRow]
    BY <1>3, <2>0 DEF WriteCompletion, TypeOK, EnrollmentRow
  <2> QED
    BY <1>3, <2>1, <2>2, <2>3 DEF WriteCompletion, TypeOK
<1>4. CASE WriteToken(c)
  <2>1. request' \in [Calls -> Handler]
    BY <1>4, RefreshTypes DEF WriteToken
  <2>2. tokens' \subseteq TokenRow
    BY <1>4, TokenTypes DEF WriteToken
  <2> QED
    BY <1>4, <2>1, <2>2 DEF WriteToken, TypeOK
<1>5. CASE Heartbeat(c)
  <2>0. r.device \in Managed /\ r.at \in 0..DeviceTime
    BY <1>0, <1>5, PhaseFields DEF Heartbeat
  <2>1. request' \in [Calls -> Handler]
    BY <1>5, OverTypes DEF Heartbeat
  <2>2. device[r.device].status = "active" =>
          [device[r.device] EXCEPT !.seen = r.at] \in DeviceRow
    BY <2>0 DEF TypeOK, DeviceRow
  <2>3. device' \in [Managed -> DeviceRow]
    BY <1>5, <2>0, <2>2 DEF Heartbeat, TypeOK
  <2> QED
    BY <1>5, <2>1, <2>3 DEF Heartbeat, TypeOK
<1>6. CASE Bind(c)
  <2>0. r.device \in Managed
    BY <1>0, <1>6, PhaseFields DEF Bind
  <2>1. request' \in [Calls -> Handler]
    BY <1>6, OverTypes, RefreshTypes DEF Bind
  <2> QED
    BY <1>6, <2>0, <2>1 DEF Bind, TypeOK
<1>7. CASE Unbind(c)
  <2>1. request' \in [Calls -> Handler]
    BY <1>7, OverTypes, RefreshTypes DEF Unbind
  <2> QED
    BY <1>7, <2>1 DEF Unbind, TypeOK
<1>8. CASE WriteRevocation(c)
  <2>0. r.device \in Managed
    BY <1>0, <1>8, PhaseFields DEF WriteRevocation
  <2>1. request' \in [Calls -> Handler]
    BY <1>8, OverTypes DEF WriteRevocation
  <2>2. Enrolled(r.device) => [device[r.device] EXCEPT !.status = "revoked"] \in DeviceRow
    BY <2>0 DEF TypeOK, DeviceRow, Enrolled
  <2>3. Enrolled(r.device)
    BY <1>8 DEF WriteRevocation, HandlersKnow
  <2>4. device' \in [Managed -> DeviceRow]
    BY <1>8, <2>0, <2>2, <2>3 DEF WriteRevocation, TypeOK
  <2> QED
    BY <1>8, <2>1, <2>4 DEF WriteRevocation, TypeOK
<1> QED
  BY <1>1, <1>2, <1>3, <1>4, <1>5, <1>6, <1>7, <1>8

\* The four steps of refresh_policy_snapshot.
LEMMA RefreshTyped ==
    ASSUME TypeOK, Gapless, NEW c \in Calls,
           ReadLatest(c) \/ Compile(c) \/ ReadVersion(c) \/ Publish(c)
    PROVE  TypeOK'
<1> DEFINE r == request[c]
<1>0. r \in Handler
  BY DEF TypeOK
<1>1. CASE ReadLatest(c)
  <2> DEFINE latest == {s.payload : s \in {t \in snapshots : t.version = LastVersion}}
  <2>1. latest \in SUBSET PolicyPayload
    BY DEF TypeOK
  <2>2. r.minimum \in BOOLEAN
    BY <1>0, <1>1, PhaseFields DEF ReadLatest
  <2>3. [phase |-> "compile", minimum |-> r.minimum, latest |-> latest] \in Handler
    BY <2>1, <2>2 DEF Handler
  <2>4. request' \in [Calls -> Handler]
    BY <1>1, <2>3, GoesTypes DEF ReadLatest
  <2> QED
    BY <1>1, <2>4 DEF ReadLatest, TypeOK, tables
<1>2. CASE Compile(c)
  <2> DEFINE payload == Payload({d \in Managed : Enrolled(d)}, bound, r.minimum)
  <2>1. r.minimum \in BOOLEAN
    BY <1>0, <1>2, PhaseFields DEF Compile
  <2>2. (\E d \in {d \in Managed : Enrolled(d)} : device[d].status = "active") \in BOOLEAN
    OBVIOUS
  <2>3. payload \in PolicyPayload
    BY <2>1, <2>2 DEF Payload, PolicyPayload, TypeOK
  <2>4. [phase |-> "version", payload |-> payload] \in Handler
        /\ [phase |-> "over"] \in Handler
    BY <2>3 DEF Handler
  <2>5. request' \in [Calls -> Handler]
    BY <1>2, <2>4, GoesTypes DEF Compile
  <2> QED
    BY <1>2, <2>5 DEF Compile, TypeOK, tables
<1>3. CASE ReadVersion(c)
  <2>1. LastVersion + 1 \in Nat
    <3>1. PICK n \in Nat : Versions = 1..n
      BY DEF Gapless
    <3>2. LastVersion = n
      BY <3>1, LastOfRange DEF LastVersion
    <3> QED
      BY <3>2
  <2>2. r.payload \in PolicyPayload
    BY <1>0, <1>3, PhaseFields DEF ReadVersion
  <2>3. [phase |-> "publish", payload |-> r.payload, version |-> LastVersion + 1] \in Handler
    BY <2>1, <2>2 DEF Handler
  <2>4. request' \in [Calls -> Handler]
    BY <1>3, <2>3, GoesTypes DEF ReadVersion
  <2> QED
    BY <1>3, <2>4 DEF ReadVersion, TypeOK, tables
<1>4. CASE Publish(c)
  <2>1. r.payload \in PolicyPayload /\ r.version \in Nat
    BY <1>0, <1>4, PhaseFields DEF Publish
  <2>2. request' \in [Calls -> Handler]
    BY <1>4, OverTypes DEF Publish
  <2>3. snapshots' \subseteq [version : Nat, payload : PolicyPayload]
    BY <1>4, <2>1 DEF Publish, TypeOK
  <2> QED
    BY <1>4, <2>2, <2>3 DEF Publish, TypeOK
<1> QED
  BY <1>1, <1>2, <1>3, <1>4

\* begin_enrollment and the clock.
LEMMA EnvironmentTyped ==
    ASSUME Constants, TypeOK, (\E e \in Enrollments : Begin(e)) \/ Elapse
    PROVE  TypeOK'
<1>1. ASSUME NEW e \in Enrollments, Begin(e) PROVE TypeOK'
  <2>1. [status |-> "pending", device |-> NoDevice, expires |-> clock + EnrollmentTTL]
          \in EnrollmentRow
    BY DEF Constants, TypeOK, EnrollmentRow
  <2> QED
    BY <1>1, <2>1 DEF Begin, TypeOK
<1>2. CASE Elapse
  BY <1>2 DEF Elapse, TypeOK, tables, Constants
<1> QED
  BY <1>1, <1>2

\* Every step keeps the types.
LEMMA NextTypes ==
    ASSUME Constants, Inv, Next
    PROVE  TypeOK'
BY ArrivalsTyped, WritesTyped, RefreshTyped, EnvironmentTyped DEF Inv, Next

-----------------------------------------------------------------------------
(***************************************************************************)
(* Which action writes which table.                                        *)
(***************************************************************************)
LEMMA DeviceWriters ==
    ASSUME Next
    PROVE  \/ device' = device
           \/ \E c \in Calls : WriteApproval(c) \/ Heartbeat(c) \/ WriteRevocation(c)
BY DEF Next, Begin, FindExpired, Approve, Complete, RefreshToken, Revoke, Enter, Arrives,
       tables, Expire, WriteCompletion, WriteToken, Bind, Unbind, ReadLatest, Compile,
       ReadVersion, Publish, Elapse

\* Who writes device_enrollments.
LEMMA EnrollmentWriters ==
    ASSUME Next
    PROVE  \/ enrollment' = enrollment
           \/ \E e \in Enrollments : Begin(e)
           \/ \E c \in Calls : Expire(c) \/ WriteApproval(c) \/ WriteCompletion(c)
BY DEF Next, FindExpired, Approve, Complete, RefreshToken, Revoke, Enter, Arrives,
       tables, WriteToken, Heartbeat, Bind, Unbind, WriteRevocation, ReadLatest, Compile,
       ReadVersion, Publish, Elapse

\* A step moves the handler of one call, if any.
LEMMA OneHandler ==
    ASSUME TypeOK, NEW b \in Calls, NEW c \in Calls, NEW r, Goes(b, r)
    PROVE  request'[c] = IF b = c THEN r ELSE request[c]
BY DEF TypeOK, Goes

\* Where the handler of c may go.
LEMMA HandlerSteps ==
    ASSUME TypeOK, Next, NEW c \in Calls
    PROVE  \/ request'[c] = request[c]
           \/ \E e \in Enrollments : Complete(c, e)
           \/ \E d \in Managed : Revoke(c, d)
           \/ \E d \in Managed, op \in {"heartbeat", "bind", "unbind"} : Enter(c, d, op)
           \/ ReadVersion(c)
           \/ request'[c].phase \in {"expire", "approve", "token", "over", "latest",
                                    "compile", "version"}
<1>1. CASE (\E e \in Enrollments : Begin(e)) \/ Elapse
  BY <1>1 DEF Begin, Elapse
<1>2. ASSUME NEW b \in Calls, NEW e \in Enrollments,
             FindExpired(b, e) \/ Approve(b, e) \/ Complete(b, e)
      PROVE  \/ request'[c] = request[c]
             \/ Complete(c, e) \/ request'[c].phase \in {"expire", "approve"}
  <2>1. CASE FindExpired(b, e)
    BY <2>1, OneHandler DEF FindExpired, Arrives
  <2>2. CASE Approve(b, e)
    BY <2>2, OneHandler DEF Approve, Arrives
  <2>3. CASE Complete(b, e)
    BY <2>3, OneHandler DEF Complete, Arrives
  <2> QED
    BY <1>2, <2>1, <2>2, <2>3
<1>3. ASSUME NEW b \in Calls, NEW d \in Managed, RefreshToken(b, d) \/ Revoke(b, d)
      PROVE  \/ request'[c] = request[c] \/ Revoke(c, d) \/ request'[c].phase = "token"
  <2>1. CASE RefreshToken(b, d)
    BY <2>1, OneHandler DEF RefreshToken, Arrives
  <2>2. CASE Revoke(b, d)
    BY <2>2, OneHandler DEF Revoke, Arrives
  <2> QED
    BY <1>3, <2>1, <2>2
<1>4. ASSUME NEW b \in Calls, NEW d \in Managed, NEW op \in {"heartbeat", "bind", "unbind"},
             Enter(b, d, op)
      PROVE  request'[c] = request[c] \/ Enter(c, d, op)
  BY <1>4, OneHandler DEF Enter, Arrives
<1>5. ASSUME NEW b \in Calls,
             \/ Expire(b) \/ WriteApproval(b) \/ Heartbeat(b) \/ WriteRevocation(b) \/ Publish(b)
      PROVE  request'[c] = request[c] \/ request'[c].phase = "over"
  BY <1>5, OneHandler DEF Expire, WriteApproval, Heartbeat, WriteRevocation, Publish, Over
<1>6. ASSUME NEW b \in Calls, WriteCompletion(b) \/ WriteToken(b) \/ Bind(b) \/ Unbind(b)
      PROVE  request'[c] = request[c] \/ request'[c].phase \in {"over", "latest"}
  <2>1. request'[c] = request[c] \/ Refreshes(c, FALSE) \/ Refreshes(c, TRUE) \/ Over(c)
    BY <1>6, OneHandler DEF WriteCompletion, WriteToken, Bind, Unbind, Refreshes, Over
  <2> QED
    BY <2>1, OneHandler DEF Refreshes, Over
<1>7. ASSUME NEW b \in Calls, ReadLatest(b)
      PROVE  request'[c] = request[c] \/ request'[c].phase = "compile"
  BY <1>7, OneHandler DEF ReadLatest
<1>8. ASSUME NEW b \in Calls, Compile(b)
      PROVE  request'[c] = request[c] \/ request'[c].phase \in {"over", "version"}
  BY <1>8, OneHandler DEF Compile
<1>9. ASSUME NEW b \in Calls, ReadVersion(b)
      PROVE  request'[c] = request[c] \/ ReadVersion(c)
  BY <1>9, OneHandler DEF ReadVersion
<1> QED
  BY <1>1, <1>2, <1>3, <1>4, <1>5, <1>6, <1>7, <1>8, <1>9 DEF Next

\* Who writes policy_snapshots.
LEMMA SnapshotWriters ==
    ASSUME Next
    PROVE  snapshots' = snapshots \/ \E c \in Calls : Publish(c)
BY DEF Next, Begin, FindExpired, Approve, Complete, RefreshToken, Revoke, Enter, Arrives,
       tables, Expire, WriteApproval, WriteCompletion, WriteToken, Heartbeat, Bind, Unbind,
       WriteRevocation, ReadLatest, Compile, ReadVersion, Elapse

\* A device row is never deleted, never changes its key, and does not change at
\* all once it is revoked.
LEMMA DevicesStay ==
    ASSUME Inv, Next, NEW d \in Managed, Enrolled(d)
    PROVE  /\ Enrolled(d)' /\ device'[d].key = device[d].key
           /\ device[d].status = "revoked" => device'[d] = device[d]
<1>0. device[d] \in [status : {"active", "revoked"}, key : Keys, seen : 0..DeviceTime]
  BY DEF Inv, TypeOK, DeviceRow, Enrolled
<1>1. CASE device' = device
  BY <1>1 DEF Enrolled
<1>2. ASSUME NEW c \in Calls, WriteApproval(c) PROVE device'[d] = device[d]
  BY <1>2 DEF WriteApproval, Enrolled, Inv, TypeOK
<1>3. ASSUME NEW c \in Calls, Heartbeat(c)
      PROVE  \/ device'[d] = device[d]
             \/ device[d].status = "active" /\ \E t : device'[d] = [device[d] EXCEPT !.seen = t]
  BY <1>3 DEF Heartbeat, Inv, TypeOK
<1>4. ASSUME NEW c \in Calls, WriteRevocation(c)
      PROVE  device'[d] = device[d] \/ device'[d] = [device[d] EXCEPT !.status = "revoked"]
  BY <1>4 DEF WriteRevocation, Inv, TypeOK
<1>5. [device[d] EXCEPT !.status = "revoked"].status = "revoked"
      /\ [device[d] EXCEPT !.status = "revoked"].key = device[d].key
      /\ (device[d].status = "revoked" => [device[d] EXCEPT !.status = "revoked"] = device[d])
  BY <1>0
<1>6. ASSUME NEW t PROVE /\ [device[d] EXCEPT !.seen = t].status = device[d].status
                        /\ [device[d] EXCEPT !.seen = t].key = device[d].key
  BY <1>0
<1> QED
  BY <1>1, <1>2, <1>3, <1>4, <1>5, <1>6, DeviceWriters DEF Enrolled

\* An approval is final: the key index refuses a second one, and a completion
\* writes the device it read, which is still the approved one.
LEMMA ApprovalsStay ==
    ASSUME Inv, Next, NEW e \in Enrollments, Approved(e)
    PROVE  enrollment'[e].device = enrollment[e].device
<1>0. enrollment[e].device \in Managed
  BY DEF Inv, TypeOK, EnrollmentRow, Approved
<1>1. CASE enrollment' = enrollment
  BY <1>1
<1>2. ASSUME NEW f \in Enrollments, Begin(f) PROVE enrollment'[e].device = enrollment[e].device
  BY <1>2 DEF Begin, Inv, TypeOK, ApprovalsEnroll
<1>3. ASSUME NEW c \in Calls, Expire(c) PROVE enrollment'[e].device = enrollment[e].device
  BY <1>3 DEF Expire, Inv, TypeOK, EnrollmentRow
<1>4. ASSUME NEW c \in Calls, WriteApproval(c) PROVE enrollment'[e].device = enrollment[e].device
  <2>1. CASE enrollment' = enrollment
    BY <2>1
  <2>2. CASE enrollment' # enrollment
    <3>1. request[c].enrollment # e
      BY <1>0, <1>4, <2>2 DEF WriteApproval, KeyFree, Inv, ApprovalsEnroll
    <3>2. PICK d : enrollment' = [enrollment EXCEPT ![request[c].enrollment].device = d]
      BY <1>4, <2>2 DEF WriteApproval
    <3> QED
      BY <3>1, <3>2 DEF Inv, TypeOK
  <2> QED
    BY <2>1, <2>2
<1>5. ASSUME NEW c \in Calls, WriteCompletion(c)
      PROVE  enrollment'[e].device = enrollment[e].device
  BY <1>5 DEF WriteCompletion, Inv, TypeOK, EnrollmentRow, HandlersKnow
<1> QED
  BY <1>1, <1>2, <1>3, <1>4, <1>5, EnrollmentWriters

-----------------------------------------------------------------------------
(***************************************************************************)
(* The invariant is inductive.                                             *)
(***************************************************************************)
LEMMA ApprovalsEnrollKept ==
    ASSUME Constants, Inv, Next
    PROVE  ApprovalsEnroll'
<1> SUFFICES ASSUME NEW e \in Enrollments
             PROVE  /\ Approved(e)' => /\ device'[enrollment'[e].device].status # "none"
                                       /\ device'[enrollment'[e].device].key = KeyOf[e]
                    /\ enrollment'[e].status = "completed" => Approved(e)'
                    /\ enrollment'[e].status = "none" => ~Approved(e)'
  BY DEF ApprovalsEnroll, Enrolled
<1>1. CASE Approved(e)
  <2>1. PICK d \in Managed : d = enrollment[e].device /\ Enrolled(d) /\ device[d].key = KeyOf[e]
    BY <1>1 DEF Inv, TypeOK, EnrollmentRow, Approved, ApprovalsEnroll
  <2>2. enrollment'[e].device = d
    BY <1>1, <2>1, ApprovalsStay
  <2>3. Enrolled(d)' /\ device'[d].key = KeyOf[e]
    BY <2>1, DevicesStay
  <2>4. enrollment'[e].status # "none"
    <3>1. enrollment[e].status # "none"
      BY <1>1 DEF Inv, ApprovalsEnroll
    <3>2. ASSUME NEW f \in Enrollments, Begin(f) PROVE enrollment'[e].status # "none"
      BY <3>1, <3>2 DEF Begin, Inv, TypeOK
    <3>3. ASSUME NEW c \in Calls, Expire(c) PROVE enrollment'[e].status # "none"
      BY <3>1, <3>3 DEF Expire, Inv, TypeOK, EnrollmentRow
    <3>4. ASSUME NEW c \in Calls, WriteApproval(c) PROVE enrollment'[e].status # "none"
      <4>1. CASE enrollment' = enrollment
        BY <3>1, <4>1
      <4>2. CASE enrollment' # enrollment
        <5>1. PICK m : enrollment' = [enrollment EXCEPT ![request[c].enrollment].device = m]
          BY <3>4, <4>2 DEF WriteApproval
        <5> QED
          BY <3>1, <5>1 DEF Inv, TypeOK, EnrollmentRow
      <4> QED
        BY <4>1, <4>2
    <3>5. ASSUME NEW c \in Calls, WriteCompletion(c) PROVE enrollment'[e].status # "none"
      BY <3>1, <3>5 DEF WriteCompletion, Inv, TypeOK, EnrollmentRow
    <3> QED
      BY <3>1, <3>2, <3>3, <3>4, <3>5, EnrollmentWriters
  <2> QED
    BY <1>1, <2>1, <2>2, <2>3, <2>4 DEF Approved, Enrolled
<1>2. CASE ~Approved(e)
  <2>1. CASE enrollment' = enrollment
    BY <1>2, <2>1 DEF Approved, Inv, ApprovalsEnroll
  <2>2. ASSUME NEW f \in Enrollments, Begin(f)
        PROVE  enrollment'[e].status # "completed" /\ ~Approved(e)'
    BY <1>2, <2>2 DEF Begin, Approved, Inv, TypeOK, ApprovalsEnroll
  <2>3. ASSUME NEW c \in Calls, Expire(c)
        PROVE  enrollment'[e].status # "completed" /\ ~Approved(e)'
    BY <1>2, <2>3 DEF Expire, Approved, Inv, TypeOK, EnrollmentRow, ApprovalsEnroll
  <2>4. ASSUME NEW c \in Calls, WriteApproval(c), enrollment' # enrollment
        PROVE  /\ Approved(e)' => /\ device'[enrollment'[e].device].status # "none"
                                  /\ device'[enrollment'[e].device].key = KeyOf[e]
               /\ enrollment'[e].status # "completed"
               /\ enrollment'[e].status = "none" => ~Approved(e)'
    <3> DEFINE f == request[c].enrollment
    <3>1. PICK d \in Managed :
            /\ device' = [device EXCEPT ![d] =
                            [status |-> "active", key |-> KeyOf[f], seen |-> 0]]
            /\ enrollment' = [enrollment EXCEPT ![f].device = d]
            /\ Pending(f)
      BY <2>4 DEF WriteApproval
    <3>2. CASE f = e
      <4>1. enrollment'[e].device = d /\ enrollment'[e].status = "pending"
        BY <3>1, <3>2 DEF Inv, TypeOK, EnrollmentRow, Pending
      <4>2. device'[d] = [status |-> "active", key |-> KeyOf[e], seen |-> 0]
        BY <3>1, <3>2 DEF Inv, TypeOK
      <4> QED
        BY <4>1, <4>2 DEF Enrolled
    <3>3. CASE f # e
      <4>1. enrollment'[e] = enrollment[e]
        BY <3>1, <3>3 DEF Inv, TypeOK
      <4> QED
        BY <1>2, <4>1 DEF Approved, Inv, ApprovalsEnroll
    <3> QED
      BY <3>2, <3>3
  <2>5. ASSUME NEW c \in Calls, WriteCompletion(c) PROVE enrollment'[e] = enrollment[e]
    BY <1>2, <2>5 DEF WriteCompletion, Inv, TypeOK, HandlersKnow
  <2> QED
    BY <1>2, <2>1, <2>2, <2>3, <2>4, <2>5, EnrollmentWriters
       DEF Approved, Inv, ApprovalsEnroll
<1> QED
  BY <1>1, <1>2

\* What a handler has read of an approval or a device stays true.
LEMMA HandlersKnowKept ==
    ASSUME Constants, Inv, Next
    PROVE  HandlersKnow'
<1> SUFFICES ASSUME NEW c \in Calls
             PROVE  /\ request'[c].phase = "complete" =>
                         /\ Approved(request[c].enrollment)'
                         /\ request'[c].device = enrollment'[request'[c].enrollment].device
                    /\ request'[c].phase = "revoke" => Enrolled(request[c].device)'
  BY DEF HandlersKnow
<1>0. request'[c] \in Handler /\ request[c] \in Handler
  BY NextTypes DEF TypeOK, Inv
<1>1. CASE request'[c] = request[c]
  <2>1. CASE request[c].phase = "complete"
    <3>1. request[c].enrollment \in Enrollments
      BY <1>0, <2>1, PhaseFields
    <3> QED
      BY <1>1, <2>1, <3>1, ApprovalsStay DEF Inv, HandlersKnow, Approved
  <2>2. CASE request[c].phase = "revoke"
    <3>1. request[c].device \in Managed
      BY <1>0, <2>2, PhaseFields
    <3> QED
      BY <1>1, <2>2, <3>1, DevicesStay DEF Inv, HandlersKnow
  <2> QED
    BY <1>1, <2>1, <2>2
<1>2. CASE request'[c] # request[c]
  <2>1. \/ \E e \in Enrollments : Complete(c, e)
        \/ \E d \in Managed : Revoke(c, d)
        \/ request'[c].phase \notin {"complete", "revoke"}
    <3>1. ASSUME NEW d \in Managed, NEW op \in {"heartbeat", "bind", "unbind"}, Enter(c, d, op)
          PROVE  request'[c].phase = op
      BY <3>1, OneHandler DEF Enter, Arrives, Inv
    <3>2. ReadVersion(c) => request'[c].phase = "publish"
      BY OneHandler DEF ReadVersion, Inv
    <3> QED
      BY <1>2, <3>1, <3>2, HandlerSteps DEF Inv
  <2>2. ASSUME NEW e \in Enrollments, Complete(c, e)
        PROVE  /\ request'[c].phase = "complete"
               /\ request'[c].enrollment = e /\ request'[c].device = enrollment'[e].device
               /\ Approved(e)'
    BY <2>2 DEF Complete, Arrives, Goes, tables, Approved, Inv, TypeOK
  <2>3. ASSUME NEW d \in Managed, Revoke(c, d)
        PROVE  request'[c].phase = "revoke" /\ request'[c].device = d /\ Enrolled(d)'
    BY <2>3 DEF Revoke, Arrives, Goes, tables, Enrolled, Inv, TypeOK
  <2> QED
    BY <2>1, <2>2, <2>3
<1> QED
  BY <1>1, <1>2

\* A publication adds the next version, or none.
LEMMA VersionsGrow ==
    ASSUME Inv, Next
    PROVE  \E n, m \in Nat : /\ n <= m /\ Versions = 1..n /\ Versions' = 1..m
                            /\ LastVersion = n /\ LastVersion' = m
<1>1. PICK n \in Nat : Versions = 1..n
  BY DEF Inv, Gapless
<1>2. LastVersion = n
  BY <1>1, LastOfRange DEF LastVersion
<1>3. ASSUME NEW m \in Nat, Versions' = 1..m PROVE LastVersion' = m
  BY <1>3, LastOfRange DEF LastVersion
<1>4. CASE snapshots' = snapshots
  <2>1. Versions' = 1..n
    BY <1>1, <1>4 DEF Versions
  <2> QED
    BY <1>1, <1>2, <1>3, <2>1
<1>5. ASSUME NEW c \in Calls, Publish(c), snapshots' # snapshots
      PROVE  Versions' = 1..n + 1
  <2> DEFINE v == request[c].version
             s == [version |-> v, payload |-> request[c].payload]
  <2>1. v \in 1..n + 1
    BY <1>2, <1>5 DEF Inv, PublishersBehind, Publish
  <2>2. v \notin 1..n /\ snapshots' = snapshots \cup {s}
    BY <1>1, <1>5 DEF Publish, VersionFree
  <2>3. v = n + 1 /\ s.version = n + 1
    BY <2>1, <2>2
  <2> HIDE DEF s
  <2>4. Versions' = Versions \cup {n + 1}
    BY <2>2, <2>3 DEF Versions
  <2> QED
    BY <1>1, <2>4
<1>6. CASE snapshots' # snapshots
  <2>1. PICK c \in Calls : Publish(c)
    BY <1>6, SnapshotWriters
  <2>2. Versions' = 1..n + 1
    BY <1>5, <1>6, <2>1
  <2>3. n + 1 \in Nat /\ n <= n + 1 /\ LastVersion' = n + 1
    BY <1>3, <2>2
  <2> QED
    BY <1>1, <1>2, <2>2, <2>3
<1> QED
  BY <1>4, <1>6

\* No publication leaves a gap or repeats a version.
LEMMA VersionsKept ==
    ASSUME Constants, Inv, Next
    PROVE  Gapless' /\ PublishersBehind' /\ OnePayload'
<1>1. PICK n \in Nat, m \in Nat :
         /\ n <= m /\ Versions = 1..n /\ Versions' = 1..m
         /\ LastVersion = n /\ LastVersion' = m
  BY VersionsGrow
<1>2. Gapless'
  <2>1. \E k \in Nat : Versions' = 1..k
    BY <1>1
  <2> QED
    BY <2>1 DEF Gapless
<1>3. OnePayload'
  <2>1. CASE snapshots' = snapshots
    BY <2>1 DEF OnePayload, Inv
  <2>2. CASE snapshots' # snapshots
    <3>1. PICK c \in Calls : Publish(c)
      BY <2>2, SnapshotWriters
    <3> DEFINE s == [version |-> request[c].version, payload |-> request[c].payload]
    <3>2. snapshots' = snapshots \cup {s} /\ s.version \notin Versions
      BY <2>2, <3>1 DEF Publish, VersionFree
    <3> QED
      BY <3>2 DEF OnePayload, Inv, Versions
  <2> QED
    BY <2>1, <2>2
<1>4. ASSUME NEW c \in Calls, request'[c].phase = "publish"
      PROVE  request'[c].version \in 1..LastVersion' + 1
  <2>1. CASE request'[c] = request[c]
    <3>1. request[c].version \in 1..n + 1
      BY <1>1, <1>4, <2>1 DEF Inv, PublishersBehind
    <3> QED
      BY <1>1, <2>1, <3>1
  <2>2. CASE ReadVersion(c)
    <3>1. request'[c].version = n + 1
      BY <1>1, <2>2, OneHandler DEF ReadVersion, Inv
    <3> QED
      BY <1>1, <3>1
  <2>3. ASSUME NEW e \in Enrollments, Complete(c, e) PROVE FALSE
    BY <1>4, <2>3, OneHandler DEF Complete, Arrives, Inv
  <2>4. ASSUME NEW d \in Managed, Revoke(c, d) PROVE FALSE
    BY <1>4, <2>4, OneHandler DEF Revoke, Arrives, Inv
  <2>5. ASSUME NEW d \in Managed, NEW op \in {"heartbeat", "bind", "unbind"}, Enter(c, d, op)
        PROVE  FALSE
    BY <1>4, <2>5, OneHandler DEF Enter, Arrives, Inv
  <2> QED
    BY <1>4, <2>1, <2>2, <2>3, <2>4, <2>5, HandlerSteps DEF Inv
<1>5. PublishersBehind'
  BY <1>4 DEF PublishersBehind
<1> QED
  BY <1>2, <1>3, <1>5

\* The invariant holds initially, whether or not the first enrollment is completed,
LEMMA InitInv ==
    ASSUME Constants, Init
    PROVE  Inv
<1>1. HandlersKnow
  BY DEF HandlersKnow, Init
<1>2. ApprovalsEnroll
  BY DEF ApprovalsEnroll, Approved, Enrolled, Init, Constants
<1>3. PublishersBehind
  BY DEF PublishersBehind, Init
<1>4. OnePayload
  BY DEF OnePayload, Init
<1>5. Gapless
  <2>1. CASE snapshots = {}
    <3>1. Versions = 1..0
      BY <2>1 DEF Versions
    <3> QED
      BY <3>1 DEF Gapless
  <2>2. CASE snapshots = {[version |-> 1, payload |-> [NoPayload EXCEPT !.member = TRUE]]}
    <3>1. Versions = 1..1
      BY <2>2 DEF Versions
    <3> QED
      BY <3>1 DEF Gapless
  <2> QED
    BY <2>1, <2>2 DEF Init
<1> QED
  BY <1>1, <1>2, <1>3, <1>4, <1>5, InitTypes DEF Inv

\* every step keeps it,
LEMMA NextInv ==
    ASSUME Constants, Inv, [Next]_deviceVars
    PROVE  Inv'
<1>1. CASE Next
  BY <1>1, NextTypes, HandlersKnowKept, ApprovalsEnrollKept, VersionsKept DEF Inv
<1>2. CASE UNCHANGED deviceVars
  BY <1>2 DEF deviceVars, Inv, TypeOK, HandlersKnow, ApprovalsEnroll, Approved, Enrolled,
     Gapless, PublishersBehind, OnePayload, LastVersion, Versions
<1> QED
  BY <1>1, <1>2

\* and so it holds in every state.
THEOREM Invariance ==
    ASSUME Constants
    PROVE  Spec => []Inv
BY InitInv, NextInv, PTL DEF Spec

-----------------------------------------------------------------------------
(***************************************************************************)
(* The theorems.                                                           *)
(***************************************************************************)
\* The rows of the device tables and what every handler holds of them keep
\* their types.
THEOREM DevicesTypeCorrect ==
    ASSUME Constants
    PROVE  Spec => []TypeOK
<1>1. Inv => TypeOK
  BY DEF Inv
<1> QED
  BY <1>1, Invariance, PTL

\* A published policy version is one document for ever and versions have no
\* gap, for any number of refreshes that race (refresh_policy_snapshot).
THEOREM VersionsAlwaysStand ==
    ASSUME Constants
    PROVE  Spec => []VersionsStand
<1>1. Inv => VersionsStand
  <2> SUFFICES ASSUME Inv PROVE VersionsStand
    OBVIOUS
  <2>1. PICK n \in Nat : Versions = 1..n
    BY DEF Inv, Gapless
  <2>2. LastVersion = n
    BY <2>1, LastOfRange DEF LastVersion
  <2> QED
    BY <2>1, <2>2 DEF VersionsStand, Inv, OnePayload
<1> QED
  BY <1>1, Invariance, PTL

\* The device a member approved is the one that enters, for any number of
\* approvals and completions in flight (approve_enrollment, complete_enrollment).
THEOREM ApprovalsAreFinal ==
    ASSUME Constants
    PROVE  Spec => ApprovalStands
<1> DEFINE Kept == \A e \in Enrollments :
         LET d == enrollment'[e].device IN
         /\ Approved(e) => d = enrollment[e].device
         /\ enrollment'[e].status = "completed" => d # NoDevice /\ device'[d].key = KeyOf[e]
<1>1. Inv /\ Inv' /\ [Next]_deviceVars => [Kept]_deviceVars
  <2> SUFFICES ASSUME Inv, Inv', Next, NEW e \in Enrollments
               PROVE  /\ Approved(e) => enrollment'[e].device = enrollment[e].device
                      /\ enrollment'[e].status = "completed" =>
                           /\ enrollment'[e].device # NoDevice
                           /\ device'[enrollment'[e].device].key = KeyOf[e]
    OBVIOUS
  <2>1. Approved(e) => enrollment'[e].device = enrollment[e].device
    BY ApprovalsStay
  <2>2. enrollment'[e].status = "completed" => /\ enrollment'[e].device # NoDevice
                                              /\ device'[enrollment'[e].device].key = KeyOf[e]
    BY DEF Inv, ApprovalsEnroll, Approved
  <2> QED
    BY <2>1, <2>2
<1> QED
  BY <1>1, Invariance, PTL DEF Spec, ApprovalStands

\* A revoked device stays out, whatever its calls in flight still write
\* (revoke_device, require_device).
THEOREM RevocationsStand ==
    ASSUME Constants
    PROVE  Spec => RevokedStaysOut
<1> DEFINE Kept == \A d \in Managed : device[d].status = "revoked" =>
         /\ device'[d] = device[d]
         /\ \A c \in Calls :
              request[c].phase = "new" => request'[c].phase \notin {"heartbeat", "bind", "unbind"}
                                          \/ request'[c].device # d
<1>1. Inv /\ [Next]_deviceVars => [Kept]_deviceVars
  <2> SUFFICES ASSUME Inv, Next, NEW d \in Managed, device[d].status = "revoked"
               PROVE  /\ device'[d] = device[d]
                      /\ \A c \in Calls : request[c].phase = "new" =>
                           \/ request'[c].phase \notin {"heartbeat", "bind", "unbind"}
                           \/ request'[c].device # d
    OBVIOUS
  <2>1. device'[d] = device[d]
    BY DevicesStay DEF Enrolled
  <2>2. ASSUME NEW c \in Calls, request[c].phase = "new",
               request'[c].phase \in {"heartbeat", "bind", "unbind"}
        PROVE  request'[c].device # d
    <3>1. PICK f \in Managed, op \in {"heartbeat", "bind", "unbind"} : Enter(c, f, op)
      <4>1. ASSUME NEW e \in Enrollments, Complete(c, e) PROVE FALSE
        BY <2>2, <4>1, OneHandler DEF Complete, Arrives, Inv
      <4>2. ASSUME NEW f \in Managed, Revoke(c, f) PROVE FALSE
        BY <2>2, <4>2, OneHandler DEF Revoke, Arrives, Inv
      <4>3. ReadVersion(c) => FALSE
        BY <2>2 DEF ReadVersion
      <4> QED
        BY <2>2, <4>1, <4>2, <4>3, HandlerSteps DEF Inv
    <3>2. device[f].status = "active" /\ request'[c].device = f
      BY <3>1, OneHandler DEF Enter, HoldsToken, Arrives, Inv
    <3> QED
      BY <3>2
  <2> QED
    BY <2>1, <2>2
<1> QED
  BY <1>1, Invariance, PTL DEF Spec, RevokedStaysOut

-----------------------------------------------------------------------------
(***************************************************************************)
(* Accounts: one-time codes and the grants that they issue.                *)
(***************************************************************************)
SessionStates == {"none", "live", "expired", "revoked"}
PasskeyStates == {"none", "active", "revoked"}
Kinds == Anonymous \cup Bound

CodeRow(row) ==
    /\ {"status", "kind", "attempts", "open"} \subseteq DOMAIN row
    /\ row.status \in {"pending", "consumed"} /\ row.kind \in Kinds
    /\ row.attempts \in 0 .. MaxAttempts
GrantRow(row) ==
    /\ {"status", "session", "purpose", "open"} \subseteq DOMAIN row
    /\ row.status \in {"issued", "consumed"}

AccountRows ==
    /\ session \in [Ids -> SessionStates] /\ passkey \in [Ids -> PasskeyStates] /\ password \in BOOLEAN
    /\ code = [k \in Codes |-> code[k]] /\ \A k \in Codes : code[k] = NoRow \/ CodeRow(code[k])
    /\ grant = [g \in Ids |-> grant[g]] /\ \A g \in Ids : grant[g] = NoRow \/ GrantRow(grant[g])

\* A handler that has spent a code, or a grant.
HasAnswered(r) == r.phase \in {"write", "done"} /\ r.op \in Kinds
HasCleared(r) == r.phase \in {"write", "done"} /\ r.op \in Guarded

CallFits(r) ==
    /\ "phase" \in DOMAIN r
    /\ r.phase \in {"new", "consume", "miss", "grant", "write", "done", "over"}
    /\ r.phase \in {"consume", "miss"} =>
           {"op", "code"} \subseteq DOMAIN r /\ r.op \in Kinds /\ r.code \in Codes
    /\ r.phase = "grant" =>
           {"op", "grant", "session"} \subseteq DOMAIN r /\ r.op \in Guarded /\ r.grant \in Ids
    /\ r.phase = "write" => "op" \in DOMAIN r
    /\ HasAnswered(r) => {"op", "code"} \subseteq DOMAIN r /\ r.code \in Codes
    /\ HasCleared(r) => {"op", "grant", "session"} \subseteq DOMAIN r /\ r.grant \in Ids

\* What a request has spent stays spent, and is its own.
CallsKnow ==
    /\ call = [c \in AccountCalls |-> call[c]]
    /\ \A c \in AccountCalls :
           /\ CallFits(call[c])
           /\ HasAnswered(call[c]) => code[call[c].code].status = "consumed"
           /\ HasCleared(call[c]) =>
                  /\ grant[call[c].grant].status = "consumed"
                  /\ grant[call[c].grant].session = call[c].session
                  /\ grant[call[c].grant].purpose = PurposeOf(call[c].op)

\* A grant has the id of the request that wrote it, which writes no other.
GrantsAreOwn == \A g \in AccountCalls : grant[g] # NoRow => call[g].phase = "done"

AccountInv == AccountRows /\ CallsKnow /\ GrantsAreOwn /\ SpentOnce

LEMMA AccountInitially == AccountInit => AccountInv
<1> SUFFICES ASSUME AccountInit PROVE AccountInv
  OBVIOUS
<1> USE AccountConstants
<1>1. session \in [Ids -> SessionStates] /\ passkey \in [Ids -> PasskeyStates]
  BY DEF AccountInit, SessionStates, PasskeyStates
<1>2. \A kind \in Kinds : CodeRow(PendingCode(kind))
  BY DEF CodeRow, PendingCode
<1>3. \A kind \in Kinds : CodeRow(PendingFor(kind, FirstSession, "passkey_management"))
  BY DEF CodeRow, PendingFor, PendingCode, With
<1>4. code = [k \in Codes |-> code[k]] /\ \A k \in Codes : code[k] = NoRow \/ CodeRow(code[k])
  BY <1>2, <1>3 DEF AccountInit, Kinds
<1>5. \A purpose \in Purposes : GrantRow(Granted(FirstSession, purpose))
  BY DEF GrantRow, Granted
<1>6. grant = [g \in Ids |-> grant[g]] /\ \A g \in Ids : grant[g] = NoRow \/ GrantRow(grant[g])
  BY <1>5 DEF AccountInit
<1>7. password \in BOOLEAN
  BY DEF AccountInit
<1>8. call = [c \in AccountCalls |-> [phase |-> "new"]]
  BY DEF AccountInit
<1>9. CallsKnow
  BY <1>8 DEF CallsKnow, CallFits, HasAnswered, HasCleared
<1>10. GrantsAreOwn
  BY DEF AccountInit, GrantsAreOwn, Ids
<1>11. SpentOnce
  BY <1>8 DEF SpentOnce, CodeIsSpentOnce, GrantIsSpentOnce, Answered, Cleared
<1> QED
  BY <1>1, <1>4, <1>6, <1>7, <1>9, <1>10, <1>11 DEF AccountInv, AccountRows

-----------------------------------------------------------------------------
\* What a step leaves of the secrets that are spent.
SpentStays ==
    /\ \A k \in Codes : code[k].status = "consumed" => code'[k].status = "consumed"
    /\ \A g \in Ids : grant[g].status = "consumed" =>
           /\ grant'[g].status = "consumed"
           /\ grant'[g].session = grant[g].session /\ grant'[g].purpose = grant[g].purpose

\* The request c goes on as r, with what it has spent in this step, or before.
LEMMA CallStep ==
    ASSUME AccountInv, SpentStays, NEW c \in AccountCalls, NEW r, CallFits(r),
           call' = [call EXCEPT ![c] = r],
           HasAnswered(r) => /\ code'[r.code].status = "consumed"
                             /\ \A d \in AccountCalls \ {c} : HasAnswered(call[d]) => call[d].code # r.code,
           HasCleared(r) => /\ grant'[r.grant].status = "consumed"
                            /\ grant'[r.grant].session = r.session
                            /\ grant'[r.grant].purpose = PurposeOf(r.op)
                            /\ \A d \in AccountCalls \ {c} : HasCleared(call[d]) => call[d].grant # r.grant
    PROVE  CallsKnow' /\ SpentOnce'
<1>1. /\ DOMAIN call' = AccountCalls /\ call' = [d \in AccountCalls |-> call'[d]]
      /\ call'[c] = r /\ \A d \in AccountCalls \ {c} : call'[d] = call[d]
  BY DEF AccountInv, CallsKnow
<1>2. \A d \in AccountCalls \ {c} : HasAnswered(call[d]) => call[d].code \in Codes
  BY DEF AccountInv, CallsKnow, CallFits
<1>3. \A d \in AccountCalls \ {c} : HasCleared(call[d]) => call[d].grant \in Ids
  BY DEF AccountInv, CallsKnow, CallFits
<1>4. CallsKnow'
  <2>1. \A d \in AccountCalls \ {c} : HasAnswered(call[d]) => code'[call[d].code].status = "consumed"
    BY <1>2 DEF AccountInv, CallsKnow, SpentStays
  <2>2. \A d \in AccountCalls \ {c} : HasCleared(call[d]) =>
            /\ grant'[call[d].grant].status = "consumed"
            /\ grant'[call[d].grant].session = call[d].session
            /\ grant'[call[d].grant].purpose = PurposeOf(call[d].op)
    BY <1>3 DEF AccountInv, CallsKnow, SpentStays
  <2>3. \A d \in AccountCalls \ {c} : CallFits(call[d])
    BY DEF AccountInv, CallsKnow
  <2> QED
    BY <1>1, <2>1, <2>2, <2>3 DEF CallsKnow
<1>5. Answered' = {d \in AccountCalls : HasAnswered(call'[d])}
  BY DEF Answered, HasAnswered, Kinds
<1>6. Cleared' = {d \in AccountCalls : HasCleared(call'[d])}
  BY DEF Cleared, HasCleared
<1>7. \A d, e \in AccountCalls : HasAnswered(call[d]) /\ HasAnswered(call[e])
                                  /\ call[d].code = call[e].code => d = e
  BY DEF AccountInv, SpentOnce, CodeIsSpentOnce, Answered, HasAnswered, Kinds
<1>8. \A d, e \in AccountCalls : HasCleared(call[d]) /\ HasCleared(call[e])
                                  /\ call[d].grant = call[e].grant => d = e
  BY DEF AccountInv, SpentOnce, GrantIsSpentOnce, Cleared, HasCleared
<1>9. CodeIsSpentOnce'
  BY <1>1, <1>5, <1>7 DEF CodeIsSpentOnce
<1>10. GrantIsSpentOnce'
  <2>1. \A d \in AccountCalls : HasCleared(call'[d]) =>
            /\ grant'[call'[d].grant].status = "consumed"
            /\ grant'[call'[d].grant].session = call'[d].session
            /\ grant'[call'[d].grant].purpose = PurposeOf(call'[d].op)
    BY <1>4 DEF CallsKnow, HasCleared, PurposeOf
  <2>2. \A d, e \in AccountCalls : HasCleared(call'[d]) /\ HasCleared(call'[e])
                                  /\ call'[d].grant = call'[e].grant => d = e
    BY <1>1, <1>8
  <2> QED
    BY <1>6, <2>1, <2>2 DEF GrantIsSpentOnce
<1> QED
  BY <1>4, <1>9, <1>10 DEF SpentOnce

LEMMA NoCallMoves ==
    ASSUME AccountInv, SpentStays, call' = call
    PROVE  CallsKnow' /\ SpentOnce' /\ Answered' = Answered /\ Cleared' = Cleared
<1>1. \A d \in AccountCalls : HasAnswered(call[d]) => call[d].code \in Codes
  BY DEF AccountInv, CallsKnow, CallFits
<1>2. \A d \in AccountCalls : HasCleared(call[d]) => call[d].grant \in Ids
  BY DEF AccountInv, CallsKnow, CallFits
<1>3. CallsKnow'
  BY <1>1, <1>2 DEF AccountInv, CallsKnow, SpentStays
<1>4. Answered' = Answered /\ Cleared' = Cleared
  BY DEF Answered, Cleared
<1>5. CodeIsSpentOnce'
  BY <1>4 DEF AccountInv, SpentOnce, CodeIsSpentOnce
<1>6. GrantIsSpentOnce'
  <2>1. \A d \in Cleared : HasCleared(call[d]) /\ d \in AccountCalls
    BY DEF Cleared, HasCleared
  <2> QED
    BY <1>2, <1>4, <2>1 DEF AccountInv, SpentOnce, GrantIsSpentOnce, SpentStays, PurposeOf
<1> QED
  BY <1>3, <1>4, <1>5, <1>6 DEF SpentOnce

\* A request that has spent a secret writes, and keeps what it knows.
LEMMA WriteStep ==
    ASSUME AccountInv, SpentStays, NEW c \in AccountCalls, NEW ops, Writes(c, ops)
    PROVE  CallsKnow' /\ SpentOnce' /\ call'[c].phase = "done"
           /\ \A d \in AccountCalls \ {c} : call'[d] = call[d]
<1> DEFINE r == [call[c] EXCEPT !.phase = "done"]
<1>1. CallFits(call[c]) /\ call[c].phase = "write" /\ {"op", "phase"} \subseteq DOMAIN call[c]
  BY DEF Writes, AccountInv, CallsKnow, CallFits
<1>2. r.phase = "done" /\ r.op = call[c].op /\ DOMAIN r = DOMAIN call[c]
  BY <1>1
<1>3. /\ HasAnswered(r) => HasAnswered(call[c]) /\ r.code = call[c].code
      /\ HasCleared(r) => HasCleared(call[c]) /\ r.grant = call[c].grant /\ r.session = call[c].session
  BY <1>1, <1>2 DEF HasAnswered, HasCleared, CallFits
<1>4. CallFits(r)
  BY <1>1, <1>2, <1>3 DEF CallFits
<1>5. HasAnswered(call[c]) => /\ code'[call[c].code].status = "consumed"
                              /\ \A d \in AccountCalls \ {c} :
                                     HasAnswered(call[d]) => call[d].code # call[c].code
  <2>1. HasAnswered(call[c]) => code[call[c].code].status = "consumed" /\ call[c].code \in Codes
    BY DEF AccountInv, CallsKnow, CallFits
  <2>2. \A d, e \in AccountCalls : HasAnswered(call[d]) /\ HasAnswered(call[e])
                                  /\ call[d].code = call[e].code => d = e
    BY DEF AccountInv, SpentOnce, CodeIsSpentOnce, Answered, HasAnswered, Kinds
  <2> QED
    BY <2>1, <2>2 DEF SpentStays
<1>6. HasCleared(call[c]) => /\ grant'[call[c].grant].status = "consumed"
                             /\ grant'[call[c].grant].session = call[c].session
                             /\ grant'[call[c].grant].purpose = PurposeOf(call[c].op)
                             /\ \A d \in AccountCalls \ {c} :
                                    HasCleared(call[d]) => call[d].grant # call[c].grant
  <2>1. HasCleared(call[c]) => /\ grant[call[c].grant].status = "consumed" /\ call[c].grant \in Ids
                               /\ grant[call[c].grant].session = call[c].session
                               /\ grant[call[c].grant].purpose = PurposeOf(call[c].op)
    BY DEF AccountInv, CallsKnow, CallFits
  <2>2. \A d, e \in AccountCalls : HasCleared(call[d]) /\ HasCleared(call[e])
                                  /\ call[d].grant = call[e].grant => d = e
    BY DEF AccountInv, SpentOnce, GrantIsSpentOnce, Cleared, HasCleared
  <2> QED
    BY <2>1, <2>2 DEF SpentStays
<1>7. call' = [call EXCEPT ![c] = r]
  BY DEF Writes, Proceeds
<1>8. call'[c] = r /\ \A d \in AccountCalls \ {c} : call'[d] = call[d]
  BY <1>7 DEF AccountInv, CallsKnow
<1> HIDE DEF r
<1>9. CallsKnow' /\ SpentOnce'
  BY <1>2, <1>3, <1>4, <1>5, <1>6, <1>7, CallStep
<1> QED
  BY <1>2, <1>8, <1>9

\* A request arrives, or gives up: it has spent nothing.
LEMMA SpendsNothing ==
    ASSUME AccountInv, SpentStays, NEW c \in AccountCalls, NEW r, CallFits(r),
           ~HasAnswered(r), ~HasCleared(r), call' = [call EXCEPT ![c] = r]
    PROVE  CallsKnow' /\ SpentOnce'
  BY CallStep

LEMMA AskStep ==
    ASSUME AccountInv, NEW c \in Unserved, NEW r, CallFits(r), ~HasAnswered(r), ~HasCleared(r),
           Asks(c, r)
    PROVE  AccountInv'
<1>1. /\ c \in AccountCalls /\ call[c].phase = "new"
      /\ call' = [call EXCEPT ![c] = r] /\ UNCHANGED <<session, passkey, password, code, grant>>
  BY DEF Unserved, Asks, Proceeds
<1>2. SpentStays
  BY <1>1 DEF SpentStays
<1>3. CallsKnow' /\ SpentOnce'
  BY <1>1, <1>2, SpendsNothing
<1>4. GrantsAreOwn'
  BY <1>1 DEF AccountInv, GrantsAreOwn, CallsKnow
<1>5. AccountRows'
  BY <1>1 DEF AccountInv, AccountRows
<1> QED
  BY <1>3, <1>4, <1>5 DEF AccountInv

\* A row of a code that was not there, or that keeps its kind, is a row.
LEMMA NewCode ==
    ASSUME AccountRows, NEW k \in Codes, NEW row, CodeRow(row), code' = [code EXCEPT ![k] = row]
    PROVE  code' = [x \in Codes |-> code'[x]] /\ \A x \in Codes : code'[x] = NoRow \/ CodeRow(code'[x])
  BY DEF AccountRows

-----------------------------------------------------------------------------
LEMMA IssueStep ==
    ASSUME AccountInv, NEW k \in Codes, NEW row, CodeRow(row),
           code[k] = NoRow, code' = [code EXCEPT ![k] = row],
           UNCHANGED <<session, passkey, password, grant, call>>
    PROVE  AccountInv'
<1>1. SpentStays
  BY DEF SpentStays, NoRow, AccountInv, AccountRows
<1>2. CallsKnow' /\ SpentOnce'
  BY <1>1, NoCallMoves
<1>3. AccountRows'
  <2>1. AccountRows
    BY DEF AccountInv
  <2>2. code' = [x \in Codes |-> code'[x]] /\ \A x \in Codes : code'[x] = NoRow \/ CodeRow(code'[x])
    BY <2>1, NewCode
  <2> QED
    BY <2>1, <2>2 DEF AccountRows
<1>4. GrantsAreOwn'
  BY DEF AccountInv, GrantsAreOwn
<1> QED
  BY <1>2, <1>3, <1>4 DEF AccountInv

LEMMA ConsumeStep ==
    ASSUME AccountInv, NEW c \in AccountCalls, Consume(c)
    PROVE  AccountInv'
<1> DEFINE r == call[c]
           k == call[c].code
           row == [code[k] EXCEPT !.status = "consumed", !.attempts = code[k].attempts + 1]
           next == [r EXCEPT !.phase = "write"]
<1>1. /\ r.phase = "consume" /\ UNCHANGED <<session, passkey, password, grant>>
      /\ {"phase", "op", "code"} \subseteq DOMAIN r /\ r.op \in Kinds /\ k \in Codes
  BY DEF Consume, AccountInv, CallsKnow, CallFits
<1>2. GrantsAreOwn /\ AccountRows
  BY DEF AccountInv
<1>3. CASE Spends(r)
  <2>1. /\ code[k].status = "pending" /\ code[k].attempts < MaxAttempts
        /\ code' = [code EXCEPT ![k] = row] /\ call' = [call EXCEPT ![c] = next]
    BY <1>3 DEF Consume, Spends, Proceeds
  <2>2. CodeRow(code[k])
    BY <1>1, <1>2, <2>1 DEF AccountRows, NoRow
  <2>3. code[k].attempts + 1 \in 0 .. MaxAttempts
    BY <2>1, <2>2, AccountConstants DEF CodeRow
  <2>4. CodeRow(row) /\ row.status = "consumed"
    BY <2>2, <2>3 DEF CodeRow
  <2>5. next.phase = "write" /\ next.op = r.op /\ next.code = k /\ DOMAIN next = DOMAIN r
    BY <1>1
  <2>6. HasAnswered(next) /\ ~HasCleared(next) /\ CallFits(next)
    BY <1>1, <2>5 DEF HasAnswered, HasCleared, CallFits, Kinds, Anonymous, Bound, Guarded
  <2>7. SpentStays /\ code'[k].status = "consumed"
    BY <1>1, <1>2, <2>1, <2>4 DEF SpentStays, AccountRows
  <2>8. \A d \in AccountCalls \ {c} : HasAnswered(call[d]) => call[d].code # k
    BY <2>1 DEF AccountInv, CallsKnow
  <2>9. CallsKnow' /\ SpentOnce'
    <3> HIDE DEF next, row
    <3> QED
      BY <2>1, <2>5, <2>6, <2>7, <2>8, CallStep
  <2>10. AccountRows'
    <3>1. code' = [x \in Codes |-> code'[x]] /\ \A x \in Codes : code'[x] = NoRow \/ CodeRow(code'[x])
      BY <1>1, <1>2, <2>1, <2>4, NewCode
    <3> QED
      BY <1>1, <1>2, <3>1 DEF AccountRows
  <2>11. GrantsAreOwn'
    BY <1>1, <1>2, <2>1 DEF GrantsAreOwn, AccountInv, CallsKnow
  <2> QED
    BY <2>9, <2>10, <2>11 DEF AccountInv
<1>4. CASE ~Spends(r)
  <2> DEFINE phase == IF r.op \in {"login", "reset"} THEN "miss" ELSE "over"
             gone == [r EXCEPT !.phase = phase]
  <2>1. code' = code /\ call' = [call EXCEPT ![c] = gone]
    BY <1>4 DEF Consume, Proceeds
  <2>2. gone.phase \in {"miss", "over"} /\ gone.op = r.op /\ gone.code = k /\ DOMAIN gone = DOMAIN r
    BY <1>1
  <2>3. CallFits(gone) /\ ~HasAnswered(gone) /\ ~HasCleared(gone)
    BY <1>1, <2>2 DEF CallFits, HasAnswered, HasCleared
  <2>4. SpentStays
    BY <1>1, <2>1 DEF SpentStays
  <2>5. CallsKnow' /\ SpentOnce'
    <3> HIDE DEF gone
    <3> QED
      BY <2>1, <2>3, <2>4, SpendsNothing
  <2>6. GrantsAreOwn' /\ AccountRows'
    BY <1>1, <1>2, <2>1 DEF GrantsAreOwn, AccountRows, AccountInv, CallsKnow
  <2> QED
    BY <2>5, <2>6 DEF AccountInv
<1> QED
  BY <1>3, <1>4

LEMMA FailureStep ==
    ASSUME AccountInv, NEW c \in AccountCalls, RecordFailure(c)
    PROVE  AccountInv'
<1> DEFINE r == call[c]
           k == call[c].code
           row == [code[k] EXCEPT !.attempts = code[k].attempts + 1]
           next == [r EXCEPT !.phase = "over"]
<1>1. /\ r.phase = "miss" /\ UNCHANGED <<session, passkey, password, grant>>
      /\ {"phase", "op", "code"} \subseteq DOMAIN r /\ k \in Codes
      /\ call' = [call EXCEPT ![c] = next]
  BY DEF RecordFailure, AccountInv, CallsKnow, CallFits, Proceeds
<1>2. GrantsAreOwn /\ AccountRows
  BY DEF AccountInv
<1>3. next.phase = "over" /\ "phase" \in DOMAIN next
  BY <1>1
<1>4. CallFits(next) /\ ~HasAnswered(next) /\ ~HasCleared(next)
  BY <1>3 DEF CallFits, HasAnswered, HasCleared
<1>5. \/ code' = code
      \/ /\ code[k].status = "pending" /\ code[k].attempts < MaxAttempts
         /\ code' = [code EXCEPT ![k] = row]
  BY DEF RecordFailure
<1>6. ASSUME code[k].status = "pending", code[k].attempts < MaxAttempts
      PROVE  CodeRow(row)
  <2>1. CodeRow(code[k])
    BY <1>1, <1>2, <1>6 DEF AccountRows, NoRow
  <2>2. code[k].attempts + 1 \in 0 .. MaxAttempts
    BY <1>6, <2>1, AccountConstants DEF CodeRow
  <2> QED
    BY <2>1, <2>2 DEF CodeRow
<1>7. /\ code' = [x \in Codes |-> code'[x]]
      /\ \A x \in Codes : code'[x] = NoRow \/ CodeRow(code'[x])
  <2> HIDE DEF row
  <2>1. CASE code' = code
    BY <1>2, <2>1 DEF AccountRows
  <2>2. CASE code[k].status = "pending" /\ code[k].attempts < MaxAttempts /\ code' = [code EXCEPT ![k] = row]
    BY <1>1, <1>2, <1>6, <2>2, NewCode
  <2> QED
    BY <1>5, <2>1, <2>2
<1>8. SpentStays
  BY <1>1, <1>2, <1>5 DEF SpentStays, AccountRows
<1>9. CallsKnow' /\ SpentOnce'
  <2> HIDE DEF next
  <2> QED
    BY <1>1, <1>4, <1>8, SpendsNothing
<1>10. AccountRows' /\ GrantsAreOwn'
  BY <1>1, <1>2, <1>7 DEF AccountRows, GrantsAreOwn, AccountInv, CallsKnow
<1> QED
  BY <1>9, <1>10 DEF AccountInv

LEMMA GrantStep ==
    ASSUME AccountInv, NEW c \in AccountCalls, ConsumeGrant(c)
    PROVE  AccountInv'
<1> DEFINE r == call[c]
           g == call[c].grant
           row == [grant[g] EXCEPT !.status = "consumed"]
           next == [r EXCEPT !.phase = "write"]
           gone == [r EXCEPT !.phase = "over"]
<1>1. /\ r.phase = "grant" /\ UNCHANGED <<session, passkey, password, code>>
      /\ {"phase", "op", "grant", "session"} \subseteq DOMAIN r /\ r.op \in Guarded /\ g \in Ids
  BY DEF ConsumeGrant, AccountInv, CallsKnow, CallFits
<1>2. GrantsAreOwn /\ AccountRows
  BY DEF AccountInv
<1>3. CASE Redeems(r)
  <2>1. /\ grant[g].status = "issued" /\ grant[g].session = r.session
        /\ grant[g].purpose = PurposeOf(r.op)
        /\ grant' = [grant EXCEPT ![g] = row] /\ call' = [call EXCEPT ![c] = next]
    BY <1>3 DEF ConsumeGrant, Redeems, Proceeds
  <2>2. GrantRow(grant[g])
    BY <1>1, <1>2, <2>1 DEF AccountRows, NoRow
  <2>3. /\ GrantRow(row) /\ row.status = "consumed"
        /\ row.session = r.session /\ row.purpose = PurposeOf(r.op)
    BY <2>1, <2>2 DEF GrantRow
  <2>4. /\ next.phase = "write" /\ next.op = r.op /\ next.grant = g /\ next.session = r.session
        /\ DOMAIN next = DOMAIN r
    BY <1>1
  <2>5. ~HasAnswered(next) /\ HasCleared(next) /\ CallFits(next)
    BY <1>1, <2>4 DEF HasAnswered, HasCleared, CallFits, Kinds, Anonymous, Bound, Guarded
  <2>6. SpentStays /\ grant'[g] = row
    BY <1>1, <1>2, <2>1 DEF SpentStays, AccountRows
  <2>7. \A d \in AccountCalls \ {c} : HasCleared(call[d]) => call[d].grant # g
    BY <2>1 DEF AccountInv, CallsKnow
  <2>8. CallsKnow' /\ SpentOnce'
    <3> HIDE DEF next, row
    <3> QED
      BY <2>1, <2>3, <2>4, <2>5, <2>6, <2>7, CallStep
  <2>9. AccountRows'
    BY <1>1, <1>2, <2>1, <2>3 DEF AccountRows
  <2>10. GrantsAreOwn'
    <3> HIDE DEF row, next
    <3>1. \A x \in AccountCalls : grant'[x] # NoRow => grant[x] # NoRow
      BY <1>1, <1>2, <2>1 DEF NoRow, AccountRows, Ids
    <3>2. \A x \in AccountCalls : call[x].phase = "done" => call'[x] = call[x]
      BY <1>1, <2>1 DEF AccountInv, CallsKnow
    <3> QED
      BY <1>2, <3>1, <3>2 DEF GrantsAreOwn
  <2> QED
    BY <2>8, <2>9, <2>10 DEF AccountInv
<1>4. CASE ~Redeems(r)
  <2>1. grant' = grant /\ call' = [call EXCEPT ![c] = gone]
    BY <1>4 DEF ConsumeGrant, Proceeds
  <2>2. gone.phase = "over" /\ "phase" \in DOMAIN gone
    BY <1>1
  <2>3. CallFits(gone) /\ ~HasAnswered(gone) /\ ~HasCleared(gone)
    BY <2>2 DEF CallFits, HasAnswered, HasCleared
  <2>4. SpentStays
    BY <1>1, <2>1 DEF SpentStays
  <2>5. CallsKnow' /\ SpentOnce'
    <3> HIDE DEF gone
    <3> QED
      BY <2>1, <2>3, <2>4, SpendsNothing
  <2>6. GrantsAreOwn' /\ AccountRows'
    BY <1>1, <1>2, <2>1 DEF GrantsAreOwn, AccountRows, AccountInv, CallsKnow
  <2> QED
    BY <2>5, <2>6 DEF AccountInv
<1> QED
  BY <1>3, <1>4

-----------------------------------------------------------------------------
(* The writes that follow.                                                 *)

LEMMA RevokedFits ==
    ASSUME AccountRows, NEW gone
    PROVE  Revoked(gone) \in [Ids -> SessionStates]
  BY DEF AccountRows, Revoked, SessionStates

\* A write that touches neither codes nor grants.
LEMMA PlainWriteStep ==
    ASSUME AccountInv, NEW c \in AccountCalls,
           OpenSession(c) \/ CloseSessions(c) \/ WritePassword(c) \/ WritePasskey(c)
    PROVE  AccountInv'
<1>1. PICK ops : Writes(c, ops)
  BY DEF OpenSession, CloseSessions, WritePassword, WritePasskey
<1>2. code' = code /\ grant' = grant
  BY DEF OpenSession, CloseSessions, WritePassword, WritePasskey
<1>3. SpentStays
  BY <1>2 DEF SpentStays
<1>4. CallsKnow' /\ SpentOnce'
  BY <1>1, <1>3, WriteStep
<1>5. GrantsAreOwn'
  <2>1. call'[c].phase = "done" /\ \A d \in AccountCalls \ {c} : call'[d] = call[d]
    BY <1>1, <1>3, WriteStep
  <2> QED
    BY <1>2, <2>1 DEF GrantsAreOwn, AccountInv
<1>6. session' \in [Ids -> SessionStates] /\ passkey' \in [Ids -> PasskeyStates] /\ password' \in BOOLEAN
  <2>1. AccountRows /\ session \in [Ids -> SessionStates] /\ passkey \in [Ids -> PasskeyStates]
        /\ password \in BOOLEAN
    BY DEF AccountInv, AccountRows
  <2>2. CASE OpenSession(c)
    <3> DEFINE old == IF call[c].op = "refresh" THEN {call[c].session} ELSE {}
    <3>1. session' = [Revoked(old) EXCEPT ![c] = "live"] /\ UNCHANGED <<passkey, password>>
      BY <2>2 DEF OpenSession
    <3>2. Revoked(old) \in [Ids -> SessionStates]
      BY <2>1, RevokedFits
    <3>3. session' \in [Ids -> SessionStates]
      <4> HIDE DEF old
      <4> QED
        BY <3>1, <3>2 DEF SessionStates
    <3> QED
      BY <2>1, <3>1, <3>3
  <2>3. CASE CloseSessions(c)
    BY <2>1, <2>3, RevokedFits DEF CloseSessions
  <2>4. CASE WritePassword(c)
    BY <2>1, <2>4, RevokedFits DEF WritePassword
  <2>5. CASE WritePasskey(c)
    <3>1. /\ UNCHANGED <<session, password>>
          /\ \/ passkey' = [passkey EXCEPT ![c] = "active"]
             \/ passkey' = [passkey EXCEPT ![call[c].passkey] = "revoked"]
             \/ passkey' = passkey
      BY <2>5 DEF WritePasskey, Writes
    <3>2. passkey' \in [Ids -> PasskeyStates]
      BY <2>1, <3>1 DEF PasskeyStates
    <3> QED
      BY <2>1, <3>1, <3>2
  <2> QED
    BY <2>2, <2>3, <2>4, <2>5
<1>7. AccountRows'
  BY <1>2, <1>6 DEF AccountRows, AccountInv
<1> QED
  BY <1>4, <1>5, <1>7 DEF AccountInv

LEMMA CeremonyStep ==
    ASSUME AccountInv, NEW c \in AccountCalls, NEW k \in Codes, WriteCeremony(c, k)
    PROVE  AccountInv'
<1> DEFINE row == PendingFor("add", call[c].session, "passkey_management")
<1>1. /\ Writes(c, {"start_add"}) /\ code[k] = NoRow /\ code' = [code EXCEPT ![k] = row]
      /\ UNCHANGED <<session, passkey, password, grant>>
  BY DEF WriteCeremony
<1>2. CodeRow(row)
  BY AccountConstants DEF CodeRow, PendingFor, PendingCode, With, Kinds, Bound
<1>3. AccountRows /\ GrantsAreOwn
  BY DEF AccountInv
<1> HIDE DEF row
<1>4. SpentStays
  BY <1>1, <1>3 DEF SpentStays, NoRow, AccountRows
<1>5. /\ CallsKnow' /\ SpentOnce'
      /\ call'[c].phase = "done" /\ \A d \in AccountCalls \ {c} : call'[d] = call[d]
  BY <1>1, <1>4, WriteStep
<1>6. AccountRows'
  <2>1. code' = [x \in Codes |-> code'[x]] /\ \A x \in Codes : code'[x] = NoRow \/ CodeRow(code'[x])
    BY <1>1, <1>2, <1>3, NewCode
  <2> QED
    BY <1>1, <1>3, <2>1 DEF AccountRows
<1>7. GrantsAreOwn'
  BY <1>1, <1>3, <1>5 DEF GrantsAreOwn
<1> QED
  BY <1>5, <1>6, <1>7 DEF AccountInv

LEMMA WriteGrantStep ==
    ASSUME AccountInv, NEW c \in AccountCalls, WriteGrant(c)
    PROVE  AccountInv'
<1> DEFINE row == Granted(call[c].session, call[c].purpose)
<1>1. /\ Writes(c, {"reauth", "reauthenticate"}) /\ grant' = [grant EXCEPT ![c] = row]
      /\ call[c].phase = "write" /\ UNCHANGED <<session, passkey, password, code>>
  BY DEF WriteGrant, Writes
<1>2. GrantRow(row)
  BY DEF GrantRow, Granted
<1>3. AccountRows /\ GrantsAreOwn
  BY DEF AccountInv
<1>4. grant[c] = NoRow
  BY <1>1, <1>3 DEF GrantsAreOwn
<1> HIDE DEF row
<1>5. SpentStays
  BY <1>1, <1>3, <1>4 DEF SpentStays, NoRow, AccountRows
<1>6. /\ CallsKnow' /\ SpentOnce'
      /\ call'[c].phase = "done" /\ \A d \in AccountCalls \ {c} : call'[d] = call[d]
  BY <1>1, <1>5, WriteStep
<1>7. AccountRows'
  BY <1>1, <1>2, <1>3 DEF AccountRows
<1>8. GrantsAreOwn'
  BY <1>1, <1>3, <1>6 DEF GrantsAreOwn, AccountRows
<1> QED
  BY <1>6, <1>7, <1>8 DEF AccountInv

LEMMA ExpiryStep ==
    ASSUME AccountInv, ExpireSecret
    PROVE  AccountInv'
<1>1. UNCHANGED <<passkey, password, call>>
  BY DEF ExpireSecret
<1>2. AccountRows /\ GrantsAreOwn
  BY DEF AccountInv
<1>3. ASSUME AccountRows', SpentStays, \A g \in Ids : grant[g] = NoRow => grant'[g] = NoRow
      PROVE  AccountInv'
  <2>1. CallsKnow' /\ SpentOnce'
    BY <1>1, <1>3, NoCallMoves
  <2>2. GrantsAreOwn'
    BY <1>1, <1>2, <1>3 DEF GrantsAreOwn, Ids
  <2> QED
    BY <1>3, <2>1, <2>2 DEF AccountInv
<1>4. ASSUME NEW s \in Ids, session' = [session EXCEPT ![s] = "expired"], UNCHANGED <<code, grant>>
      PROVE  AccountInv'
  <2>1. AccountRows'
    BY <1>1, <1>2, <1>4 DEF AccountRows, SessionStates
  <2> QED
    BY <1>3, <1>4, <2>1 DEF SpentStays
<1>5. ASSUME NEW k \in Codes, code[k].status = "pending", code' = [code EXCEPT ![k].open = FALSE],
             UNCHANGED <<session, grant>>
      PROVE  AccountInv'
  <2> DEFINE row == [code[k] EXCEPT !.open = FALSE]
  <2>1. CodeRow(code[k])
    BY <1>2, <1>5 DEF AccountRows, NoRow
  <2>2. CodeRow(row)
    BY <2>1 DEF CodeRow
  <2>3. code' = [code EXCEPT ![k] = row]
    BY <1>5
  <2> HIDE DEF row
  <2>4. code' = [x \in Codes |-> code'[x]] /\ \A x \in Codes : code'[x] = NoRow \/ CodeRow(code'[x])
    BY <1>2, <2>2, <2>3, NewCode
  <2>5. AccountRows'
    BY <1>1, <1>2, <1>5, <2>4 DEF AccountRows
  <2>6. SpentStays
    BY <1>2, <1>5, <2>3 DEF SpentStays, AccountRows
  <2> QED
    BY <1>3, <1>5, <2>5, <2>6
<1>6. ASSUME NEW g \in Ids, grant[g].status = "issued", grant' = [grant EXCEPT ![g].open = FALSE],
             UNCHANGED <<session, code>>
      PROVE  AccountInv'
  <2> DEFINE row == [grant[g] EXCEPT !.open = FALSE]
  <2>1. GrantRow(grant[g])
    BY <1>2, <1>6 DEF AccountRows, NoRow
  <2>2. GrantRow(row)
    BY <2>1 DEF GrantRow
  <2>3. grant' = [grant EXCEPT ![g] = row]
    BY <1>6
  <2> HIDE DEF row
  <2>4. AccountRows'
    BY <1>1, <1>2, <1>6, <2>2, <2>3 DEF AccountRows
  <2>5. SpentStays
    BY <1>2, <1>6, <2>3 DEF SpentStays, AccountRows
  <2>6. \A x \in Ids : grant[x] = NoRow => grant'[x] = NoRow
    BY <1>2, <1>6, <2>3 DEF AccountRows, NoRow
  <2> QED
    BY <1>3, <2>4, <2>5, <2>6
<1> QED
  BY <1>4, <1>5, <1>6 DEF ExpireSecret

-----------------------------------------------------------------------------
\* A request arrives with what it was given.
LEMMA ArriveStep ==
    ASSUME AccountInv, NEW c \in Unserved,
           \/ \E k \in Codes, right \in BOOLEAN :
                  Present(c, k, right) \/ \E s \in Ids : PresentInSession(c, k, s, right)
           \/ PasswordLogin(c)
           \/ \E s \in Ids :
                 \/ \E purpose \in Purposes : Reauthenticate(c, s, purpose)
                 \/ \E op \in {"refresh", "logout", "revoke", "revoke_others"}, t \in Ids :
                        EndSession(c, s, op, t)
                 \/ \E op \in Guarded, g, p \in Ids : Guard(c, s, op, g, p)
    PROVE  AccountInv'
<1>1. ASSUME NEW k \in Codes, NEW right \in BOOLEAN, Present(c, k, right)
      PROVE  AccountInv'
  <2> DEFINE r == Answer(c, k, right)
  <2>1. r.phase \in {"consume", "miss"} /\ r.op \in Kinds /\ r.code = k /\ {"phase", "op", "code"} \subseteq DOMAIN r
    BY <1>1 DEF Present, Answer, Kinds
  <2>2. CallFits(r) /\ ~HasAnswered(r) /\ ~HasCleared(r)
    BY <2>1 DEF CallFits, HasAnswered, HasCleared
  <2> QED
    BY <1>1, <2>2, AskStep DEF Present
<1>2. ASSUME NEW k \in Codes, NEW right \in BOOLEAN, NEW s \in Ids, PresentInSession(c, k, s, right)
      PROVE  AccountInv'
  <2> DEFINE r == With(Answer(c, k, right), [session |-> s, purpose |-> code[k].purpose])
  <2>1. r.phase \in {"consume", "miss"} /\ r.op \in Kinds /\ r.code = k /\ {"phase", "op", "code"} \subseteq DOMAIN r
    BY <1>2 DEF PresentInSession, Answer, Kinds, With
  <2>2. CallFits(r) /\ ~HasAnswered(r) /\ ~HasCleared(r)
    BY <2>1 DEF CallFits, HasAnswered, HasCleared
  <2> QED
    BY <1>2, <2>2, AskStep DEF PresentInSession
<1>3. ASSUME NEW r, r.phase = "write", {"phase", "op"} \subseteq DOMAIN r, r.op \notin Kinds \cup Guarded, Asks(c, r)
      PROVE  AccountInv'
  <2>1. CallFits(r) /\ ~HasAnswered(r) /\ ~HasCleared(r)
    BY <1>3 DEF CallFits, HasAnswered, HasCleared
  <2> QED
    BY <1>3, <2>1, AskStep
<1>4. ASSUME PasswordLogin(c)
      PROVE  AccountInv'
  BY <1>3, <1>4 DEF PasswordLogin, Kinds, Anonymous, Bound, Guarded
<1>5. ASSUME NEW s \in Ids, NEW purpose \in Purposes, Reauthenticate(c, s, purpose)
      PROVE  AccountInv'
  BY <1>3, <1>5 DEF Reauthenticate, Kinds, Anonymous, Bound, Guarded
<1>6. ASSUME NEW s \in Ids, NEW op \in {"refresh", "logout", "revoke", "revoke_others"}, NEW t \in Ids,
             EndSession(c, s, op, t)
      PROVE  AccountInv'
  BY <1>3, <1>6 DEF EndSession, Kinds, Anonymous, Bound, Guarded
<1>7. ASSUME NEW s \in Ids, NEW op \in Guarded, NEW g \in Ids, NEW p \in Ids, Guard(c, s, op, g, p)
      PROVE  AccountInv'
  <2> DEFINE r == [phase |-> "grant", op |-> op, session |-> s, grant |-> g,
                   intime |-> grant[g].open, passkey |-> p]
  <2>1. CallFits(r) /\ ~HasAnswered(r) /\ ~HasCleared(r)
    BY DEF CallFits, HasAnswered, HasCleared
  <2> QED
    BY <1>7, <2>1, AskStep DEF Guard
<1> QED
  BY <1>1, <1>2, <1>4, <1>5, <1>6, <1>7

LEMMA AccountStep == AccountInv /\ [AccountNext]_accountVars => AccountInv'
<1> SUFFICES ASSUME AccountInv, [AccountNext]_accountVars PROVE AccountInv'
  OBVIOUS
<1>1. ASSUME NEW k \in Codes, NEW kind \in Anonymous, Issue(k, kind)
      PROVE  AccountInv'
  <2>1. CodeRow(PendingCode(kind))
    BY AccountConstants DEF CodeRow, PendingCode, Kinds
  <2> QED
    BY <1>1, <2>1, IssueStep DEF Issue
<1>2. ASSUME NEW k \in Codes, NEW s \in Ids, NEW purpose \in Purposes, StartReauthentication(k, s, purpose)
      PROVE  AccountInv'
  <2>1. CodeRow(PendingFor("reauth", s, purpose))
    BY AccountConstants DEF CodeRow, PendingFor, PendingCode, With, Kinds, Bound
  <2> QED
    BY <1>2, <2>1, IssueStep DEF StartReauthentication
<1>3. ASSUME NEW c \in AccountCalls,
             \/ Consume(c) \/ RecordFailure(c) \/ ConsumeGrant(c)
             \/ OpenSession(c) \/ CloseSessions(c) \/ WritePassword(c) \/ WritePasskey(c)
             \/ WriteGrant(c) \/ \E k \in Codes : WriteCeremony(c, k)
      PROVE  AccountInv'
  BY <1>3, ConsumeStep, FailureStep, GrantStep, PlainWriteStep, WriteGrantStep, CeremonyStep
<1>4. CASE UNCHANGED accountVars
  <2>1. UNCHANGED <<session, passkey, password, code, grant, call>>
    BY <1>4 DEF accountVars
  <2>2. SpentStays
    BY <2>1 DEF SpentStays
  <2>3. CallsKnow' /\ SpentOnce'
    BY <2>1, <2>2, NoCallMoves
  <2> QED
    BY <2>1, <2>3 DEF AccountInv, AccountRows, GrantsAreOwn
<1> QED
  BY <1>1, <1>2, <1>3, <1>4, ArriveStep, ExpiryStep DEF AccountNext

\* The rows are what the columns allow, and no code counts more attempts than
\* MaxAttempts.
THEOREM AccountsTypeCorrect == AccountSpec => []AccountTypeOK
<1>1. AccountInv => AccountTypeOK
  BY DEF AccountInv, AccountRows, CallsKnow, CallFits, AccountTypeOK, CodeRow, GrantRow,
         SessionStates, PasskeyStates
<1> QED
  BY <1>1, AccountInitially, AccountStep, PTL DEF AccountSpec

\* However many requests present one code or one reauthentication grant, one
\* is let through, and the grant is for what the request asks and for its own
\* session (consume_challenge, consume_ceremony, consume_recovery,
\* consume_reauth_grant).
THEOREM SecretsAreSpentOnce == AccountSpec => []SpentOnce
<1>1. AccountInv => SpentOnce
  BY DEF AccountInv
<1> QED
  BY <1>1, AccountInitially, AccountStep, PTL DEF AccountSpec

-----------------------------------------------------------------------------
(***************************************************************************)
(* Accounts: the end of a session, and what is left of "old state cannot   *)
(* refresh" (run session_refresh).                                         *)
(***************************************************************************)
\* A request that was let through to refresh its session, and its ending.
AsksRefresh(r) == r.phase = "write" /\ r.op = "refresh"
HasRefreshed(r) == r.phase = "done" /\ r.op = "refresh"

RefreshKnows(r) ==
    AsksRefresh(r) \/ HasRefreshed(r) =>
        /\ {"op", "session"} \subseteq DOMAIN r /\ r.session \in Ids
        /\ session[r.session] # "none"
        /\ HasRefreshed(r) => session[r.session] = "revoked"

\* A session has the id of the request that opened it; the session that was
\* refreshed is there, and revoked once the refresh is over.
SessionsKnow ==
    /\ \A c \in AccountCalls : session[c] # "none" => call[c].phase = "done"
    /\ \A c \in AccountCalls : RefreshKnows(call[c])

\* How the status of a session may move.
SessionMove(before, after) ==
    \/ after = before
    \/ before = "live" /\ after = "expired"
    \/ before # "none" /\ after = "revoked"

LEMMA RevokedMoves ==
    ASSUME AccountRows, NEW gone, NEW s \in Ids
    PROVE  /\ SessionMove(session[s], Revoked(gone)[s])
           /\ s \in gone /\ session[s] # "none" => Revoked(gone)[s] = "revoked"
  BY DEF Revoked, SessionMove

\* The steps that leave a request where it was, or let it arrive or give up,
\* or go on to a write with what it has spent.
LEMMA BeforeTheWrite ==
    ASSUME AccountInv, NEW c \in AccountCalls,
           \/ Consume(c) \/ RecordFailure(c) \/ ConsumeGrant(c)
    PROVE  /\ session' = session
           /\ call[c].phase # "done" /\ call'[c].phase # "done" /\ ~AsksRefresh(call'[c])
           /\ \A d \in AccountCalls \ {c} : call'[d] = call[d]
<1> DEFINE r == call[c]
<1>1. call = [d \in AccountCalls |-> call[d]] /\ CallFits(r)
  BY DEF AccountInv, CallsKnow
<1>2. PICK phase \in {"write", "miss", "over"} :
        /\ session' = session /\ r.phase \in {"consume", "miss", "grant"}
        /\ call' = [call EXCEPT ![c] = [r EXCEPT !.phase = phase]]
        /\ phase = "write" => r.phase \in {"consume", "grant"}
  BY DEF Consume, RecordFailure, ConsumeGrant, Proceeds
<1> DEFINE next == [r EXCEPT !.phase = phase]
<1>3. next.phase = phase /\ (phase = "write" => next.op = r.op /\ r.op \in Kinds \cup Guarded)
  BY <1>1, <1>2 DEF CallFits
<1>4. ~AsksRefresh(next)
  BY <1>3 DEF AsksRefresh, Kinds, Anonymous, Bound, Guarded
<1> HIDE DEF next
<1>5. call'[c] = next /\ \A d \in AccountCalls \ {c} : call'[d] = call[d]
  BY <1>1, <1>2 DEF next
<1> QED
  BY <1>2, <1>3, <1>4, <1>5

\* A request arrives with a session that is live.
LEMMA ArrivesAlive ==
    ASSUME AccountInv, NEW c \in Unserved,
           \/ \E k \in Codes, right \in BOOLEAN :
                  Present(c, k, right) \/ \E s \in Ids : PresentInSession(c, k, s, right)
           \/ PasswordLogin(c)
           \/ \E s \in Ids :
                 \/ \E purpose \in Purposes : Reauthenticate(c, s, purpose)
                 \/ \E op \in {"refresh", "logout", "revoke", "revoke_others"}, t \in Ids :
                        EndSession(c, s, op, t)
                 \/ \E op \in Guarded, g, p \in Ids : Guard(c, s, op, g, p)
    PROVE  /\ session' = session /\ c \in AccountCalls
           /\ call[c].phase # "done" /\ call'[c].phase # "done"
           /\ AsksRefresh(call'[c]) => /\ {"op", "session"} \subseteq DOMAIN call'[c]
                                       /\ call'[c].session \in Ids
                                       /\ session[call'[c].session] = "live"
           /\ \A d \in AccountCalls \ {c} : call'[d] = call[d]
<1>0. c \in AccountCalls /\ call[c].phase = "new"
  BY DEF Unserved
<1>1. ASSUME NEW r, Asks(c, r), r.phase # "done",
             AsksRefresh(r) => /\ {"op", "session"} \subseteq DOMAIN r /\ r.session \in Ids
                               /\ session[r.session] = "live"
      PROVE  /\ session' = session
             /\ call'[c].phase # "done"
             /\ AsksRefresh(call'[c]) => /\ {"op", "session"} \subseteq DOMAIN call'[c]
                                         /\ call'[c].session \in Ids
                                         /\ session[call'[c].session] = "live"
             /\ \A d \in AccountCalls \ {c} : call'[d] = call[d]
  <2>1. call = [d \in AccountCalls |-> call[d]]
    BY DEF AccountInv, CallsKnow
  <2>2. session' = session /\ call' = [call EXCEPT ![c] = r]
    BY <1>1 DEF Asks, Proceeds
  <2>3. call'[c] = r /\ \A d \in AccountCalls \ {c} : call'[d] = call[d]
    BY <1>0, <2>1, <2>2
  <2> QED
    BY <1>1, <2>2, <2>3
<1>2. ASSUME NEW k \in Codes, NEW right \in BOOLEAN, Present(c, k, right)
      PROVE  \E r : Asks(c, r) /\ r.phase \in {"consume", "miss"}
  BY <1>2 DEF Present, Answer
<1>3. ASSUME NEW k \in Codes, NEW right \in BOOLEAN, NEW s \in Ids, PresentInSession(c, k, s, right)
      PROVE  \E r : Asks(c, r) /\ r.phase \in {"consume", "miss"}
  <2>1. With(Answer(c, k, right), [session |-> s, purpose |-> code[k].purpose]).phase \in {"consume", "miss"}
    BY DEF Answer, With
  <2> QED
    BY <1>3, <2>1 DEF PresentInSession
<1>4. ASSUME PasswordLogin(c)
      PROVE  \E r : Asks(c, r) /\ r.phase = "write" /\ r.op # "refresh"
  BY <1>4 DEF PasswordLogin
<1>5. ASSUME NEW s \in Ids, NEW purpose \in Purposes, Reauthenticate(c, s, purpose)
      PROVE  \E r : Asks(c, r) /\ r.phase = "write" /\ r.op # "refresh"
  BY <1>5 DEF Reauthenticate
<1>6. ASSUME NEW s \in Ids, NEW op \in {"refresh", "logout", "revoke", "revoke_others"}, NEW t \in Ids,
             EndSession(c, s, op, t)
      PROVE  \E r : /\ Asks(c, r) /\ r.phase = "write" /\ {"op", "session"} \subseteq DOMAIN r
                    /\ r.session = s /\ session[s] = "live"
  BY <1>6 DEF EndSession, Live
<1>7. ASSUME NEW s \in Ids, NEW op \in Guarded, NEW g \in Ids, NEW p \in Ids, Guard(c, s, op, g, p)
      PROVE  \E r : Asks(c, r) /\ r.phase = "grant"
  BY <1>7 DEF Guard
<1> QED
  BY <1>0, <1>1, <1>2, <1>3, <1>4, <1>5, <1>6, <1>7 DEF AsksRefresh

\* The write of a request: it moves no other request, and revokes the session
\* that it refreshes.
LEMMA WritesSessions ==
    ASSUME AccountInv, SessionsKnow, NEW c \in AccountCalls,
           \/ OpenSession(c) \/ CloseSessions(c) \/ WritePassword(c) \/ WritePasskey(c)
           \/ WriteGrant(c) \/ \E k \in Codes : WriteCeremony(c, k)
    PROVE  /\ call[c].phase = "write" /\ call'[c] = [call[c] EXCEPT !.phase = "done"]
           /\ call'[c].phase = "done" /\ call'[c].op = call[c].op /\ DOMAIN call'[c] = DOMAIN call[c]
           /\ "session" \in DOMAIN call[c] => call'[c].session = call[c].session
           /\ \A d \in AccountCalls \ {c} : call'[d] = call[d]
           /\ \A s \in Ids \ {c} : SessionMove(session[s], session'[s])
           /\ session[c] = "none"
           /\ AsksRefresh(call[c]) => session'[call[c].session] = "revoked"
<1>1. PICK ops : Writes(c, ops)
  BY DEF OpenSession, CloseSessions, WritePassword, WritePasskey, WriteGrant, WriteCeremony
<1>2. /\ call = [d \in AccountCalls |-> call[d]] /\ CallFits(call[c]) /\ AccountRows
      /\ RefreshKnows(call[c])
  BY DEF AccountInv, CallsKnow, SessionsKnow
<1>3. call[c].phase = "write" /\ call' = [call EXCEPT ![c] = [call[c] EXCEPT !.phase = "done"]]
  BY <1>1 DEF Writes, Proceeds
<1>4. {"phase", "op"} \subseteq DOMAIN call[c]
  BY <1>2, <1>3 DEF CallFits
<1>5. session[c] = "none" /\ c \in Ids
  BY <1>3 DEF SessionsKnow, Ids
<1>6. /\ call'[c] = [call[c] EXCEPT !.phase = "done"]
      /\ \A d \in AccountCalls \ {c} : call'[d] = call[d]
  BY <1>2, <1>3
<1>7. /\ call'[c].phase = "done" /\ call'[c].op = call[c].op /\ DOMAIN call'[c] = DOMAIN call[c]
      /\ "session" \in DOMAIN call[c] => call'[c].session = call[c].session
  BY <1>4, <1>6
<1>8. /\ \A s \in Ids \ {c} : SessionMove(session[s], session'[s])
      /\ AsksRefresh(call[c]) => session'[call[c].session] = "revoked"
  <2>1. CASE OpenSession(c)
    <3> DEFINE old == IF call[c].op = "refresh" THEN {call[c].session} ELSE {}
    <3>1. session' = [Revoked(old) EXCEPT ![c] = "live"]
      BY <2>1 DEF OpenSession
    <3>2. Revoked(old) \in [Ids -> SessionStates]
      BY <1>2, RevokedFits
    <3>3. \A s \in Ids \ {c} : SessionMove(session[s], Revoked(old)[s])
      BY <1>2, RevokedMoves
    <3>4. AsksRefresh(call[c]) => /\ call[c].session \in Ids \ {c} /\ call[c].session \in old
                                  /\ session[call[c].session] # "none"
      BY <1>2, <1>5 DEF AsksRefresh, RefreshKnows
    <3>5. AsksRefresh(call[c]) => Revoked(old)[call[c].session] = "revoked"
      BY <1>2, <3>4, RevokedMoves
    <3>6. \A s \in Ids \ {c} : session'[s] = Revoked(old)[s]
      <4> HIDE DEF old
      <4> QED
        BY <1>5, <3>1, <3>2
    <3> HIDE DEF old
    <3> QED
      BY <3>3, <3>4, <3>5, <3>6
  <2>2. CASE ~OpenSession(c)
    <3>1. (\E gone : session' = Revoked(gone)) \/ session' = session
      BY <2>2 DEF CloseSessions, WritePassword, WritePasskey, WriteGrant, WriteCeremony
    <3>2. \A s \in Ids : SessionMove(session[s], session'[s])
      BY <1>2, <3>1, RevokedMoves DEF SessionMove
    <3>3. ~AsksRefresh(call[c])
      BY <2>2 DEF AsksRefresh, CloseSessions, WritePassword, WritePasskey, WriteGrant,
                  WriteCeremony, Writes
    <3> QED
      BY <3>2, <3>3
  <2> QED
    BY <2>1, <2>2
<1> QED
  BY <1>3, <1>5, <1>6, <1>7, <1>8

\* What a step does to the sessions and to the requests.
LEMMA SessionStep ==
    ASSUME AccountInv, SessionsKnow, [AccountNext]_accountVars
    PROVE  /\ SessionsKnow'
           /\ \A s \in Ids : session[s] # "none" => SessionMove(session[s], session'[s])
           /\ \A c \in AccountCalls :
                  /\ HasRefreshed(call'[c]) => call[c].phase \in {"write", "done"}
                                               /\ call[c].op = "refresh"
                                               /\ call'[c].session = call[c].session
                  /\ AsksRefresh(call'[c]) =>
                         \/ call'[c] = call[c]
                         \/ session' = session /\ session[call'[c].session] = "live"
<1> DEFINE Goal ==
           /\ SessionsKnow'
           /\ \A s \in Ids : session[s] # "none" => SessionMove(session[s], session'[s])
           /\ \A c \in AccountCalls :
                  /\ HasRefreshed(call'[c]) => call[c].phase \in {"write", "done"}
                                               /\ call[c].op = "refresh"
                                               /\ call'[c].session = call[c].session
                  /\ AsksRefresh(call'[c]) =>
                         \/ call'[c] = call[c]
                         \/ session' = session /\ session[call'[c].session] = "live"
<1>0. \A c \in AccountCalls : c \in Ids
  BY DEF Ids
<1>1. ASSUME UNCHANGED call, \A s \in Ids : /\ session[s] = "none" => session'[s] = "none"
                                           /\ SessionMove(session[s], session'[s])
      PROVE  Goal
  <2>1. \A c \in AccountCalls : RefreshKnows(call[c])'
    BY <1>1 DEF SessionsKnow, RefreshKnows, SessionMove, AsksRefresh, HasRefreshed
  <2>2. \A c \in AccountCalls : session'[c] # "none" => call'[c].phase = "done"
    BY <1>0, <1>1 DEF SessionsKnow
  <2> QED
    BY <1>1, <2>1, <2>2 DEF SessionsKnow, AsksRefresh, HasRefreshed
<1>2. ASSUME NEW c \in AccountCalls, UNCHANGED session,
             call[c].phase # "done", call'[c].phase # "done",
             AsksRefresh(call'[c]) => /\ {"op", "session"} \subseteq DOMAIN call'[c]
                                      /\ call'[c].session \in Ids
                                      /\ session[call'[c].session] = "live",
             \A d \in AccountCalls \ {c} : call'[d] = call[d]
      PROVE  Goal
  <2>1. \A d \in AccountCalls \ {c} : RefreshKnows(call[d])'
    BY <1>2 DEF SessionsKnow, RefreshKnows
  <2>2. RefreshKnows(call[c])'
    BY <1>2 DEF RefreshKnows, HasRefreshed
  <2>3. SessionsKnow'
    BY <1>2, <2>1, <2>2 DEF SessionsKnow
  <2> QED
    BY <1>2, <2>3 DEF SessionMove, AsksRefresh, HasRefreshed
<1>3. ASSUME NEW c \in AccountCalls,
             \/ OpenSession(c) \/ CloseSessions(c) \/ WritePassword(c) \/ WritePasskey(c)
             \/ WriteGrant(c) \/ \E k \in Codes : WriteCeremony(c, k)
      PROVE  Goal
  <2>1. /\ call[c].phase = "write"
        /\ call'[c].phase = "done" /\ call'[c].op = call[c].op /\ DOMAIN call'[c] = DOMAIN call[c]
        /\ "session" \in DOMAIN call[c] => call'[c].session = call[c].session
        /\ \A d \in AccountCalls \ {c} : call'[d] = call[d]
        /\ \A s \in Ids \ {c} : SessionMove(session[s], session'[s])
        /\ session[c] = "none"
        /\ AsksRefresh(call[c]) => session'[call[c].session] = "revoked"
    BY <1>3, WritesSessions
  <2>2. \A d \in AccountCalls \ {c} : RefreshKnows(call[d])'
    BY <2>1 DEF SessionsKnow, RefreshKnows, SessionMove, AsksRefresh, HasRefreshed
  <2>3. RefreshKnows(call[c])'
    <3>1. RefreshKnows(call[c])
      BY DEF SessionsKnow
    <3>2. call[c].op = "refresh" => AsksRefresh(call[c])
      BY <2>1 DEF AsksRefresh
    <3> QED
      BY <2>1, <3>1, <3>2 DEF RefreshKnows, AsksRefresh, HasRefreshed
  <2>4. \A d \in AccountCalls : session'[d] # "none" => call'[d].phase = "done"
    <3>1. \A d \in AccountCalls \ {c} : session[d] = "none" => session'[d] = "none"
      BY <1>0, <2>1 DEF SessionMove
    <3> QED
      BY <2>1, <3>1 DEF SessionsKnow
  <2>5. SessionsKnow'
    BY <2>2, <2>3, <2>4 DEF SessionsKnow
  <2>6. HasRefreshed(call'[c]) => "session" \in DOMAIN call[c]
    <3>1. RefreshKnows(call[c])
      BY DEF SessionsKnow
    <3> QED
      BY <2>1, <3>1 DEF RefreshKnows, AsksRefresh, HasRefreshed
  <2> QED
    BY <2>1, <2>5, <2>6 DEF AsksRefresh, HasRefreshed
<1> HIDE DEF Goal
<1>4. ASSUME NEW c \in Unserved,
             \/ \E k \in Codes, right \in BOOLEAN :
                    Present(c, k, right) \/ \E s \in Ids : PresentInSession(c, k, s, right)
             \/ PasswordLogin(c)
             \/ \E s \in Ids :
                   \/ \E purpose \in Purposes : Reauthenticate(c, s, purpose)
                   \/ \E op \in {"refresh", "logout", "revoke", "revoke_others"}, t \in Ids :
                          EndSession(c, s, op, t)
                   \/ \E op \in Guarded, g, p \in Ids : Guard(c, s, op, g, p)
      PROVE  Goal
  BY <1>2, <1>4, ArrivesAlive
<1>5. ASSUME NEW c \in AccountCalls, Consume(c) \/ RecordFailure(c) \/ ConsumeGrant(c)
      PROVE  Goal
  BY <1>2, <1>5, BeforeTheWrite
<1>6. ASSUME UNCHANGED <<call, session>>
      PROVE  Goal
  BY <1>1, <1>6 DEF SessionMove
<1>7. ASSUME NEW k \in Codes,
             \/ \E kind \in Anonymous : Issue(k, kind)
             \/ \E s \in Ids, purpose \in Purposes : StartReauthentication(k, s, purpose)
      PROVE  Goal
  BY <1>6, <1>7 DEF Issue, StartReauthentication
<1>8. ASSUME ExpireSecret
      PROVE  Goal
  <2>1. UNCHANGED call
        /\ (session' = session \/ \E s \in Ids : /\ session[s] = "live"
                                                  /\ session' = [session EXCEPT ![s] = "expired"])
    BY <1>8 DEF ExpireSecret, Live
  <2>2. session \in [Ids -> SessionStates]
    BY DEF AccountInv, AccountRows
  <2>3. \A s \in Ids : /\ session[s] = "none" => session'[s] = "none"
                       /\ SessionMove(session[s], session'[s])
    BY <2>1, <2>2 DEF SessionMove
  <2> QED
    BY <1>1, <2>1, <2>3
<1>9. ASSUME UNCHANGED accountVars
      PROVE  Goal
  BY <1>6, <1>9 DEF accountVars
<1>10. Goal
  BY <1>3, <1>4, <1>5, <1>7, <1>8, <1>9 DEF AccountNext
<1> QED
  BY <1>10 DEF Goal

\* An ended session stays ended: whatever logout, revocation, refresh, reset or
\* expiry ended it, no late write of another request brings it back, for the
\* status of a session only moves on and its id is never used again.
SessionsEnd ==
    [][\A s \in Ids : /\ session[s] = "revoked" => session'[s] = "revoked"
                      /\ session[s] = "expired" => session'[s] \in {"expired", "revoked"}]_accountVars

\* What the requests know of their sessions holds in every reachable state.
LEMMA SessionsKnown == AccountSpec => [](AccountInv /\ SessionsKnow)
<1>1. AccountInit => SessionsKnow
  BY AccountConstants DEF AccountInit, SessionsKnow, RefreshKnows, AsksRefresh, HasRefreshed, Ids
<1>2. AccountInv /\ SessionsKnow /\ [AccountNext]_accountVars => SessionsKnow'
  BY SessionStep
<1> QED
  BY <1>1, <1>2, AccountInitially, AccountStep, PTL DEF AccountSpec

\* No session that was revoked or has expired is ever live again.
THEOREM SessionsStayEnded == AccountSpec => SessionsEnd
<1>1. AccountInv /\ SessionsKnow /\ [AccountNext]_accountVars
        => [\A s \in Ids :
               /\ session[s] = "revoked" => session'[s] = "revoked"
               /\ session[s] = "expired" => session'[s] \in {"expired", "revoked"}]_accountVars
  BY SessionStep DEF SessionMove
<1> QED
  BY <1>1, SessionsKnown, PTL DEF AccountSpec, SessionsEnd

\* What a completed refresh leaves behind can open nothing: its session is
\* revoked, and every request in a session asks for a live one.
RefreshedIsRevoked ==
    \A c \in AccountCalls : HasRefreshed(call[c]) => session[call[c].session] = "revoked"

\* Old state cannot refresh once the refresh is over.
THEOREM OldStateIsRevoked == AccountSpec => []RefreshedIsRevoked
<1>1. SessionsKnow => RefreshedIsRevoked
  BY DEF SessionsKnow, RefreshKnows, RefreshedIsRevoked
<1> QED
  BY <1>1, SessionsKnown, PTL

\* No two requests are let through to refresh one session before either has
\* written.
RefreshesTakeTurns ==
    \A c, d \in AccountCalls :
        AsksRefresh(call[c]) /\ AsksRefresh(call[d]) /\ call[c].session = call[d].session => c = d

\* Two refreshes that overlap between the check and the write are all that
\* "old state cannot refresh" misses (run session_refresh): if they take turns,
\* a session has one successor.
THEOREM OneSuccessorInTurn == AccountSpec /\ []RefreshesTakeTurns => []OldStateCannotRefresh
<1> DEFINE Ask(c) == AsksRefresh(call[c]) \/ HasRefreshed(call[c])
           OneEach == \A c, d \in AccountCalls :
                          Ask(c) /\ Ask(d) /\ call[c].session = call[d].session => c = d
<1>1. AccountInit => OneEach
  BY DEF AccountInit, AsksRefresh, HasRefreshed
<1>2. ASSUME AccountInv, SessionsKnow, [AccountNext]_accountVars, OneEach, RefreshesTakeTurns'
      PROVE  OneEach'
  <2>1. ASSUME NEW c \in AccountCalls, Ask(c)'
        PROVE  \/ Ask(c) /\ call'[c].session = call[c].session
               \/ AsksRefresh(call'[c]) /\ session' = session /\ session[call'[c].session] = "live"
    BY <1>2, <2>1, SessionStep DEF AsksRefresh, HasRefreshed
  <2>2. ASSUME NEW c \in AccountCalls, NEW d \in AccountCalls, Ask(c)', Ask(d)',
               call'[c].session = call'[d].session,
               AsksRefresh(call'[c]), session' = session, session[call'[c].session] = "live"
        PROVE  c = d
    <3>1. ~HasRefreshed(call'[d])
      BY <1>2, <2>2, SessionStep DEF SessionsKnow, RefreshKnows
    <3> QED
      BY <1>2, <2>2, <3>1 DEF RefreshesTakeTurns
  <2> HIDE DEF Ask
  <2> QED
    BY <1>2, <2>1, <2>2
<1>3. SessionsKnow /\ OneEach => OldStateCannotRefresh
  BY DEF OldStateCannotRefresh, HasRefreshed
<1>4. RefreshesTakeTurns' /\ AccountInv /\ SessionsKnow /\ OneEach /\ [AccountNext]_accountVars => OneEach'
  BY <1>2
<1> HIDE DEF OneEach
<1> QED
  BY <1>1, <1>3, <1>4, SessionsKnown, PTL DEF AccountSpec
-----------------------------------------------------------------------------
(***************************************************************************)
(* MCDevices runs one of its parts at a time and leaves the others alone;  *)
(* so each of its behaviours is a behaviour of every part, and whatever    *)
(* is proved of a part holds of it too.                                    *)
(***************************************************************************)
\* In any behaviour of the composition every part keeps to its own specification.
THEOREM DevicesKeepToTheirParts ==
    MCSpec => Spec /\ AccountSpec /\ RunSpec /\ PolicySpec
<1>1. MCInit => Init /\ AccountInit /\ RunInit /\ PolicyInit
  BY DEF MCInit
<1>2. [MCNext]_allVars =>
          /\ [Next]_deviceVars /\ [AccountNext]_accountVars
          /\ [RunNext]_runVars /\ [PolicyNext]_policyVars
  BY DEF MCNext, allVars
<1> QED
  BY <1>1, <1>2, PTL DEF MCSpec, Spec, AccountSpec, RunSpec, PolicySpec

\* Device rows, sessions, runs and the policy of the tools keep their types in the
\* composition, for any enrollments, devices, requests, runs and tools.
THEOREM DevicesTypesStay == MCSpec => []MCTypeOK
<1>1. TypeOK /\ AccountTypeOK /\ RunTypeOK /\ PolicyTypeOK => MCTypeOK
  BY DEF MCTypeOK
<1>2. Spec => []TypeOK
  BY MCConstants, DevicesTypeCorrect
<1> QED
  BY <1>1, <1>2, DevicesKeepToTheirParts, AccountsTypeCorrect, RunsTypeCorrect,
     PolicyTypeCorrect, PTL
=============================================================================
