------------------------------- MODULE Devices -------------------------------
(***************************************************************************)
(* Managed devices of one organization: enrollment, device tokens,         *)
(* heartbeat, workspace bindings, revocation and the versioned policy      *)
(* snapshot they all refresh (apps/api/src/routes/devices.rs).             *)
(*                                                                         *)
(* A call is authenticated or reads its rows, and writes in a later step;  *)
(* what it read may be gone by then.  It judges expiry by the time it was  *)
(* received, here the time of its first read.  A Worker that stops between *)
(* two steps is a call that takes no further step: nothing waits for it.   *)
(***************************************************************************)
EXTENDS Naturals, FiniteSets

CONSTANTS
    Calls,         \* requests, each served once; also the ids of their tokens
    Enrollments, Managed, Keys,
    First,         \* the device that is there already, and
    FirstOf,       \* its enrollment
    NoDevice,
    KeyOf,         \* [Enrollments -> Keys]: the key an enrollment was begun with
    EnrollmentTTL, TokenTTL,   \* both 15 minutes in the code
    DeviceTime     \* bound: clock values 0..DeviceTime

Constants ==
    /\ First \in Managed /\ NoDevice \notin Managed
    /\ FirstOf \in Enrollments /\ KeyOf \in [Enrollments -> Keys]
    /\ EnrollmentTTL \in Nat /\ TokenTTL \in Nat /\ DeviceTime \in Nat

VARIABLES
    clock,
    enrollment,    \* enrollment[e]: status, approved device, expires_at
    device,        \* device[d]: status, key_fingerprint, last_seen_at
    tokens,        \* the device_tokens rows
    bound,         \* devices with a workspace_bindings row
    snapshots,     \* the policy_snapshots rows
    request        \* request[c]: what the handler of c has read

deviceVars == <<clock, enrollment, device, tokens, bound, snapshots, request>>
tables == <<enrollment, device, tokens, bound, snapshots>>

\* compile_policy_payload: what of a snapshot this module tells apart.
Payload(listed, bindings, minimum) ==
    [member |-> \E d \in listed : device[d].status = "active",
     bindings |-> bindings, minimum |-> minimum]
NoPayload == [member |-> FALSE, bindings |-> {}, minimum |-> FALSE]

\* One device was approved.  Either its enrollment is completed, which gave it
\* a token and published the first snapshot, or that is still to come.
Init ==
    \E completed \in BOOLEAN :
    /\ clock = 0
    /\ enrollment = [e \in Enrollments |->
         IF e # FirstOf THEN [status |-> "none", device |-> NoDevice, expires |-> 0]
         ELSE [status |-> IF completed THEN "completed" ELSE "pending",
               device |-> First, expires |-> EnrollmentTTL]]
    /\ device = [d \in Managed |->
         IF d # First THEN [status |-> "none"]
         ELSE [status |-> "active", key |-> KeyOf[FirstOf], seen |-> 0]]
    /\ bound = {}
    /\ tokens = IF completed
                THEN {[id |-> First, device |-> First, expires |-> TokenTTL]} ELSE {}
    /\ snapshots = IF completed
                   THEN {[version |-> 1, payload |-> [NoPayload EXCEPT !.member = TRUE]]} ELSE {}
    /\ request = [c \in Calls |-> [phase |-> "new"]]

-----------------------------------------------------------------------------
Goes(c, r) == request' = [request EXCEPT ![c] = r]
Over(c) == Goes(c, [phase |-> "over"])
Arrives(c, r) ==
    /\ request[c].phase = "new"
    /\ Goes(c, r)
    /\ UNCHANGED <<clock, tables>>

\* begin_enrollment: INSERT_ENROLLMENT_SQL.
Begin(e) ==
    /\ enrollment[e].status = "none"
    /\ enrollment' = [enrollment EXCEPT ![e] =
          [status |-> "pending", device |-> NoDevice, expires |-> clock + EnrollmentTTL]]
    /\ UNCHANGED <<clock, device, tokens, bound, snapshots, request>>

Enrolled(d) == device[d].status # "none"
Pending(e) == enrollment[e].status = "pending"
Approved(e) == enrollment[e].device # NoDevice      \* approved_by_user_id IS NOT NULL

\* Variant for the sensitivity runs: the lookup does not ask for the status.
HoldsTokenOnly(d) == \E t \in tokens : t.device = d /\ t.expires > clock
\* require_device: TOKEN_LOOKUP_SQL.
HoldsToken(d) ==
    /\ device[d].status = "active"
    /\ \E t \in tokens : t.device = d /\ t.expires > clock

\* approve_enrollment and enrollment_status find the enrollment expired.
FindExpired(c, e) ==
    /\ Pending(e) /\ enrollment[e].expires <= clock
    /\ Arrives(c, [phase |-> "expire", enrollment |-> e])

\* approve_enrollment: read of the enrollment and device_fingerprint_count.
Approve(c, e) ==
    /\ Pending(e) /\ enrollment[e].expires > clock
    /\ ~\E d \in Managed : Enrolled(d) /\ device[d].key = KeyOf[e]
    /\ Arrives(c, [phase |-> "approve", enrollment |-> e, at |-> clock])

\* complete_enrollment: read of the enrollment and proof of possession.
Complete(c, e) ==
    /\ Pending(e) /\ Approved(e) /\ enrollment[e].expires > clock
    /\ Arrives(c, [phase |-> "complete", enrollment |-> e, at |-> clock,
                   device |-> enrollment[e].device])

\* refresh_token: load_active_device and the gates of other components.  The
\* organization has a minimum client version, which no code of the program
\* writes: an operator put it there.
RefreshToken(c, d) ==
    /\ device[d].status = "active"
    /\ Arrives(c, [phase |-> "token", device |-> d, at |-> clock])

\* heartbeat, create_binding, delete_device_binding: require_device, then for
\* the last two the read of the binding.
Enter(c, d, op) ==
    /\ HoldsToken(d)
    /\ op = "bind" => d \notin bound
    /\ op = "unbind" => d \in bound
    /\ Arrives(c, [phase |-> op, device |-> d, at |-> clock])

\* revoke_device: authorization and read of the device.
Revoke(c, d) ==
    /\ Enrolled(d)
    /\ Arrives(c, [phase |-> "revoke", device |-> d])

-----------------------------------------------------------------------------
\* EXPIRE_ENROLLMENT_SQL.
Expire(c) ==
    LET e == request[c].enrollment IN
    /\ request[c].phase = "expire"
    /\ enrollment' = IF Pending(e) THEN [enrollment EXCEPT ![e].status = "expired"]
                     ELSE enrollment
    /\ Over(c)
    /\ UNCHANGED <<clock, device, tokens, bound, snapshots>>

\* Variant for the sensitivity runs: only active devices keep their key.
KeyReusable(key) ==
    ~\E d \in Managed : device[d].status = "active" /\ device[d].key = key
\* ux_devices_org_fingerprint.
KeyFree(key) == ~\E d \in Managed : Enrolled(d) /\ device[d].key = key

\* approve_enrollment_statements.  A second device of the key rolls the batch
\* back; an enrollment that is over by now does not.
WriteApproval(c) ==
    LET e == request[c].enrollment IN
    /\ request[c].phase = "approve"
    /\ IF KeyFree(KeyOf[e])
       THEN \E d \in Managed :
              /\ ~Enrolled(d)
              /\ device' = [device EXCEPT ![d] =
                              [status |-> "active", key |-> KeyOf[e], seen |-> 0]]
              /\ enrollment' = IF Pending(e) /\ enrollment[e].expires > request[c].at
                               THEN [enrollment EXCEPT ![e].device = d] ELSE enrollment
       ELSE UNCHANGED <<device, enrollment>>
    /\ Over(c)
    /\ UNCHANGED <<clock, tokens, bound, snapshots>>

\* INSERT_DEVICE_TOKEN_SQL.
InsertToken(c) ==
    tokens' = tokens \cup {[id |-> c, device |-> request[c].device,
                            expires |-> request[c].at + TokenTTL]}

\* refresh_policy_snapshot with or without the minimum client version.
Refreshes(c, minimum) == Goes(c, [phase |-> "latest", minimum |-> minimum])

\* complete_enrollment_statements: the token is stored also when the
\* enrollment is over by now.
WriteCompletion(c) ==
    LET r == request[c] IN
    /\ r.phase = "complete"
    /\ enrollment' =
         IF Pending(r.enrollment) /\ Approved(r.enrollment)
              /\ enrollment[r.enrollment].expires > r.at
         THEN [enrollment EXCEPT ![r.enrollment].status = "completed",
                                 ![r.enrollment].device = r.device]
         ELSE enrollment
    /\ InsertToken(c)
    /\ Refreshes(c, FALSE)
    /\ UNCHANGED <<clock, device, bound, snapshots>>

WriteToken(c) ==
    /\ request[c].phase = "token"
    /\ InsertToken(c)
    /\ Refreshes(c, TRUE)
    /\ UNCHANGED <<clock, enrollment, device, bound, snapshots>>

\* UPDATE_DEVICE_HEARTBEAT_SQL.
Heartbeat(c) ==
    LET r == request[c] IN
    /\ r.phase = "heartbeat"
    /\ device' = IF device[r.device].status = "active"
                 THEN [device EXCEPT ![r.device].seen = r.at] ELSE device
    /\ Over(c)
    /\ UNCHANGED <<clock, enrollment, tokens, bound, snapshots>>

\* INSERT_BINDING_SQL under ux_workspace_bindings_device_identity.
Bind(c) ==
    LET d == request[c].device IN
    /\ request[c].phase = "bind"
    /\ IF d \in bound THEN Over(c) /\ UNCHANGED bound
       ELSE Refreshes(c, FALSE) /\ bound' = bound \cup {d}
    /\ UNCHANGED <<clock, enrollment, device, tokens, snapshots>>

\* DELETE_BINDING_SQL.
Unbind(c) ==
    LET d == request[c].device IN
    /\ request[c].phase = "unbind"
    /\ IF d \in bound THEN Refreshes(c, FALSE) /\ bound' = bound \ {d}
       ELSE Over(c) /\ UNCHANGED bound
    /\ UNCHANGED <<clock, enrollment, device, tokens, snapshots>>

\* REVOKE_DEVICE_SQL and DELETE_DEVICE_TOKENS_SQL, in one batch.
WriteRevocation(c) ==
    LET d == request[c].device IN
    /\ request[c].phase = "revoke"
    /\ device' = [device EXCEPT ![d].status = "revoked"]
    /\ tokens' = {t \in tokens : t.device # d}
    /\ Over(c)
    /\ UNCHANGED <<clock, enrollment, bound, snapshots>>

-----------------------------------------------------------------------------
Versions == {s.version : s \in snapshots}
LastVersion == CHOOSE v \in {0} \cup Versions : \A u \in Versions : u <= v

\* refresh_policy_snapshot, query by query: LATEST_SNAPSHOT_SQL,
ReadLatest(c) ==
    /\ request[c].phase = "latest"
    /\ Goes(c, [phase |-> "compile", minimum |-> request[c].minimum,
                latest |-> {s.payload : s \in {t \in snapshots : t.version = LastVersion}}])
    /\ UNCHANGED <<clock, tables>>

\* list_devices_by_org and the bindings of each: revoked devices count too,
\* and an equal payload ends the refresh.
Compile(c) ==
    LET r == request[c]
        payload == Payload({d \in Managed : Enrolled(d)}, bound, r.minimum)
    IN
    /\ r.phase = "compile"
    /\ Goes(c, IF payload \in r.latest THEN [phase |-> "over"]
               ELSE [phase |-> "version", payload |-> payload])
    /\ UNCHANGED <<clock, tables>>

\* next_policy_version.
ReadVersion(c) ==
    /\ request[c].phase = "version"
    /\ Goes(c, [phase |-> "publish", payload |-> request[c].payload,
                version |-> LastVersion + 1])
    /\ UNCHANGED <<clock, tables>>

\* Variant for the sensitivity runs: a later insert may repeat a version.
VersionAny(v) == TRUE
\* ux_policy_snapshots_org_version.
VersionFree(v) == v \notin Versions

\* INSERT_SNAPSHOT_SQL.  A taken version fails the call, after its commit.
Publish(c) ==
    LET r == request[c] IN
    /\ r.phase = "publish"
    /\ snapshots' = IF VersionFree(r.version)
                    THEN snapshots \cup {[version |-> r.version, payload |-> r.payload]}
                    ELSE snapshots
    /\ Over(c)
    /\ UNCHANGED <<clock, enrollment, device, tokens, bound>>

Elapse ==
    /\ clock < DeviceTime
    /\ clock' = clock + 1
    /\ UNCHANGED <<tables, request>>

Next ==
    \/ \E e \in Enrollments : Begin(e)
    \/ \E c \in Calls, e \in Enrollments :
         FindExpired(c, e) \/ Approve(c, e) \/ Complete(c, e)
    \/ \E c \in Calls, d \in Managed :
         \/ RefreshToken(c, d) \/ Revoke(c, d)
         \/ \E op \in {"heartbeat", "bind", "unbind"} : Enter(c, d, op)
    \/ \E c \in Calls :
         \/ Expire(c) \/ WriteApproval(c) \/ WriteCompletion(c) \/ WriteToken(c)
         \/ Heartbeat(c) \/ Bind(c) \/ Unbind(c) \/ WriteRevocation(c)
         \/ ReadLatest(c) \/ Compile(c) \/ ReadVersion(c) \/ Publish(c)
    \/ Elapse

Spec == Init /\ [][Next]_deviceVars

-----------------------------------------------------------------------------
\* What the rows and the handlers of this module hold.
EnrollmentRow == [status : {"none", "pending", "completed", "expired"},
                  device : Managed \cup {NoDevice}, expires : Nat]
DeviceRow == [status : {"none"}]
        \cup [status : {"active", "revoked"}, key : Keys, seen : 0..DeviceTime]
TokenRow == [id : Calls \cup {First}, device : Managed, expires : Nat]
PolicyPayload == [member : BOOLEAN, bindings : SUBSET Managed, minimum : BOOLEAN]
Handler ==
         [phase : {"new", "over"}]
    \cup [phase : {"expire"}, enrollment : Enrollments]
    \cup [phase : {"approve"}, enrollment : Enrollments, at : 0..DeviceTime]
    \cup [phase : {"complete"}, enrollment : Enrollments, at : 0..DeviceTime, device : Managed]
    \cup [phase : {"token", "heartbeat", "bind", "unbind"}, device : Managed, at : 0..DeviceTime]
    \cup [phase : {"revoke"}, device : Managed]
    \cup [phase : {"latest"}, minimum : BOOLEAN]
    \cup [phase : {"compile"}, minimum : BOOLEAN, latest : SUBSET PolicyPayload]
    \cup [phase : {"version"}, payload : PolicyPayload]
    \cup [phase : {"publish"}, payload : PolicyPayload, version : Nat]

TypeOK ==
    /\ clock \in 0..DeviceTime
    /\ enrollment \in [Enrollments -> EnrollmentRow]
    /\ device \in [Managed -> DeviceRow]
    /\ tokens \subseteq TokenRow
    /\ bound \subseteq Managed
    /\ snapshots \subseteq [version : Nat, payload : PolicyPayload]
    /\ request \in [Calls -> Handler]

\* The device a member approved for an enrollment is the one that enters under
\* it, whatever other approvals and completions are in flight and whatever
\* they read: no later write points the enrollment at another device, a
\* completed enrollment has an approved one, and it carries the key the
\* enrollment was begun with.  APPROVE_ENROLLMENT_SQL has no guard against a
\* second approver (repositories/devices.rs:53-57); the key index has to stop it.
ApprovalStands ==
    [][\A e \in Enrollments :
         LET d == enrollment'[e].device IN
         /\ Approved(e) => d = enrollment[e].device
         /\ enrollment'[e].status = "completed" =>
              d # NoDevice /\ device'[d].key = KeyOf[e]]_deviceVars

\* A revocation stands (revoke_device, require_device): the device row never
\* changes again, although calls that entered before are still running, and
\* no call enters with a token of the device, although a completion or a
\* token refresh in flight may store one after the revocation deleted them all.
RevokedStaysOut ==
    [][\A d \in Managed : device[d].status = "revoked" =>
         /\ device'[d] = device[d]
         /\ \A c \in Calls :
              request[c].phase = "new" => request'[c].phase \notin {"heartbeat", "bind", "unbind"}
                                          \/ request'[c].device # d]_deviceVars

\* A policy version, once published, is one document for ever: refreshes that
\* read the same MAX(policy_version) do not publish two, and versions have no
\* gap, so a device that acknowledged v has seen what every other device saw
\* as v (refresh_policy_snapshot).
VersionsStand ==
    /\ Versions = 1..LastVersion
    /\ \A s, t \in snapshots : s.version = t.version => s = t
=============================================================================
