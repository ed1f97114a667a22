------------------------------- MODULE Leases --------------------------------
(***************************************************************************)
(* One automation occurrence from the row the generation sweep leaves to   *)
(* its end: the lease calls of devices (apps/api/src/routes/automations.rs)*)
(* and the lease-expiry sweep (apps/api/src/jobs/automations.rs).          *)
(*                                                                         *)
(* Every call reads the occurrence and the lease and later sends one       *)
(* batch; an expired lease is picked up by the sweep in the same two       *)
(* steps.  RENEW_LEASE_SQL, SETTLE_LEASE_SQL and CLOSE_LEASE_SQL name one  *)
(* placeholder less than the values bound to them, and reuse ?3 for two    *)
(* columns.  What the database does with such a statement is outside the   *)
(* repository: `binding` says whether it rejects it, which rolls the batch *)
(* back, or runs it, and then its WHERE clause matches no row.             *)
(***************************************************************************)
EXTENDS Naturals, FiniteSets

CONSTANTS
    Devices,      \* devices of the organization
    NoDevice,
    TTL,          \* lease_ttl_seconds
    LeaseTime,    \* bound: clock values 0..LeaseTime
    MaxVersion    \* bound: state_version

ASSUME LeaseConstants == TTL \in Nat /\ LeaseTime \in Nat /\ MaxVersion \in Nat \ {0}

VARIABLES
    now,        \* server time
    binding,    \* "rejected" or "ignored": never changes
    occ,        \* automation_occurrences: state and state_version
    lease,      \* the automation_leases rows, at most one active
    attempts,   \* automation_occurrence_attempts: <<attempt, outcome>>
    runs,       \* automation_run_links of the occurrence
    call,       \* what each device's invocation has read, or None
    expiring,   \* the same for the expiry sweep
    granted     \* devices that were answered 201 with a lease token

leaseVars == <<now, binding, occ, lease, attempts, runs, call, expiring, granted>>

None     == [op |-> "none"]
Ops      == {"claim", "renew", "start", "fail", "release"}
Terminal == {"succeeded", "failed", "cancelled", "missed", "skipped", "ambiguous"}
States   == {"pending", "dispatching", "leased", "started"} \cup Terminal
NoLease  == [state |-> "none", holder |-> NoDevice, expires |-> 0]

\* One occurrence, as a sweep has inserted it.  It presupposes a definition,
\* which INSERT_AUTOMATION_SQL as it stands does not create (module Schedules).
LeaseInit ==
    /\ now = 0
    /\ binding \in {"rejected", "ignored"}
    /\ occ = [state |-> "pending", version |-> 1]
    /\ lease = NoLease
    /\ attempts = {} /\ runs = {}
    /\ call = [d \in Devices |-> None]
    /\ expiring = None
    /\ granted = {}

\* Variant for the sensitivity runs: an update by primary key.
UnmovedBlind(seen) == TRUE
\* The occurrence still is what the invocation read.
Unmoved(seen) == occ.state = seen.state /\ occ.version = seen.version

\* TRANSITION_OCCURRENCE_SQL: a compare-and-set that may match no row.
Transition(seen, next) ==
    occ' = IF Unmoved(seen) THEN [state |-> next, version |-> occ.version + 1] ELSE occ

\* assert_lease_current_statement.  Version and fence never move from 1,
\* because renew_lease_statement matches no row.
LeaseCurrent == lease.state = "active"

\* A batch with one of the three lease updates commits only if the database
\* runs the statement; the lease row is the same afterwards.
LeaseUpdateRuns == binding = "ignored"

\* ux_automation_occurrence_attempts
Recordable(outcome) == <<1, outcome>> \notin attempts
Record(outcome) == attempts' = attempts \cup {<<1, outcome>>}

Close(d) == call' = [call EXCEPT ![d] = None]

-----------------------------------------------------------------------------
\* The first half of every device call: the rows it reads and the tests it
\* makes on them.
Accepts(op, d) ==
    /\ op = "claim" => occ.state \in {"pending", "dispatching"}
    /\ op # "claim" => lease.state = "active" /\ lease.holder = d
    /\ op = "renew" => occ.state \in {"leased", "started"}
    /\ op \in {"start", "fail"} => occ.state = "leased"
    /\ op = "release" => occ.state = "leased" /\ runs = {}

Begin(d, op) ==
    /\ call[d].op = "none"
    /\ Accepts(op, d)
    /\ occ.version < MaxVersion
    /\ call' = [call EXCEPT ![d] =
           [op |-> op, at |-> now, state |-> occ.state, version |-> occ.version]]
    /\ UNCHANGED <<now, binding, occ, lease, attempts, runs, expiring, granted>>

\* Variant for the sensitivity runs: without the projection and the indexes.
ClaimableBlind(d) == occ.state \in {"pending", "leased"} /\ runs = {}
\* assert_occurrence_claimable_statement, and the unique indexes on the active
\* lease and on (occurrence, attempt).  The occurrence's own attempt counter
\* is never written, so every claim is attempt 1.
Claimable(d) == Unmoved(call[d]) /\ lease.state # "active" /\ runs = {} /\ lease = NoLease

Claim(d) ==
    /\ call[d].op = "claim"
    /\ IF Claimable(d)
       THEN /\ occ' = [state |-> "leased", version |-> occ.version + 1]
            /\ lease' = [state |-> "active", holder |-> d, expires |-> call[d].at + TTL]
            /\ Record("claimed")
            /\ granted' = granted \cup {d}
       ELSE UNCHANGED <<occ, lease, attempts, granted>>
    /\ Close(d)
    /\ UNCHANGED <<now, binding, runs, expiring>>

\* The occurrence's copy of the expiry moves on; the lease's own does not.
Renew(d) ==
    /\ call[d].op = "renew"
    /\ IF LeaseCurrent /\ LeaseUpdateRuns THEN Transition(call[d], call[d].state) ELSE UNCHANGED occ
    /\ Close(d)
    /\ UNCHANGED <<now, binding, lease, attempts, runs, expiring, granted>>

\* assert_run_link_absent_statement aborts the batch unless the attempt has a
\* link already, and then the handler has answered with it before this.
LinkGuardHolds == runs # {}

Start(d) ==
    /\ call[d].op = "start"
    /\ IF LeaseCurrent /\ Unmoved(call[d]) /\ LinkGuardHolds
       THEN /\ Transition(call[d], "started")
            /\ runs' = runs \cup {d}
            /\ Record("started")
       ELSE UNCHANGED <<occ, runs, attempts>>
    /\ Close(d)
    /\ UNCHANGED <<now, binding, lease, expiring, granted>>

\* settle_occurrence with outcome "failed", the only one a leased occurrence
\* can take.
Settle(d) ==
    /\ call[d].op = "fail"
    /\ IF LeaseCurrent /\ Unmoved(call[d]) /\ LeaseUpdateRuns /\ Recordable("failed")
       THEN Transition(call[d], "failed") /\ Record("failed")
       ELSE UNCHANGED <<occ, attempts>>
    /\ Close(d)
    /\ UNCHANGED <<now, binding, lease, runs, expiring, granted>>

\* release_occurrence asserts the lease, not the occurrence.
Release(d) ==
    /\ call[d].op = "release"
    /\ IF LeaseCurrent /\ LeaseUpdateRuns /\ Recordable("released")
       THEN Transition(call[d], "pending") /\ Record("released")
       ELSE UNCHANGED <<occ, attempts>>
    /\ Close(d)
    /\ UNCHANGED <<now, binding, lease, runs, expiring, granted>>

-----------------------------------------------------------------------------
\* EXPIRED_LEASES_SQL.
Expired == lease.state = "active" /\ lease.expires <= now
           /\ occ.state \in {"dispatching", "leased", "started"}

ExpiryBegin ==
    /\ expiring = None
    /\ Expired
    /\ occ.version < MaxVersion
    /\ expiring' = [op |-> "expire", at |-> now, state |-> occ.state, version |-> occ.version]
    /\ UNCHANGED <<now, binding, occ, lease, attempts, runs, call, granted>>

\* Variant for the sensitivity runs: the lease's state, not an occurrence's.
AfterExpiryRaw(seen) == IF seen.state = "started" \/ runs # {} THEN "ambiguous" ELSE "expired"
\* decide_lease_expiry.  The attempt it compares is the occurrence's, always 0,
\* so a lease lost before the start is always requeued.
AfterExpiry(seen) == IF seen.state = "started" \/ runs # {} THEN "ambiguous" ELSE "pending"

ExpiryCommit ==
    /\ expiring # None
    /\ IF LeaseCurrent /\ Unmoved(expiring) /\ LeaseUpdateRuns /\ Recordable("expired")
       THEN Transition(expiring, AfterExpiry(expiring)) /\ Record("expired")
       ELSE UNCHANGED <<occ, attempts>>
    /\ expiring' = None
    /\ UNCHANGED <<now, binding, lease, runs, call, granted>>

Pass ==
    /\ now < LeaseTime
    /\ now' = now + 1
    /\ UNCHANGED <<binding, occ, lease, attempts, runs, call, expiring, granted>>

-----------------------------------------------------------------------------
Serve(d) == Claim(d) \/ Renew(d) \/ Start(d) \/ Settle(d) \/ Release(d)

LeaseNext ==
    \/ \E d \in Devices : (\E op \in Ops : Begin(d, op)) \/ Serve(d)
    \/ ExpiryBegin \/ ExpiryCommit \/ Pass

\* The cron trigger runs the sweep every minute, and time passes.
LeaseFairness ==
    WF_leaseVars(ExpiryBegin) /\ WF_leaseVars(ExpiryCommit) /\ WF_leaseVars(Pass)

LeaseSpec == LeaseInit /\ [][LeaseNext]_leaseVars /\ LeaseFairness

-----------------------------------------------------------------------------
LeaseTypeOK ==
    /\ now \in 0..LeaseTime
    /\ binding \in {"rejected", "ignored"}
    /\ occ \in [state : States, version : 1..MaxVersion]
    /\ lease \in {NoLease} \cup [state : {"active"}, holder : Devices, expires : Nat]
    /\ attempts \subseteq {1} \X {"claimed", "started", "failed", "released", "expired"}
    /\ runs \subseteq Devices /\ granted \subseteq Devices

\* Only one device is ever told that it holds the occurrence, and while the
\* occurrence is leased or started that device holds the active lease, whatever
\* the order in which claims, releases, settlements and the sweep commit.
OneHolder ==
    /\ Cardinality(granted) <= 1
    /\ occ.state \in {"leased", "started"} => lease.state = "active" /\ lease.holder \in granted

\* A settled occurrence stays settled: a late release, renewal or expiry that
\* read it earlier changes nothing.
SettledStays ==
    [][occ.state \in Terminal => occ' = occ]_leaseVars

\* What the claim handler and the schema say of an expiry before the start
\* (routes/automations.rs: "A `pending` occurrence re-enters this path after a
\* proven pre-start lease expiry."): the lease ends, so that the occurrence can
\* be claimed again.
ExpiredIsReoffered ==
    lease.state = "active" /\ lease.expires <= now /\ occ.state = "leased"
        ~> occ.state \in Terminal \/ lease.state # "active"
=============================================================================
