# Formal models of the Lumi Agents control plane

This directory keeps TLA+ models of the control-plane API in `apps/api` (a Rust
Cloudflare Worker over a D1 database and Cloudflare Queues), the TLC
configurations that check them, and TLAPS proofs about them.
`PROJECT.json` lists components, runs, mutants, the map from definitions to
source lines, findings, hazards and theorems. Source paths below are relative
to `apps/api/src` unless they start with `docs/`.

Run from here:

    tlc -workers 2 -config MCInferenceBudget_race.cfg MCInferenceBudget
    tlapm CatalogProofs.tla

## 1. The system

The worker has no memory between invocations. Everything that lasts is a row in
D1. Three properties of the platform shape every component:

* one D1 statement, and one `batch`, is atomic (`adapters/d1/mod.rs`); between
  two of them any other invocation may run;
* the reply to a batch may be lost although the batch committed, and an
  invocation may end at any `await`;
* queues deliver at least once, in any order, and give up after a configured
  number of redeliveries.

| Component | State | Operations | What is hard | What makes it correct |
|---|---|---|---|---|
| Inference gateway and budgets (`routes/inference.rs`, `repositories/ai.rs`, `repositories/budgets.rs`) | `inference_requests`, `budget_reservations`, `usage_events`, `budgets` | admission, conditional insert, candidate loop, finalization by reader / abort callback / drop guard, budget PATCH, host reservation and reconciliation | three stale reads before one write, finalizers that race, lost replies and invocations | no crossed hard limit, the three records of a call agree, closed stays closed, holds lapse |
| Rate limits (`modules/rate_limits.rs`) | counts derived from usage and requests | one read at admission | check-then-act | concurrency limit |
| Durable outbox (`modules/outbox`, `repositories/outbox.rs`) | `outbox_events` | insert, sweep, inline dispatch, six conditional updates | publish-then-mark, overlapping sweeps, ABA on rows | one final outcome per event, nothing left invisible to the sweep |
| Queues (`adapters/queues`, `consumers/outbox.rs`, `wrangler.jsonc`) | messages, redeliveries | deliver, ack, retry, dead-letter | duplicates, dropped messages | ack only after a durable transition |
| Idempotency (`repositories/idempotency.rs`) | `idempotency_records` | lookup, claim, commit, release, expire | two requests with one key, lost replies, claims left behind | one effect per key and life, replay returns it, no orphan claim |
| Automations (`modules/automations`, `repositories/automations.rs`, `jobs/automations.rs`) | automations, occurrences, leases | create (which cannot commit yet, 2.4), edit, pause, resume, generate, claim, renew, start, settle, release, expire | sweeps against edits and devices, fencing, calendars and daylight saving | no due instant stranded, nothing back-filled, one holder, settled stays settled |
| Runs and approvals (`modules/runs.rs`, `routes/runs.rs`, `routes/device_runs.rs`, `routes/approvals.rs`, `routes/tools.rs`) | runs, run events, tool calls, approvals | transition, cancel, retry, close, decide, resolve, report | sequence numbers read before they are written, decision against expiry | a timeline without gaps that ends in the run's state, no gated call without approval |
| Tool policy (`routes/tools.rs`, `modules/tool_policy.rs`) | policy document, tools, MCP registrations, snapshot section | edits behind versions, publication, evaluation of a call | four reads, one after the other, then an answer | whatever passes found each gate open |
| Organizations (`routes/organizations.rs`) | memberships, invitations | invite, join, role change, remove, leave, transfer, lifecycle | owner counts against concurrent writes | an owner remains, only live tokens join |
| Devices (`routes/devices.rs`, `routes/device_auth.rs`) | devices, enrollments, tokens, bindings, policy snapshots, device codes | enroll, approve, complete, refresh, heartbeat, bind, revoke, publish, exchange | approvals that cross, revocation against calls in flight, version numbers read before use | approvals and revocations stand, one document per version, one session per code |
| Accounts (`routes/auth.rs`, `routes/account.rs`, `routes/authenticators.rs`) | sessions, codes, grants, password, passkeys | sign-in, refresh, recovery, reauthentication, changes of credentials | one-time secrets spent by two requests | each is spent once |
| Machine identity (`routes/machine_identity.rs`, `http/auth.rs`) | service accounts, API keys | create, patch, suspend, rotate, revoke, sign in | guards and updates of one batch, in an order | rotation makes one replacement, revocation revokes |
| AI catalog (`routes/ai_catalog.rs`) | routes, versions, items, credentials | publish, roll back, enable, disable, rotate | an UPDATE that matches no row behind a guard that passed | no route half published, no lineage forked |
| Webhooks, data governance, billing, plugins, staff | - | - | - | not modelled, see section 6 |
| Audit, projects, agents, adapters, web front end | append-only or versioned rows, browser state | - | little concurrency of their own | - |

How they interact: a route reads, decides, and writes business row, audit row,
idempotency record and outbox event in one batch; the outbox hands the event to
the queue; the consumer closes the event. The cron trigger (`lib.rs`) runs the
outbox sweep and the automation sweeps every minute. The inference gateway
shares the budget rows with the administrator's and the host's endpoints. A
device's policy snapshot copies bindings and the tool policy; a device's runs
carry the tool calls that the policy decides.

## 2. Modules

| Module | Models | Theorems in |
|---|---|---|
| `BudgetLedger`, `InferenceBudget` | what the accounting promises of an organization's money; the gateway and the hard budgets of one organization, which implement it | `InferenceBudgetProofs` |
| `EventDelivery`, `Outbox` | what the outbox promises for an event; rows, dispatchers, queues and consumers, which implement it | `OutboxProofs` |
| `Idempotency` | the record behind every keyed mutation, and the three protocols that use it | `IdempotencyProofs` |
| `Schedules` | one automation's definition and cursor, its edits and its generation sweeps | `AutomationsProofs` |
| `Leases` | one occurrence under claims, renewals, starts, settlements, releases and the expiry sweep | `AutomationsProofs` |
| `Calendar` | which instants a rule names, in a zone, and which of them a sweep takes | - |
| `Runs` | the runs of one session, their timelines and retries | `AgentProofs` |
| `ToolCalls` | tool calls and approvals of one run | `AccessProofs` |
| `ToolPolicy` | policy document, tools, registrations, snapshot section, evaluation | `AgentProofs` |
| `Organizations` | lifecycle, members and invitations of one organization | `AccessProofs` |
| `DeviceCodes` | sign-in by device code | `AccessProofs` |
| `MachineIdentity` | service accounts, API keys, sign-in with a key | `AccessProofs` |
| `Devices` | enrollment, tokens, bindings, revocation, policy snapshots | `IdentityProofs` |
| `Accounts` | sessions, one-time secrets and credentials of one user | `IdentityProofs` |
| `Catalog` | routes and versions, provider, model, policy, credentials | `CatalogProofs` |
| `Records` | what a handler knows grows with every read | - |
| `MCInferenceBudget`, `MCAutomations` | instances for TLC | - |
| `MCDevices`, `MCTenancy` | several modules for TLC, one part at a time | `IdentityProofs`, `AccessProofs` |

All modules follow one form. A handler is an invocation with a place where it
stands between two database calls, and what it has read so far; each action is
what it does from one await to the next; a batch is one action, whose guards
are those of its SQL, in the order of its statements. The models meet at the
database only: each keyed route commits its idempotency record and its outbox
event in the same batch, which is the `Commit` of `Idempotency`, the `Commit`
of `Outbox` and the write of the component's module in one atomic step. For
that reason the components can be examined one at a time.

### 2.1 InferenceBudget

One invocation per call. `worker[r]` says between which two awaits of
`run_inference` the invocation stands:

| Phase | Code still to run | Action |
|---|---|---|
| `new` | `run_inference` entry | `Arrive` (fixes `received_at`) |
| `rate` | `p05_rate_admission` (managed calls) | `RateAdmission` |
| `budget` | `p05_budget_admission`, or `hard_budget_remaining` | `ScopedBudgetAdmission`, `OrgBudgetAdmission` |
| `admit` | the first batch: request row and conditional reservation | `Granted`, `Refused`, `AdmissionLost` |
| `denied` | close the refused row, best effort | `Denied` |
| `unwind` | cleanup after a scope mismatch or a failed event batch | `Unwind` |
| `attempt`, `await` | the candidate loop | `Attempt`, `Await` |
| `failing` | last `finalize_request(.., false, ..)` | `Failing` |
| `collect` | `collect_non_streaming` | `Collect` |
| `stream`, `drain` | `make_stream`; reader not yet / already at its end | `ReaderEnd`, `AbortCallback`, `DropStream` |
| `gone` | nothing | |

`row`, `hold`, `heldFor`, `expires` and `used` are the columns of the three
tables; `flag` is the `Rc<Cell<bool>>` the finalizers of a stream share, and
`pending` the finalization batch that has been sent and not answered.
`PendingCommit` answers it in three ways: applied and acknowledged, applied with
the acknowledgement lost, or not applied; only the reader, if it is still
polled, clears the flag on an error. Budgets are evaluated against the clock of
the call's arrival, as the SQL does.

Money is counted as a set of units: `Minor(S)` is the number of pairs of a call
of `S` and a unit of its cost, which equals the SQL `SUM` and lets the prover
argue with finite cardinalities where a recursive sum would be out of its reach.

`BudgetLedger` is the abstract specification: the money of a call is nowhere,
held, spent or returned; it is held only if everything held and spent still fits
every hard organization budget, spent only out of a hold, and returned or spent
once. It knows no workers, clocks, batches or faults. The refinement
(`Position`) reads the usage events and the reservations: a hold whose time is
over counts as returned at that moment, and an unmanaged success, whose usage
event records nothing, returns its hold. `ImplementsLedger` is for instances
in which no host settles a hold in flight, as `HardLimit` is.

Abstractions. All calls have their own request id. A managed success records
exactly what was reserved, an unmanaged one records zero
(`finalize_request`). One budget period. `RetryController` is reduced to "there
is a further candidate or not". A batch error that hides an applied admission
or state update is the same as the update followed by a lost invocation, so it
has no disjunct of its own. `Tick` does not let an invocation outlive its own
reservation: at most 16 candidates of at most 120 s lie well below the 3600 s
of `P05_RESERVATION_TTL_SECONDS`; the bound is an explicit guard. HostReserve
needs a request row with no reservation, which only a refused call leaves.

### 2.2 Outbox and EventDelivery

A dispatcher is one record of a sweep or one inline dispatch: `Select` takes its
snapshot (event and `attempt_count`), `Publish` sends, `Record` performs the
conditional update, `DispatchLost` ends it at any point with the update applied
or not. A send that reports a failure may have been accepted. A consumer holds
one message: `Deliver`, `Read`, `Handle`, `Write`, and `ReadAgain` after an
update that matched no row (`recheck` after a success, `resolve` =
`resolve_changed_state` otherwise). `ConsumerLost` ends it with the update
applied or not, and the platform redelivers. `copy` holds the messages of both
queues with their redelivery counts; `Retry` moves a message to the dead-letter
queue and finally drops it, as `wrangler.jsonc` configures.

`EventDelivery` is the abstract specification: an event is uncommitted, open,
then delivered or dead-lettered for good, and delivered only if a handler run
succeeded. The refinement maps `pending` and `queued` to `open`.

Abstractions. Time is the single bit "the backoff has passed". The order in
which a batch of up to ten messages is handled is an interleaving like any
other; a lost batch is several lost consumers. A sweep is a set of independent
dispatches (the limit of 100 rows only delays). The handler answers success,
permanent or retryable failure at will: the production handler
(`consumers/outbox.rs`) never answers retryable, so the model has more
behaviours than the deployed worker and the same code path.

### 2.3 Idempotency

A key is scoped to principal, organization, method and path, so every request
that carries it is served by one route, and every route follows one of three
protocols:

| `route` | Routes | Protocol |
|---|---|---|
| `batch` | `routes/agents.rs` and the routes that use its `prepare_mutation` | lookup, then one batch; after any error a fresh lookup |
| `scoped` | routes that use `prepare_scoped_mutation` of `routes/usage.rs` | the same, but a constraint error is answered `Guarded` without a lookup |
| `two_phase` | `routes/ai_catalog.rs`, `routes/tools.rs` | lookup, claim in a statement of its own, batch; the claim is released when the handler refuses or the batch fails |

`worker[q]` is where the invocation stands: `lookup`, `claim`, `ready` (between
preparation and batch: reads and refusals), `recheck` (fresh lookup), `withdraw`
and `release` (delete the claim after a refusal, after a failed batch), `gone`.
`Commit` is the batch of `commit_success`: claim, claim guard, business writes,
outbox event, completion, in one atomic step. `by` names the request that wrote
the row; since the token is the server's own request id it stands for token,
fingerprint and author of the saved response at once. Every statement compares
expiry with `arrived` (`context.received_at`), not with `clock`.

Each call can fail without effect or succeed with its answer lost (`Fault`), and
`Crash` ends an invocation anywhere. A handler's refusals and its guards inside
the batch are nondeterministic. `Tick` does not let an invocation live as long as
a record: the platform ends a request long before 24 hours.

Abstractions. `routes/foundation_checks.rs` and the portal session of
`routes/billing.rs` follow the `batch` protocol and report an absent record as
503 instead of 409. Checks of `changes` after a committed batch and the re-read
of `routes/approvals.rs` after a failed one are left out. A new life of the key
begins when the record has expired in server time; a retry that arrived before
that moment and is still running may use the new life, and `OneEffectPerLifetime`
allows it.

### 2.4 Schedules, Leases and Calendar

`Schedules` keeps the row of one automation (`def`), its occurrences, the clock
and whether the organization is active. The only statement that inserts a
definition, `INSERT_AUTOMATION_SQL` (`repositories/automations.rs:225`), names 34
columns and gives 33 values (`?1` to `?28`, `NULL`, `1`, `?29`, `?29`, `?30`), so
the database refuses the batch of `create_automation` and **the code as it stands
can have no automation at all**. The constant variable `repaired` says whether the
missing value is there. Where it is FALSE nothing ever comes to be (theorem
`NothingIsCreated`); where it is TRUE, `Create` commits, received at some instant
up to now, and everything that the module says of edits and sweeps is said of
that code with its INSERT repaired.

A request is `Arrive` (the version its caller saw, the time it was received at,
and the row as its handler reads it), then `Handle`, its batch, which asserts the
version again. A pass of the sweep, `Generate`, lists the due definition of an
active organization, and later sends the batch that asserts the cursor it read;
up to `MaxLost` of them die in between. `Lifecycle` suspends and resumes the
organization. `Instants` and `Skipped` say which instants a rule names, without
saying how. A request may be received at the very instant of the row's cursor,
in the code within one millisecond and in the model within one unit of the clock.
`tie` remembers that such a request restarted the cursor; from then on
`NoInstantStranded` and the part of `NoBackfill` about the revision promise
nothing, because the guard of a sweep compares cursors only and a plan made by
the old revision passes it.

`Calendar` says how: civil dates, zones with transitions, the enumeration of
cron and interval rules with its limits, `plan_due_occurrences` and
`plan_next_run`. Its calendar is a small one (days of a few units, a year of two
months) and has no leap years. One sweep runs at a time there; `named` keeps the
rule's reference definition beside the algorithm.

`Leases` follows one occurrence. `Begin` and `Serve` are the two database calls
of claim, renew, start, settle and release, `ExpiryBegin` and `ExpiryCommit`
those of the expiry sweep. It starts with an occurrence that is there, which
takes a definition that the INSERT above cannot make yet. Three statements name one placeholder less than the
values bound to them; whether the database rejects or runs them is not decided
in the repository, so `binding` is either, for the whole behaviour.

Left out: quotas, page limits, the parsing of rules, overlap policies and
dispatch plans, which have no caller.

### 2.5 Runs, ToolCalls and ToolPolicy

`Runs`: every invocation reads the run, then the next sequence number or the
highest attempt, then sends its batch, which the unique keys of `run_events` and
`runs` may abort (`Conflict`). A retry by the user writes two events of the new
run, one by a device writes one; both are the one `Retry`. `waiting_user`, `waiting_approval` and `timed_out`
are never written by any handler and are not in the model.

`ToolCalls`: a decision evaluates the policy (`Evaluate`), looks up call and
approval (`LookUpApproval`), reads the sequence (`ReadEvents`) and writes
(`Decide`); a resolution and a report likewise. The batch asserts nothing that
was read. `granted` remembers each approval that a user has given, with the call,
the time and the end it was given for: `AllowIsEarned` asks every answer "allow" of
a gated call for one of these, and so does not take the row that a decision writes
for itself when it inherits a session's approval (`Resolved`). The policy of this
module is one verdict.

`ToolPolicy` opens that verdict: a decision reads tool, registration, policy and
snapshot one after the other and evaluates what it has read. Agents,
capabilities, browser and computer rules "may deny a call or ask for more"; a
tool's review and disabled states are one, as are a registration's pending,
denied and disabled. `Watch` keeps, for each call, the gates that have been
open to it at some time since it arrived, against which its answer is compared.

### 2.6 Organizations and Accounts

`Organizations`: a request reads the organization and its caller's membership,
then its target, then writes. What was read counts in the write only as far as
its SQL repeats it, so the guards of the `Write...` actions are the WHERE
clauses. An invitation's expiry is compared with the time its acceptance was
received at, and so is it in `OnlyLiveTokensJoin`: an acceptance on the way when the
token expires still counts. The property names one exception, which the code has: of
two acceptances that both read the invitation while it was pending, the second
brings its user back when the user was removed after the first. Teams, names, and the revocation of sessions in later statements are
left out.

`Accounts` is one user after sign-up. A code's row is spent by one conditional
UPDATE (`Consume`, `RecordFailure`), a reauthentication grant by another
(`ConsumeGrant`), and only then does a batch of its own write. Expiry is a
nondeterministic step that turns a secret's row; whether it had expired is
decided by the time of the request.

### 2.7 Devices and DeviceCodes

`Devices`: an enrollment is begun, approved, completed or expired, each a read
and a write by the same call; the calls that change what a snapshot shows then
go on to `ReadLatest`, `Compile`, `ReadVersion` and `Publish`. `Compile` is
several queries in the code and one reading here. The device that is there at the
start was approved, and its enrollment is pending or completed. `minimum` is put
there by an operator, and only one handler passes it on.

`DeviceCodes`: start, approval and exchange of one authorization. The loser of
two exchanges has committed a session row, but its answer delivers nothing
(`delivered`).

### 2.8 MachineIdentity

A handler receives one command, reads, counts, and sends one batch, whose
statements are taken in their order: the guards of patch, suspend, resume and
revoke see the row their own UPDATE has written. Secrets and expiry dates are a
refusal that a sign-in may meet at any time.

### 2.9 Catalog

One route and its versions; a provider, a model and the model policy; a lineage
of credentials. `Asserted` is the guard on the version that opens a batch; the
UPDATE behind it may match no row, and the other statements of the batch commit
all the same. A caller names the version that it has loaded. Aliases, creation of
providers and models, credentials of the platform and of users are left out.

### 2.10 Composition

`MCAutomations`, `MCDevices` and `MCTenancy` EXTEND several components and let
TLC explore one at a time: `part` is chosen in the initial state, the part that
is named moves, and the others keep one initial state. The parts share no row and
no guard of one reads a row of another, so their interleavings would add states
and no behaviour. That every behaviour of `MCDevices` and `MCTenancy` is one of each
of their parts is proved (`DevicesKeepToTheirParts`, `TenancyKeepsToItsParts`), so a
theorem about a part is one about the composition.

## 3. Runs

| Run | Instance | Question | Result |
|---|---|---|---|
| `budget_race` | 3 calls (streamed, collected, unmanaged) of cost 1, 2, 1; an organization budget of 2 that is patched to 1; 1 fault | can any interleaving cross a hard organization limit, part the three records of a call, reopen a closed row, or move money in a way that `BudgetLedger` does not allow? | no (1.3 million states) |
| `budget_live` | 2 managed calls, 2 candidates, organization and project budget, host settlement, 1 fault, fairness | do calls close and holds lapse? | yes |
| `budget_scoped` | 2 calls under a project and a user budget | does recorded spend stay within every hard budget? | no: finding |
| `outbox_race` | 1 event, 2 dispatchers, 2 consumers, 2 messages, 1 fault, fairness | safety of the protocol, refinement of `EventDelivery`, and an outcome for every event | holds (433 thousand) |
| `automations` | definition: 2 rules, 2 requests, 2 sweeps, 1 lost, the INSERT repaired or not; occurrence: 2 devices; calendar: 14 rules in 3 zones over a year of 12 units; catalog: 2 calls, 3 configurations | due instants, cursor, holders of leases, settled occurrences, slots, and the catalog's rows | holds (337 thousand) |
| `lease_expired` | the same, fairness | is an expired claim offered again? | no: finding |
| `calendar_next` | the same | is the next run the first instant that the rule names? | no: finding |
| `devices` | devices: 3 enrollments of 2 keys, 3 calls; account: 1 code, 2 requests; runs: 2 requests, up to 3 runs; policy: 1 tool, 1 registration, 3 policies, 2 edits, 1 snapshot, 1 decision | approvals, revocations, versions, secrets, timelines, gates | holds (1.3 million) |
| `tenancy` | idempotency: 1 key, 3 requests, 1 fault; organization: 2 users, 1 invitation, 3 requests; device code: 2 users, 3 requests; tool calls: 2 calls, 2 decisions, 2 resolutions, 1 report; machine identity: 2 accounts, 3 keys, 2 requests | effects per record, owners, tokens, sessions per code, approvals, rotations | holds (1.9 million) |
| `version_conflict` | the same | does a version conflict mean that the row changed? | no: finding |
| `org_owner` | the same | does an organization keep an owner? | no: finding |
| `session_refresh` | the instance of `devices` | has a session one successor? | no: finding |

Why the bounds are enough. Every hazard here is a reading that a write of
another invocation makes stale; two invocations that read before either writes
show it, and a third is there where one more kind of operation can come between
(an unmanaged call, a request with another body, a demotion beside two that count).
The budget's costs 1, 2, 1 against a limit of 2 make one call fit, two fit or
not, never all. Events in the outbox do not interact (no statement names two of
them), and no statement on `idempotency_records` names two keys. Clocks run far
enough for whatever lives to expire and be taken over. The calendar's small year
has a month that lacks a day the other has, weeks that do not fit into it, and
rules that find their instant only at the limit of the search. The proofs then
remove the bounds for everything but the calendar.

Bounds on the start and the steps, where an instance would be too large:
`MCInit` of `MCTenancy` leaves out plain members and an invitation of the
founder, and starts tool calls under a policy that gates them; `MCPolicyInit`
starts with no tool, or with a plugin's tool that a policy lists;
`MCRunBound` lets a note be written only while there are fewer runs than the
bound; `MCInit` of `MCAutomations` names the first configuration to be published
`x1` and the second `x2` and lets `q1` be the first request to arrive (`InTurn`),
which are choices of names; the definition, where it is not the part that moves, is
absent and not repaired.

Symmetry is used in the two instances without liveness: calls of `Devices` and
of `Runs`, deciders and tool calls of `ToolCalls`. These sets are only ever
compared for equality. The configurations give requests of different parts the
same names, which costs nothing as one part moves.

Deadlock checking is off: calls that have closed, events that have an outcome,
requests that have been answered and clocks at their bound leave nothing to do.

Fairness. In the gateway `WorkerStep` is weakly fair because the runtime resumes
an invocation whose database or provider call has answered, and provider calls
have a deadline; a stream is dropped when it was read or the caller left.
Arrivals, host calls, patches, aborts, crashes and reaching the end of a stream
are not fair. In the outbox and the automations the sweep is fair because the
cron trigger fires every minute, `Deliver` because the queue delivers what it
holds, consumer and dispatcher steps because an invocation that is not lost runs
on; time passes. Requests of administrators and devices, and faults, are never
fair. The other modules state no liveness: a request that is not lost is a fixed
number of calls, and nothing waits for it. `lease_expired` runs under `MCLeaseSpec`,
in which the expiry sweep and time are fair.

## 4. Proofs

TLAPS proves the following for every value of the constants that satisfies the
named assumptions of the modules (`ParametersOK`, `OutboxParameters`,
`ScheduleParameters`, `LeaseConstants`, `OrgConstants`, `AccountConstants`,
`RunConstants`, `ToolConstants`, `PolicyConstants`, `CatalogConstants`,
`CodeConstants`, `MachineConstants`; the theorems of `Devices` carry `Constants`,
which `MCDevices` assumes). They say that ids differ from the value for "none",
that bounds are numbers, and for `Runs` that invocations are finitely many.

Every module but `Calendar` has its type theorem. Each of the others rests on an inductive
invariant that says what an invocation in flight still knows.

| Theorem | Inductive invariant | The argument |
|---|---|---|
| `BooksAlwaysAgree`, `ClosedRowsStay`, `SettledHoldsStay`, `HardLimit`, `KeepsLedger`, `ExposureAlwaysFits`, `SpendWithinSeparateLimits` (`InferenceBudget`) | `IInv` | see below |
| `QueuedAlwaysCarried`, `RequeuesAreNewVersions`, `AcknowledgedIsDurable`, `Implements` (`Outbox`) | `IInv` | see below |
| `RowsAlwaysTellEffects`, `AnswersAlwaysTrue`, `NoOrphanWithoutFault`, `OneEffect` (`Idempotency`) | `IInv` | see below |
| `NothingIsCreated`, `NextRunInSight`, `CursorIsMonotone`, `NothingBackfilled` (`Schedules`) | `IndInv` = types, `RequestsKnow`, `SweepsKnow`, `CursorKnows`, `NotYet`, `NothingWithoutRepair`, `NoInstantStranded` | before the creation there is nothing to read, and without the repair there is none; what a request or a pass has read at the row's present version or cursor is still so; the cursor is never before the last restart; every nonempty set of instants has a least one (`LeastExists`, by well-foundedness) |
| `OneHolderAlways`, `NoOccurrenceStarts`, `SettledAlwaysStays`, `ClaimedIsStuck` (`Leases`) | `LeaseInv` = types, `CallsKnow`, `LeaseKnows`, `NothingStarts` | nothing in the code ends a lease: its row is made once, for the device that is told so, and an active lease refuses every later claim; a call has read a state that is not final at a version that a settlement moves on; the start's guard asks for the link that the batch makes |
| `VersionsAlwaysStand`, `ApprovalsAreFinal`, `RevocationsStand` (`Devices`) | `Inv` = types, `HandlersKnow`, `ApprovalsEnroll`, `Gapless`, `PublishersBehind`, `OnePayload` | versions are 1 to the last, and a publisher's number is at most the next one, so the unique key lets it through only without a gap; an approval is final and a device row is never deleted |
| `CodeAlwaysOpensOneSession` (`DeviceCodes`) | `CodeInv` = types, `ExchangesKnow`, the property | a code never becomes pending again, so the user that an exchange has read is still the code's; the conditional UPDATE consumes it in the step that delivers |
| `RevocationNeverCommits`, `RotationsStand` (`MachineIdentity`) | `KeyInv` = `HandlersKnow`, `RotationsFound`, `AccountsStayAsMade`, `NoKeyIsRevoked` | an UPDATE at the named version moves the row away from that version, so the guard behind it always aborts the batch |
| `AllowAlwaysEarned`, `ResolutionsFinal` (`ToolCalls`) | `ToolInv` = `RowsTyped`, `ApprovalsInOrder`, `DecidersKnow`, `ResolversKnow`, `ReportersKnow`, `RowsRest`, `DecidersEarn`, `ResolversEarn`, `AllowIsEarned` | an approval's version counts request, resolution and use; every approved row, the inherited ones too, rests on an approval that a user gave (`RowsRest`), and who answers "allow" read one that was open when it asked |
| `PolicyAlwaysStands` (`ToolPolicy`) | `PolicyInv` = `PolicyRows`, `EditorsKnow`, `PublishersKnow`, `AskersKnow` | a version names one state of a row; what was read opened its gate at that time; a narrowed section never allows more (`NarrowedAllowsLess`) |
| `HistoryAlwaysWhole` (`Runs`) | `RunInv` = `RunRows`, `RetriesAreLinked`, `RunCallsKnow`, `RunsBounded` | one number of a timeline is written once, and a batch that read an older state and an older number is aborted by the unique key or by the state it names |
| `LastOwnerAlwaysSpared`, `OnlyLiveTokensEverJoin`, `OwnerRemainsOtherwise` (`Organizations`) | `OrgInv` = `RowsFit`, `RequestsFit`; for the tokens `AcceptsKnow`, `AcceptedBelong` | a count above one, inside the statement, leaves another owner (`AnotherOwner`); an accepted invitation belongs to a user who has a membership row ever since (`MembersStay`), so an acceptance that finds one can at most bring a removed member back |
| `SecretsAreSpentOnce` (`Accounts`) | `AccountInv` = `AccountRows`, `CallsKnow`, `GrantsAreOwn`, `SpentOnce` | a secret that was spent stays spent (`SpentStays`), and whoever goes on has spent it |
| `SessionsStayEnded`, `OldStateIsRevoked`, `OneSuccessorInTurn` (`Accounts`) | `AccountInv` and `SessionsKnow` | a session gets the id of the request that opens it, which opens no other; a refresh that has answered has revoked its session in the same batch, and a session that was ended is never opened again |
| `DevicesKeepToTheirParts`, `DevicesTypesStay` (`MCDevices`), `TenancyKeepsToItsParts`, `TenancyTypeCorrect` (`MCTenancy`) | those of the parts | a step of one part leaves the variables of the others alone, so it is a step or a stutter of every part |
| `CatalogAlwaysStands` (`Catalog`) | `CatalogInv` = `CatalogRows`, `LineageIsLinear`, `AsksKnow` | a guard that holds at the version that was read means that the row is the row that was read (`EndStands`); a publication read a route that exists |

`HardLimit` is proved under `HostSettled = {}`: a host that settles a hold while
its call is in flight frees room that the call still uses, so without the
assumption the property is false; the three theorems beside it carry the same
assumption.
`KeepsLedger` follows the moves of a single call (`OneCallMoves`: nothing to held to
spent or returned) and of the clock, which may return several holds at once
(`TickGivesBack`); that a new hold fits is the gate's (`GrantHolds`).

Five theorems go with findings and say how far they reach. `RevocationNeverCommits`
and `ClaimedIsStuck` show that what the runs `version_conflict` and
`lease_expired` find in a small instance happens in every one.
`SpendWithinSeparateLimits`, `OwnerRemainsOtherwise` and `OneSuccessorInTurn` name
the steps that break the documented property and prove it where they do not occur:
a narrower budget shares calls with another budget (or is tightened by an
administrator); a transfer goes to a member who has left, or an owner accepts an
invitation; two refreshes of one session are under way at once. The
hypotheses are about what callers do, not about the code, and behaviours that meet
them exist in the instances of the runs.

The inductive invariant of the budget says, call by call, where the row and the
hold can be in each phase of the worker (`NothingYet`, `RefusedClean`,
`StillHeld`), who may still send a finalization (`SenderHasFlag`), and that a
living invocation is within the life of its reservation (`OnTime`).
`BooksAgree` is not inductive without it: a finalizer that comes second is
harmless only because the first one moved the hold out of `reserved`, and
because a second success cannot add a second usage event. `HardLimit` rests on
`OwedIsLive` (what a call turns into spend was held live a moment before), on
`GrantFits` (the gate admits a call only where it fits, even though it reads an
older clock, because an older clock counts at least as many live holds), and
on cardinality lemmas about `Minor`.

The inductive invariant of the outbox treats `attempt_count` as a version of the
row: whoever holds a snapshot of the current version may write, and each return
to `pending` makes a new version (`Snapshots`). `Published` says that while a
dispatch may still mark its row queued, a message is on its way whose
acknowledgement would change the row first; `Resolving` says the same for a
consumer that lost a race. The refinement is proved step by step from the
moves of a single row (`RowMove`).

The inductive invariant of the idempotency record is built around
`EffectsHeld`: as long as an effect's 24 hours last, the key's row is the
completed row of that very request. With `Timely` (a living invocation arrived
less than a record's life ago) it gives `OneEffect`: whoever may still claim the
key arrived after the earlier effect had expired, and whoever owns a pending row
shows that no such effect is alive. `ClaimsAreTwoPhase` says that a pending row
comes only from a two-phase claim, which is why the other protocols cannot leave
an orphan; `AnsweredIsOver` keeps an answered request from acting again.

Model-checked only:

* liveness (`HoldsLapse`, `CallsClose`, `EventuallySettled`, `DueIsGenerated`):
  fairness and ENABLED are out of the prover's reach;
* `SlotsAreRight` of `Calendar`: the enumeration is recursive, and what a
  recursion computes for every input needs induction over data, which the
  installed provers cannot do; the module keeps RECURSIVE operators and no proof
  module reaches it;
* `MCTypeOK` of `MCAutomations`, because `MCAutomations` reaches `Calendar`: its
  conjuncts `TypeOK`, `LeaseTypeOK` and `CatalogTypeOK` are proved of `Schedules`,
  `Leases` and `Catalog`, and only `CalendarTypeOK` rests on the run;
* the six violations, which need one counterexample.

## 5. Findings

Six statements of the repository's documents and comments do not hold of the code;
each has a run that shows it (`budget_scoped`, `lease_expired`, `calendar_next`,
`version_conflict`, `org_owner`, `session_refresh`), described with quotations in
`PROJECT.json`.

Known from the reading, and part of the models, but not asked by a run:

* Gateway: the concurrency limit is read and never compared again
  (`routes/inference.rs:1046`); a host that releases a hold in flight lets spend
  pass the hard limit (`routes/budgets.rs:1234`); the row of a lost invocation
  stays active for ever and keeps a concurrency slot.
* Outbox: when both queues give up on its message a row stays queued, which no
  sweep selects. Idempotency: under `prepare_scoped_mutation` the loser of two
  identical requests is told of a guard and not given the stored answer
  (`routes/usage.rs:254`).
* Automations: no definition can be created, because `INSERT_AUTOMATION_SQL` is short
  of one value (theorem `NothingIsCreated`); an edit and an earlier cursor with one
  timestamp let a sweep pass that planned by the old revision (`tie`);
  `assert_run_link_absent` is inverted, so no start commits
  (theorem `NoOccurrenceStarts`); `occurrence.attempt` is never incremented; an
  edit of the schedule adds two to the version and answers one;
  `run_automation_sweeps` leaves by `?`, so one bad row skips the lease sweep
  (`lib.rs:241`). The catch-up takes the newest of the oldest 64 slots
  (`modules/automations/schedule.rs:1797`); in zones of positive offset a batch
  around a transition is not ascending, and a slot may be lost.
* Devices: an approval may insert its device although the enrollment expired
  meanwhile, whose key is then refused for ever; two completions of one
  enrollment both get a token (`docs/implementation/gates/P03-CG.md:18` says
  single-use); a slower refresh may publish an older reading as the latest
  snapshot; `revoke_device` publishes none.
* Tool policy: an approved registration whose tool list changes stays approved,
  and the catalog takes the present list for the reviewed one
  (`routes/tools.rs:1197`; `docs/specs/f13-tools-mcp-browser-computer-use-policies.md:125`
  and `docs/implementation/gates/P05-CG.md:286` ask for a new review, which
  `PolicyStands` therefore does not promise); an `update_tool` that changes the
  fingerprint is refused unless it also names a lifecycle; a snapshot of a time when the posture was
  deny strips a tool of its stricter approval rule; a call that is denied on
  its first request reads as requested (`routes/tools.rs:1942`).
* Machine identity: the limits are counted before the insert, so concurrent
  requests pass them; two concurrent rotations leave two live replacements.
* Catalog: behind a passed guard a zero-row UPDATE commits what rides with it:
  a publication on a disabled route adds a version, stores a success for its
  idempotency key and answers `version_conflict`; a retry with the key is then
  replayed the success. A credential of the platform is not retired by its
  replacement. Similar for the lifecycle of an organization
  (`routes/organizations.rs:1405`).
* Organizations: the upsert of the membership asks for an accepted invitation with the
  token of the same user, whenever it was accepted (`repositories/organizations.rs:167`), so that a
  second acceptance, on the way while the user is removed, brings the
  user back; `docs/implementation/gates/P02-CG.md:20` and
  `:101` call the token single-use. `OnlyLiveTokensJoin` names it as its exception.
* Accounts: two revocations of the last two passkeys of an account without a
  password each count the other (`routes/authenticators.rs:1281`).

## 6. Not modelled, and why

* Webhooks and notifications: no event reaches them. `fan_out_event_statement`
  and `insert_notification_statement` have no caller, and `find_endpoint` binds
  endpoint and organization in swapped order.
* Data governance: its jobs cannot be created. The statement of the queue
  envelope names 11 placeholders for 12 values, so the batches never commit, and
  no code sends to the jobs queue.
* Billing: no code inserts a subscription or a billing account, and the provider's
  callback has no caller.
* Plugins, rollouts, staff: nothing writes packages or versions, the version
  guards stand behind their UPDATEs, and the flag routes resolve an empty
  organization.
* Route scoring, provider protocols, token estimates, stream rendering, envelope
  decoding, error messages and logging: data the properties do not tell apart.
* Cryptography, WebAuthn, e-mail, object storage and the browser client: pure I/O
  or arithmetic outside a model checker's reach.
* Per-minute rate limits, budget periods and currencies, teams, projects and
  agents: plain counts, or versioned rows behind one conditional update.

## 7. Plan

What is left, in this order:

1. The operators of `Calendar` as functions in a module of their own, so that what
   does not need induction (dates in range, transitions applied in order) can be
   proved.
2. An abstract occurrence (offered, held, settled) that `Leases` implements, as
   `BudgetLedger` is for the gateway and `EventDelivery` for the outbox.
3. Rate limits with the window of a minute, and budgets of several periods.
4. Host-reported usage and its corrections beside the events of the gateway.

Liveness stays with TLC.
