------------------------------ MODULE Catalog ------------------------------
(***************************************************************************)
(* The AI catalog of one organization: a route and its versions, a         *)
(* provider, a model and the model policy, and a lineage of credentials    *)
(* (apps/api/src/routes/ai_catalog.rs, repositories/ai.rs).                *)
(*                                                                         *)
(* Every handler reads its row, decides, and sends one batch that a guard  *)
(* on the row's version opens.  The UPDATE behind the guard has conditions *)
(* of its own and may match no row; the other statements of the batch are  *)
(* committed all the same, and the handler answers version_conflict.       *)
(*                                                                         *)
(* The idempotency record that rides in each batch is module Idempotency.  *)
(* A caller names the version that it has loaded; one that names an older  *)
(* version is refused at the first test.                                   *)
(***************************************************************************)
EXTENDS Naturals, Sequences, FiniteSets, SequencesExt

CONSTANTS
    CatalogCalls,   \* each served once
    Configs,        \* route configurations, by their hash
    FirstCredential,
    NoCredential

ASSUME CatalogConstants ==
    FirstCredential \notin CatalogCalls /\ NoCredential \notin CatalogCalls \cup {FirstCredential}

VARIABLES
    published,      \* the route: its lifecycle, the number of its active version, its version
    versions,       \* route_versions: a sequence, for the rows are never changed
    item,           \* the rows of a provider, a model and the policy
    credential,     \* credentials rows
    asked           \* asked[c]: where the handler of c stands, and its answer

catalogVars == <<published, versions, item, credential, asked>>

\* A credential that a call makes has an id of the call's key.
Secrets == {FirstCredential} \cup CatalogCalls
Items == {"provider", "model", "policy"}
Lifecycles(i) == IF i = "policy" THEN {"allows", "denies"} ELSE {"active", "deprecated", "disabled"}

NoRoute == [lifecycle |-> "absent", active |-> 0, version |-> 0]
NoSecret == [status |-> "absent", version |-> 0, parent |-> NoCredential]
NewSecret(parent) == [status |-> "active", version |-> 1, parent |-> parent]

\* Nothing, a draft, or a route that has been published twice; an organization
\* that has set a policy or has not; a credential.
CatalogInit ==
    /\ \E a, b \in Configs :
           \/ published = NoRoute /\ versions = <<>>
           \/ /\ published = [lifecycle |-> "draft", active |-> 0, version |-> 1]
              /\ versions = <<[config |-> a, published |-> FALSE]>>
           \/ /\ a # b
              /\ published = [lifecycle |-> "published", active |-> 3, version |-> 3]
              /\ versions = <<[config |-> a, published |-> FALSE], [config |-> a, published |-> TRUE],
                              [config |-> b, published |-> TRUE]>>
    /\ \E p \in {[state |-> "absent", version |-> 0], [state |-> "allows", version |-> 1]} :
           item = [i \in Items |-> IF i = "policy" THEN p ELSE [state |-> "active", version |-> 1]]
    /\ credential = [s \in Secrets |-> IF s = FirstCredential THEN NewSecret(NoCredential) ELSE NoSecret]
    /\ asked = [c \in CatalogCalls |-> [at |-> "new"]]

-----------------------------------------------------------------------------
Commands ==
    [kind : {"create_route", "publish"}, config : Configs]
    \cup [kind : {"rollback"}, number : DOMAIN versions]
    \cup [kind : {"lifecycle"}, to : {"draft", "published", "disabled"}]
    \cup (UNION {[kind : {"change"}, item : {i}, to : Lifecycles(i)] : i \in Items})
    \cup [kind : {"create_credential"}]
    \cup [kind : {"rotate", "revoke"}, credential : {s \in Secrets : credential[s].status # "absent"}]

\* The row that a command is about, as it stands.
RowOf(m) ==
    CASE m.kind = "change" -> item[m.item]
      [] m.kind \in {"rotate", "revoke"} -> credential[m.credential]
      [] OTHER -> published

At(c, phase, kinds) == asked[c].at = phase /\ asked[c].command.kind \in kinds
Goes(c, phase) == asked' = [asked EXCEPT ![c].at = phase]
Answers(c, a) == asked' = [asked EXCEPT ![c].at = "over", ![c].answer = a]
Reads(c, phase, row) == asked' = [asked EXCEPT ![c].at = phase, ![c].row = row]

\* Authorization, and the version that the caller has loaded.
ArriveAtCatalog(c) ==
    /\ asked[c].at = "new"
    /\ \E m \in Commands :
           asked' = [asked EXCEPT ![c] =
               [at |-> "read", command |-> m, named |-> RowOf(m).version, row |-> RowOf(m),
                seen |-> 0, answer |-> "none"]]
    /\ UNCHANGED <<published, versions, item, credential>>

\* publish_route and rollback_route: find_route.
ReadRoute(c) ==
    /\ At(c, "read", {"publish", "rollback"})
    /\ IF published = NoRoute THEN Answers(c, "not_found") ELSE Reads(c, "list", published)
    /\ UNCHANGED <<published, versions, item, credential>>

\* org_policy and validate_config_references.
Routable == item["policy"].state = "allows" /\ item["provider"].state = "active" /\ item["model"].state = "active"

\* The version that a publication finds to use again.
Reusable(c) ==
    {n \in 1..asked[c].seen : versions[n].published /\ versions[n].config = asked[c].command.config}

\* publish_route: the references, the version, and list_route_versions.
ReadVersions(c) ==
    LET again == {n \in DOMAIN versions :
                      versions[n].published /\ versions[n].config = asked[c].command.config}
    IN
    /\ At(c, "list", {"publish"})
    /\ IF ~Routable THEN Answers(c, "refused")
       ELSE IF asked[c].named # asked[c].row.version THEN Answers(c, "conflict")
       ELSE IF asked[c].row.active \in again THEN Answers(c, "duplicate")
       ELSE asked' = [asked EXCEPT ![c].at = "write", ![c].seen = Len(versions)]
    /\ UNCHANGED <<published, versions, item, credential>>

\* rollback_route: the target among list_route_versions.
ReadTarget(c) ==
    LET n == asked[c].command.number
    IN
    /\ At(c, "list", {"rollback"})
    /\ IF ~versions[n].published THEN Answers(c, "not_found")
       ELSE IF asked[c].row.active = n THEN Answers(c, "duplicate")
       ELSE Goes(c, "write")
    /\ UNCHANGED <<published, versions, item, credential>>

\* create_route: the references.
Check(c) ==
    /\ At(c, "read", {"create_route"})
    /\ IF Routable THEN Goes(c, "write") ELSE Answers(c, "refused")
    /\ UNCHANGED <<published, versions, item, credential>>

\* update_route_lifecycle.
ReadLifecycle(c) ==
    LET to == asked[c].command.to
    IN
    /\ At(c, "read", {"lifecycle"})
    /\ IF published = NoRoute THEN Answers(c, "not_found")
       ELSE IF asked[c].named # published.version THEN Answers(c, "conflict")
       ELSE IF to = "published" /\ published.active = 0 THEN Answers(c, "version_required")
       ELSE IF published.lifecycle = "disabled" THEN Answers(c, "terminal")
       ELSE Reads(c, "write", published)
    /\ UNCHANGED <<published, versions, item, credential>>

Changes(c, phase, items) == At(c, phase, {"change"}) /\ asked[c].command.item \in items

\* update_policy
ReadPolicy(c) ==
    /\ Changes(c, "read", {"policy"})
    /\ IF asked[c].named # item["policy"].version THEN Answers(c, "conflict")
       ELSE Reads(c, "write", item["policy"])
    /\ UNCHANGED <<published, versions, item, credential>>

\* update_provider_lifecycle and update_model_lifecycle.
ReadItem(c) ==
    LET row == item[asked[c].command.item]
    IN
    /\ Changes(c, "read", {"provider", "model"})
    /\ IF asked[c].named # row.version THEN Answers(c, "conflict")
       ELSE IF row.state = "disabled" THEN Answers(c, "terminal")
       ELSE Reads(c, "write", row)
    /\ UNCHANGED <<published, versions, item, credential>>

\* rotate_credential and revoke_credential: find_credential_for_owner sees no
\* revoked row; only a revocation names a version.
ReadCredential(c) ==
    LET row == credential[asked[c].command.credential]
    IN
    /\ At(c, "read", {"rotate", "revoke"})
    /\ IF row.status = "revoked" THEN Answers(c, "not_found")
       ELSE IF asked[c].command.kind = "revoke" /\ asked[c].named # row.version
       THEN Answers(c, "conflict")
       ELSE Reads(c, "write", row)
    /\ UNCHANGED <<published, versions, item, credential>>

-----------------------------------------------------------------------------
(* The batches.                                                            *)

\* The version that the handler has read still stands.
RowStands(c) == RowOf(asked[c].command).version = asked[c].row.version

\* Variant for the sensitivity runs: the guard is left out.
GuardOpen(c) == TRUE
\* assert_route_version_statement and its like; for a policy that is not
\* there, assert_policy_absent_statement.
GuardHolds(c) == RowStands(c)

\* A statement of the batch fails, and nothing is written.
Aborts(c, holds) ==
    /\ ~holds
    /\ Answers(c, "unavailable")
    /\ UNCHANGED <<published, versions, item, credential>>

\* The count of the UPDATE decides the answer, after the commit.
Counted(c, matched) == Answers(c, IF matched THEN "ok" ELSE "conflict")

\* The alias of an organization's route is unique.
CreateRoute(c) ==
    /\ At(c, "write", {"create_route"})
    /\ \/ Aborts(c, published = NoRoute)
       \/ /\ published = NoRoute
          /\ published' = [lifecycle |-> "draft", active |-> 0, version |-> 1]
          /\ versions' = <<[config |-> asked[c].command.config, published |-> FALSE]>>
          /\ Answers(c, "ok")
          /\ UNCHANGED <<item, credential>>

\* PUBLISH_ROUTE_SQL, ROLLBACK_ROUTE_SQL: the pointer moves if the lifecycle allows.
Points(c, n, allowed) ==
    published' = IF RowStands(c) /\ published.lifecycle \in allowed
                 THEN [lifecycle |-> "published", active |-> n, version |-> published.version + 1]
                 ELSE published

\* A publication points at the published version with its configuration, or
\* at a new one; numbers and published configurations are unique.
Publish(c) ==
    LET config == asked[c].command.config
        number == asked[c].seen + 1
        new == Reusable(c) = {}
        free == /\ number \notin DOMAIN versions
                /\ \A n \in DOMAIN versions : versions[n].published => versions[n].config # config
        holds == GuardHolds(c) /\ (new => free)
    IN
    /\ At(c, "write", {"publish"})
    /\ \/ Aborts(c, holds)
       \/ /\ holds
          /\ versions' = IF new THEN Append(versions, [config |-> config, published |-> TRUE])
                         ELSE versions
          /\ Points(c, IF new THEN number ELSE CHOOSE n \in Reusable(c) : TRUE, {"draft", "published"})
          /\ Counted(c, published' # published)
          /\ UNCHANGED <<item, credential>>

Rollback(c) ==
    /\ At(c, "write", {"rollback"})
    /\ \/ Aborts(c, GuardHolds(c))
       \/ /\ GuardHolds(c)
          /\ Points(c, asked[c].command.number, {"published"})
          /\ Counted(c, published' # published)
          /\ UNCHANGED <<versions, item, credential>>

\* UPDATE_ROUTE_LIFECYCLE_SQL
SetLifecycle(c) ==
    LET matched == RowStands(c) /\ published.lifecycle # "disabled"
    IN
    /\ At(c, "write", {"lifecycle"})
    /\ \/ Aborts(c, GuardHolds(c))
       \/ /\ GuardHolds(c)
          /\ published' = IF matched THEN [published EXCEPT !.lifecycle = asked[c].command.to,
                                                            !.version = @ + 1]
                          ELSE published
          /\ Counted(c, matched)
          /\ UNCHANGED <<versions, item, credential>>

\* The UPDATE of an item, and what rides with it.
Writes(c, i, matched) ==
    \/ Aborts(c, GuardHolds(c))
    \/ /\ GuardHolds(c)
       /\ item' = IF matched
                  THEN [item EXCEPT ![i] = [state |-> asked[c].command.to, version |-> item[i].version + 1]]
                  ELSE item
       /\ Counted(c, matched)
       /\ UNCHANGED <<published, versions, credential>>

\* INSERT_POLICY_SQL and UPDATE_POLICY_SQL
SetPolicy(c) == Changes(c, "write", {"policy"}) /\ Writes(c, "policy", RowStands(c))

\* UPDATE_PROVIDER_LIFECYCLE_SQL
SetProvider(c) ==
    /\ Changes(c, "write", {"provider"})
    /\ Writes(c, "provider", RowStands(c) /\ item["provider"].state # "disabled")

\* UPDATE_MODEL_LIFECYCLE_SQL has no condition on the lifecycle.
SetModel(c) == Changes(c, "write", {"model"}) /\ Writes(c, "model", RowStands(c))

CreateCredential(c) ==
    /\ At(c, "read", {"create_credential"})
    /\ credential' = [credential EXCEPT ![c] = NewSecret(NoCredential)]
    /\ Answers(c, "ok")
    /\ UNCHANGED <<published, versions, item>>

\* A rotation inserts the successor and revokes its parent.
ReplaceCredential(c) ==
    LET s == asked[c].command.credential
        matched == RowStands(c) /\ credential[s].status # "revoked"
        successor == IF asked[c].command.kind = "rotate" THEN NewSecret(s) ELSE credential[c]
        revoked == [credential[s] EXCEPT !.status = "revoked", !.version = @ + 1]
    IN
    /\ At(c, "write", {"rotate", "revoke"})
    /\ \/ Aborts(c, GuardHolds(c))
       \/ /\ GuardHolds(c)
          /\ credential' = [credential EXCEPT ![c] = successor,
                                              ![s] = IF matched THEN revoked ELSE @]
          /\ Counted(c, matched)
          /\ UNCHANGED <<published, versions, item>>

CatalogNext ==
    \E c \in CatalogCalls :
        \/ ArriveAtCatalog(c) \/ ReadRoute(c) \/ ReadVersions(c) \/ ReadTarget(c) \/ Check(c)
        \/ ReadLifecycle(c) \/ ReadPolicy(c) \/ ReadItem(c) \/ ReadCredential(c)
        \/ CreateRoute(c) \/ Publish(c) \/ Rollback(c) \/ SetLifecycle(c)
        \/ SetPolicy(c) \/ SetProvider(c) \/ SetModel(c)
        \/ CreateCredential(c) \/ ReplaceCredential(c)

CatalogSpec == CatalogInit /\ [][CatalogNext]_catalogVars

-----------------------------------------------------------------------------
CatalogTypeOK ==
    /\ published.lifecycle \in {"absent", "draft", "published", "disabled"}
    /\ published.active \in 0..Len(versions)
    /\ \A n \in DOMAIN versions : versions[n].config \in Configs /\ versions[n].published \in BOOLEAN
    /\ \A i \in Items : item[i].state \in Lifecycles(i) \cup (IF i = "policy" THEN {"absent"} ELSE {})
    /\ \A s \in Secrets : /\ credential[s].status \in {"absent", "active", "revoked"}
                          /\ credential[s].parent \in Secrets \cup {NoCredential}
    /\ \A c \in CatalogCalls : asked[c].at \in {"new", "read", "list", "write", "over"}

\* The gateway finds a published version behind every published route, and a
\* configuration is published under one number.
RouteIsWhole ==
    /\ published.lifecycle = "published" => published.active # 0
    /\ published.active # 0 => versions[published.active].published
    /\ \A m, n \in DOMAIN versions :
           versions[m].published /\ versions[n].published /\ m # n => versions[m].config # versions[n].config

\* A credential that was replaced is revoked, and was replaced once: a lineage
\* has one live credential at most.
LineageIsLinear ==
    \A s \in CatalogCalls : credential[s].parent # NoCredential =>
        /\ credential[credential[s].parent].status = "revoked"
        /\ \A t \in CatalogCalls \ {s} : credential[t].parent # credential[s].parent

\* No row changes but from the state that the handler of the change has read
\* (a policy or route that appears has been read absent).
ChangesAreSeen ==
    \A c \in CatalogCalls :
        /\ asked[c].at = "write" /\ asked'[c].at = "over" /\ asked[c].command.kind # "create_route"
        /\ RowOf(asked[c].command)' # RowOf(asked[c].command)
        => asked[c].row = RowOf(asked[c].command)

\* Published versions are kept as they are, what is disabled stays disabled,
\* and a revoked credential stays revoked.
NothingReturns ==
    /\ IsPrefix(versions, versions')
    /\ published.lifecycle = "disabled" => published' = published
    /\ \A i \in Items : item[i].state = "disabled" => item'[i] = item[i]
    /\ \A s \in Secrets : credential[s].status = "revoked" => credential'[s] = credential[s]

\* P04-CG.md: a published route version "is immutable", rotation "immediately
\* revokes the prior version", a disabled entry ends its lifecycle: whatever
\* publications, rollbacks, disablements and rotations cross.
CatalogStands == [][RouteIsWhole' /\ LineageIsLinear' /\ ChangesAreSeen /\ NothingReturns]_catalogVars
=============================================================================
