-------------------------- MODULE MachineIdentity --------------------------
(***************************************************************************)
(* The service accounts of one organization and their API keys             *)
(* (apps/api/src/routes/machine_identity.rs), and the sign-in with a key   *)
(* (require_machine of apps/api/src/http/auth.rs).                         *)
(*                                                                         *)
(* Every handler reads, decides, and sends one batch.  The statements of a *)
(* batch run in order: the version guards of patch, suspend, resume and    *)
(* revoke follow the UPDATE they guard, and see the row it has written.    *)
(*                                                                         *)
(* The idempotency record that rides in each batch is module Idempotency;  *)
(* a reply lost after a commit is the commit.  Expiry dates and wrong      *)
(* secrets are a refusal that a sign-in may meet at any time.              *)
(***************************************************************************)
EXTENDS Integers, FiniteSets

CONSTANTS
    ServiceAccounts, ApiKeys,   \* the ids that may be minted
    KeyRequests,                \* each served once
    Capabilities,
    Versions,                   \* bound: the versions a request names
    MaxAccounts,                \* MAX_ACTIVE_SERVICE_ACCOUNTS_PER_ORG
    MaxKeys,                    \* MAX_ACTIVE_KEYS_PER_ACCOUNT
    NoKey

\* The version that a request names is an i64.
ASSUME MachineConstants == Versions \subseteq Int

VARIABLES
    account,       \* service_accounts rows
    key,           \* api_keys rows
    served         \* served[q]: where the handler of q stands, and its answer

machineVars == <<account, key, served>>

NoAccount == [status |-> "absent", version |-> 0, capabilities |-> {}]
MissingKey == [status |-> "absent", version |-> 0, account |-> NoKey,
               from |-> NoKey, to |-> NoKey, used |-> FALSE]
NewKey(a, from) == [status |-> "active", version |-> 1, account |-> a,
                    from |-> from, to |-> NoKey, used |-> FALSE]

Exists(row) == row.status # "absent"
ActiveKeys(a) == {k \in ApiKeys : key[k].status = "active" /\ key[k].account = a}
ActiveAccounts == {a \in ServiceAccounts : account[a].status = "active"}

Commands ==
    [kind : {"create_account"}, capabilities : SUBSET Capabilities]
    \cup [kind : {"patch"}, account : ServiceAccounts, version : Versions,
          capabilities : SUBSET Capabilities]
    \cup [kind : {"suspend", "resume"}, account : ServiceAccounts, version : Versions]
    \cup [kind : {"create_key"}, account : ServiceAccounts,
          capabilities : SUBSET Capabilities]
    \cup [kind : {"rotate", "authenticate"}, key : ApiKeys]
    \cup [kind : {"revoke"}, key : ApiKeys, version : Versions]

\* Nothing, or an account with at most one key, made by earlier requests.
MachineInit ==
    /\ \E made \in SUBSET ServiceAccounts, minted \in SUBSET ApiKeys :
           /\ Cardinality(made) <= 1 /\ Cardinality(minted) <= 1
           /\ account = [a \in ServiceAccounts |->
                  IF a \in made
                  THEN [status |-> "active", version |-> 1, capabilities |-> Capabilities]
                  ELSE NoAccount]
           /\ \/ minted = {} /\ key = [k \in ApiKeys |-> MissingKey]
              \/ \E a \in made :
                     key = [k \in ApiKeys |-> IF k \in minted THEN NewKey(a, NoKey)
                                              ELSE MissingKey]
    /\ served = [q \in KeyRequests |-> [at |-> "new"]]

-----------------------------------------------------------------------------
At(q, phase, kinds) == served[q].at = phase /\ served[q].command.kind \in kinds
Proceeds(q, phase) ==
    served' = [served EXCEPT ![q] = [at |-> phase, command |-> served[q].command]]
Responds(q, a) ==
    served' = [served EXCEPT ![q] =
                   [at |-> "gone", command |-> served[q].command, answer |-> a]]

\* Authorization; a transition of an account reads nothing before its batch.
Receive(q) ==
    /\ served[q].at = "new"
    /\ \E c \in Commands :
           served' = [served EXCEPT ![q] =
               [at |-> IF c.kind = "create_account" THEN "count"
                       ELSE IF c.kind \in {"suspend", "resume"} THEN "write" ELSE "read",
                command |-> c]]
    /\ UNCHANGED <<account, key>>

\* patch_service_account and create_api_key: find_account and what is asked of it.
ReadAccount(q) ==
    LET c == served[q].command
        row == account[c.account]
    IN
    /\ At(q, "read", {"patch", "create_key"})
    /\ IF ~Exists(row) THEN Responds(q, "not_found")
       ELSE IF c.kind = "patch" THEN Proceeds(q, "write")
       ELSE IF row.status # "active" THEN Responds(q, "suspended")
       ELSE IF ~(c.capabilities \subseteq row.capabilities) THEN Responds(q, "capability_unknown")
       ELSE Proceeds(q, "count")
    /\ UNCHANGED <<account, key>>

\* The counts behind the limits: read here, not asked again by the INSERT.
Count(q) ==
    LET c == served[q].command
        full == IF c.kind = "create_account" THEN Cardinality(ActiveAccounts) >= MaxAccounts
                ELSE Cardinality(ActiveKeys(c.account)) >= MaxKeys
    IN
    /\ At(q, "count", {"create_account", "create_key"})
    /\ IF full THEN Responds(q, "limit_reached") ELSE Proceeds(q, "write")
    /\ UNCHANGED <<account, key>>

\* rotate_api_key and revoke_api_key: find_key; only rotation asks is_terminal.
ReadKey(q) ==
    LET c == served[q].command
        row == key[c.key]
        terminal == row.status \in {"revoked", "rotated", "expired"}
    IN
    /\ At(q, "read", {"rotate", "revoke"})
    /\ IF ~Exists(row) THEN Responds(q, "not_found")
       ELSE IF c.kind = "rotate" /\ terminal THEN Responds(q, "terminal")
       ELSE Proceeds(q, "write")
    /\ UNCHANGED <<account, key>>

-----------------------------------------------------------------------------
\* INSERT_ACCOUNT_SQL.  The unique index on names refuses a name that is taken.
CreateAccount(q) ==
    /\ At(q, "write", {"create_account"})
    /\ \/ \E a \in ServiceAccounts :
              /\ ~Exists(account[a])
              /\ account' = [account EXCEPT ![a] =
                     [status |-> "active", version |-> 1,
                      capabilities |-> served[q].command.capabilities]]
              /\ Responds(q, "ok")
       \/ /\ \E a \in ServiceAccounts : Exists(account[a])
          /\ Responds(q, "conflict") /\ UNCHANGED account
    /\ UNCHANGED key

\* UPDATE_ACCOUNT_SQL, SUSPEND_ACCOUNT_SQL and RESUME_ACCOUNT_SQL: the row after it.
Changed(row, c) ==
    IF /\ Exists(row) /\ row.version = c.version
       /\ c.kind = "suspend" => row.status = "active"
       /\ c.kind = "resume" => row.status = "suspended"
    THEN [status |-> IF c.kind = "suspend" THEN "suspended"
                     ELSE IF c.kind = "resume" THEN "active" ELSE row.status,
          version |-> row.version + 1,
          capabilities |-> IF c.kind = "patch" THEN c.capabilities ELSE row.capabilities]
    ELSE row

\* ASSERT_ACCOUNT_VERSION_SQL.
AccountGuard(row, c) == Exists(row) /\ row.version = c.version

\* The batch of an account's change: the UPDATE, then the guard.
ChangeAccount(q) ==
    LET c == served[q].command
        row == Changed(account[c.account], c)
    IN
    /\ At(q, "write", {"patch", "suspend", "resume"})
    /\ IF AccountGuard(row, c)
       THEN account' = [account EXCEPT ![c.account] = row] /\ Responds(q, "ok")
       ELSE UNCHANGED account /\ Responds(q, "version_conflict")
    /\ UNCHANGED key

\* patch_service_account, and transition_service_account for suspend and resume.
PatchAccount(q) == At(q, "write", {"patch"}) /\ ChangeAccount(q)
TransitionAccount(q) == At(q, "write", {"suspend", "resume"}) /\ ChangeAccount(q)

\* INSERT_KEY_SQL of create_api_key.
CreateKey(q) ==
    /\ At(q, "write", {"create_key"})
    /\ \E k \in ApiKeys :
           /\ ~Exists(key[k])
           /\ key' = [key EXCEPT ![k] = NewKey(served[q].command.account, NoKey)]
    /\ Responds(q, "ok")
    /\ UNCHANGED account

\* Variant for the sensitivity runs: the UPDATE does not ask for the status.
MarkableAgain(row) == Exists(row)
\* The WHERE clause of MARK_KEY_ROTATED_SQL.
Markable(row) == row.status = "active"

\* MARK_KEY_ROTATED_SQL: the row after it.
Rotated(row, new) ==
    IF Markable(row)
    THEN [row EXCEPT !.status = "rotated", !.to = new, !.version = row.version + 1]
    ELSE row

\* rotate_api_key: INSERT_KEY_SQL for the replacement, then MARK_KEY_ROTATED_SQL,
\* which may match no row.
RotateKey(q) ==
    LET old == served[q].command.key IN
    /\ At(q, "write", {"rotate"})
    /\ \E new \in ApiKeys :
           /\ ~Exists(key[new])
           /\ key' = [key EXCEPT
                  ![new] = NewKey(key[old].account, old),
                  ![old] = Rotated(key[old], new)]
    /\ Responds(q, "ok")
    /\ UNCHANGED account

\* REVOKE_KEY_SQL: the row after it.
Revoked(row, c) ==
    IF row.status = "active" /\ row.version = c.version
    THEN [row EXCEPT !.status = "revoked", !.version = row.version + 1]
    ELSE row

\* ASSERT_KEY_VERSION_SQL.
KeyGuard(row, c) == row.status = "active" /\ row.version = c.version

\* The batch of revoke_api_key.
RevokeKey(q) ==
    LET c == served[q].command
        row == Revoked(key[c.key], c)
    IN
    /\ At(q, "write", {"revoke"})
    /\ IF KeyGuard(row, c)
       THEN key' = [key EXCEPT ![c.key] = row] /\ Responds(q, "ok")
       ELSE UNCHANGED key /\ Responds(q, "version_conflict")
    /\ UNCHANGED account

-----------------------------------------------------------------------------
\* require_machine: key and account in one read.
Authenticate(q) ==
    LET row == key[served[q].command.key] IN
    /\ At(q, "read", {"authenticate"})
    /\ \/ Responds(q, "key_invalid")
       \/ /\ row.status = "active" /\ account[row.account].status = "active"
          /\ Proceeds(q, "touch")
    /\ UNCHANGED <<account, key>>

\* touch_key_use, best effort and whatever has become of the key; then the answer.
Touch(q) ==
    /\ At(q, "touch", {"authenticate"})
    /\ \/ LET k == served[q].command.key IN
          key' = [key EXCEPT ![k] = [key[k] EXCEPT !.used = TRUE]]
       \/ UNCHANGED key
    /\ Responds(q, "ok")
    /\ UNCHANGED account

\* The invocation ends before its next await returns, its batch not applied.
Lose(q) ==
    /\ served[q].at \notin {"new", "gone"}
    /\ Responds(q, "none")
    /\ UNCHANGED <<account, key>>

MachineNext ==
    \E q \in KeyRequests :
        \/ Receive(q) \/ ReadAccount(q) \/ Count(q) \/ ReadKey(q)
        \/ CreateAccount(q) \/ PatchAccount(q) \/ TransitionAccount(q)
        \/ CreateKey(q) \/ RotateKey(q) \/ RevokeKey(q)
        \/ Authenticate(q) \/ Touch(q) \/ Lose(q)

MachineSpec == MachineInit /\ [][MachineNext]_machineVars

-----------------------------------------------------------------------------
Accounts == [status : {"absent", "active", "suspended"}, version : Nat,
             capabilities : SUBSET Capabilities]
KeyTypes == [status : {"absent", "active", "rotated", "revoked"}, version : Nat,
             account : ServiceAccounts \cup {NoKey}, from : ApiKeys \cup {NoKey},
             to : ApiKeys \cup {NoKey}, used : BOOLEAN]
Replies == {"not_found", "suspended", "capability_unknown", "limit_reached", "terminal",
            "key_invalid", "ok", "conflict", "version_conflict", "none"}
Handlers == [at : {"new"}]
       \cup [at : {"read", "count", "write", "touch"}, command : Commands]
       \cup [at : {"gone"}, command : Commands, answer : Replies]

MachineTypeOK ==
    /\ account \in [ServiceAccounts -> Accounts]
    /\ key \in [ApiKeys -> KeyTypes]
    /\ served \in [KeyRequests -> Handlers]
    /\ \A k \in ApiKeys : Exists(key[k]) => key[k].account \in ServiceAccounts

\* A key dies by rotation only together with the birth of its replacement, which
\* knows it, and what replaced it is never rewritten, however many rotations and
\* sign-ins were on their way (rotate_api_key, MARK_KEY_ROTATED_SQL).
RotationStep ==
    \A k \in ApiKeys :
        /\ key[k].status = "active" /\ key'[k].status = "rotated" =>
               \E n \in ApiKeys :
                   /\ key'[k].to = n /\ ~Exists(key[n])
                   /\ key'[n] = NewKey(key[k].account, k)
        /\ key[k].status = "rotated" =>
               key'[k].status = "rotated" /\ key'[k].to = key[k].to

RotationStands == [][RotationStep]_machineVars

\* A refusal with version_conflict tells that the row has changed: it is no longer
\* at the version the caller named (the comments of ASSERT_ACCOUNT_VERSION_SQL and
\* ASSERT_KEY_VERSION_SQL, and the message of the answer).
ConflictStep ==
    \A q \in KeyRequests :
        served[q].at = "write" /\ served'[q].at = "gone"
        /\ served'[q].answer = "version_conflict" =>
            LET c == served[q].command IN
            IF c.kind = "revoke" THEN ~KeyGuard(key[c.key], c)
            ELSE ~AccountGuard(account[c.account], c)

ConflictMeansChanged == [][ConflictStep]_machineVars
=============================================================================
