------------------------------ MODULE Accounts ------------------------------
(***************************************************************************)
(* One user's account: sessions, passkeys, password, and the one-time      *)
(* secrets that open or change them (apps/api/src/routes/auth.rs,          *)
(* account.rs, authenticators.rs).                                         *)
(*                                                                         *)
(* A request reads what it was given (its session, a code), spends a       *)
(* secret with one conditional UPDATE, and only then writes, in a batch of *)
(* its own.  Anything may commit between these steps, and the Worker may   *)
(* stop between them.  Whether a secret has expired is decided by the time *)
(* the request was received.                                               *)
(***************************************************************************)
EXTENDS Naturals, FiniteSets, Records

CONSTANTS
    AccountCalls, \* requests, each served once; also the ids of what they insert
    FirstSession, \* the id of the session, passkey and grant there are before them
    Codes,        \* ids of challenges, ceremonies and recovery challenges
    MaxAttempts   \* the 10 of CONSUME_CHALLENGE_SQL and its kin

ASSUME AccountConstants == FirstSession \notin AccountCalls /\ MaxAttempts \in Nat

VARIABLES
    session,      \* session[s]: "none", "live", "expired" or "revoked"
    passkey,      \* passkey[p]: "none", "active" or "revoked"
    password,     \* whether a password is configured
    code,         \* code[k]: the row of a one-time code, or NoRow
    grant,        \* grant[g]: the reauthentication grant, or NoRow
    call          \* call[c]: what the handler of c has read and done

accountVars == <<session, passkey, password, code, grant, call>>

Ids == AccountCalls \cup {FirstSession}
NoRow == [status |-> "absent"]

Anonymous == {"login", "passkey", "reset"}      \* kinds of code, and
Bound == {"add", "reauth"}                      \* those of one session
Purposes == {"passkey_management", "password_change"}

PendingCode(kind) == [status |-> "pending", kind |-> kind, attempts |-> 0, open |-> TRUE]
PendingFor(kind, s, purpose) == With(PendingCode(kind), [session |-> s, purpose |-> purpose])
Granted(s, purpose) == [status |-> "issued", session |-> s, purpose |-> purpose, open |-> TRUE]

\* A signed-in user with one passkey, perhaps a password, and secrets at hand.
AccountInit ==
    /\ session = [s \in Ids |-> IF s = FirstSession THEN "live" ELSE "none"]
    /\ passkey = [p \in Ids |-> IF p = FirstSession THEN "active" ELSE "none"]
    /\ password \in BOOLEAN
    /\ code \in [Codes -> {NoRow} \cup {PendingCode(kind) : kind \in Anonymous}
           \cup {PendingFor(kind, FirstSession, "passkey_management") : kind \in Bound}]
    /\ grant \in {[g \in Ids |-> IF g = FirstSession THEN Granted(FirstSession, purpose) ELSE NoRow] :
                     purpose \in Purposes}
    /\ call = [c \in AccountCalls |-> [phase |-> "new"]]

-----------------------------------------------------------------------------
Proceeds(c, r) == call' = [call EXCEPT ![c] = r]
Asks(c, r) ==
    /\ call[c].phase = "new"
    /\ Proceeds(c, r)
    /\ UNCHANGED <<session, passkey, password, code, grant>>

\* require_session.
Live(s) == session[s] = "live"

\* login_start, passkey_login_start, password_forgot.
Issue(k, kind) ==
    /\ code[k] = NoRow
    /\ code' = [code EXCEPT ![k] = PendingCode(kind)]
    /\ UNCHANGED <<session, passkey, password, grant, call>>

\* reauth_passkey_start.
StartReauthentication(k, s, purpose) ==
    /\ Live(s) /\ code[k] = NoRow
    /\ \E p \in Ids : passkey[p] = "active"
    /\ code' = [code EXCEPT ![k] = PendingFor("reauth", s, purpose)]
    /\ UNCHANGED <<session, passkey, password, grant, call>>

\* The answer a client gives to a code: the right one or not.
Answer(c, k, right) ==
    [phase |-> IF right THEN "consume" ELSE "miss", op |-> code[k].kind, code |-> k,
     intime |-> code[k].open]

\* login_complete, passkey_login_complete, password_reset.
Present(c, k, right) ==
    LET kind == code[k].kind IN
    /\ code[k].status = "pending" /\ kind \in Anonymous
    /\ kind = "login" \/ code[k].open
    /\ kind = "passkey" => \E p \in Ids : passkey[p] = "active"
    /\ Asks(c, Answer(c, k, right))

\* passkey_add_complete, reauth_passkey_complete: only the first counts a
\* wrong answer.
PresentInSession(c, k, s, right) ==
    LET kind == code[k].kind IN
    /\ Live(s)
    /\ code[k].status = "pending" /\ kind \in Bound /\ code[k].session = s /\ code[k].open
    /\ kind = "reauth" => right /\ \E p \in Ids : passkey[p] = "active"
    /\ Asks(c, With(Answer(c, k, right), [session |-> s, purpose |-> code[k].purpose]))

PasswordLogin(c) ==
    /\ password
    /\ Asks(c, [phase |-> "write", op |-> "password"])

\* reauthenticate; reauth_password has the same effect under more conditions.
Reauthenticate(c, s, purpose) ==
    /\ Live(s)
    /\ Asks(c, [phase |-> "write", op |-> "reauthenticate", session |-> s,
                   purpose |-> purpose])

\* refresh, logout, revoke_session, revoke_all_sessions.
EndSession(c, s, op, target) ==
    /\ Live(s)
    /\ IF op = "revoke" THEN session[target] # "none" ELSE target = s
    /\ Asks(c, [phase |-> "write", op |-> op, session |-> s, target |-> target])

\* set_account_password, revoke_passkey, rename_passkey, passkey_add_start:
\* what they check before they spend their grant.
Guarded == {"set_password", "revoke_passkey", "rename_passkey", "start_add"}
PurposeOf(op) == IF op = "set_password" THEN "password_change" ELSE "passkey_management"

\* can_revoke_passkey.
CanRevoke(p) ==
    passkey[p] = "active" /\ (password \/ \E q \in Ids \ {p} : passkey[q] = "active")

Guard(c, s, op, g, p) ==
    /\ Live(s)
    /\ op = "revoke_passkey" => CanRevoke(p)
    /\ op = "rename_passkey" => passkey[p] = "active"
    /\ op \in {"set_password", "start_add"} => p = FirstSession     \* of no use
    /\ grant[g] # NoRow
    /\ Asks(c, [phase |-> "grant", op |-> op, session |-> s, grant |-> g,
                   intime |-> grant[g].open, passkey |-> p])

-----------------------------------------------------------------------------
\* CONSUME_CHALLENGE_SQL, CONSUME_CEREMONY_SQL, CONSUME_RECOVERY_SQL.
Spends(r) ==
    code[r.code].status = "pending" /\ code[r.code].attempts < MaxAttempts /\ r.intime

Consume(c) ==
    LET r == call[c] IN
    /\ r.phase = "consume"
    /\ IF Spends(r)
       THEN /\ code' = [code EXCEPT ![r.code].status = "consumed",
                                   ![r.code].attempts = code[r.code].attempts + 1]
            /\ Proceeds(c, [r EXCEPT !.phase = "write"])
       ELSE /\ Proceeds(c, [r EXCEPT !.phase = IF r.op \in {"login", "reset"} THEN "miss" ELSE "over"])
            /\ UNCHANGED code
    /\ UNCHANGED <<session, passkey, password, grant>>

\* RECORD_FAILED_CHALLENGE_SQL, FAILED_CEREMONY_SQL, FAILED_RECOVERY_SQL.
RecordFailure(c) ==
    LET r == call[c] IN
    /\ r.phase = "miss"
    /\ code' = IF code[r.code].status = "pending" /\ code[r.code].attempts < MaxAttempts
               THEN [code EXCEPT ![r.code].attempts = code[r.code].attempts + 1] ELSE code
    /\ Proceeds(c, [r EXCEPT !.phase = "over"])
    /\ UNCHANGED <<session, passkey, password, grant>>

\* Variant for the sensitivity runs: a consumed grant is consumed again.
RedeemsAgain(r) ==
    LET row == grant[r.grant] IN
    /\ row # NoRow /\ r.intime
    /\ row.session = r.session /\ row.purpose = PurposeOf(r.op)
\* CONSUME_REAUTH_SQL.
Redeems(r) ==
    LET row == grant[r.grant] IN
    /\ row.status = "issued" /\ r.intime
    /\ row.session = r.session /\ row.purpose = PurposeOf(r.op)
\* consume_reauth_grant.
ConsumeGrant(c) ==
    LET r == call[c] IN
    /\ r.phase = "grant"
    /\ IF Redeems(r)
       THEN /\ grant' = [grant EXCEPT ![r.grant].status = "consumed"]
            /\ Proceeds(c, [r EXCEPT !.phase = "write"])
       ELSE /\ Proceeds(c, [r EXCEPT !.phase = "over"])
            /\ UNCHANGED grant
    /\ UNCHANGED <<session, passkey, password, code>>

-----------------------------------------------------------------------------
Writes(c, ops) ==
    /\ call[c].phase = "write" /\ call[c].op \in ops
    /\ Proceeds(c, [call[c] EXCEPT !.phase = "done"])

\* revoked_at IS NULL: an expired session is marked as well.
Revoked(gone) ==
    [s \in Ids |-> IF s \in gone /\ session[s] # "none" THEN "revoked" ELSE session[s]]

\* create_session_with_statements: the insert does not look back; a refresh
\* then revokes the session it came from, if it still can.
OpenSession(c) ==
    LET old == IF call[c].op = "refresh" THEN {call[c].session} ELSE {} IN
    /\ Writes(c, {"login", "passkey", "password", "refresh"})
    /\ session' = [Revoked(old) EXCEPT ![c] = "live"]
    /\ UNCHANGED <<passkey, password, code, grant>>

CloseSessions(c) ==
    LET r == call[c] IN
    /\ Writes(c, {"logout", "revoke", "revoke_others"})
    /\ session' = Revoked(IF r.op = "revoke_others" THEN Ids \ {r.session} ELSE {r.target})
    /\ UNCHANGED <<passkey, password, code, grant>>

\* password_reset and set_account_password.
WritePassword(c) ==
    LET r == call[c] IN
    /\ Writes(c, {"reset", "set_password"})
    /\ password' = TRUE
    /\ session' = Revoked(IF r.op = "reset" THEN Ids ELSE Ids \ {r.session})
    /\ UNCHANGED <<passkey, code, grant>>

WritePasskey(c) ==
    LET r == call[c] IN
    /\ Writes(c, {"add", "revoke_passkey", "rename_passkey"})
    /\ passkey' = CASE r.op = "add" -> [passkey EXCEPT ![c] = "active"]
                    [] r.op = "revoke_passkey" -> [passkey EXCEPT ![r.passkey] = "revoked"]
                    [] OTHER -> passkey
    /\ UNCHANGED <<session, password, code, grant>>

\* The end of passkey_add_start.
WriteCeremony(c, k) ==
    /\ Writes(c, {"start_add"})
    /\ code[k] = NoRow
    /\ code' = [code EXCEPT ![k] = PendingFor("add", call[c].session, "passkey_management")]
    /\ UNCHANGED <<session, passkey, password, grant>>

\* issue_reauth_grant.
WriteGrant(c) ==
    LET r == call[c] IN
    /\ Writes(c, {"reauth", "reauthenticate"})
    /\ grant' = [grant EXCEPT ![c] = Granted(r.session, r.purpose)]
    /\ UNCHANGED <<session, passkey, password, code>>

\* Time passes an expires_at.
ExpireSecret ==
    /\ \/ \E s \in Ids : Live(s) /\ session' = [session EXCEPT ![s] = "expired"]
                         /\ UNCHANGED <<code, grant>>
       \/ \E k \in Codes : code[k].status = "pending" /\ code[k].open
                           /\ code' = [code EXCEPT ![k].open = FALSE]
                           /\ UNCHANGED <<session, grant>>
       \/ \E g \in Ids : grant[g].status = "issued" /\ grant[g].open
                         /\ grant' = [grant EXCEPT ![g].open = FALSE]
                         /\ UNCHANGED <<session, code>>
    /\ UNCHANGED <<passkey, password, call>>

Unserved == {c \in AccountCalls : call[c].phase = "new"}

AccountNext ==
    \/ \E k \in Codes :
        \/ \E kind \in Anonymous : Issue(k, kind)
        \/ \E s \in Ids, purpose \in Purposes : StartReauthentication(k, s, purpose)
    \/ \E c \in Unserved :
        \/ \E k \in Codes, right \in BOOLEAN :
              Present(c, k, right) \/ \E s \in Ids : PresentInSession(c, k, s, right)
        \/ PasswordLogin(c)
        \/ \E s \in Ids :
            \/ \E purpose \in Purposes : Reauthenticate(c, s, purpose)
            \/ \E op \in {"refresh", "logout", "revoke", "revoke_others"}, t \in Ids :
                  EndSession(c, s, op, t)
            \/ \E op \in Guarded, g, p \in Ids : Guard(c, s, op, g, p)
    \/ \E c \in AccountCalls :
        \/ Consume(c) \/ RecordFailure(c) \/ ConsumeGrant(c)
        \/ OpenSession(c) \/ CloseSessions(c) \/ WritePassword(c) \/ WritePasskey(c)
        \/ WriteGrant(c) \/ \E k \in Codes : WriteCeremony(c, k)
    \/ ExpireSecret

AccountSpec == AccountInit /\ [][AccountNext]_accountVars

-----------------------------------------------------------------------------
AccountTypeOK ==
    /\ session \in [Ids -> {"none", "live", "expired", "revoked"}]
    /\ passkey \in [Ids -> {"none", "active", "revoked"}]
    /\ password \in BOOLEAN
    /\ \A k \in Codes : code[k] # NoRow =>
           code[k].status \in {"pending", "consumed"} /\ code[k].attempts \in 0..MaxAttempts
    /\ \A g \in Ids : grant[g] # NoRow => grant[g].status \in {"issued", "consumed"}
    /\ \A c \in AccountCalls : call[c].phase \in
           {"new", "consume", "miss", "grant", "write", "done", "over"}

\* The calls that have spent a code, and those that have spent a grant.
Answered == {c \in AccountCalls : call[c].phase \in {"write", "done"}
                           /\ call[c].op \in Anonymous \cup Bound}
Cleared == {c \in AccountCalls : call[c].phase \in {"write", "done"} /\ call[c].op \in Guarded}

\* However many requests present the same code, it opens one session, resets
\* one password, adds one passkey or yields one grant: consume_challenge,
\* consume_ceremony and consume_recovery let one of them through.
CodeIsSpentOnce ==
    \A c, d \in Answered : call[c].code = call[d].code => c = d

\* A reauthentication grant clears one change of the credentials, of the kind
\* it was issued for, asked for by the session it was issued to
\* (consume_reauth_grant).
GrantIsSpentOnce ==
    /\ \A c, d \in Cleared : call[c].grant = call[d].grant => c = d
    /\ \A c \in Cleared : LET row == grant[call[c].grant] IN
           /\ row.status = "consumed" /\ row.session = call[c].session
           /\ row.purpose = PurposeOf(call[c].op)

\* Nothing that a caller presents once is taken twice: no code, no grant.
SpentOnce == CodeIsSpentOnce /\ GrantIsSpentOnce

\* docs/implementation/gates/P02-CG.md: "refresh rotates the opaque session and
\* old state cannot refresh": a session is refreshed into one successor.
OldStateCannotRefresh ==
    \A c, d \in AccountCalls :
        (/\ call[c].phase = "done" /\ call[c].op = "refresh"
         /\ call[d].phase = "done" /\ call[d].op = "refresh"
         /\ call[c].session = call[d].session) => c = d
=============================================================================
