----------------------------- MODULE DeviceCodes -----------------------------
(***************************************************************************)
(* The desktop sign-in by device code (apps/api/src/routes/device_auth.rs):*)
(* the desktop starts an authorization, a signed-in user approves it, and  *)
(* the desktop exchanges it for a session.                                 *)
(*                                                                         *)
(* Approval and exchange read the authorization, and later write with an   *)
(* UPDATE that asks for the state they read.  The exchange sends that      *)
(* UPDATE in one batch with the session row, which has no condition, and   *)
(* looks at the number of changed rows only after the batch is committed.  *)
(***************************************************************************)
EXTENDS Naturals, FiniteSets

CONSTANTS
    Attempts,      \* requests, each served once; also the ids of their sessions
    Approvers, NoUser,
    CodeTTL,       \* DEVICE_TTL_SECONDS
    CodeTime       \* bound: time values 0..CodeTime

ASSUME CodeConstants == CodeTTL \in Nat /\ CodeTime \in Nat

VARIABLES
    time,
    authorization, \* the device_authorizations row
    attempt,       \* attempt[a]: what the handler of a has read
    sessions,      \* login_sessions rows: <<attempt, user>>
    delivered      \* attempts whose answer set the session cookies

codeVars == <<time, authorization, attempt, sessions, delivered>>

CodeInit ==
    /\ time = 0
    /\ authorization = [status |-> "none"]
    /\ attempt = [a \in Attempts |-> [phase |-> "new"]]
    /\ sessions = {} /\ delivered = {}

Goes(a, r) == attempt' = [attempt EXCEPT ![a] = r]

\* start: INSERT_DEVICE_AUTHORIZATION_SQL.
Start ==
    /\ authorization.status = "none"
    /\ authorization' = [status |-> "pending", user |-> NoUser, expires |-> time + CodeTTL]
    /\ UNCHANGED <<time, attempt, sessions, delivered>>

Available(status, at) ==
    authorization.status = status /\ authorization.expires > at

\* approve: the read by user code.
ReadForApproval(a, u) ==
    /\ attempt[a].phase = "new" /\ Available("pending", time)
    /\ Goes(a, [phase |-> "approve", at |-> time, user |-> u])
    /\ UNCHANGED <<time, authorization, sessions, delivered>>

\* Variant for the sensitivity runs: the UPDATE does not ask for the status.
ApprovableAlways(at) == authorization.expires > at
\* The WHERE clause of APPROVE_DEVICE_SQL.
Approvable(at) == Available("pending", at)

\* APPROVE_DEVICE_SQL, a statement of its own.
Approve(a) ==
    LET r == attempt[a] IN
    /\ r.phase = "approve"
    /\ authorization' = IF Approvable(r.at)
         THEN [authorization EXCEPT !.status = "approved", !.user = r.user]
         ELSE authorization
    /\ Goes(a, [phase |-> "over"])
    /\ UNCHANGED <<time, sessions, delivered>>

\* exchange: the read by device code and the PKCE check.
ReadForExchange(a) ==
    /\ attempt[a].phase = "new" /\ Available("approved", time)
    /\ Goes(a, [phase |-> "exchange", at |-> time, user |-> authorization.user])
    /\ UNCHANGED <<time, authorization, sessions, delivered>>

\* CONSUME_DEVICE_SQL with the session row, and the answer.
Exchange(a) ==
    LET r == attempt[a]
        consumed == Available("approved", r.at)
    IN
    /\ r.phase = "exchange"
    /\ authorization' = IF consumed THEN [authorization EXCEPT !.status = "consumed"]
                        ELSE authorization
    /\ sessions' = sessions \cup {<<a, r.user>>}
    /\ delivered' = IF consumed THEN delivered \cup {a} ELSE delivered
    /\ Goes(a, [phase |-> "over"])
    /\ UNCHANGED time

Pass ==
    /\ time < CodeTime
    /\ time' = time + 1
    /\ UNCHANGED <<authorization, attempt, sessions, delivered>>

CodeNext ==
    \/ Start \/ Pass
    \/ \E a \in Attempts :
         \/ \E u \in Approvers : ReadForApproval(a, u)
         \/ Approve(a) \/ ReadForExchange(a) \/ Exchange(a)

CodeSpec == CodeInit /\ [][CodeNext]_codeVars

-----------------------------------------------------------------------------
Authorization == [status : {"none"}]
            \cup [status : {"pending", "approved", "consumed"},
                  user : Approvers \cup {NoUser}, expires : Nat]
Handler == [phase : {"new", "over"}]
      \cup [phase : {"approve"}, at : Nat, user : Approvers]
      \cup [phase : {"exchange"}, at : Nat, user : Approvers \cup {NoUser}]

CodeTypeOK ==
    /\ time \in Nat /\ time <= CodeTime
    /\ authorization \in Authorization
    /\ authorization.status \in {"approved", "consumed"} => authorization.user \in Approvers
    /\ attempt \in [Attempts -> Handler]
    /\ sessions \subseteq Attempts \X Approvers
    /\ delivered \subseteq Attempts

\* A device code signs in one desktop, as the user who approved it: of the
\* exchanges that read it approved, one is answered with the cookies of a
\* session, the session is that user's, and no approval in flight changes the
\* user of a code that has been exchanged (approve, exchange).
CodeOpensOneSession ==
    \A a, b \in delivered :
      /\ a = b
      /\ authorization.status = "consumed"
      /\ <<a, authorization.user>> \in sessions
=============================================================================
