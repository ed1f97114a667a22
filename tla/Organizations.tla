--------------------------- MODULE Organizations ---------------------------
(***************************************************************************)
(* One organization: its lifecycle, its members and its invitations        *)
(* (apps/api/src/routes/organizations.rs).                                 *)
(*                                                                         *)
(* Every request first reads the organization and its caller's membership  *)
(* (authorize_org), the membership operations then read their target, and  *)
(* only then write.  Anything may commit between these database calls, and *)
(* what was read counts in the write only as far as its SQL repeats it.    *)
(***************************************************************************)
EXTENDS Naturals, FiniteSets, Records

CONSTANTS
    Users,        \* users, each with one verified e-mail address
    Founder,      \* the user who created the organization
    Invitations,  \* invitation ids
    Calls,        \* requests, each served once
    InviteTTL,    \* INVITE_TTL_SECONDS
    LastInstant   \* bound: clock values 0..LastInstant

ASSUME OrgConstants == Founder \in Users /\ InviteTTL \in Nat /\ LastInstant \in Nat

VARIABLES
    instant,      \* server time
    org,          \* [state, version, job]: the organizations row, and whether
                  \* a deletion job is linked
    member,       \* member[u]: the memberships row of u, or NoRow
    invitation,   \* invitation[i]: the invitations row, or NoRow
    request       \* request[c]: what the handler of c has read

orgVars == <<instant, org, member, invitation, request>>

Roles == {"owner", "admin", "member"}
Invitable == {"admin", "member"}      \* role_can_be_invited

NoRow == [status |-> "absent"]
Fresh == [phase |-> "new"]
Ended == [phase |-> "over"]

Active(u) == member[u].status = "active"
Owners == {u \in Users : Active(u) /\ member[u].role = "owner"}
\* role_allows: members.manage and org.manage; the rest of the permissions
\* used here belong to the owners.
Manages(u) == Active(u) /\ member[u].role \in {"owner", "admin"}

\* The founder, what else the requests before have left, and perhaps a pending
\* invitation.
Row(role, version) == [status |-> "active", role |-> role, version |-> version]
Sent(u) == [status |-> "pending", email |-> u, role |-> "member", token |-> 1,
            expires |-> InviteTTL]
OrgInit ==
    /\ instant = 0
    /\ org = [state |-> "active", version |-> 1, job |-> FALSE]
    /\ member \in [Users -> {NoRow, Row("owner", 2), Row("admin", 1), Row("member", 1)}]
    /\ member[Founder] = Row("owner", 2)
    /\ invitation \in [Invitations -> {NoRow} \cup {Sent(u) : u \in Users}]
    /\ request = [c \in Calls |-> Fresh]

-----------------------------------------------------------------------------
Arrives(c, r) ==
    /\ request[c].phase = "new"
    /\ request' = [request EXCEPT ![c] = r]
    /\ UNCHANGED <<instant, org, member, invitation>>

\* invite: the look-ups by id and by address only spare the insert that the
\* keys of the table would refuse.
Invite(c, actor, i, u, role) ==
    /\ org.state = "active" /\ Manages(actor)
    /\ Arrives(c, [phase |-> "write", op |-> "invite", inv |-> i, at |-> instant,
                   email |-> u, role |-> role])

\* revoke_invitation and resend_invitation.
Manage(c, actor, i, op) ==
    /\ org.state = "active" /\ Manages(actor)
    /\ invitation[i] # NoRow
    /\ Arrives(c, [phase |-> "write", op |-> op, inv |-> i, at |-> instant])

\* accept_invitation, with a token that was once sent.  The organization is
\* not looked at.
Accept(c, u, i, token) ==
    LET row == invitation[i] IN
    /\ row.status = "pending" /\ row.expires > instant /\ row.email = u
    /\ Arrives(c, [phase |-> "write", op |-> "accept", inv |-> i, at |-> instant,
                   user |-> u, role |-> row.role, token |-> token])

\* change_role, remove_member: authorized, with the version the client knows.
ChangeRole(c, actor, u, role) ==
    /\ org.state = "active" /\ Manages(actor) /\ member[u] # NoRow
    /\ Arrives(c, [phase |-> "target", op |-> "change", by |-> member[actor].role, user |-> u,
                   role |-> role, version |-> member[u].version])

RemoveMember(c, actor, u) ==
    /\ org.state = "active" /\ Manages(actor) /\ member[u] # NoRow
    /\ Arrives(c, [phase |-> "target", op |-> "remove", by |-> member[actor].role, user |-> u])

Leave(c, actor) ==
    /\ org.state = "active" /\ Active(actor)
    /\ Arrives(c, [phase |-> "target", op |-> "leave", by |-> member[actor].role,
                   user |-> actor, version |-> member[actor].version])

TransferOwnership(c, actor, u) ==
    /\ org.state = "active" /\ actor \in Owners /\ member[u] # NoRow
    /\ Arrives(c, [phase |-> "target", op |-> "transfer", user |-> u])

\* suspend, resume and begin_deletion move the state, update keeps it; with
\* the version the client knows.
Moves == {<<"active", "suspended">>, <<"suspended", "active">>, <<"active", "pending_deletion">>}
Lifecycle(c, actor, move) ==
    /\ actor \in Owners
    /\ Arrives(c, [phase |-> "write", op |-> "lifecycle", move |-> move,
                   version |-> org.version])
Update(c, actor) ==
    /\ org.state = "active" /\ Manages(actor)
    /\ Arrives(c, [phase |-> "write", op |-> "lifecycle", move |-> <<"active", "active">>,
                   version |-> org.version])

\* can_change_role, can_remove_member, can_leave, and the status check of a
\* transfer.
Permitted(r) ==
    LET row == member[r.user] IN
    CASE r.op = "change"   -> row.status = "active" /\ (r.by = "owner" \/ row.role # "owner")
      [] r.op = "remove"   -> r.by = "owner" \/ row.role # "owner"
      [] r.op = "leave"    -> r.by # "owner" \/ Cardinality(Owners) > 1
      [] r.op = "transfer" -> row.status = "active"

\* find_membership_by_id, or active_owner_count for a leave.
ReadTarget(c) ==
    LET r == request[c] IN
    /\ r.phase = "target"
    /\ request' = [request EXCEPT ![c] =
           IF ~Permitted(r) THEN Ended
           ELSE IF r.op = "remove"
                THEN With(r, [phase |-> "write", version |-> member[r.user].version])
                ELSE [r EXCEPT !.phase = "write"]]
    /\ UNCHANGED <<instant, org, member, invitation>>

-----------------------------------------------------------------------------
Writes(c, op) ==
    /\ request[c].phase = "write" /\ request[c].op = op
    /\ request' = [request EXCEPT ![c] = Ended]
    /\ UNCHANGED instant

\* ux_invitations_pending_target.
NonePending(i, u) ==
    \A x \in Invitations \ {i} : ~(invitation[x].status = "pending" /\ invitation[x].email = u)

InsertInvitation(c) ==
    LET r == request[c] IN
    /\ Writes(c, "invite")
    /\ invitation' =
           IF invitation[r.inv] = NoRow /\ NonePending(r.inv, r.email)
           THEN [invitation EXCEPT ![r.inv] =
                    [status |-> "pending", email |-> r.email, role |-> r.role, token |-> 1,
                     expires |-> r.at + InviteTTL]]
           ELSE invitation
    /\ UNCHANGED <<org, member>>

\* REVOKE_INVITATION_SQL.
RevokeInvitation(c) ==
    LET r == request[c] row == invitation[r.inv] IN
    /\ Writes(c, "revoke")
    /\ invitation' = IF row.status = "pending" /\ row.expires > r.at
                     THEN [invitation EXCEPT ![r.inv].status = "revoked"] ELSE invitation
    /\ UNCHANGED <<org, member>>

\* ROTATE_INVITATION_SQL: a new token and window for one that is not accepted.
RotateInvitation(c) ==
    LET r == request[c] row == invitation[r.inv] IN
    /\ Writes(c, "resend")
    /\ invitation' =
           IF row.status \in {"pending", "revoked"} /\ NonePending(r.inv, row.email)
           THEN [invitation EXCEPT ![r.inv].status = "pending", ![r.inv].token = row.token + 1,
                                   ![r.inv].expires = r.at + InviteTTL]
           ELSE invitation
    /\ UNCHANGED <<org, member>>

\* ACCEPT_INVITATION_SQL.
Acceptable(r) ==
    LET row == invitation[r.inv]
    IN  row.status = "pending" /\ row.expires > r.at /\ row.token = r.token

\* Variant for the sensitivity runs: the insert does not look at the invitation.
AdmitsAlways(r) == TRUE
\* The WHERE EXISTS of INSERT_INVITED_MEMBERSHIP_SQL, after the update.
Admits(r) ==
    LET row == invitation[r.inv]
    IN  Acceptable(r) \/ (row.status = "accepted" /\ row.token = r.token)

\* One batch: the update of the invitation, which may match no row, and the
\* upsert of the membership.
AcceptInvitation(c) ==
    LET r == request[c]
        Joined(row) == Row(r.role, IF row = NoRow THEN 1 ELSE row.version + 1)
    IN  /\ Writes(c, "accept")
        /\ invitation' = IF Acceptable(r) THEN [invitation EXCEPT ![r.inv].status = "accepted"]
                         ELSE invitation
        /\ member' = IF Admits(r) THEN [member EXCEPT ![r.user] = Joined(@)] ELSE member
        /\ UNCHANGED org

\* Variant for the sensitivity runs: only the checks made before the write.
SparesUnchecked(u) == TRUE
\* The owner count in CHANGE_ROLE_SQL and REMOVE_MEMBERSHIP_SQL.
SparesAnOwner(u) == member[u].role = "owner" => Cardinality(Owners) > 1

Current(r) == Active(r.user) /\ member[r.user].version = r.version

WriteRole(c) ==
    LET r == request[c] IN
    /\ Writes(c, "change")
    /\ member' = IF Current(r) /\ (r.role = "owner" \/ SparesAnOwner(r.user))
                 THEN [member EXCEPT ![r.user] = Row(r.role, r.version + 1)] ELSE member
    /\ UNCHANGED <<org, invitation>>

\* remove_member and leave.
WriteRemoval(c) ==
    LET r == request[c] IN
    /\ Writes(c, "remove") \/ Writes(c, "leave")
    /\ member' = IF Current(r) /\ SparesAnOwner(r.user)
                 THEN [member EXCEPT ![r.user].status = "removed", ![r.user].version = r.version + 1]
                 ELSE member
    /\ UNCHANGED <<org, invitation>>

\* TRANSFER_OWNERSHIP_SQL: its row count is looked at after it has committed.
WriteTransfer(c) ==
    LET target == request[c].user
        Moved(u) == Active(u) /\ (u = target \/ u \in Owners)
    IN  /\ Writes(c, "transfer")
        /\ member' = [u \in Users |->
               IF Moved(u)
               THEN Row(IF u = target THEN "owner" ELSE "admin", member[u].version + 1)
               ELSE member[u]]
        /\ UNCHANGED <<org, invitation>>

\* One batch: UPDATE_ORG_STATE_SQL (or UPDATE_ORG_SQL), which may match no row,
\* and the link of the deletion job.
WriteLifecycle(c) ==
    LET r == request[c]
        moved == org.state = r.move[1] /\ org.version = r.version
    IN  /\ Writes(c, "lifecycle")
        /\ org' = [state |-> IF moved THEN r.move[2] ELSE org.state,
                   version |-> IF moved THEN org.version + 1 ELSE org.version,
                   job |-> org.job \/ r.move[2] = "pending_deletion"]
        /\ UNCHANGED <<member, invitation>>

PassTime ==
    /\ instant < LastInstant
    /\ instant' = instant + 1
    /\ UNCHANGED <<org, member, invitation, request>>

Unserved == {c \in Calls : request[c].phase = "new"}

OrgNext ==
    \/ \E c \in Unserved :
        \/ \E actor \in Users :
            \/ \E i \in Invitations, u \in Users, role \in Invitable : Invite(c, actor, i, u, role)
            \/ \E i \in Invitations, op \in {"revoke", "resend"} : Manage(c, actor, i, op)
            \/ \E i \in Invitations : invitation[i] # NoRow /\
                   \E token \in 1..invitation[i].token : Accept(c, actor, i, token)
            \/ \E u \in Users :
                   RemoveMember(c, actor, u) \/ TransferOwnership(c, actor, u)
                     \/ \E role \in Roles : ChangeRole(c, actor, u, role)
            \/ Leave(c, actor) \/ Update(c, actor)
            \/ \E move \in Moves : Lifecycle(c, actor, move)
    \/ \E c \in Calls :
        \/ ReadTarget(c)
        \/ InsertInvitation(c) \/ RevokeInvitation(c) \/ RotateInvitation(c) \/ AcceptInvitation(c)
        \/ WriteRole(c) \/ WriteRemoval(c) \/ WriteTransfer(c) \/ WriteLifecycle(c)
    \/ PassTime

OrgSpec == OrgInit /\ [][OrgNext]_orgVars

-----------------------------------------------------------------------------
OrgTypeOK ==
    /\ instant \in 0..LastInstant
    /\ org \in [state : {"active", "suspended", "pending_deletion"}, version : Nat, job : BOOLEAN]
    /\ member \in [Users -> {NoRow} \cup
           [status : {"active", "removed"}, role : Roles, version : Nat]]
    /\ invitation \in [Invitations -> {NoRow} \cup
           [status : {"pending", "accepted", "revoked"}, email : Users, role : Invitable,
            token : Nat, expires : Nat]]
    /\ \A c \in Calls : request[c].phase \in {"new", "target", "write", "over"}

\* No demotion, removal or leave takes the last owner, however many of them
\* race: if the owners are gone after a step, it was a transfer or an accepted
\* invitation.
LastOwnerIsSpared ==
    [][Owners # {} /\ Owners' = {} =>
           \E c \in Calls : /\ request[c].phase = "write" /\ request'[c] = Ended
                            /\ request[c].op \in {"transfer", "accept"}]_orgVars

\* Whoever becomes a member has the token the invitation still carries when
\* the batch commits: one revoked or replaced on the way lets nobody in.
\* Expiry is judged at the instant the request was received, however late it
\* commits.  The invitation is spent by it, with one exception that the SQL
\* allows: a second accept of the same user, received while the invitation was
\* pending, takes back a user who was removed since the first.
Spends(c) ==
    LET r == request[c] row == invitation[r.inv] IN
    /\ r.phase = "write" /\ request'[c] = Ended /\ r.op = "accept"
    /\ row.token = r.token /\ row.expires > r.at /\ row.email = r.user
    /\ \/ row.status = "pending" /\ invitation'[r.inv].status = "accepted"
       \/ row.status = "accepted" /\ member[r.user].status = "removed"
OnlyLiveTokensJoin ==
    [][\A u \in Users : ~Active(u) /\ Active(u)' =>
           \E c \in Calls : Spends(c) /\ request[c].user = u]_orgVars

\* docs/implementation/gates/P02-CG.md: "An organization always has at least
\* one active owner."
OwnerRemains == Owners # {}
=============================================================================
