---------------------------- MODULE AccessProofs -----------------------------
(***************************************************************************)
(* Theorems about who and what may call: Organizations, DeviceCodes,       *)
(* MachineIdentity and ToolCalls, for any users, codes, keys, tool calls   *)
(* and requests; and about MCTenancy, which puts them together.            *)
(***************************************************************************)
EXTENDS MCTenancy, IdempotencyProofs, FiniteSetTheorems, TLAPS

-----------------------------------------------------------------------------
(***************************************************************************)
(* Organizations: memberships and invitations.                             *)
(***************************************************************************)
MemberRow == [status : {"active", "removed"}, role : Roles, version : Nat]
InvitationRow == [status : {"pending", "accepted", "revoked"}, email : Users, role : Invitable,
                  token : Nat, expires : Nat]

RowsFit ==
    /\ instant \in 0 .. LastInstant
    /\ org \in [state : {"active", "suspended", "pending_deletion"}, version : Nat, job : BOOLEAN]
    /\ member \in [Users -> {NoRow} \cup MemberRow]
    /\ invitation \in [Invitations -> {NoRow} \cup InvitationRow]

\* What a request names exists, and what it will write fits the columns.
Fits(r) ==
    /\ r.phase \in {"new", "target", "write", "over"}
    /\ r.phase \in {"target", "write"} =>
           /\ r.op \in {"invite", "revoke", "resend", "accept", "change", "remove", "leave",
                        "transfer", "lifecycle"}
           /\ r.op \in {"invite", "revoke", "resend", "accept"} => r.inv \in Invitations /\ r.at \in Nat
           /\ r.op = "invite" => r.email \in Users
           /\ r.op \in {"invite", "accept"} => r.role \in Invitable
           /\ r.op \in {"accept", "change", "remove", "leave", "transfer"} => r.user \in Users
           /\ r.op = "change" => r.role \in Roles
           /\ r.op = "lifecycle" => r.move[2] \in {"active", "suspended", "pending_deletion"}
    /\ r.phase = "target" => /\ {"phase", "op", "user"} \subseteq DOMAIN r
                             /\ r.op = "change" => "role" \in DOMAIN r
                             /\ r.op \in {"change", "remove", "leave", "transfer"}
RequestsFit == request = [c \in Calls |-> request[c]] /\ \A c \in Calls : Fits(request[c])

OrgInv == RowsFit /\ RequestsFit

LEMMA OrgInitially == OrgInit => OrgInv
<1> SUFFICES ASSUME OrgInit PROVE OrgInv
  OBVIOUS
<1> USE OrgConstants
<1>1. Row("owner", 2) \in MemberRow /\ Row("admin", 1) \in MemberRow /\ Row("member", 1) \in MemberRow
  BY DEF Row, MemberRow, Roles
<1>2. \A u \in Users : Sent(u) \in InvitationRow
  BY DEF Sent, InvitationRow, Invitable
<1>3. RowsFit
  BY <1>1, <1>2 DEF OrgInit, RowsFit
<1>4. RequestsFit
  BY DEF OrgInit, RequestsFit, Fits, Fresh
<1> QED
  BY <1>3, <1>4 DEF OrgInv

-----------------------------------------------------------------------------
\* A count of more than one owner leaves one when any user is taken away.
LEMMA AnotherOwner ==
    ASSUME NEW u, Cardinality(Owners) > 1
    PROVE  \E w \in Owners : w # u
<1> SUFFICES ASSUME Owners \subseteq {u} PROVE FALSE
  OBVIOUS
<1>1. CASE Owners = {}
  BY <1>1, FS_EmptySet
<1>2. CASE Owners = {u}
  BY <1>2, FS_Singleton
<1> QED
  BY <1>1, <1>2

\* Who is spared by the count in the statement leaves an owner behind.
LEMMA SparedLeavesOne ==
    ASSUME NEW u, SparesAnOwner(u), Owners # {}
    PROVE  \E w \in Owners : w # u
  BY AnotherOwner DEF SparesAnOwner, Owners

LEMMA RequestStep ==
    ASSUME OrgInv, NEW c \in Calls, NEW r, Fits(r), request' = [request EXCEPT ![c] = r]
    PROVE  RequestsFit'
  BY DEF OrgInv, RequestsFit

LEMMA EndedFits == Fits(Ended)
  BY DEF Ended, Fits

-----------------------------------------------------------------------------
(* The steps that write rows.                                              *)

LEMMA AcceptStep ==
    ASSUME OrgInv, NEW c \in Calls, AcceptInvitation(c)
    PROVE  /\ OrgInv'
           /\ \A u \in Users : ~Active(u) /\ Active(u)' =>
                  request[c].user = u /\ Admits(request[c])
           /\ Acceptable(request[c]) => invitation'[request[c].inv].status = "accepted"
<1> DEFINE r == request[c]
           row == invitation[r.inv]
           joined == Row(r.role, IF member[r.user] = NoRow THEN 1 ELSE member[r.user].version + 1)
<1>1. /\ r.phase = "write" /\ r.op = "accept" /\ UNCHANGED <<instant, org>>
      /\ request' = [request EXCEPT ![c] = Ended]
  BY DEF AcceptInvitation, Writes
<1>2. r.inv \in Invitations /\ r.user \in Users /\ r.role \in Invitable
  BY <1>1 DEF OrgInv, RequestsFit, Fits
<1>3. joined \in MemberRow
  BY <1>2 DEF OrgInv, RowsFit, MemberRow, Row, Roles, Invitable
<1>4. member' = IF Admits(r) THEN [member EXCEPT ![r.user] = joined] ELSE member
  BY DEF AcceptInvitation
<1>5. invitation' = IF Acceptable(r) THEN [invitation EXCEPT ![r.inv].status = "accepted"] ELSE invitation
  BY DEF AcceptInvitation
<1>6. Acceptable(r) => row \in InvitationRow /\ row.token = r.token
  BY <1>2 DEF Acceptable, OrgInv, RowsFit, NoRow
<1>7. Acceptable(r) => [row EXCEPT !.status = "accepted"] \in InvitationRow
  BY <1>6 DEF InvitationRow
<1>8. RowsFit'
  BY <1>1, <1>2, <1>3, <1>4, <1>5, <1>7 DEF OrgInv, RowsFit
<1>9. RequestsFit'
  BY <1>1, EndedFits, RequestStep
<1>10. \A u \in Users : ~Active(u) /\ Active(u)' => r.user = u /\ Admits(r)
  BY <1>4 DEF Active, OrgInv, RowsFit
<1>11. ASSUME Acceptable(r) PROVE invitation'[r.inv].status = "accepted"
  <2>1. invitation'[r.inv] = [row EXCEPT !.status = "accepted"]
    BY <1>2, <1>5, <1>11 DEF OrgInv, RowsFit
  <2> QED
    BY <1>6, <1>11, <2>1 DEF InvitationRow
<1> QED
  BY <1>8, <1>9, <1>10, <1>11 DEF OrgInv

\* A change of role and a removal keep an owner and activate nobody.
LEMMA RoleStep ==
    ASSUME OrgInv, NEW c \in Calls, WriteRole(c)
    PROVE  OrgInv' /\ (Owners # {} => Owners' # {}) /\ \A u \in Users : Active(u)' => Active(u)
<1> DEFINE r == request[c]
           next == Row(r.role, r.version + 1)
<1>1. /\ r.phase = "write" /\ r.op = "change" /\ UNCHANGED <<instant, org, invitation>>
      /\ request' = [request EXCEPT ![c] = Ended]
  BY DEF WriteRole, Writes
<1>2. r.user \in Users /\ r.role \in Roles
  BY <1>1 DEF OrgInv, RequestsFit, Fits
<1>3. RequestsFit'
  BY <1>1, EndedFits, RequestStep
<1>4. CASE Current(r) /\ (r.role = "owner" \/ SparesAnOwner(r.user))
  <2>1. member' = [member EXCEPT ![r.user] = next]
    BY <1>4 DEF WriteRole
  <2>2. member[r.user] \in MemberRow /\ member[r.user].version = r.version /\ Active(r.user)
    BY <1>2, <1>4 DEF Current, Active, OrgInv, RowsFit, NoRow
  <2>3. next \in MemberRow /\ next.role = r.role /\ next.status = "active"
    BY <1>2, <2>2 DEF MemberRow, Row
  <2>4. RowsFit'
    BY <1>1, <1>2, <2>1, <2>3 DEF OrgInv, RowsFit
  <2>5. \A u \in Users : Active(u)' => Active(u)
    BY <2>1, <2>2 DEF Active, OrgInv, RowsFit
  <2>6. CASE r.role = "owner"
    <3>1. r.user \in Owners'
      BY <1>2, <2>1, <2>3, <2>6 DEF Owners, Active, OrgInv, RowsFit
    <3> QED
      BY <1>3, <2>4, <2>5, <3>1 DEF OrgInv
  <2>7. ASSUME SparesAnOwner(r.user), Owners # {} PROVE Owners' # {}
    <3>1. PICK w \in Owners : w # r.user
      BY <2>7, SparedLeavesOne
    <3>2. w \in Owners'
      BY <2>1, <3>1 DEF Owners, Active, OrgInv, RowsFit
    <3> QED
      BY <3>2
  <2> QED
    BY <1>3, <1>4, <2>4, <2>5, <2>6, <2>7 DEF OrgInv
<1>5. CASE ~(Current(r) /\ (r.role = "owner" \/ SparesAnOwner(r.user)))
  <2>1. member' = member
    BY <1>5 DEF WriteRole
  <2> QED
    BY <1>1, <1>3, <2>1 DEF OrgInv, RowsFit, Owners, Active
<1> QED
  BY <1>4, <1>5

LEMMA RemovalStep ==
    ASSUME OrgInv, NEW c \in Calls, WriteRemoval(c)
    PROVE  OrgInv' /\ (Owners # {} => Owners' # {}) /\ \A u \in Users : Active(u)' => Active(u)
<1> DEFINE r == request[c]
           next == [member[r.user] EXCEPT !.status = "removed", !.version = r.version + 1]
<1>1. /\ r.phase = "write" /\ r.op \in {"remove", "leave"} /\ UNCHANGED <<instant, org, invitation>>
      /\ request' = [request EXCEPT ![c] = Ended]
  BY DEF WriteRemoval, Writes
<1>2. r.user \in Users
  BY <1>1 DEF OrgInv, RequestsFit, Fits
<1>3. RequestsFit'
  BY <1>1, EndedFits, RequestStep
<1>4. CASE Current(r) /\ SparesAnOwner(r.user)
  <2>1. member' = [member EXCEPT ![r.user] = next]
    BY <1>4 DEF WriteRemoval
  <2>2. member[r.user] \in MemberRow /\ member[r.user].version = r.version
    BY <1>2, <1>4 DEF Current, Active, OrgInv, RowsFit, NoRow
  <2>3. next \in MemberRow /\ next.status = "removed"
    <3>1. \A v \in Nat : LET row == [member[r.user] EXCEPT !.status = "removed", !.version = v]
                         IN  row \in MemberRow /\ row.status = "removed"
      BY <2>2 DEF MemberRow
    <3>2. r.version + 1 \in Nat
      BY <2>2 DEF MemberRow
    <3> QED
      BY <3>1, <3>2
  <2>4. RowsFit'
    BY <1>1, <1>2, <2>1, <2>3 DEF OrgInv, RowsFit
  <2>5. \A u \in Users : Active(u)' => Active(u)
    BY <1>2, <2>1, <2>3 DEF Active, OrgInv, RowsFit
  <2>6. ASSUME Owners # {} PROVE Owners' # {}
    <3>1. PICK w \in Owners : w # r.user
      BY <1>4, <2>6, SparedLeavesOne
    <3>2. w \in Owners'
      BY <2>1, <3>1 DEF Owners, Active, OrgInv, RowsFit
    <3> QED
      BY <3>2
  <2> QED
    BY <1>3, <2>4, <2>5, <2>6 DEF OrgInv
<1>5. CASE ~(Current(r) /\ SparesAnOwner(r.user))
  <2>1. member' = member
    BY <1>5 DEF WriteRemoval
  <2> QED
    BY <1>1, <1>3, <2>1 DEF OrgInv, RowsFit, Owners, Active
<1> QED
  BY <1>4, <1>5

LEMMA TransferStep ==
    ASSUME OrgInv, NEW c \in Calls, WriteTransfer(c)
    PROVE  OrgInv' /\ \A u \in Users : Active(u)' => Active(u)
<1> DEFINE target == request[c].user
           Moved(u) == Active(u) /\ (u = target \/ u \in Owners)
           next(u) == Row(IF u = target THEN "owner" ELSE "admin", member[u].version + 1)
<1>1. /\ UNCHANGED <<instant, org, invitation>>
      /\ request' = [request EXCEPT ![c] = Ended]
      /\ member' = [u \in Users |-> IF Moved(u) THEN next(u) ELSE member[u]]
  BY DEF WriteTransfer, Writes
<1>2. \A u \in Users : Moved(u) => next(u) \in MemberRow
  <2>1. \A u \in Users : Active(u) => member[u] \in MemberRow
    BY DEF Active, OrgInv, RowsFit, NoRow
  <2> QED
    BY <2>1 DEF MemberRow, Row, Roles
<1>3. RowsFit'
  BY <1>1, <1>2 DEF OrgInv, RowsFit
<1>4. RequestsFit'
  BY <1>1, EndedFits, RequestStep
<1> QED
  BY <1>1, <1>3, <1>4 DEF OrgInv, Active

LEMMA InvitationStep ==
    ASSUME OrgInv, NEW c \in Calls,
           InsertInvitation(c) \/ RevokeInvitation(c) \/ RotateInvitation(c)
    PROVE  OrgInv' /\ member' = member
<1> DEFINE r == request[c]
           row == invitation[r.inv]
<1>1. /\ r.phase = "write" /\ r.op \in {"invite", "revoke", "resend"}
      /\ UNCHANGED <<instant, org, member>>
      /\ request' = [request EXCEPT ![c] = Ended]
  BY DEF InsertInvitation, RevokeInvitation, RotateInvitation, Writes
<1>2. r.inv \in Invitations /\ r.at + InviteTTL \in Nat
  BY <1>1, OrgConstants DEF OrgInv, RequestsFit, Fits
<1>3. row.status \in {"pending", "revoked"} => row \in InvitationRow
  BY <1>2 DEF OrgInv, RowsFit, NoRow
<1>4. invitation' \in [Invitations -> {NoRow} \cup InvitationRow]
  <2>1. CASE InsertInvitation(c)
    <3>1. r.email \in Users /\ r.role \in Invitable
      BY <2>1 DEF InsertInvitation, Writes, OrgInv, RequestsFit, Fits
    <3>2. [status |-> "pending", email |-> r.email, role |-> r.role, token |-> 1,
           expires |-> r.at + InviteTTL] \in InvitationRow
      BY <1>2, <3>1 DEF InvitationRow
    <3> QED
      BY <1>2, <2>1, <3>2 DEF InsertInvitation, OrgInv, RowsFit
  <2>2. CASE RevokeInvitation(c)
    <3>1. row \in InvitationRow => [row EXCEPT !.status = "revoked"] \in InvitationRow
      BY DEF InvitationRow
    <3> QED
      BY <1>2, <1>3, <2>2, <3>1 DEF RevokeInvitation, OrgInv, RowsFit
  <2>3. CASE RotateInvitation(c)
    <3> DEFINE next == [row EXCEPT !.status = "pending", !.token = row.token + 1,
                                   !.expires = r.at + InviteTTL]
    <3>1. row \in InvitationRow => next \in InvitationRow
      <4>1. ASSUME row \in InvitationRow, NEW token \in Nat, NEW end \in Nat
            PROVE  [row EXCEPT !.status = "pending", !.token = token, !.expires = end] \in InvitationRow
        BY <4>1 DEF InvitationRow
      <4>2. row \in InvitationRow => row.token + 1 \in Nat
        BY DEF InvitationRow
      <4> QED
        BY <1>2, <4>1, <4>2
    <3>2. \/ invitation' = invitation
          \/ row.status \in {"pending", "revoked"} /\ invitation' = [invitation EXCEPT ![r.inv] = next]
      BY <2>3 DEF RotateInvitation
    <3> HIDE DEF next
    <3> QED
      BY <1>2, <1>3, <3>1, <3>2 DEF OrgInv, RowsFit
  <2> QED
    BY <2>1, <2>2, <2>3
<1>5. RowsFit'
  BY <1>1, <1>4 DEF OrgInv, RowsFit
<1>6. RequestsFit'
  BY <1>1, EndedFits, RequestStep
<1> QED
  BY <1>1, <1>5, <1>6 DEF OrgInv

LEMMA LifecycleStep ==
    ASSUME OrgInv, NEW c \in Calls, WriteLifecycle(c)
    PROVE  OrgInv' /\ member' = member
<1> DEFINE r == request[c]
           moved == org.state = r.move[1] /\ org.version = r.version
           job == org.job \/ r.move[2] = "pending_deletion"
<1>1. /\ r.phase = "write" /\ r.op = "lifecycle" /\ UNCHANGED <<instant, member, invitation>>
      /\ request' = [request EXCEPT ![c] = Ended]
      /\ org' = [state |-> IF moved THEN r.move[2] ELSE org.state,
                 version |-> IF moved THEN org.version + 1 ELSE org.version,
                 job |-> job]
  BY DEF WriteLifecycle, Writes
<1>2. r.move[2] \in {"active", "suspended", "pending_deletion"}
  BY <1>1 DEF OrgInv, RequestsFit, Fits
<1>3. org.state \in {"active", "suspended", "pending_deletion"} /\ org.version \in Nat
  BY DEF OrgInv, RowsFit
<1>4. job \in BOOLEAN
  OBVIOUS
<1> HIDE DEF job, moved
<1>5. org' \in [state : {"active", "suspended", "pending_deletion"}, version : Nat, job : BOOLEAN]
  BY <1>1, <1>2, <1>3, <1>4
<1>6. RowsFit'
  BY <1>1, <1>5 DEF OrgInv, RowsFit
<1>7. RequestsFit'
  BY <1>1, EndedFits, RequestStep
<1> QED
  BY <1>1, <1>6, <1>7 DEF OrgInv

-----------------------------------------------------------------------------
(* The steps that only read.                                               *)

LEMMA ArrivalStep ==
    ASSUME OrgInv, NEW c \in Unserved, NEW actor \in Users,
           \/ \E i \in Invitations, u \in Users, role \in Invitable : Invite(c, actor, i, u, role)
           \/ \E i \in Invitations, op \in {"revoke", "resend"} : Manage(c, actor, i, op)
           \/ \E i \in Invitations : invitation[i] # NoRow /\
                  \E token \in 1..invitation[i].token : Accept(c, actor, i, token)
           \/ \E u \in Users :
                  RemoveMember(c, actor, u) \/ TransferOwnership(c, actor, u)
                    \/ \E role \in Roles : ChangeRole(c, actor, u, role)
           \/ Leave(c, actor) \/ Update(c, actor)
           \/ \E move \in Moves : Lifecycle(c, actor, move)
    PROVE  OrgInv' /\ member' = member
<1>1. instant \in Nat /\ c \in Calls
  BY OrgConstants DEF OrgInv, RowsFit, Unserved
<1>2. ASSUME NEW r, Fits(r), Arrives(c, r)
      PROVE  OrgInv' /\ member' = member
  <2>1. UNCHANGED <<instant, org, member, invitation>> /\ request' = [request EXCEPT ![c] = r]
    BY <1>2 DEF Arrives
  <2>2. RequestsFit'
    BY <1>1, <1>2, <2>1, RequestStep
  <2> QED
    BY <2>1, <2>2 DEF OrgInv, RowsFit
<1>3. ASSUME NEW i \in Invitations, NEW u \in Users, NEW role \in Invitable,
             Invite(c, actor, i, u, role)
      PROVE  OrgInv' /\ member' = member
  <2>1. Fits([phase |-> "write", op |-> "invite", inv |-> i, at |-> instant, email |-> u, role |-> role])
    BY <1>1 DEF Fits
  <2> QED
    BY <1>2, <1>3, <2>1 DEF Invite
<1>4. ASSUME NEW i \in Invitations, NEW op \in {"revoke", "resend"}, Manage(c, actor, i, op)
      PROVE  OrgInv' /\ member' = member
  <2>1. Fits([phase |-> "write", op |-> op, inv |-> i, at |-> instant])
    BY <1>1 DEF Fits
  <2> QED
    BY <1>2, <1>4, <2>1 DEF Manage
<1>5. ASSUME NEW i \in Invitations, NEW token, Accept(c, actor, i, token)
      PROVE  OrgInv' /\ member' = member
  <2>1. invitation[i] \in InvitationRow
    BY <1>5 DEF Accept, OrgInv, RowsFit, NoRow
  <2>2. invitation[i].role \in Invitable
    BY <2>1 DEF InvitationRow
  <2>3. Fits([phase |-> "write", op |-> "accept", inv |-> i, at |-> instant, user |-> actor,
              role |-> invitation[i].role, token |-> token])
    BY <1>1, <2>2 DEF Fits
  <2> QED
    BY <1>2, <1>5, <2>3 DEF Accept
<1>6. ASSUME NEW u \in Users, NEW role \in Roles, ChangeRole(c, actor, u, role)
      PROVE  OrgInv' /\ member' = member
  <2>1. Fits([phase |-> "target", op |-> "change", by |-> member[actor].role, user |-> u,
              role |-> role, version |-> member[u].version])
    BY DEF Fits
  <2> QED
    BY <1>2, <1>6, <2>1 DEF ChangeRole
<1>7. ASSUME NEW u \in Users, RemoveMember(c, actor, u)
      PROVE  OrgInv' /\ member' = member
  <2>1. Fits([phase |-> "target", op |-> "remove", by |-> member[actor].role, user |-> u])
    BY DEF Fits
  <2> QED
    BY <1>2, <1>7, <2>1 DEF RemoveMember
<1>8. ASSUME NEW u \in Users, TransferOwnership(c, actor, u)
      PROVE  OrgInv' /\ member' = member
  <2>1. Fits([phase |-> "target", op |-> "transfer", user |-> u])
    BY DEF Fits
  <2> QED
    BY <1>2, <1>8, <2>1 DEF TransferOwnership
<1>9. ASSUME Leave(c, actor)
      PROVE  OrgInv' /\ member' = member
  <2>1. Fits([phase |-> "target", op |-> "leave", by |-> member[actor].role, user |-> actor,
              version |-> member[actor].version])
    BY DEF Fits
  <2> QED
    BY <1>2, <1>9, <2>1 DEF Leave
<1>10. ASSUME NEW move, move[2] \in {"active", "suspended", "pending_deletion"},
              Arrives(c, [phase |-> "write", op |-> "lifecycle", move |-> move, version |-> org.version])
       PROVE  OrgInv' /\ member' = member
  <2>1. Fits([phase |-> "write", op |-> "lifecycle", move |-> move, version |-> org.version])
    BY <1>10 DEF Fits
  <2> QED
    BY <1>2, <1>10, <2>1
<1>11. CASE Update(c, actor)
  BY <1>10, <1>11 DEF Update
<1>12. CASE \E move \in Moves : Lifecycle(c, actor, move)
  BY <1>10, <1>12 DEF Lifecycle, Moves
<1> QED
  BY <1>3, <1>4, <1>5, <1>6, <1>7, <1>8, <1>9, <1>11, <1>12

LEMMA TargetStep ==
    ASSUME OrgInv, NEW c \in Calls, ReadTarget(c)
    PROVE  OrgInv' /\ member' = member
<1> DEFINE r == request[c]
           next == IF ~Permitted(r) THEN Ended
                   ELSE IF r.op = "remove"
                        THEN With(r, [phase |-> "write", version |-> member[r.user].version])
                        ELSE [r EXCEPT !.phase = "write"]
<1>1. /\ r.phase = "target" /\ UNCHANGED <<instant, org, member, invitation>>
      /\ request' = [request EXCEPT ![c] = next]
  BY DEF ReadTarget
<1>2. Fits(r)
  BY DEF OrgInv, RequestsFit
<1>3. Fits(next)
  <2>1. ASSUME r.op = "remove" PROVE Fits(With(r, [phase |-> "write", version |-> member[r.user].version]))
    <3> DEFINE known == With(r, [phase |-> "write", version |-> member[r.user].version])
    <3>1. known.phase = "write" /\ known.op = "remove" /\ known.user = r.user
      BY <1>1, <1>2, <2>1 DEF With, Fits
    <3>2. ASSUME NEW k, k.phase = "write", k.op = "remove", k.user = r.user
          PROVE  Fits(k)
      BY <1>1, <1>2, <2>1, <3>2 DEF Fits
    <3> QED
      BY <3>1, <3>2
  <2>2. Fits([r EXCEPT !.phase = "write"])
    BY <1>1, <1>2 DEF Fits
  <2> QED
    BY <2>1, <2>2, EndedFits
<1>4. RequestsFit'
  BY <1>1, <1>3, RequestStep
<1> QED
  BY <1>1, <1>4 DEF OrgInv, RowsFit

LEMMA PassStep ==
    ASSUME OrgInv, PassTime \/ UNCHANGED orgVars
    PROVE  OrgInv' /\ member' = member
<1>1. UNCHANGED <<org, member, invitation, request>> /\ instant' \in 0 .. LastInstant
  BY OrgConstants DEF PassTime, orgVars, OrgInv, RowsFit
<1> QED
  BY <1>1 DEF OrgInv, RowsFit, RequestsFit, Fits

-----------------------------------------------------------------------------
\* What every step leaves of the owners and the members.
LEMMA OrgStep ==
    ASSUME OrgInv, [OrgNext]_orgVars
    PROVE  /\ OrgInv'
           /\ \/ member' = member
              \/ \E c \in Calls : WriteRole(c) \/ WriteRemoval(c) \/ WriteTransfer(c) \/ AcceptInvitation(c)
<1>1. ASSUME NEW c \in Unserved, NEW actor \in Users,
           \/ \E i \in Invitations, u \in Users, role \in Invitable : Invite(c, actor, i, u, role)
           \/ \E i \in Invitations, op \in {"revoke", "resend"} : Manage(c, actor, i, op)
           \/ \E i \in Invitations : invitation[i] # NoRow /\
                  \E token \in 1..invitation[i].token : Accept(c, actor, i, token)
           \/ \E u \in Users :
                  RemoveMember(c, actor, u) \/ TransferOwnership(c, actor, u)
                    \/ \E role \in Roles : ChangeRole(c, actor, u, role)
           \/ Leave(c, actor) \/ Update(c, actor)
           \/ \E move \in Moves : Lifecycle(c, actor, move)
      PROVE  OrgInv' /\ member' = member
  BY <1>1, ArrivalStep
<1>2. ASSUME NEW c \in Calls, ReadTarget(c)
      PROVE  OrgInv' /\ member' = member
  BY <1>2, TargetStep
<1>3. ASSUME NEW c \in Calls, InsertInvitation(c) \/ RevokeInvitation(c) \/ RotateInvitation(c)
      PROVE  OrgInv' /\ member' = member
  BY <1>3, InvitationStep
<1>4. ASSUME NEW c \in Calls, WriteLifecycle(c)
      PROVE  OrgInv' /\ member' = member
  BY <1>4, LifecycleStep
<1>5. ASSUME NEW c \in Calls,
             WriteRole(c) \/ WriteRemoval(c) \/ WriteTransfer(c) \/ AcceptInvitation(c)
      PROVE  OrgInv'
  BY <1>5, RoleStep, RemovalStep, TransferStep, AcceptStep
<1>6. CASE PassTime \/ UNCHANGED orgVars
  BY <1>6, PassStep
<1>7. CASE \E c \in Unserved, actor \in Users :
           \/ \E i \in Invitations, u \in Users, role \in Invitable : Invite(c, actor, i, u, role)
           \/ \E i \in Invitations, op \in {"revoke", "resend"} : Manage(c, actor, i, op)
           \/ \E i \in Invitations : invitation[i] # NoRow /\
                  \E token \in 1..invitation[i].token : Accept(c, actor, i, token)
           \/ \E u \in Users :
                  RemoveMember(c, actor, u) \/ TransferOwnership(c, actor, u)
                    \/ \E role \in Roles : ChangeRole(c, actor, u, role)
           \/ Leave(c, actor) \/ Update(c, actor)
           \/ \E move \in Moves : Lifecycle(c, actor, move)
  BY <1>1, <1>7
<1> QED
  BY <1>2, <1>3, <1>4, <1>5, <1>6, <1>7 DEF OrgNext

\* The rows are what the columns allow, and what a request will write fits
\* them.
THEOREM OrganizationsTypeCorrect == OrgSpec => []OrgTypeOK
<1>1. OrgInv => OrgTypeOK
  BY DEF OrgInv, RowsFit, RequestsFit, Fits, OrgTypeOK, MemberRow, InvitationRow
<1> QED
  BY <1>1, OrgInitially, OrgStep, PTL DEF OrgSpec

\* The owner count inside CHANGE_ROLE_SQL and REMOVE_MEMBERSHIP_SQL: however
\* many demotions, removals and leaves race, none of them takes the last owner.
THEOREM LastOwnerAlwaysSpared == OrgSpec => LastOwnerIsSpared
<1>1. ASSUME OrgInv, [OrgNext]_orgVars, Owners # {}, Owners' = {}
      PROVE  \E c \in Calls : /\ request[c].phase = "write" /\ request'[c] = Ended
                              /\ request[c].op \in {"transfer", "accept"}
  <2>1. member' # member
    BY <1>1 DEF Owners, Active
  <2>2. PICK c \in Calls : WriteRole(c) \/ WriteRemoval(c) \/ WriteTransfer(c) \/ AcceptInvitation(c)
    BY <1>1, <2>1, OrgStep
  <2>3. WriteTransfer(c) \/ AcceptInvitation(c)
    BY <1>1, <2>1, <2>2, RoleStep, RemovalStep
  <2> QED
    BY <1>1, <2>3 DEF WriteTransfer, AcceptInvitation, Writes, OrgInv, RequestsFit
<1>2. OrgInv /\ [OrgNext]_orgVars =>
          [Owners # {} /\ Owners' = {} =>
              \E c \in Calls : /\ request[c].phase = "write" /\ request'[c] = Ended
                               /\ request[c].op \in {"transfer", "accept"}]_orgVars
  BY <1>1
<1> QED
  BY <1>2, OrgInitially, OrgStep, PTL DEF OrgSpec, LastOwnerIsSpared

\* The two writes of run org_owner do not happen: a transfer to somebody who
\* has left since it was checked, and an owner who accepts an invitation.
OwnersStandFirm ==
    [][\A c \in Calls :
           /\ WriteTransfer(c) => Active(request[c].user)
           /\ AcceptInvitation(c) => request[c].user \notin Owners]_orgVars

\* Those two are all that P02-CG's "at least one active owner" misses: without
\* them the organization has an owner in every state, whatever else races.
THEOREM OwnerRemainsOtherwise == OrgSpec /\ OwnersStandFirm => []OwnerRemains
<1>1. OrgInit => OwnerRemains
  <2> SUFFICES ASSUME OrgInit PROVE Founder \in Owners
    BY DEF OwnerRemains
  <2> QED
    BY OrgConstants DEF OrgInit, Owners, Active, Row
<1>2. ASSUME OrgInv, OrgNext, OwnerRemains,
             \A c \in Calls : /\ WriteTransfer(c) => Active(request[c].user)
                              /\ AcceptInvitation(c) => request[c].user \notin Owners
      PROVE  OwnerRemains'
  <2>1. CASE member' = member
    BY <1>2, <2>1 DEF OwnerRemains, Owners, Active
  <2>2. ASSUME NEW c \in Calls, WriteRole(c) \/ WriteRemoval(c)
        PROVE  OwnerRemains'
    BY <1>2, <2>2, RoleStep, RemovalStep DEF OwnerRemains
  <2>3. ASSUME NEW c \in Calls, WriteTransfer(c)
        PROVE  OwnerRemains'
    <3> DEFINE target == request[c].user
    <3>1. target \in Users /\ Active(target)
      BY <1>2, <2>3 DEF WriteTransfer, Writes, OrgInv, RequestsFit, Fits
    <3>2. member'[target] = Row("owner", member[target].version + 1)
      BY <2>3, <3>1 DEF WriteTransfer
    <3>3. target \in Owners'
      BY <3>1, <3>2 DEF Owners, Active, Row
    <3> QED
      BY <3>3 DEF OwnerRemains
  <2>4. ASSUME NEW c \in Calls, AcceptInvitation(c)
        PROVE  OwnerRemains'
    <3>1. PICK u \in Owners : u # request[c].user
      BY <1>2, <2>4 DEF OwnerRemains
    <3>2. member'[u] = member[u]
      BY <1>2, <2>4, <3>1 DEF AcceptInvitation, OrgInv, RowsFit, Owners
    <3> QED
      BY <3>1, <3>2 DEF OwnerRemains, Owners, Active
  <2> QED
    BY <1>2, <2>1, <2>2, <2>3, <2>4, OrgStep
<1>3. /\ OrgInv /\ [OrgNext]_orgVars /\ OwnerRemains
      /\ [\A c \in Calls : /\ WriteTransfer(c) => Active(request[c].user)
                           /\ AcceptInvitation(c) => request[c].user \notin Owners]_orgVars
      => OwnerRemains'
  <2>1. ASSUME UNCHANGED orgVars, OwnerRemains PROVE OwnerRemains'
    BY <2>1 DEF orgVars, OwnerRemains, Owners, Active
  <2> QED
    BY <1>2, <2>1
<1> QED
  BY <1>1, <1>3, OrgInitially, OrgStep, PTL DEF OrgSpec, OwnersStandFirm

-----------------------------------------------------------------------------
(***************************************************************************)
(* What an accept in flight knows.  The row it read keeps its address, its *)
(* token only grows, and its expiry changes only with the token: while the *)
(* tokens agree, the invitation had not expired when the request came.  An *)
(* accepted invitation has made its address a member.                      *)
(***************************************************************************)
Invites(row, r) ==
    /\ row \in InvitationRow /\ row.email = r.user
    /\ r.token \in 0 .. row.token
    /\ row.token = r.token => row.expires > r.at
AcceptsKnow ==
    \A c \in Calls : request[c].phase = "write" /\ request[c].op = "accept" =>
        Invites(invitation[request[c].inv], request[c])
AcceptedBelong ==
    \A i \in Invitations : invitation[i].status = "accepted" =>
        member[invitation[i].email].status # "absent"

\* Nobody's membership row is ever deleted.
LEMMA MembersStay ==
    ASSUME OrgInv, [OrgNext]_orgVars, NEW u \in Users, member[u].status # "absent"
    PROVE  member'[u].status # "absent"
<1> USE DEF OrgInv, RowsFit
<1>1. CASE member' = member
  BY <1>1
<1>2. ASSUME NEW c \in Calls, WriteRole(c) PROVE member'[u].status # "absent"
  <2>1. member'[u] \in {member[u], Row(request[c].role, request[c].version + 1)}
    BY <1>2 DEF WriteRole
  <2> QED
    BY <2>1 DEF Row
<1>3. ASSUME NEW c \in Calls, WriteRemoval(c) PROVE member'[u].status # "absent"
  <2> DEFINE gone == [member[u] EXCEPT !.status = "removed", !.version = request[c].version + 1]
  <2>1. member'[u] \in {member[u], gone}
    <3>1. \/ member' = member
          \/ member' = [member EXCEPT ![request[c].user].status = "removed",
                                     ![request[c].user].version = request[c].version + 1]
      BY <1>3 DEF WriteRemoval
    <3> QED
      BY <3>1
  <2>2. member[u] \in MemberRow
    BY DEF NoRow
  <2>3. gone.status = "removed"
    BY <2>2 DEF MemberRow
  <2> HIDE DEF gone
  <2> QED
    BY <2>1, <2>3
<1>4. ASSUME NEW c \in Calls, WriteTransfer(c) PROVE member'[u].status # "absent"
  <2>1. member'[u] \in {member[u], Row("owner", member[u].version + 1),
                       Row("admin", member[u].version + 1)}
    BY <1>4 DEF WriteTransfer
  <2> QED
    BY <2>1 DEF Row
<1>5. ASSUME NEW c \in Calls, AcceptInvitation(c) PROVE member'[u].status # "absent"
  <2> DEFINE old == member[request[c].user]
             joined == Row(request[c].role, IF old = NoRow THEN 1 ELSE old.version + 1)
  <2>1. member'[u] \in {member[u], joined}
    BY <1>5 DEF AcceptInvitation
  <2> QED
    BY <2>1 DEF Row
<1> QED
  BY <1>1, <1>2, <1>3, <1>4, <1>5, OrgStep

\* The requests that arrive, other than an accept.
LEMMA OtherArrivals ==
    ASSUME NEW d \in Unserved, NEW actor \in Users,
           \/ \E i \in Invitations, u \in Users, role \in Invitable : Invite(d, actor, i, u, role)
           \/ \E i \in Invitations, op \in {"revoke", "resend"} : Manage(d, actor, i, op)
           \/ \E u \in Users :
                  RemoveMember(d, actor, u) \/ TransferOwnership(d, actor, u)
                    \/ \E role \in Roles : ChangeRole(d, actor, u, role)
           \/ Leave(d, actor) \/ Update(d, actor)
           \/ \E move \in Moves : Lifecycle(d, actor, move)
    PROVE  \E r : Arrives(d, r) /\ r.op # "accept"
<1>1. ASSUME NEW r, Arrives(d, r), r.op # "accept" PROVE \E x : Arrives(d, x) /\ x.op # "accept"
  BY <1>1
<1>2. CASE \E i \in Invitations, u \in Users, role \in Invitable : Invite(d, actor, i, u, role)
  BY <1>1, <1>2 DEF Invite
<1>3. CASE \E i \in Invitations, op \in {"revoke", "resend"} : Manage(d, actor, i, op)
  BY <1>1, <1>3 DEF Manage
<1>4. CASE \E u \in Users : RemoveMember(d, actor, u)
  BY <1>1, <1>4 DEF RemoveMember
<1>5. CASE \E u \in Users : TransferOwnership(d, actor, u)
  BY <1>1, <1>5 DEF TransferOwnership
<1>6. CASE \E u \in Users, role \in Roles : ChangeRole(d, actor, u, role)
  BY <1>1, <1>6 DEF ChangeRole
<1>7. CASE Leave(d, actor)
  BY <1>1, <1>7 DEF Leave
<1>8. CASE Update(d, actor)
  BY <1>1, <1>8 DEF Update
<1>9. CASE \E move \in Moves : Lifecycle(d, actor, move)
  BY <1>1, <1>9 DEF Lifecycle
<1> QED
  BY <1>2, <1>3, <1>4, <1>5, <1>6, <1>7, <1>8, <1>9

\* The statements that write an invitation.
LEMMA InvitationWrites ==
    ASSUME [OrgNext]_orgVars
    PROVE  \/ invitation' = invitation
           \/ \E c \in Calls : \/ InsertInvitation(c) \/ RevokeInvitation(c) \/ RotateInvitation(c)
                               \/ AcceptInvitation(c)
<1>1. ASSUME NEW d \in Unserved, NEW i, NEW u, NEW token, Accept(d, u, i, token)
      PROVE  invitation' = invitation
  BY <1>1 DEF Accept, Arrives
<1>2. ASSUME NEW d \in Unserved, NEW r, Arrives(d, r) PROVE invitation' = invitation
  BY <1>2 DEF Arrives
<1>3. ASSUME NEW d \in Calls,
             ReadTarget(d) \/ WriteRole(d) \/ WriteRemoval(d) \/ WriteTransfer(d) \/ WriteLifecycle(d)
      PROVE  invitation' = invitation
  BY <1>3 DEF ReadTarget, WriteRole, WriteRemoval, WriteTransfer, WriteLifecycle
<1> QED
  BY <1>1, <1>2, <1>3, OtherArrivals DEF OrgNext, orgVars, PassTime

\* What a step does to the invitation an accept in flight has read.
LEMMA InvitesStep ==
    ASSUME OrgInv, [OrgNext]_orgVars, NEW i \in Invitations, NEW r, Invites(invitation[i], r)
    PROVE  Invites(invitation'[i], r)
<1> DEFINE row == invitation[i]
<1>1. row \in InvitationRow /\ row # NoRow /\ row.token \in Nat
  BY DEF Invites, InvitationRow, NoRow
<1>2. CASE invitation' = invitation
  BY <1>2
<1>3. ASSUME NEW c \in Calls, InsertInvitation(c) PROVE Invites(invitation'[i], r)
  BY <1>1, <1>3 DEF InsertInvitation, OrgInv, RowsFit
<1>4. ASSUME NEW status \in {"pending", "accepted", "revoked"}, invitation'[i] = [row EXCEPT !.status = status]
      PROVE  Invites(invitation'[i], r)
  BY <1>1, <1>4 DEF Invites, InvitationRow
<1>5. ASSUME NEW c \in Calls, RevokeInvitation(c) PROVE Invites(invitation'[i], r)
  <2>1. invitation'[i] = row \/ invitation'[i] = [row EXCEPT !.status = "revoked"]
    BY <1>5 DEF RevokeInvitation, OrgInv, RowsFit
  <2> QED
    BY <1>4, <2>1
<1>6. ASSUME NEW c \in Calls, AcceptInvitation(c) PROVE Invites(invitation'[i], r)
  <2>1. invitation'[i] = row \/ invitation'[i] = [row EXCEPT !.status = "accepted"]
    BY <1>6 DEF AcceptInvitation, OrgInv, RowsFit
  <2> QED
    BY <1>4, <2>1
<1>7. ASSUME NEW c \in Calls, RotateInvitation(c) PROVE Invites(invitation'[i], r)
  <2> DEFINE end == request[c].at + InviteTTL
             next == [row EXCEPT !.status = "pending", !.token = row.token + 1, !.expires = end]
  <2>1. invitation'[i] = row \/ (invitation'[i] = next /\ end \in Nat)
    <3>1. request[c].at + InviteTTL \in Nat
      BY <1>7, OrgConstants DEF RotateInvitation, Writes, OrgInv, RequestsFit, Fits
    <3> QED
      BY <1>7, <3>1 DEF RotateInvitation, OrgInv, RowsFit
  <2>2. ASSUME NEW t \in Nat, t > r.token, r.token \in 0 .. t, NEW e \in Nat,
               invitation'[i] = [row EXCEPT !.status = "pending", !.token = t, !.expires = e]
        PROVE  Invites(invitation'[i], r)
    <3> DEFINE new == [row EXCEPT !.status = "pending", !.token = t, !.expires = e]
    <3>1. new \in InvitationRow
      BY <1>1 DEF InvitationRow
    <3>2. new.email = row.email /\ new.token = t
      BY <1>1 DEF InvitationRow
    <3>3. invitation'[i] = new
      BY <2>2
    <3> HIDE DEF new
    <3>4. new.token # r.token
      BY <2>2, <3>2 DEF Invites
    <3> QED
      BY <2>2, <3>1, <3>2, <3>3, <3>4 DEF Invites
  <2>3. row.token + 1 \in Nat /\ row.token + 1 > r.token /\ r.token \in 0 .. row.token + 1
    BY <1>1 DEF Invites
  <2> SUFFICES ASSUME invitation'[i] = next, end \in Nat PROVE Invites(invitation'[i], r)
    BY <2>1
  <2> HIDE DEF end
  <2> QED
    BY <2>2, <2>3
<1>8. \/ invitation' = invitation
      \/ \E c \in Calls : \/ InsertInvitation(c) \/ RevokeInvitation(c) \/ RotateInvitation(c)
                          \/ AcceptInvitation(c)
  BY InvitationWrites
<1> QED
  BY <1>2, <1>3, <1>5, <1>6, <1>7, <1>8

\* A request that is an accept before its write has just read its invitation.
LEMMA AcceptArrives ==
    ASSUME OrgInv, [OrgNext]_orgVars, NEW c \in Calls,
           request'[c].phase = "write", request'[c].op = "accept"
    PROVE  \/ request'[c] = request[c]
           \/ /\ invitation' = invitation
              /\ Invites(invitation[request'[c].inv], request'[c])
<1> SUFFICES ASSUME request'[c] # request[c]
             PROVE  invitation' = invitation /\ Invites(invitation[request'[c].inv], request'[c])
  OBVIOUS
<1> USE DEF OrgInv, RequestsFit
<1>1. ASSUME NEW i \in Invitations, NEW u \in Users, invitation[i] # NoRow,
             NEW token \in 1 .. invitation[i].token, Accept(c, u, i, token)
      PROVE  invitation' = invitation /\ Invites(invitation[request'[c].inv], request'[c])
  <2>1. invitation[i] \in InvitationRow /\ invitation[i].token \in Nat
    BY <1>1 DEF RowsFit, InvitationRow
  <2>2. request'[c] = [phase |-> "write", op |-> "accept", inv |-> i, at |-> instant,
                       user |-> u, role |-> invitation[i].role, token |-> token]
    BY <1>1 DEF Accept, Arrives
  <2> QED
    BY <1>1, <2>1, <2>2 DEF Accept, Arrives, Invites
<1>2. ASSUME NEW d \in Calls, request' = [request EXCEPT ![d] = Ended] PROVE FALSE
  BY <1>2 DEF Ended
<1>3. ASSUME NEW d \in Calls, ReadTarget(d) PROVE FALSE
  <2>1. d = c
    BY <1>3 DEF ReadTarget
  <2>2. Fits(request[c]) /\ request[c].phase = "target"
    BY <1>3, <2>1 DEF ReadTarget
  <2>3. request[c].op \in {"change", "remove", "leave", "transfer"}
        /\ {"phase", "op", "user"} \subseteq DOMAIN request[c]
    BY <2>2 DEF Fits
  <2>4. \/ request'[c] = Ended
        \/ request'[c] = [request[c] EXCEPT !.phase = "write"]
        \/ request'[c] = With(request[c], [phase |-> "write", version |-> member[request[c].user].version])
    BY <1>3, <2>1 DEF ReadTarget
  <2>5. request'[c].phase # "write" \/ request'[c].op = request[c].op
    BY <2>3, <2>4 DEF Ended, With
  <2> QED
    BY <2>3, <2>5
<1>4. ASSUME NEW d \in Unserved, NEW r, Arrives(d, r), r.op # "accept" PROVE FALSE
  BY <1>4 DEF Arrives, Unserved
<1>5. \/ \E i \in Invitations, u \in Users : invitation[i] # NoRow /\
             \E token \in 1 .. invitation[i].token : Accept(c, u, i, token)
      \/ \E d \in Calls : request' = [request EXCEPT ![d] = Ended] \/ ReadTarget(d)
      \/ \E d \in Unserved : \E r : Arrives(d, r) /\ r.op # "accept"
  <2>1. ASSUME NEW d \in Unserved, NEW i \in Invitations, NEW u \in Users, invitation[i] # NoRow,
               NEW token \in 1 .. invitation[i].token, Accept(d, u, i, token)
        PROVE  d = c
    BY <2>1 DEF Accept, Arrives, Unserved
  <2>2. ASSUME NEW d \in Calls,
               \/ InsertInvitation(d) \/ RevokeInvitation(d) \/ RotateInvitation(d) \/ AcceptInvitation(d)
               \/ WriteRole(d) \/ WriteRemoval(d) \/ WriteTransfer(d) \/ WriteLifecycle(d)
        PROVE  request' = [request EXCEPT ![d] = Ended]
    BY <2>2 DEF InsertInvitation, RevokeInvitation, RotateInvitation, AcceptInvitation, WriteRole,
               WriteRemoval, WriteTransfer, WriteLifecycle, Writes
  <2>3. ASSUME NEW d \in Unserved, NEW actor \in Users,
               \/ \E i \in Invitations, u \in Users, role \in Invitable : Invite(d, actor, i, u, role)
               \/ \E i \in Invitations, op \in {"revoke", "resend"} : Manage(d, actor, i, op)
               \/ \E u \in Users :
                      RemoveMember(d, actor, u) \/ TransferOwnership(d, actor, u)
                        \/ \E role \in Roles : ChangeRole(d, actor, u, role)
               \/ Leave(d, actor) \/ Update(d, actor)
               \/ \E move \in Moves : Lifecycle(d, actor, move)
        PROVE  \E r : Arrives(d, r) /\ r.op # "accept"
    BY <2>3, OtherArrivals
  <2> QED
    BY <2>1, <2>2, <2>3 DEF OrgNext, orgVars, PassTime
<1> QED
  BY <1>1, <1>2, <1>3, <1>4, <1>5

LEMMA AcceptsKnowStep ==
    ASSUME OrgInv, AcceptsKnow, [OrgNext]_orgVars
    PROVE  AcceptsKnow'
<1> SUFFICES ASSUME NEW c \in Calls, request'[c].phase = "write", request'[c].op = "accept"
             PROVE  Invites(invitation'[request'[c].inv], request'[c])
  BY DEF AcceptsKnow
<1>1. CASE request'[c] = request[c]
  <2>1. request[c].inv \in Invitations /\ Invites(invitation[request[c].inv], request[c])
    BY <1>1 DEF AcceptsKnow, OrgInv, RequestsFit, Fits
  <2> QED
    BY <1>1, <2>1, InvitesStep
<1> QED
  BY <1>1, AcceptArrives

LEMMA AcceptedBelongStep ==
    ASSUME OrgInv, AcceptsKnow, AcceptedBelong, [OrgNext]_orgVars
    PROVE  AcceptedBelong'
<1> SUFFICES ASSUME NEW i \in Invitations, invitation'[i].status = "accepted"
             PROVE  member'[invitation'[i].email].status # "absent"
  BY DEF AcceptedBelong
<1> USE DEF OrgInv, RowsFit
<1>1. ASSUME invitation'[i] = invitation[i] PROVE member'[invitation'[i].email].status # "absent"
  <2>1. invitation[i].email \in Users /\ member[invitation[i].email].status # "absent"
    BY <1>1 DEF AcceptedBelong, InvitationRow, NoRow
  <2> QED
    BY <1>1, <2>1, MembersStay
<1>2. ASSUME NEW c \in Calls, AcceptInvitation(c), invitation'[i] # invitation[i]
      PROVE  member'[invitation'[i].email].status # "absent"
  <2> DEFINE r == request[c]
  <2>1. r.inv = i /\ Acceptable(r) /\ Invites(invitation[i], r)
        /\ invitation'[i] = [invitation[i] EXCEPT !.status = "accepted"]
    BY <1>2 DEF AcceptInvitation, Writes, AcceptsKnow
  <2>2. invitation'[i].email = r.user /\ r.user \in Users
    BY <2>1 DEF Invites, InvitationRow
  <2>3. \E version : member'[r.user] = Row(r.role, version)
    BY <1>2, <2>1, <2>2 DEF AcceptInvitation, Admits
  <2> QED
    BY <2>2, <2>3 DEF Row
<1>3. ASSUME NEW c \in Calls, InsertInvitation(c) \/ RevokeInvitation(c) \/ RotateInvitation(c)
      PROVE  invitation'[i] = invitation[i]
  <2>1. CASE InsertInvitation(c)
    BY <2>1 DEF InsertInvitation
  <2>2. CASE RevokeInvitation(c)
    <3>1. invitation[i] \in InvitationRow => [invitation[i] EXCEPT !.status = "revoked"].status # "accepted"
      BY DEF InvitationRow
    <3> QED
      BY <2>2, <3>1 DEF RevokeInvitation, NoRow
  <2>3. CASE RotateInvitation(c)
    <3>1. ASSUME NEW t, NEW e, invitation[i] \in InvitationRow
          PROVE  [invitation[i] EXCEPT !.status = "pending", !.token = t, !.expires = e].status # "accepted"
      BY <3>1 DEF InvitationRow
    <3> QED
      BY <2>3, <3>1 DEF RotateInvitation, NoRow
  <2> QED
    BY <1>3, <2>1, <2>2, <2>3
<1>4. \/ invitation' = invitation
      \/ \E c \in Calls : \/ InsertInvitation(c) \/ RevokeInvitation(c) \/ RotateInvitation(c)
                          \/ AcceptInvitation(c)
  BY InvitationWrites
<1> QED
  BY <1>1, <1>2, <1>3, <1>4

LEMMA AcceptsKnowInitially == OrgInit => AcceptsKnow /\ AcceptedBelong
  BY DEF OrgInit, AcceptsKnow, AcceptedBelong, Fresh, NoRow, Sent

\* ACCEPT_INVITATION_SQL and INSERT_INVITED_MEMBERSHIP_SQL: only the token the
\* invitation still carries, received before it expired, makes its address a
\* member, whatever was revoked, resent or accepted since the request read it;
\* and only a user removed meanwhile comes in by an invitation spent before.
THEOREM OnlyLiveTokensEverJoin == OrgSpec => OnlyLiveTokensJoin
<1>1. ASSUME OrgInv, AcceptsKnow, AcceptedBelong, [OrgNext]_orgVars,
             NEW u \in Users, ~Active(u), Active(u)'
      PROVE  \E c \in Calls : Spends(c) /\ request[c].user = u
  <2>1. member' # member
    BY <1>1 DEF Active
  <2>2. PICK c \in Calls : WriteRole(c) \/ WriteRemoval(c) \/ WriteTransfer(c) \/ AcceptInvitation(c)
    BY <1>1, <2>1, OrgStep
  <2>3. AcceptInvitation(c)
    BY <1>1, <2>2, RoleStep, RemovalStep, TransferStep
  <2> DEFINE r == request[c]
             row == invitation[r.inv]
  <2>4. r.phase = "write" /\ request'[c] = Ended /\ r.op = "accept" /\ r.inv \in Invitations
    BY <1>1, <2>3 DEF AcceptInvitation, Writes, OrgInv, RequestsFit, Fits
  <2>5. r.user = u /\ Admits(r) /\ (Acceptable(r) => invitation'[r.inv].status = "accepted")
    BY <1>1, <2>3, AcceptStep
  <2>6. row.token = r.token
    BY <2>5 DEF Admits, Acceptable
  <2>7. row.expires > r.at /\ row.email = r.user
    BY <1>1, <2>4, <2>6 DEF AcceptsKnow, Invites
  <2>8. row.status = "accepted" => member[u].status = "removed"
    <3>1. row.status = "accepted" => member[u].status # "absent"
      BY <1>1, <2>4, <2>5, <2>7 DEF AcceptedBelong
    <3>2. member[u].status \in {"absent", "active", "removed"}
      BY <1>1 DEF OrgInv, RowsFit, MemberRow, NoRow
    <3> QED
      BY <1>1, <3>1, <3>2 DEF Active
  <2> QED
    BY <2>4, <2>5, <2>6, <2>7, <2>8 DEF Spends, Admits, Acceptable
<1>2. OrgInv /\ AcceptsKnow /\ AcceptedBelong /\ [OrgNext]_orgVars =>
          [\A u \in Users : ~Active(u) /\ Active(u)' =>
               \E c \in Calls : Spends(c) /\ request[c].user = u]_orgVars
  BY <1>1
<1> QED
  BY <1>2, OrgInitially, OrgStep, AcceptsKnowInitially, AcceptsKnowStep, AcceptedBelongStep, PTL
     DEF OrgSpec, OnlyLiveTokensJoin

-----------------------------------------------------------------------------
(***************************************************************************)
(* DeviceCodes: a code opens one session, for any number of approvals and  *)
(* exchanges in flight, any users and any life time of the code.           *)
(***************************************************************************)
(***************************************************************************)
(* The inductive invariant.  An exchange writes the user it read, in a     *)
(* later step than its read: that user still is the one of the code,       *)
(* because an approval only writes a pending code and a code never becomes *)
(* pending again.                                                          *)
(***************************************************************************)
ExchangesKnow ==
    \A a \in Attempts : attempt[a].phase = "exchange" =>
        /\ authorization.status \in {"approved", "consumed"}
        /\ attempt[a].user = authorization.user

CodeInv == CodeTypeOK /\ ExchangesKnow /\ CodeOpensOneSession

\* A step moves one handler.
LEMMA OneAttempt ==
    ASSUME CodeTypeOK, NEW a \in Attempts, NEW b \in Attempts, NEW r, Goes(a, r)
    PROVE  attempt'[b] = IF a = b THEN r ELSE attempt[b]
BY DEF CodeTypeOK, Goes

\* start keeps the invariant: nothing was exchanged before there was a code.
LEMMA StartKeeps ==
    ASSUME CodeTTL \in Nat, CodeInv, Start
    PROVE  CodeInv'
<1>1. authorization' \in Authorization
  BY DEF Start, Authorization, CodeInv, CodeTypeOK
<1>2. CodeTypeOK'
  BY <1>1 DEF Start, CodeInv, CodeTypeOK
<1>3. ExchangesKnow' /\ CodeOpensOneSession'
  BY DEF Start, CodeInv, ExchangesKnow, CodeOpensOneSession
<1> QED
  BY <1>2, <1>3 DEF CodeInv

\* approve: its read, and its conditional update.
LEMMA ApprovalKeeps ==
    ASSUME CodeInv, NEW a \in Attempts, (\E u \in Approvers : ReadForApproval(a, u)) \/ Approve(a)
    PROVE  CodeInv'
<1>1. ASSUME NEW u \in Approvers, ReadForApproval(a, u) PROVE CodeInv'
  <2>1. [phase |-> "approve", at |-> time, user |-> u] \in Handler
    BY DEF Handler, CodeInv, CodeTypeOK
  <2>2. CodeTypeOK'
    BY <1>1, <2>1 DEF ReadForApproval, Goes, CodeInv, CodeTypeOK
  <2>3. ExchangesKnow' /\ CodeOpensOneSession'
    BY <1>1, OneAttempt DEF ReadForApproval, CodeInv, ExchangesKnow, CodeOpensOneSession
  <2> QED
    BY <2>2, <2>3 DEF CodeInv
<1>2. CASE Approve(a)
  <2>1. [phase |-> "over"] \in Handler
    BY DEF Handler
  <2>2. attempt' \in [Attempts -> Handler]
    BY <1>2, <2>1 DEF Approve, Goes, CodeInv, CodeTypeOK
  <2>3. \A b \in Attempts : attempt'[b] = attempt[b] \/ attempt'[b].phase = "over"
    BY <1>2, OneAttempt DEF Approve, CodeInv
  <2>4. CASE authorization' = authorization
    BY <1>2, <2>2, <2>3, <2>4
       DEF Approve, CodeInv, CodeTypeOK, ExchangesKnow, CodeOpensOneSession
  <2>5. CASE authorization' # authorization
    <3>1. authorization.status = "pending" /\ attempt[a].user \in Approvers
      BY <1>2, <2>5 DEF Approve, Approvable, Available, CodeInv, CodeTypeOK, Handler
    <3>2. authorization' = [authorization EXCEPT !.status = "approved", !.user = attempt[a].user]
      BY <1>2, <2>5 DEF Approve
    <3>3. /\ authorization' \in Authorization
          /\ authorization'.status = "approved" /\ authorization'.user \in Approvers
      BY <3>1, <3>2 DEF CodeInv, CodeTypeOK, Authorization
    <3>4. delivered' = {} /\ sessions' = sessions
      BY <1>2, <3>1 DEF Approve, CodeInv, CodeOpensOneSession
    <3>5. \A b \in Attempts : attempt'[b].phase # "exchange"
      BY <2>3, <3>1 DEF CodeInv, ExchangesKnow
    <3> QED
      BY <1>2, <2>2, <3>3, <3>4, <3>5
         DEF Approve, CodeInv, CodeTypeOK, ExchangesKnow, CodeOpensOneSession
  <2> QED
    BY <2>4, <2>5
<1> QED
  BY <1>1, <1>2

\* exchange: its read, and its batch.
LEMMA ExchangeKeeps ==
    ASSUME CodeInv, NEW a \in Attempts, ReadForExchange(a) \/ Exchange(a)
    PROVE  CodeInv'
<1>1. CASE ReadForExchange(a)
  <2>1. authorization.status = "approved" /\ authorization.user \in Approvers
    BY <1>1 DEF ReadForExchange, Available, CodeInv, CodeTypeOK
  <2>2. [phase |-> "exchange", at |-> time, user |-> authorization.user] \in Handler
    BY <2>1 DEF Handler, CodeInv, CodeTypeOK
  <2>3. CodeTypeOK'
    BY <1>1, <2>2 DEF ReadForExchange, Goes, CodeInv, CodeTypeOK
  <2>4. ExchangesKnow' /\ CodeOpensOneSession'
    BY <1>1, <2>1, OneAttempt
       DEF ReadForExchange, CodeInv, ExchangesKnow, CodeOpensOneSession
  <2> QED
    BY <2>3, <2>4 DEF CodeInv
<1>2. CASE Exchange(a)
  <2> DEFINE r == attempt[a]
  <2>1. /\ authorization.status \in {"approved", "consumed"}
        /\ r.user = authorization.user /\ r.user \in Approvers
    BY <1>2 DEF Exchange, CodeInv, ExchangesKnow, CodeTypeOK
  <2>2. [phase |-> "over"] \in Handler
    BY DEF Handler
  <2>3. attempt' \in [Attempts -> Handler]
    BY <1>2, <2>2 DEF Exchange, Goes, CodeInv, CodeTypeOK
  <2>4. \A b \in Attempts : attempt'[b] = attempt[b] \/ attempt'[b].phase = "over"
    BY <1>2, OneAttempt DEF Exchange, CodeInv
  <2>5. sessions' = sessions \cup {<<a, r.user>>} /\ sessions' \subseteq Attempts \X Approvers
    BY <1>2, <2>1 DEF Exchange, CodeInv, CodeTypeOK
  <2>6. CASE Available("approved", r.at)
    <3>1. /\ authorization' = [authorization EXCEPT !.status = "consumed"]
          /\ delivered' = delivered \cup {a}
      BY <1>2, <2>6 DEF Exchange
    <3>2. delivered = {}
      BY <2>6 DEF Available, CodeInv, CodeOpensOneSession
    <3>3. /\ authorization' \in Authorization
          /\ authorization'.status = "consumed" /\ authorization'.user = authorization.user
      BY <2>1, <3>1 DEF CodeInv, CodeTypeOK, Authorization
    <3>4. CodeTypeOK'
      BY <1>2, <2>1, <2>3, <2>5, <3>1, <3>3 DEF Exchange, CodeInv, CodeTypeOK
    <3>5. ExchangesKnow'
      BY <2>4, <3>3 DEF CodeInv, ExchangesKnow
    <3>6. CodeOpensOneSession'
      BY <2>1, <2>5, <3>1, <3>2, <3>3 DEF CodeOpensOneSession
    <3> QED
      BY <3>4, <3>5, <3>6 DEF CodeInv
  <2>7. CASE ~Available("approved", r.at)
    <3>1. authorization' = authorization /\ delivered' = delivered
      BY <1>2, <2>7 DEF Exchange
    <3> QED
      BY <1>2, <2>3, <2>4, <2>5, <3>1
         DEF Exchange, CodeInv, CodeTypeOK, ExchangesKnow, CodeOpensOneSession
  <2> QED
    BY <2>6, <2>7
<1> QED
  BY <1>1, <1>2

\* The invariant holds in every state.
THEOREM CodeInvariance == CodeSpec => []CodeInv
<1> USE CodeConstants
<1>1. CodeInit => CodeInv
  BY DEF CodeInit, CodeInv, CodeTypeOK, Authorization, Handler, ExchangesKnow, CodeOpensOneSession
<1>2. CodeInv /\ [CodeNext]_codeVars => CodeInv'
  <2> SUFFICES ASSUME CodeInv, [CodeNext]_codeVars PROVE CodeInv'
    OBVIOUS
  <2>1. CASE Pass
    BY <2>1 DEF Pass, CodeInv, CodeTypeOK, ExchangesKnow, CodeOpensOneSession
  <2>2. CASE UNCHANGED codeVars
    BY <2>2 DEF codeVars, CodeInv, CodeTypeOK, ExchangesKnow, CodeOpensOneSession
  <2> QED
    BY <2>1, <2>2, StartKeeps, ApprovalKeeps, ExchangeKeeps DEF CodeNext
<1> QED
  BY <1>1, <1>2, PTL DEF CodeSpec

\* The code, the attempts and the sessions that they made keep their types.
THEOREM CodesTypeCorrect == CodeSpec => []CodeTypeOK
<1>1. CodeInv => CodeTypeOK
  BY DEF CodeInv
<1> QED
  BY <1>1, CodeInvariance, PTL

\* Of all exchanges that read a code approved, one is answered with a session,
\* which is the approving user's (approve, exchange).
THEOREM CodeAlwaysOpensOneSession == CodeSpec => []CodeOpensOneSession
<1>1. CodeInv => CodeOpensOneSession
  BY DEF CodeInv
<1> QED
  BY <1>1, CodeInvariance, PTL

-----------------------------------------------------------------------------
(***************************************************************************)
(* MachineIdentity.  The first theorem is what the order of the statements *)
(* in the batches comes to; the second is what rotation promises.          *)
(***************************************************************************)
\* What a handler carries: the command it was given.
HandlersKnow ==
    \A q \in KeyRequests :
        /\ served[q].at \in {"new", "read", "count", "write", "touch", "gone"}
        /\ served[q].at # "new" => served[q].command \in Commands

\* Accounts as their INSERT left them, keys as INSERT or rotation left them.
AccountsStayAsMade ==
    account \in [ServiceAccounts ->
        {NoAccount} \cup [status : {"active"}, version : {1}, capabilities : SUBSET Capabilities]]
KeyRows ==
    [status : {"absent", "active", "rotated"}, version : Nat,
     account : ServiceAccounts \cup {NoKey}, from : ApiKeys \cup {NoKey},
     to : ApiKeys \cup {NoKey}, used : BOOLEAN]
NoKeyIsRevoked == key \in [ApiKeys -> KeyRows]

\* A rotation is sent only for a key that was found.
RotationsFound ==
    \A q \in KeyRequests :
        served[q].at = "write" /\ served[q].command.kind = "rotate" =>
            Exists(key[served[q].command.key])

\* The versions that requests name are numbers, as the route's i64 is.
KeyInv ==
    /\ Versions \subseteq Int
    /\ DOMAIN served = KeyRequests
    /\ RotationsFound
    /\ HandlersKnow /\ AccountsStayAsMade /\ NoKeyIsRevoked
    /\ \A k \in ApiKeys : Exists(key[k]) => key[k].account \in ServiceAccounts

\* What each kind of command carries.
LEMMA CommandFields ==
  ASSUME NEW c \in Commands
  PROVE  /\ c.kind \in {"create_account", "patch", "suspend", "resume", "create_key",
                        "rotate", "authenticate", "revoke"}
         /\ c.kind \in {"create_account", "patch", "create_key"} =>
                c.capabilities \in SUBSET Capabilities
         /\ c.kind \in {"patch", "suspend", "resume", "create_key"} =>
                c.account \in ServiceAccounts
         /\ c.kind \in {"rotate", "authenticate", "revoke"} => c.key \in ApiKeys
         /\ c.kind \in {"patch", "suspend", "resume", "revoke"} => c.version \in Versions
BY DEF Commands

\* The UPDATE of a row at the named version moves it away from that version, so the
\* guard that follows it holds only where the UPDATE has matched nothing.
LEMMA GuardSeesTheUpdate ==
  ASSUME NEW row, NEW c, c.version \in Int,
         AccountGuard(Changed(row, c), c)
  PROVE  Changed(row, c) = row
BY DEF AccountGuard, Changed, Exists

LEMMA KeyGuardSeesTheUpdate ==
  ASSUME NEW row, NEW c
  PROVE  ~KeyGuard(Revoked(row, c), c)
<1>1. CASE row.status = "active" /\ row.version = c.version
  <2>1. Revoked(row, c) = [row EXCEPT !.status = "revoked", !.version = row.version + 1]
    BY <1>1 DEF Revoked
  <2> QED BY <2>1, <1>1 DEF KeyGuard
<1>2. CASE ~(row.status = "active" /\ row.version = c.version)
  BY <1>2 DEF KeyGuard, Revoked
<1> QED BY <1>1, <1>2

\* One handler moves; what it carries stays a command.
LEMMA OneHandlerMoves ==
  ASSUME KeyInv, NEW q \in KeyRequests, served[q].at # "new",
         \/ \E a : Responds(q, a)
         \/ \E p \in {"read", "count", "write", "touch"} : Proceeds(q, p)
  PROVE  DOMAIN served' = KeyRequests /\ HandlersKnow'
<1>1. served[q].command \in Commands BY DEF KeyInv, HandlersKnow
<1>2. ASSUME NEW a, Responds(q, a) PROVE DOMAIN served' = KeyRequests /\ HandlersKnow'
  BY <1>1, <1>2 DEF Responds, KeyInv, HandlersKnow
<1>3. ASSUME NEW p \in {"read", "count", "write", "touch"}, Proceeds(q, p)
      PROVE  DOMAIN served' = KeyRequests /\ HandlersKnow'
  BY <1>1, <1>3 DEF Proceeds, KeyInv, HandlersKnow
<1> QED BY <1>2, <1>3

\* A step that writes no row keeps the invariant.
LEMMA ReadsKeep ==
  ASSUME KeyInv, NEW q \in KeyRequests, served[q].at # "new",
         \/ \E a : Responds(q, a)
         \/ \E p \in {"read", "count", "write", "touch"} : Proceeds(q, p),
         Proceeds(q, "write") => (served[q].command.kind = "rotate" =>
                                  Exists(key[served[q].command.key])),
         UNCHANGED <<account, key>>
  PROVE  KeyInv'
<1>1. DOMAIN served' = KeyRequests /\ HandlersKnow' BY OneHandlerMoves
<1>2. RotationsFound'
  <2>1. CASE \E a : Responds(q, a)
    BY <2>1 DEF Responds, KeyInv, RotationsFound, Exists
  <2>2. ASSUME NEW p \in {"read", "count", "write", "touch"}, Proceeds(q, p)
        PROVE  RotationsFound'
    BY <2>2 DEF Proceeds, KeyInv, RotationsFound, Exists
  <2> QED BY <2>1, <2>2
<1>3. AccountsStayAsMade' /\ NoKeyIsRevoked'
      /\ \A k \in ApiKeys : Exists(key'[k]) => key'[k].account \in ServiceAccounts
  BY DEF KeyInv, AccountsStayAsMade, NoKeyIsRevoked, Exists
<1> QED BY <1>1, <1>2, <1>3 DEF KeyInv

LEMMA AnswersKeep ==
  ASSUME KeyInv, NEW q \in KeyRequests, served[q].at # "new", NEW a, Responds(q, a),
         UNCHANGED <<account, key>>
  PROVE  KeyInv'
<1>1. ~Proceeds(q, "write")
  <2>1. served'[q].at = "gone" BY DEF Responds, KeyInv
  <2>2. Proceeds(q, "write") => served'[q].at = "write" BY DEF Proceeds, KeyInv
  <2> QED BY <2>1, <2>2
<1> QED BY <1>1, ReadsKeep

LEMMA Beginning == MachineInit => KeyInv
<1> SUFFICES ASSUME MachineInit PROVE KeyInv OBVIOUS
<1> USE MachineConstants
<1>1. DOMAIN served = KeyRequests /\ HandlersKnow /\ RotationsFound
  BY DEF MachineInit, HandlersKnow, RotationsFound
<1>2. PICK made \in SUBSET ServiceAccounts, minted \in SUBSET ApiKeys :
        /\ account = [a \in ServiceAccounts |->
               IF a \in made
               THEN [status |-> "active", version |-> 1, capabilities |-> Capabilities]
               ELSE NoAccount]
        /\ \/ key = [k \in ApiKeys |-> MissingKey]
           \/ \E a \in made :
                  key = [k \in ApiKeys |-> IF k \in minted THEN NewKey(a, NoKey)
                                           ELSE MissingKey]
  BY DEF MachineInit
<1>3. AccountsStayAsMade
  <2> DEFINE Made == [status : {"active"}, version : {1}, capabilities : SUBSET Capabilities]
  <2>1. [status |-> "active", version |-> 1, capabilities |-> Capabilities] \in Made
    OBVIOUS
  <2>2. account \in [ServiceAccounts -> {NoAccount} \cup Made] BY <1>2, <2>1
  <2> QED BY <2>2 DEF AccountsStayAsMade
<1>4. NoKeyIsRevoked /\ \A k \in ApiKeys : Exists(key[k]) => key[k].account \in ServiceAccounts
  <2>1. CASE key = [k \in ApiKeys |-> MissingKey]
    BY <2>1 DEF NoKeyIsRevoked, KeyRows, MissingKey, Exists
  <2>2. ASSUME NEW a \in made,
               key = [k \in ApiKeys |-> IF k \in minted THEN NewKey(a, NoKey) ELSE MissingKey]
        PROVE  NoKeyIsRevoked
               /\ \A k \in ApiKeys : Exists(key[k]) => key[k].account \in ServiceAccounts
    BY <2>2 DEF NoKeyIsRevoked, KeyRows, MissingKey, NewKey, Exists
  <2> QED BY <1>2, <2>1, <2>2
<1> QED BY <1>1, <1>3, <1>4 DEF KeyInv

LEMMA RotatedRow ==
  ASSUME NEW row \in KeyRows, NEW new \in ApiKeys
  PROVE  Rotated(row, new) \in KeyRows /\ Rotated(row, new).account = row.account
<1>1. CASE Markable(row)
  <2>1. Rotated(row, new)
          = [row EXCEPT !.status = "rotated", !.to = new, !.version = row.version + 1]
    BY <1>1 DEF Rotated
  <2>2. row.version + 1 \in Nat BY DEF KeyRows
  <2>3. Rotated(row, new)
          = [status |-> "rotated", version |-> row.version + 1, account |-> row.account,
             from |-> row.from, to |-> new, used |-> row.used]
    BY <2>1, <2>2, Zenon DEF KeyRows
  <2>4. /\ row.account \in ServiceAccounts \cup {NoKey}
        /\ row.from \in ApiKeys \cup {NoKey} /\ row.used \in BOOLEAN
    BY DEF KeyRows
  <2> QED BY <2>2, <2>3, <2>4 DEF KeyRows
<1>2. CASE ~Markable(row) BY <1>2 DEF Rotated
<1> QED BY <1>1, <1>2

LEMMA RotatedStatus ==
  ASSUME NEW row \in KeyRows, NEW new \in ApiKeys
  PROVE  Rotated(row, new).status \in {"rotated", row.status}
<1>1. CASE Markable(row)
  <2>1. Rotated(row, new)
          = [row EXCEPT !.status = "rotated", !.to = new, !.version = row.version + 1]
    BY <1>1 DEF Rotated
  <2> QED BY <2>1 DEF KeyRows
<1>2. CASE ~Markable(row) BY <1>2 DEF Rotated
<1> QED BY <1>1, <1>2

\* The three statements that write keys.
LEMMA KeysKept ==
  ASSUME KeyInv, NEW q \in KeyRequests, served[q].at # "new",
         CreateKey(q) \/ RotateKey(q) \/ Touch(q)
  PROVE  /\ NoKeyIsRevoked'
         /\ \A k \in ApiKeys : Exists(key'[k]) => key'[k].account \in ServiceAccounts
<1>0. /\ key \in [ApiKeys -> KeyRows]
      /\ \A k \in ApiKeys : Exists(key[k]) => key[k].account \in ServiceAccounts
  BY DEF KeyInv, NoKeyIsRevoked
<1>1. served[q].command \in Commands BY DEF KeyInv, HandlersKnow
<1>2. ASSUME NEW a \in ServiceAccounts, NEW f \in ApiKeys \cup {NoKey}
      PROVE  NewKey(a, f) \in KeyRows /\ NewKey(a, f).account \in ServiceAccounts
  BY DEF NewKey, KeyRows
<1>3. CASE CreateKey(q)
  <2>1. served[q].command.account \in ServiceAccounts
    BY <1>1, <1>3, CommandFields DEF CreateKey, At
  <2> QED BY <1>0, <1>2, <1>3, <2>1 DEF CreateKey, NoKeyIsRevoked
<1>4. CASE RotateKey(q)
  <2> DEFINE old == served[q].command.key
  <2>1. old \in ApiKeys BY <1>1, <1>4, CommandFields DEF RotateKey, At
  <2>2. PICK new \in ApiKeys :
          /\ ~Exists(key[new])
          /\ key' = [key EXCEPT ![new] = NewKey(key[old].account, old),
                                ![old] = Rotated(key[old], new)]
    BY <1>4 DEF RotateKey
  <2>3. key[old] \in KeyRows /\ key[old].account \in ServiceAccounts
    BY <1>0, <1>4, <2>1 DEF RotateKey, At, KeyInv, RotationsFound
  <2>4. NewKey(key[old].account, old) \in KeyRows
        /\ NewKey(key[old].account, old).account \in ServiceAccounts
    BY <1>2, <2>1, <2>3
  <2>5. /\ Rotated(key[old], new) \in KeyRows
        /\ Rotated(key[old], new).account = key[old].account
    BY <2>3, RotatedRow
  <2> HIDE DEF old
  <2>6. /\ key' \in [ApiKeys -> KeyRows]
        /\ \A k \in ApiKeys : Exists(key'[k]) => key'[k].account \in ServiceAccounts
    BY <1>0, <2>1, <2>2, <2>3, <2>4, <2>5
  <2> QED BY <2>6 DEF NoKeyIsRevoked
<1>5. CASE Touch(q)
  <2> DEFINE k == served[q].command.key
             row == [key[k] EXCEPT !.used = TRUE]
  <2>1. k \in ApiKeys BY <1>1, <1>5, CommandFields DEF Touch, At
  <2>2. row \in KeyRows /\ row.status = key[k].status /\ row.account = key[k].account
    <3>1. key[k] \in KeyRows BY <1>0, <2>1
    <3> QED BY <3>1 DEF KeyRows
  <2>3. key' = key \/ key' = [key EXCEPT ![k] = row] BY <1>5 DEF Touch
  <2> HIDE DEF row, k
  <2> QED BY <1>0, <2>1, <2>2, <2>3 DEF NoKeyIsRevoked, Exists
<1> QED BY <1>3, <1>4, <1>5

\* Keys are never deleted.
LEMMA KeysStay ==
  ASSUME KeyInv, NEW q \in KeyRequests, served[q].at # "new",
         CreateKey(q) \/ RotateKey(q) \/ Touch(q)
  PROVE  \A k \in ApiKeys : Exists(key[k]) => Exists(key'[k])
<1> TAKE k \in ApiKeys
<1> HAVE Exists(key[k])
<1>1. key \in [ApiKeys -> KeyRows] BY DEF KeyInv, NoKeyIsRevoked
<1>2. CASE CreateKey(q) BY <1>1, <1>2 DEF CreateKey, NewKey, Exists
<1>3. CASE RotateKey(q)
  <2> DEFINE old == served[q].command.key
  <2>1. PICK new \in ApiKeys :
          /\ ~Exists(key[new])
          /\ key' = [key EXCEPT ![new] = NewKey(key[old].account, old),
                                ![old] = Rotated(key[old], new)]
    BY <1>3 DEF RotateKey
  <2>2. Rotated(key[k], new).status \in {"rotated", key[k].status}
    BY <1>1, RotatedStatus
  <2> HIDE DEF old
  <2> QED BY <1>1, <2>1, <2>2 DEF Exists, NewKey
<1>4. CASE Touch(q)
  <2> DEFINE m == served[q].command.key
             row == [key[m] EXCEPT !.used = TRUE]
  <2>1. m \in ApiKeys BY <1>4, CommandFields DEF Touch, At, KeyInv, HandlersKnow
  <2>2. row.status = key[m].status
    <3>1. key[m] \in KeyRows BY <1>1, <2>1
    <3> QED BY <3>1 DEF KeyRows
  <2>3. key' = key \/ key' = [key EXCEPT ![m] = row] BY <1>4 DEF Touch
  <2> HIDE DEF row, m
  <2> QED BY <1>1, <2>1, <2>2, <2>3 DEF Exists
<1> QED BY <1>2, <1>3, <1>4

\* The batch of an account: the guard lets it pass only when it changes nothing.
LEMMA AccountsUnmoved ==
  ASSUME KeyInv, NEW q \in KeyRequests, served[q].at # "new", ChangeAccount(q)
  PROVE  UNCHANGED <<account, key>> /\ \E a : Responds(q, a)
<1> DEFINE c == served[q].command
           row == Changed(account[c.account], c)
<1>1. c \in Commands BY DEF KeyInv, HandlersKnow
<1>2. c.version \in Int /\ c.account \in ServiceAccounts
  BY <1>1, CommandFields DEF ChangeAccount, At, KeyInv
<1>3. CASE AccountGuard(row, c)
  <2>1. row = account[c.account] BY <1>2, <1>3, GuardSeesTheUpdate
  <2>2. account' = [account EXCEPT ![c.account] = row] BY <1>3 DEF ChangeAccount
  <2> HIDE DEF row
  <2> QED BY <1>2, <1>3, <2>1, <2>2 DEF ChangeAccount, KeyInv, AccountsStayAsMade, row
<1>4. CASE ~AccountGuard(row, c) BY <1>4 DEF ChangeAccount
<1> QED BY <1>3, <1>4

\* The batch of a revocation never passes its guard.
LEMMA KeysUnmoved ==
  ASSUME NEW q \in KeyRequests, RevokeKey(q)
  PROVE  UNCHANGED <<account, key>> /\ \E a : Responds(q, a)
BY KeyGuardSeesTheUpdate DEF RevokeKey

LEMMA Step == KeyInv /\ [MachineNext]_machineVars => KeyInv'
<1> SUFFICES ASSUME KeyInv, [MachineNext]_machineVars PROVE KeyInv' OBVIOUS
<1>1. CASE UNCHANGED machineVars
  BY <1>1 DEF machineVars, KeyInv, HandlersKnow, RotationsFound, AccountsStayAsMade,
              NoKeyIsRevoked, Exists
<1>2. ASSUME NEW q \in KeyRequests, Receive(q) PROVE KeyInv'
  <2>1. PICK c \in Commands :
          served' = [served EXCEPT ![q] =
              [at |-> IF c.kind = "create_account" THEN "count"
                      ELSE IF c.kind \in {"suspend", "resume"} THEN "write" ELSE "read",
               command |-> c]]
    BY <1>2 DEF Receive
  <2>2. UNCHANGED <<account, key>> BY <1>2 DEF Receive
  <2>3. DOMAIN served' = KeyRequests /\ HandlersKnow' /\ RotationsFound'
    BY <2>1, <2>2 DEF KeyInv, HandlersKnow, RotationsFound, Exists
  <2> QED BY <2>2, <2>3 DEF KeyInv, AccountsStayAsMade, NoKeyIsRevoked, Exists
<1>3. ASSUME NEW q \in KeyRequests, ReadAccount(q) PROVE KeyInv'
  BY <1>3, ReadsKeep DEF ReadAccount, At
<1>4. ASSUME NEW q \in KeyRequests, Count(q) PROVE KeyInv'
  BY <1>4, ReadsKeep DEF Count, At
<1>5. ASSUME NEW q \in KeyRequests, ReadKey(q) PROVE KeyInv'
  <2>1. served[q].at # "new" /\ UNCHANGED <<account, key>> BY <1>5 DEF ReadKey, At
  <2>2. \/ \E a : Responds(q, a)
        \/ Exists(key[served[q].command.key]) /\ Proceeds(q, "write")
    BY <1>5 DEF ReadKey
  <2> QED BY <2>1, <2>2, AnswersKeep, ReadsKeep
<1>6. ASSUME NEW q \in KeyRequests, CreateAccount(q) PROVE KeyInv'
  <2> DEFINE Made == [status : {"active"}, version : {1}, capabilities : SUBSET Capabilities]
             c == served[q].command
  <2>1. c \in Commands /\ c.kind = "create_account" /\ served[q].at # "new"
    BY <1>6 DEF CreateAccount, At, KeyInv, HandlersKnow
  <2>2. [status |-> "active", version |-> 1, capabilities |-> c.capabilities] \in Made
    BY <2>1, CommandFields
  <2>3. (\E a : Responds(q, a)) /\ UNCHANGED key BY <1>6 DEF CreateAccount
  <2>4. AccountsStayAsMade'
    <3>1. account \in [ServiceAccounts -> {NoAccount} \cup Made]
      BY DEF KeyInv, AccountsStayAsMade
    <3>2. \/ UNCHANGED account
          \/ \E a \in ServiceAccounts : account' = [account EXCEPT ![a] =
                 [status |-> "active", version |-> 1, capabilities |-> c.capabilities]]
      BY <1>6 DEF CreateAccount
    <3> HIDE DEF Made, c
    <3>3. account' \in [ServiceAccounts -> {NoAccount} \cup Made] BY <2>2, <3>1, <3>2
    <3> QED BY <3>3 DEF AccountsStayAsMade, Made
  <2>5. DOMAIN served' = KeyRequests /\ HandlersKnow' BY <2>1, <2>3, OneHandlerMoves
  <2>6. RotationsFound' BY <2>3 DEF Responds, KeyInv, RotationsFound, Exists
  <2> QED BY <2>3, <2>4, <2>5, <2>6 DEF KeyInv, NoKeyIsRevoked, Exists
<1>7. ASSUME NEW q \in KeyRequests, ChangeAccount(q) PROVE KeyInv'
  <2>1. served[q].at = "write" BY <1>7 DEF ChangeAccount, At
  <2> QED BY <1>7, <2>1, AccountsUnmoved, AnswersKeep
<1>8. ASSUME NEW q \in KeyRequests, CreateKey(q) \/ RotateKey(q) \/ Touch(q) PROVE KeyInv'
  <2>1. served[q].at # "new" BY <1>8 DEF CreateKey, RotateKey, Touch, At
  <2>2. Responds(q, "ok") /\ UNCHANGED account BY <1>8 DEF CreateKey, RotateKey, Touch
  <2>3. DOMAIN served' = KeyRequests /\ HandlersKnow' BY <2>1, <2>2, OneHandlerMoves
  <2>4. NoKeyIsRevoked'
        /\ \A k \in ApiKeys : Exists(key'[k]) => key'[k].account \in ServiceAccounts
    BY <1>8, <2>1, KeysKept
  <2>5. \A k \in ApiKeys : Exists(key[k]) => Exists(key'[k])
    BY <1>8, <2>1, KeysStay
  <2>6. RotationsFound' BY <2>2, <2>5, CommandFields
          DEF Responds, KeyInv, RotationsFound, HandlersKnow
  <2> QED BY <2>2, <2>3, <2>4, <2>6 DEF KeyInv, AccountsStayAsMade, NoKeyIsRevoked, Exists
<1>9. ASSUME NEW q \in KeyRequests, RevokeKey(q) PROVE KeyInv'
  <2>1. served[q].at = "write" BY <1>9 DEF RevokeKey, At
  <2> QED BY <1>9, <2>1, KeysUnmoved, AnswersKeep
<1>10. ASSUME NEW q \in KeyRequests, Authenticate(q) PROVE KeyInv'
  BY <1>10, ReadsKeep DEF Authenticate, At
<1>11. ASSUME NEW q \in KeyRequests, Lose(q) PROVE KeyInv'
  BY <1>11, AnswersKeep DEF Lose
<1> QED BY <1>1, <1>2, <1>3, <1>4, <1>5, <1>6, <1>7, <1>8, <1>9, <1>10, <1>11
        DEF MachineNext, PatchAccount, TransitionAccount

THEOREM KeyInvariance == MachineSpec => []KeyInv
<1>1. MachineInit => KeyInv BY Beginning
<1> QED BY <1>1, Step, PTL DEF MachineSpec

\* What handlers store of themselves as they go on or answer.
HandlersTyped == served \in [KeyRequests -> Handlers]

LEMMA MovesTyped ==
  ASSUME KeyInv, HandlersTyped, NEW q \in KeyRequests, served[q].at # "new",
         \/ \E a \in Replies : Responds(q, a)
         \/ \E p \in {"read", "count", "write", "touch"} : Proceeds(q, p)
  PROVE  HandlersTyped'
<1>1. served[q].command \in Commands BY DEF KeyInv, HandlersKnow
<1>2. ASSUME NEW a \in Replies, Responds(q, a) PROVE HandlersTyped'
  <2>1. [at |-> "gone", command |-> served[q].command, answer |-> a] \in Handlers
    BY <1>1 DEF Handlers
  <2> QED BY <1>2, <2>1 DEF Responds, HandlersTyped
<1>3. ASSUME NEW p \in {"read", "count", "write", "touch"}, Proceeds(q, p) PROVE HandlersTyped'
  <2>1. [at |-> p, command |-> served[q].command] \in Handlers BY <1>1 DEF Handlers
  <2> QED BY <1>3, <2>1 DEF Proceeds, HandlersTyped
<1> QED BY <1>2, <1>3

LEMMA HandlersStep ==
  ASSUME KeyInv, HandlersTyped, [MachineNext]_machineVars
  PROVE  HandlersTyped'
<1>1. CASE UNCHANGED machineVars BY <1>1 DEF machineVars, HandlersTyped
<1>2. ASSUME NEW q \in KeyRequests, Receive(q) PROVE HandlersTyped'
  <2>1. PICK c \in Commands :
          served' = [served EXCEPT ![q] =
              [at |-> IF c.kind = "create_account" THEN "count"
                      ELSE IF c.kind \in {"suspend", "resume"} THEN "write" ELSE "read",
               command |-> c]]
    BY <1>2 DEF Receive
  <2> DEFINE new == [at |-> IF c.kind = "create_account" THEN "count"
                            ELSE IF c.kind \in {"suspend", "resume"} THEN "write" ELSE "read",
                     command |-> c]
  <2>2. new \in Handlers BY DEF Handlers
  <2>3. served' = [served EXCEPT ![q] = new] BY <2>1
  <2> HIDE DEF new
  <2> QED BY <2>2, <2>3 DEF HandlersTyped
<1>3. ASSUME NEW q \in KeyRequests, ReadAccount(q) \/ Count(q) \/ ReadKey(q) \/ Authenticate(q)
      PROVE  HandlersTyped'
  <2>1. served[q].at # "new"
    BY <1>3 DEF ReadAccount, Count, ReadKey, Authenticate, At
  <2>2. \/ \E a \in Replies : Responds(q, a)
        \/ \E p \in {"read", "count", "write", "touch"} : Proceeds(q, p)
    <3>1. CASE ReadAccount(q)
      <4>1. \/ Responds(q, "not_found") \/ Responds(q, "suspended") \/ Responds(q, "capability_unknown")
            \/ Proceeds(q, "write") \/ Proceeds(q, "count")
        BY <3>1 DEF ReadAccount
      <4> QED BY <4>1 DEF Replies
    <3>2. CASE Count(q)
      <4>1. Responds(q, "limit_reached") \/ Proceeds(q, "write") BY <3>2 DEF Count
      <4> QED BY <4>1 DEF Replies
    <3>3. CASE ReadKey(q)
      <4>1. Responds(q, "not_found") \/ Responds(q, "terminal") \/ Proceeds(q, "write")
        BY <3>3 DEF ReadKey
      <4> QED BY <4>1 DEF Replies
    <3>4. CASE Authenticate(q)
      <4>1. Responds(q, "key_invalid") \/ Proceeds(q, "touch") BY <3>4 DEF Authenticate
      <4> QED BY <4>1 DEF Replies
    <3> QED BY <1>3, <3>1, <3>2, <3>3, <3>4
  <2> QED BY <2>1, <2>2, MovesTyped
<1>4. ASSUME NEW q \in KeyRequests,
             \/ CreateAccount(q) \/ ChangeAccount(q) \/ CreateKey(q) \/ RotateKey(q)
             \/ RevokeKey(q) \/ Touch(q) \/ Lose(q)
      PROVE  HandlersTyped'
  <2>1. served[q].at # "new"
    BY <1>4 DEF CreateAccount, ChangeAccount, CreateKey, RotateKey, RevokeKey, Touch, Lose, At
  <2>2. \E a \in Replies : Responds(q, a)
    <3>1. \/ Responds(q, "ok") \/ Responds(q, "conflict") \/ Responds(q, "version_conflict")
          \/ Responds(q, "none")
      BY <1>4 DEF CreateAccount, ChangeAccount, CreateKey, RotateKey, RevokeKey, Touch, Lose
    <3> QED BY <3>1 DEF Replies
  <2> QED BY <2>1, <2>2, MovesTyped
<1> QED BY <1>1, <1>2, <1>3, <1>4 DEF MachineNext, PatchAccount, TransitionAccount

\* Accounts, keys and handlers keep their types, whatever requests arrive.
THEOREM MachineTypeCorrect == MachineSpec => []MachineTypeOK
<1>1. MachineInit => HandlersTyped BY DEF MachineInit, HandlersTyped, Handlers
<1>2. KeyInv /\ HandlersTyped /\ [MachineNext]_machineVars => HandlersTyped' BY HandlersStep
<1>3. KeyInv /\ HandlersTyped => MachineTypeOK
  <2> SUFFICES ASSUME KeyInv, HandlersTyped PROVE MachineTypeOK OBVIOUS
  <2> DEFINE Made == [status : {"active"}, version : {1}, capabilities : SUBSET Capabilities]
  <2>1. NoAccount \in Accounts /\ Made \subseteq Accounts BY DEF NoAccount, Accounts
  <2>2. account \in [ServiceAccounts -> {NoAccount} \cup Made] BY DEF KeyInv, AccountsStayAsMade
  <2> HIDE DEF Made
  <2>3. account \in [ServiceAccounts -> Accounts] BY <2>1, <2>2
  <2>4. KeyRows \subseteq KeyTypes BY DEF KeyRows, KeyTypes
  <2>5. key \in [ApiKeys -> KeyTypes] BY <2>4 DEF KeyInv, NoKeyIsRevoked
  <2> QED BY <2>3, <2>5 DEF KeyInv, HandlersTyped, MachineTypeOK
<1>4. MachineSpec => []KeyInv BY KeyInvariance
<1> QED BY <1>1, <1>2, <1>3, <1>4, PTL DEF MachineSpec

\* No request ever revokes a key, suspends an account or changes one: the guards of
\* these batches see the row after its UPDATE (revoke_api_key, patch_service_account,
\* transition_service_account).  What is lost is only what rotation replaces.
THEOREM RevocationNeverCommits == MachineSpec => [](AccountsStayAsMade /\ NoKeyIsRevoked)
<1>1. KeyInv => AccountsStayAsMade /\ NoKeyIsRevoked BY DEF KeyInv
<1> QED BY <1>1, KeyInvariance, PTL

LEMMA MarkedRow ==
  ASSUME NEW row \in KeyRows, NEW new \in ApiKeys
  PROVE  /\ row.status = "active" => Rotated(row, new).to = new
         /\ row.status = "rotated" => Rotated(row, new) = row
<1>1. row.status = "active" => Rotated(row, new).to = new
  <2> SUFFICES ASSUME row.status = "active" PROVE Rotated(row, new).to = new OBVIOUS
  <2>1. Rotated(row, new)
          = [row EXCEPT !.status = "rotated", !.to = new, !.version = row.version + 1]
    BY DEF Rotated, Markable
  <2> QED BY <2>1 DEF KeyRows
<1>2. row.status = "rotated" => Rotated(row, new) = row BY DEF Rotated, Markable
<1> QED BY <1>1, <1>2

LEMMA RotationSteps == KeyInv /\ MachineNext => RotationStep
<1> SUFFICES ASSUME KeyInv, MachineNext, NEW k \in ApiKeys
             PROVE  /\ key[k].status = "active" /\ key'[k].status = "rotated" =>
                           \E n \in ApiKeys :
                               /\ key'[k].to = n /\ ~Exists(key[n])
                               /\ key'[n] = NewKey(key[k].account, k)
                    /\ key[k].status = "rotated" =>
                           key'[k].status = "rotated" /\ key'[k].to = key[k].to
  BY DEF RotationStep
<1>0. key \in [ApiKeys -> KeyRows] BY DEF KeyInv, NoKeyIsRevoked
<1>1. CASE UNCHANGED key BY <1>1
<1>2. ASSUME NEW q \in KeyRequests, CreateKey(q)
      PROVE  key'[k] = key[k] \/ ~Exists(key[k])
  BY <1>0, <1>2 DEF CreateKey
<1>3. ASSUME NEW q \in KeyRequests, Touch(q)
      PROVE  key'[k].status = key[k].status /\ key'[k].to = key[k].to
  <2> DEFINE m == served[q].command.key
             row == [key[m] EXCEPT !.used = TRUE]
  <2>1. m \in ApiKeys BY <1>3, CommandFields DEF Touch, At, KeyInv, HandlersKnow
  <2>2. row.status = key[m].status /\ row.to = key[m].to
    <3>1. key[m] \in KeyRows BY <1>0, <2>1
    <3> QED BY <3>1 DEF KeyRows
  <2>3. key' = key \/ key' = [key EXCEPT ![m] = row] BY <1>3 DEF Touch
  <2> HIDE DEF row, m
  <2> QED BY <1>0, <2>1, <2>2, <2>3
<1>4. ASSUME NEW q \in KeyRequests, RotateKey(q)
      PROVE  /\ key[k].status = "active" /\ key'[k].status = "rotated" =>
                    \E n \in ApiKeys :
                        /\ key'[k].to = n /\ ~Exists(key[n])
                        /\ key'[n] = NewKey(key[k].account, k)
             /\ key[k].status = "rotated" => key'[k] = key[k]
  <2> DEFINE old == served[q].command.key
  <2>1. old \in ApiKeys BY <1>4, CommandFields DEF RotateKey, At, KeyInv, HandlersKnow
  <2>2. PICK new \in ApiKeys :
          /\ ~Exists(key[new])
          /\ key' = [key EXCEPT ![new] = NewKey(key[old].account, old),
                                ![old] = Rotated(key[old], new)]
    BY <1>4 DEF RotateKey
  <2>3. Exists(key[old]) /\ old # new
    BY <1>4, <2>2 DEF RotateKey, At, KeyInv, RotationsFound
  <2>4. /\ key'[new] = NewKey(key[old].account, old)
        /\ key'[old] = Rotated(key[old], new)
        /\ \A n \in ApiKeys \ {old, new} : key'[n] = key[n]
    BY <1>0, <2>1, <2>2, <2>3
  <2>5. /\ key[old].status = "active" => key'[old].to = new
        /\ key[old].status = "rotated" => key'[old] = key[old]
    BY <1>0, <2>1, <2>4, MarkedRow
  <2> HIDE DEF old
  <2>6. CASE k = old BY <2>2, <2>4, <2>5, <2>6
  <2>7. CASE k = new BY <2>2, <2>7 DEF Exists
  <2>8. CASE k \notin {old, new} BY <2>4, <2>8
  <2> QED BY <2>6, <2>7, <2>8
<1>5. \/ UNCHANGED key
      \/ \E q \in KeyRequests : CreateKey(q) \/ RotateKey(q) \/ Touch(q)
  <2>1. ASSUME NEW q \in KeyRequests, RevokeKey(q) PROVE UNCHANGED key
    BY <2>1, KeysUnmoved
  <2> QED BY <2>1 DEF MachineNext, Receive, ReadAccount, Count, ReadKey, CreateAccount,
                      PatchAccount, TransitionAccount, ChangeAccount, Authenticate, Lose
<1> QED BY <1>1, <1>2, <1>3, <1>4, <1>5 DEF Exists

\* What a rotation has written stands: a key dies by rotation only in the step that
\* makes its replacement, and a second rotation or a late sign-in never rewrites
\* what replaced it (rotate_api_key, MARK_KEY_ROTATED_SQL, touch_key_use).
THEOREM RotationsStand == MachineSpec => RotationStands
<1>1. KeyInv /\ [MachineNext]_machineVars => [RotationStep]_machineVars BY RotationSteps
<1> QED BY <1>1, KeyInvariance, PTL DEF MachineSpec, RotationStands
-----------------------------------------------------------------------------
(***************************************************************************)
(* ToolCalls: an allowance is earned, and a resolution is final.           *)
(***************************************************************************)
Statuses == {"absent", "requested", "allowed", "denied", "completed", "failed"}
ApprovalRow == [status : {"pending", "approved", "denied", "expired"},
                mode : {"session", "per_use"}, version : 1 .. 3, used : BOOLEAN, expires : Nat]

\* The version of an approval counts what has happened to it: it is asked for,
\* resolved, used.
InOrder(row) ==
    /\ row.status = "pending" => row.version = 1 /\ ~row.used
    /\ ~row.used => row.version <= 2
ApprovalsInOrder == \A c \in ToolCallIds : approval[c] # NoApproval => InOrder(approval[c])

Instants == 0 .. LastMoment
Asking == [phase : {"lookup"}, call : ToolCallIds, at : Instants, verdict : Policies]
Answering ==
    [phase : {"sequence"}, call : ToolCallIds, at : Instants, verdict : Policies,
     known : BOOLEAN, answer : {"allow", "deny", "wait"}, row : {NoApproval} \cup ApprovalRow]
Writing ==
    [phase : {"write"}, call : ToolCallIds, at : Instants, verdict : Policies,
     known : BOOLEAN, answer : {"allow", "deny", "wait"}, row : {NoApproval} \cup ApprovalRow,
     seq : Nat]

\* What an invocation has read of a row is still there when it writes.
DecidersKnow ==
    /\ decider \in [Deciders -> {New, Over} \cup Asking \cup Answering \cup Writing]
    /\ \A d \in Deciders : decider[d].phase \in {"sequence", "write"} =>
           /\ decider[d].known => tool[decider[d].call] # "absent"
           /\ decider[d].row # NoApproval => InOrder(decider[d].row)

Resolving ==
    [phase : {"sequence"}, call : ToolCallIds, at : Instants, version : Nat,
     status : {"approved", "denied", "expired"}]
        \cup [phase : {"write"}, call : ToolCallIds, at : Instants, version : Nat,
              status : {"approved", "denied", "expired"}, seq : Nat]
ResolversKnow == resolver \in [Resolvers -> {New, Over} \cup Resolving]

Reporting ==
    [phase : {"write"}, call : ToolCallIds, at : Instants, status : {"completed", "failed"},
     consume : BOOLEAN]
ReportersKnow == reporter \in [Reporters -> {New, Over} \cup Reporting]

GrantRow == [call : ToolCallIds, mode : {"session", "per_use"}, at : Nat, expires : Nat]

RowsTyped ==
    /\ moment \in Instants /\ open \in BOOLEAN /\ events \in Nat
    /\ policy.verdict \in Policies
    /\ tool \in [ToolCallIds -> Statuses]
    /\ approval \in [ToolCallIds -> {NoApproval} \cup ApprovalRow]
    /\ \A c \in ToolCallIds : approval[c] # NoApproval => tool[c] # "absent"
    /\ granted \subseteq GrantRow

\* A user has approved the call c, or some call of the run for the session, and
\* the window of what was approved ends at `end`.
Rests(given, c, mode, end) ==
    \E g \in given :
        /\ g.at < g.expires /\ g.expires = end
        /\ g.mode = mode /\ (g.call = c \/ g.mode = "session")
\* Every approved row rests on what a user has given, its own or one that it
\* was inherited from.
RowsRest ==
    \A c \in ToolCallIds : approval[c].status = "approved" => 
        Rests(granted, c, approval[c].mode, approval[c].expires)

\* A user has approved a call for the session, with a window that is open at t.
SessionGranted(given, t) ==
    \E g \in given : g.at < g.expires /\ t < g.expires /\ g.mode = "session"

\* An allowance that is about to be written rests on a grant for the session,
\* and so does the approved row beside it.
AnswerRests(given, call) ==
    call.phase \in {"sequence", "write"} =>
        /\ call.answer = "allow" /\ call.verdict # "allow" => SessionGranted(given, call.at)
        /\ call.row.status = "approved" =>
               call.row.mode = "session" /\ Rests(given, call.call, "session", call.row.expires)
DecidersEarn == \A d \in Deciders : AnswerRests(granted, decider[d])

\* Who is about to approve does so in time; the window of a row never moves.
ResolversEarn ==
    \A a \in Resolvers :
        resolver[a].phase \in {"sequence", "write"} /\ resolver[a].status = "approved" =>
            /\ approval[resolver[a].call].status # "absent"
            /\ resolver[a].at < approval[resolver[a].call].expires

ToolInv ==
    /\ RowsTyped /\ ApprovalsInOrder /\ DecidersKnow /\ ResolversKnow /\ ReportersKnow
    /\ RowsRest /\ DecidersEarn /\ ResolversEarn /\ AllowIsEarned

\* An approval stays one when it is resolved and when it is used.
RowResolved(r, status) == [r EXCEPT !.status = status, !.version = r.version + 1]
RowUsed(r) == [r EXCEPT !.used = TRUE, !.version = r.version + 1]

LEMMA ResolvedRow ==
    ASSUME NEW r \in ApprovalRow, r.version = 1, ~r.used, NEW s \in {"approved", "denied", "expired"}
    PROVE  RowResolved(r, s) \in ApprovalRow /\ InOrder(RowResolved(r, s))
<1> DEFINE next(v) == [r EXCEPT !.status = s, !.version = v]
<1>1. RowResolved(r, s) = next(r.version + 1) /\ r.version + 1 = 2 /\ 2 \in 1 .. 3
  BY DEF RowResolved
<1>2. \A v \in 1 .. 3 : next(v) \in ApprovalRow
  BY DEF ApprovalRow
<1>3. \A v \in 1 .. 3 : next(v).status = s /\ next(v).version = v
  BY DEF ApprovalRow
<1>4. InOrder(next(2))
  BY <1>1, <1>3 DEF InOrder
<1> QED
  BY <1>1, <1>2, <1>4

LEMMA UsedRow ==
    ASSUME NEW r \in ApprovalRow, r.status = "approved", r.version <= 2
    PROVE  RowUsed(r) \in ApprovalRow /\ InOrder(RowUsed(r))
<1> DEFINE next(v) == [r EXCEPT !.used = TRUE, !.version = v]
<1>1. RowUsed(r) = next(r.version + 1) /\ r.version + 1 \in 1 .. 3
  BY DEF RowUsed, ApprovalRow
<1>2. \A v \in 1 .. 3 : next(v) \in ApprovalRow
  BY DEF ApprovalRow
<1>3. \A v \in 1 .. 3 : next(v).status = "approved" /\ next(v).used
  BY DEF ApprovalRow
<1>4. \A v \in 1 .. 3 : InOrder(next(v))
  BY <1>3 DEF InOrder
<1> QED
  BY <1>1, <1>2, <1>4

LEMMA ToolInitially == ToolInit => ToolInv
<1> SUFFICES ASSUME ToolInit PROVE ToolInv
  OBVIOUS
<1> USE ToolConstants
<1>1. RowsTyped
  BY DEF ToolInit, RowsTyped, Instants, Statuses
<1>2. ApprovalsInOrder
  BY DEF ToolInit, ApprovalsInOrder
<1>3. DecidersKnow /\ DecidersEarn /\ ResolversEarn /\ RowsRest
  BY DEF ToolInit, DecidersKnow, DecidersEarn, AnswerRests, ResolversEarn, RowsRest, New, NoApproval
<1>4. ResolversKnow /\ ReportersKnow
  BY DEF ToolInit, ResolversKnow, ReportersKnow
<1>5. AllowIsEarned
  BY DEF ToolInit, AllowIsEarned
<1> QED
  BY <1>1, <1>2, <1>3, <1>4, <1>5 DEF ToolInv

-----------------------------------------------------------------------------
\* What a step leaves of an approval and of a call.
CallStands ==
    \A c \in ToolCallIds :
        /\ tool[c] # "absent" => tool'[c] # "absent"
        /\ approval[c].status # "absent" => /\ approval'[c].status # "absent"
                                            /\ approval'[c].mode = approval[c].mode
                                            /\ approval'[c].expires = approval[c].expires
        /\ approval[c].status \notin {"absent", "pending"} =>
               approval'[c].status = approval[c].status

LEMMA DecisionStands ==
    ASSUME ToolInv, NEW d \in Deciders, Decide(d)
    PROVE  CallStands
<1> DEFINE c == decider[d].call
<1>1. decider[d] \in Writing
  BY DEF ToolInv, DecidersKnow, Decide, New, Over, Asking, Answering, Writing
<1>2. CASE Insertable(d)
  <2>1. tool' = [tool EXCEPT ![c] = CallAfter(d, tool[c])]
    BY <1>2 DEF Decide
  <2>2. tool[c] # "absent" => CallAfter(d, tool[c]) # "absent"
    BY DEF CallAfter, Updated
  <2>3. approval' = approval \/ (approval[c] = NoApproval /\ approval' = [approval EXCEPT ![c] = decider[d].row])
    BY <1>2 DEF Decide, Insertable
  <2> QED
    BY <1>1, <2>1, <2>2, <2>3 DEF CallStands, ToolInv, RowsTyped, Writing, Grants, NoApproval
<1>3. CASE ~Insertable(d)
  BY <1>3 DEF Decide, CallStands
<1> QED
  BY <1>2, <1>3

LEMMA ResolutionStands ==
    ASSUME ToolInv, NEW a \in Resolvers, ResolveWrite(a)
    PROVE  CallStands
<1> DEFINE c == resolver[a].call
<1>1. CASE Pending(a) /\ resolver[a].seq = events + 1
  <2>1. /\ approval[c].status = "pending"
        /\ approval' = [approval EXCEPT ![c].status = resolver[a].status,
                                        ![c].version = approval[c].version + 1]
    BY <1>1 DEF ResolveWrite, Pending
  <2>2. tool' = tool
    BY DEF ResolveWrite
  <2>3. resolver[a] \in Resolving
    BY DEF ToolInv, ResolversKnow, ResolveWrite, New, Over
  <2>4. resolver[a].status # "absent" /\ c \in ToolCallIds
    BY <2>3 DEF Resolving
  <2>5. approval[c] \in ApprovalRow
    BY <2>1, <2>4 DEF ToolInv, RowsTyped, NoApproval
  <2>6. /\ approval'[c].status = resolver[a].status /\ approval'[c].mode = approval[c].mode
        /\ approval'[c].expires = approval[c].expires
    BY <2>1, <2>4, <2>5 DEF ToolInv, RowsTyped, ApprovalRow
  <2>7. \A x \in ToolCallIds \ {c} : approval'[x] = approval[x]
    BY <2>1, <2>4 DEF ToolInv, RowsTyped
  <2> QED
    BY <2>1, <2>2, <2>4, <2>6, <2>7 DEF CallStands
<1>2. CASE ~(Pending(a) /\ resolver[a].seq = events + 1)
  BY <1>2 DEF ResolveWrite, CallStands
<1> QED
  BY <1>1, <1>2

LEMMA ReportStands ==
    ASSUME ToolInv, NEW p \in Reporters, ReportWrite(p)
    PROVE  CallStands
<1> DEFINE c == reporter[p].call
<1>1. reporter[p] \in Reporting
  BY DEF ToolInv, ReportersKnow, ReportWrite, New, Over
<1>2. tool' = [tool EXCEPT ![c] = Updated(tool[c], reporter[p].status)]
  BY DEF ReportWrite
<1>3. tool[c] # "absent" => Updated(tool[c], reporter[p].status) # "absent"
  BY <1>1 DEF Updated, Reporting
<1>4. \/ approval' = approval
      \/ /\ approval[c].status = "approved"
         /\ approval' = [approval EXCEPT ![c].used = TRUE, ![c].version = approval[c].version + 1]
  BY DEF ReportWrite, Consumable, Grants
<1>5. approval[c] \in ApprovalRow \/ approval[c].status # "approved"
  BY <1>1 DEF ToolInv, RowsTyped, NoApproval, Reporting
<1> QED
  BY <1>1, <1>2, <1>3, <1>4, <1>5 DEF CallStands, ToolInv, RowsTyped, Grants, ApprovalRow, Reporting

LEMMA EveryStepStands == ToolInv /\ [ToolNext]_toolVars => CallStands
<1> SUFFICES ASSUME ToolInv, [ToolNext]_toolVars PROVE CallStands
  OBVIOUS
<1>1. ASSUME UNCHANGED <<tool, approval>> PROVE CallStands
  BY <1>1 DEF CallStands
<1>2. ASSUME NEW d \in Deciders,
             (\E c \in ToolCallIds : Evaluate(d, c)) \/ LookUpApproval(d) \/ ReadEvents(d) \/ Decide(d)
      PROVE  CallStands
  BY <1>1, <1>2, DecisionStands DEF Evaluate, LookUpApproval, ReadEvents
<1>3. ASSUME NEW a \in Resolvers,
             \/ \E c \in ToolCallIds, decision \in {"approved", "denied"} : ResolveBegin(a, c, decision)
             \/ ResolveSequence(a)
             \/ ResolveWrite(a)
      PROVE  CallStands
  BY <1>1, <1>3, ResolutionStands DEF ResolveBegin, ResolveSequence
<1>4. ASSUME NEW p \in Reporters,
             \/ \E c \in ToolCallIds, status \in {"completed", "failed"} : ReportBegin(p, c, status)
             \/ ReportWrite(p)
      PROVE  CallStands
  BY <1>1, <1>4, ReportStands DEF ReportBegin
<1>5. CASE (\E v \in Policies : EditPolicy(v)) \/ EndRun \/ Elapse
  BY <1>1, <1>5 DEF EditPolicy, EndRun, Elapse
<1>6. CASE UNCHANGED toolVars
  BY <1>1, <1>6 DEF toolVars
<1> QED
  BY <1>2, <1>3, <1>4, <1>5, <1>6 DEF ToolNext

-----------------------------------------------------------------------------
(* The steps that write rows.                                              *)

LEMMA DecisionRows ==
    ASSUME ToolInv, NEW d \in Deciders, Decide(d)
    PROVE  RowsTyped' /\ ApprovalsInOrder'
<1> DEFINE c == decider[d].call
           row == decider[d].row
<1>1. decider[d] \in Writing
  BY DEF ToolInv, DecidersKnow, Decide, New, Over, Asking, Answering, Writing
<1>2. row # NoApproval => InOrder(row)
  BY DEF ToolInv, DecidersKnow, Decide
<1>3. UNCHANGED <<moment, policy, open, granted>>
  BY DEF Decide
<1>4. CASE Insertable(d)
  <2>1. tool' = [tool EXCEPT ![c] = CallAfter(d, tool[c])]
    BY <1>4 DEF Decide
  <2>2. CallAfter(d, tool[c]) \in Statuses
    BY <1>1 DEF CallAfter, Updated, ToolInv, RowsTyped, Statuses, Writing
  <2>3. CallAfter(d, tool[c]) # "absent"
    BY DEF CallAfter, Updated, ToolInv, DecidersKnow, Decide
  <2>4. approval' = IF row = NoApproval THEN approval ELSE [approval EXCEPT ![c] = row]
    BY <1>4 DEF Decide
  <2>5. events' = events + 1
    BY <1>4 DEF Decide
  <2>6. approval' \in [ToolCallIds -> {NoApproval} \cup ApprovalRow]
    BY <1>1, <2>4 DEF ToolInv, RowsTyped, Writing
  <2>7. \A x \in ToolCallIds : approval'[x] # NoApproval => tool'[x] # "absent"
    BY <1>1, <2>1, <2>3, <2>4 DEF ToolInv, RowsTyped, Writing
  <2>8. RowsTyped'
    <3>1. /\ open' \in BOOLEAN /\ moment' \in Instants /\ policy'.verdict \in Policies
          /\ granted' \subseteq GrantRow
      BY <1>3 DEF ToolInv, RowsTyped
    <3>2. events' \in Nat
      BY <2>5 DEF ToolInv, RowsTyped
    <3>3. tool' \in [ToolCallIds -> Statuses]
      BY <2>1, <2>2 DEF ToolInv, RowsTyped
    <3> QED
      BY <2>6, <2>7, <3>1, <3>2, <3>3 DEF RowsTyped
  <2>9. ApprovalsInOrder'
    BY <1>1, <1>2, <2>4 DEF ToolInv, RowsTyped, ApprovalsInOrder, Writing
  <2> QED
    BY <2>8, <2>9
<1>5. CASE ~Insertable(d)
  BY <1>3, <1>5 DEF Decide, ToolInv, RowsTyped, ApprovalsInOrder
<1> QED
  BY <1>4, <1>5

LEMMA ResolutionRows ==
    ASSUME ToolInv, NEW a \in Resolvers, ResolveWrite(a)
    PROVE  RowsTyped' /\ ApprovalsInOrder'
<1> DEFINE c == resolver[a].call
           next == RowResolved(approval[c], resolver[a].status)
<1>1. resolver[a] \in Resolving
  BY DEF ToolInv, ResolversKnow, ResolveWrite, New, Over
<1>2. UNCHANGED <<moment, policy, open, tool>>
  BY DEF ResolveWrite
<1>3. CASE Pending(a) /\ resolver[a].seq = events + 1
  <2>1. approval[c].status = "pending" /\ c \in ToolCallIds
    BY <1>1, <1>3 DEF Pending, Resolving
  <2>2. approval[c] \in ApprovalRow /\ approval[c].version = 1 /\ ~approval[c].used
    BY <2>1 DEF ToolInv, RowsTyped, ApprovalsInOrder, InOrder, NoApproval
  <2>3. approval' = [approval EXCEPT ![c] = next]
    BY <1>3 DEF ResolveWrite, RowResolved
  <2>4. resolver[a].status \in {"approved", "denied", "expired"}
    BY <1>1 DEF Resolving
  <2>5. next \in ApprovalRow /\ InOrder(next)
    BY <2>2, <2>4, ResolvedRow
  <2>6. events' = events + 1
    BY <1>3 DEF ResolveWrite
  <2>7. approval[c] # NoApproval
    BY <2>1 DEF NoApproval
  <2>10. granted' \subseteq GrantRow
    <3>1. Given(a) \in GrantRow
      BY <1>1, <2>1, <2>2, ToolConstants DEF Given, GrantRow, ApprovalRow, Resolving, Instants
    <3>2. granted' \subseteq granted \cup {Given(a)}
      BY <1>3 DEF ResolveWrite
    <3> QED
      BY <3>1, <3>2 DEF ToolInv, RowsTyped
  <2>8. RowsTyped'
    BY <1>2, <2>1, <2>3, <2>5, <2>6, <2>7, <2>10 DEF ToolInv, RowsTyped
  <2>9. ApprovalsInOrder'
    BY <2>1, <2>3, <2>5 DEF ToolInv, RowsTyped, ApprovalsInOrder
  <2> QED
    BY <2>8, <2>9
<1>4. CASE ~(Pending(a) /\ resolver[a].seq = events + 1)
  BY <1>2, <1>4 DEF ResolveWrite, ToolInv, RowsTyped, ApprovalsInOrder
<1> QED
  BY <1>3, <1>4

LEMMA ReportRows ==
    ASSUME ToolInv, NEW p \in Reporters, ReportWrite(p)
    PROVE  RowsTyped' /\ ApprovalsInOrder'
<1> DEFINE c == reporter[p].call
           next == RowUsed(approval[c])
<1>1. reporter[p] \in Reporting
  BY DEF ToolInv, ReportersKnow, ReportWrite, New, Over
<1>2. UNCHANGED <<moment, policy, open, events, granted>>
  BY DEF ReportWrite
<1>3. tool' = [tool EXCEPT ![c] = Updated(tool[c], reporter[p].status)]
  BY DEF ReportWrite
<1>4. Updated(tool[c], reporter[p].status) \in Statuses
  BY <1>1 DEF Updated, ToolInv, RowsTyped, Statuses, Reporting
<1>5. tool[c] # "absent" => Updated(tool[c], reporter[p].status) # "absent"
  BY <1>1 DEF Updated, Reporting
<1>6. CASE Consumable(p)
  <2>1. approval[c].status = "approved" /\ c \in ToolCallIds /\ ~approval[c].used
    BY <1>1, <1>6 DEF Consumable, Grants, Reporting
  <2>2. approval[c] \in ApprovalRow /\ approval[c].version <= 2
    BY <2>1 DEF ToolInv, RowsTyped, ApprovalsInOrder, InOrder, NoApproval
  <2>3. approval' = [approval EXCEPT ![c] = next]
    BY <1>6 DEF ReportWrite, RowUsed
  <2>4. next \in ApprovalRow /\ InOrder(next)
    BY <2>1, <2>2, UsedRow
  <2>6. approval[c] # NoApproval
    BY <2>1 DEF NoApproval
  <2>7. RowsTyped'
    BY <1>2, <1>3, <1>4, <1>5, <2>1, <2>3, <2>4, <2>6 DEF ToolInv, RowsTyped
  <2>8. ApprovalsInOrder'
    BY <2>1, <2>3, <2>4 DEF ToolInv, RowsTyped, ApprovalsInOrder
  <2> QED
    BY <2>7, <2>8
<1>7. CASE ~Consumable(p)
  BY <1>1, <1>2, <1>3, <1>4, <1>5, <1>7 DEF ReportWrite, ToolInv, RowsTyped, ApprovalsInOrder, Reporting
<1> QED
  BY <1>6, <1>7

LEMMA RowsStep == ToolInv /\ [ToolNext]_toolVars => RowsTyped' /\ ApprovalsInOrder'
<1> SUFFICES ASSUME ToolInv, [ToolNext]_toolVars PROVE RowsTyped' /\ ApprovalsInOrder'
  OBVIOUS
<1>1. ASSUME UNCHANGED <<moment, policy, open, events, tool, approval, granted>>
      PROVE  RowsTyped' /\ ApprovalsInOrder'
  BY <1>1 DEF ToolInv, RowsTyped, ApprovalsInOrder
<1>2. ASSUME NEW d \in Deciders,
             (\E c \in ToolCallIds : Evaluate(d, c)) \/ LookUpApproval(d) \/ ReadEvents(d) \/ Decide(d)
      PROVE  RowsTyped' /\ ApprovalsInOrder'
  BY <1>1, <1>2, DecisionRows DEF Evaluate, LookUpApproval, ReadEvents
<1>3. ASSUME NEW a \in Resolvers,
             \/ \E c \in ToolCallIds, decision \in {"approved", "denied"} : ResolveBegin(a, c, decision)
             \/ ResolveSequence(a)
             \/ ResolveWrite(a)
      PROVE  RowsTyped' /\ ApprovalsInOrder'
  BY <1>1, <1>3, ResolutionRows DEF ResolveBegin, ResolveSequence
<1>4. ASSUME NEW p \in Reporters,
             \/ \E c \in ToolCallIds, status \in {"completed", "failed"} : ReportBegin(p, c, status)
             \/ ReportWrite(p)
      PROVE  RowsTyped' /\ ApprovalsInOrder'
  BY <1>1, <1>4, ReportRows DEF ReportBegin
<1>5. CASE \E v \in Policies : EditPolicy(v)
  BY <1>5 DEF EditPolicy, ToolInv, RowsTyped, ApprovalsInOrder
<1>6. CASE EndRun
  <2>1. open' = FALSE /\ events' = events + 1 /\ UNCHANGED <<moment, policy, tool, approval, granted>>
    BY <1>6 DEF EndRun
  <2>2. events' \in Nat
    BY <2>1 DEF ToolInv, RowsTyped
  <2> QED
    BY <2>1, <2>2 DEF ToolInv, RowsTyped, ApprovalsInOrder
<1>7. CASE Elapse
  BY <1>7, ToolConstants DEF Elapse, ToolInv, RowsTyped, ApprovalsInOrder, Instants
<1>8. CASE UNCHANGED toolVars
  BY <1>1, <1>8 DEF toolVars
<1> QED
  BY <1>2, <1>3, <1>4, <1>5, <1>6, <1>7, <1>8 DEF ToolNext

-----------------------------------------------------------------------------
(* What the invocations know.                                              *)

\* A user has approved the call c, or some call for the session, with a window
\* that is open at t.
Approved(given, c, t) ==
    \E g \in given : g.at < g.expires /\ t < g.expires /\ (g.call = c \/ g.mode = "session")

\* What is given stays given.
LEMMA GivenStays ==
    ASSUME NEW S, NEW T, S \subseteq T
    PROVE  /\ \A c, mode, end : Rests(S, c, mode, end) => Rests(T, c, mode, end)
           /\ \A t : SessionGranted(S, t) => SessionGranted(T, t)
           /\ \A c, t : Approved(S, c, t) => Approved(T, c, t)
           /\ \A call : AnswerRests(S, call) => AnswerRests(T, call)
BY DEF Rests, SessionGranted, Approved, AnswerRests

\* An approved row whose window is open rests on an approval whose is, too.
LEMMA OpenRowIsGiven ==
    ASSUME ToolInv, NEW x \in ToolCallIds, NEW t \in Nat, Grants(approval[x], t)
    PROVE  /\ Approved(granted, x, t)
           /\ approval[x].mode = "session" =>
                  /\ SessionGranted(granted, t)
                  /\ \A c : Rests(granted, c, "session", approval[x].expires)
<1>1. Rests(granted, x, approval[x].mode, approval[x].expires) /\ t < approval[x].expires
  <2>1. approval[x].status = "approved" /\ approval[x].expires > t
    BY DEF Grants
  <2>2. approval[x].expires \in Nat
    BY <2>1 DEF ToolInv, RowsTyped, NoApproval, ApprovalRow
  <2> QED
    BY <2>1, <2>2 DEF ToolInv, RowsRest
<1>2. PICK g \in granted : /\ g.at < g.expires /\ g.expires = approval[x].expires
                           /\ g.mode = approval[x].mode /\ (g.call = x \/ g.mode = "session")
  BY <1>1 DEF Rests
<1> QED
  BY <1>1, <1>2 DEF Approved, SessionGranted, Rests

\* What resolve_decision makes of the rows it found.
LEMMA ResolvedRests ==
    ASSUME ToolInv, NEW d \in Deciders, decider[d] \in Asking, NEW r \in Resolved(d, decider[d].call)
    PROVE  /\ r.answer \in {"allow", "deny", "wait", "replay_wait", "replay_allow"}
           /\ r.row \in {NoApproval} \cup ApprovalRow
           /\ r.row # NoApproval => InOrder(r.row)
           /\ r.answer = "allow" /\ decider[d].verdict # "allow" =>
                  SessionGranted(granted, decider[d].at)
           /\ r.row.status = "approved" =>
                  r.row.mode = "session" /\ Rests(granted, decider[d].call, "session", r.row.expires)
           /\ r.answer = "replay_allow" => Approved(granted, decider[d].call, decider[d].at)
<1> DEFINE c == decider[d].call
           seen == approval[c]
           verdict == decider[d].verdict
           new == [status |-> "pending", mode |-> verdict, version |-> 1, used |-> FALSE,
                   expires |-> decider[d].at + ApprovalTTL]
           given(end) == [status |-> "approved", mode |-> "session", version |-> 1, used |-> FALSE,
                          expires |-> end]
<1>1. verdict \in Policies /\ c \in ToolCallIds /\ decider[d].at \in Nat
  BY ToolConstants DEF Asking, Instants
<1>2. \/ r = [answer |-> "deny", row |-> NoApproval]
      \/ r = [answer |-> "replay_wait", row |-> NoApproval]
      \/ /\ Grants(seen, decider[d].at)
         /\ r = [answer |-> "replay_allow", row |-> NoApproval]
      \/ /\ verdict = "allow"
         /\ r = [answer |-> "allow", row |-> NoApproval]
      \/ /\ verdict = "session"
         /\ \E x \in Reusable(d, c) :
                r = [answer |-> "allow", row |-> given(approval[x].expires)]
      \/ /\ verdict \notin {"allow", "deny"}
         /\ r = [answer |-> "wait", row |-> new]
  BY DEF Resolved
<1>3. CASE /\ r.row = NoApproval
           /\ \/ r.answer \in {"deny", "replay_wait"}
              \/ Grants(seen, decider[d].at) /\ r.answer = "replay_allow"
              \/ verdict = "allow" /\ r.answer = "allow"
  <2>1. r.row.status = "absent"
    BY <1>3 DEF NoApproval
  <2>2. r.answer = "replay_allow" => Approved(granted, c, decider[d].at)
    BY <1>1, <1>3, OpenRowIsGiven
  <2> QED
    BY <1>3, <2>1, <2>2
<1>4. ASSUME NEW x \in Reusable(d, c), r = [answer |-> "allow", row |-> given(approval[x].expires)]
      PROVE  /\ r.answer = "allow" /\ r.row \in ApprovalRow /\ InOrder(r.row)
             /\ r.row.status = "approved" /\ r.row.mode = "session"
             /\ SessionGranted(granted, decider[d].at)
             /\ Rests(granted, c, "session", r.row.expires)
  <2>1. x \in ToolCallIds /\ Grants(approval[x], decider[d].at) /\ approval[x].mode = "session"
    BY DEF Reusable
  <2>2. approval[x].expires \in Nat
    BY <2>1 DEF ToolInv, RowsTyped, Grants, NoApproval, ApprovalRow
  <2>3. r.row.expires = approval[x].expires
    BY <1>4
  <2>4. /\ r.answer = "allow" /\ r.row \in ApprovalRow /\ InOrder(r.row)
        /\ r.row.status = "approved" /\ r.row.mode = "session"
    BY <1>4, <2>2 DEF ApprovalRow, InOrder
  <2>5. /\ SessionGranted(granted, decider[d].at)
        /\ Rests(granted, c, "session", approval[x].expires)
    BY <1>1, <2>1, OpenRowIsGiven
  <2> QED
    BY <2>3, <2>4, <2>5
<1>5. CASE verdict \notin {"allow", "deny"} /\ r = [answer |-> "wait", row |-> new]
  <2>1. verdict \in {"session", "per_use"}
    BY <1>1, <1>5, ToolConstants
  <2>3. decider[d].at + ApprovalTTL \in Nat
    BY <1>1, ToolConstants
  <2>2. new \in ApprovalRow
    BY <2>1, <2>3 DEF ApprovalRow
  <2> QED
    BY <1>5, <2>2 DEF InOrder
<1>6. CASE \E x \in Reusable(d, c) :
               r = [answer |-> "allow", row |-> given(approval[x].expires)]
  BY <1>4, <1>6
<1> QED
  BY <1>2, <1>3, <1>5, <1>6

\* What a decider has read and what it rests on are still there later.
LEMMA DeciderStays ==
    ASSUME ToolInv, CallStands, RowsTyped', granted \subseteq granted',
           NEW d \in Deciders, decider'[d] = decider[d]
    PROVE  /\ decider'[d] \in {New, Over} \cup Asking \cup Answering \cup Writing
           /\ decider'[d].phase \in {"sequence", "write"} =>
                  /\ decider'[d].known => tool'[decider'[d].call] # "absent"
                  /\ decider'[d].row # NoApproval => InOrder(decider'[d].row)
           /\ AnswerRests(granted', decider'[d])
<1>1. decider[d] \in {New, Over} \cup Asking \cup Answering \cup Writing
  BY DEF ToolInv, DecidersKnow
<1>2. decider[d].phase \in {"sequence", "write"} => decider[d].call \in ToolCallIds
  BY <1>1 DEF New, Over, Asking, Answering, Writing
<1>3. AnswerRests(granted', decider[d])
  BY GivenStays DEF ToolInv, DecidersEarn
<1> QED
  BY <1>1, <1>2, <1>3 DEF ToolInv, DecidersKnow, CallStands

LEMMA DecidersStep ==
    ASSUME ToolInv, [ToolNext]_toolVars, CallStands, RowsTyped', granted \subseteq granted'
    PROVE  DecidersKnow' /\ DecidersEarn'
<1> DEFINE Knows(d) ==
        /\ decider'[d] \in {New, Over} \cup Asking \cup Answering \cup Writing
        /\ decider'[d].phase \in {"sequence", "write"} =>
               /\ decider'[d].known => tool'[decider'[d].call] # "absent"
               /\ decider'[d].row # NoApproval => InOrder(decider'[d].row)
        /\ AnswerRests(granted', decider'[d])
<1>1. decider \in [Deciders -> {New, Over} \cup Asking \cup Answering \cup Writing]
  BY DEF ToolInv, DecidersKnow
<1>2. SUFFICES /\ DOMAIN decider' = Deciders /\ decider' = [d \in Deciders |-> decider'[d]]
               /\ \A d \in Deciders : Knows(d)
  BY DEF DecidersKnow, DecidersEarn
<1>3. ASSUME NEW d \in Deciders, NEW next, decider' = [decider EXCEPT ![d] = next],
             decider'[d] = next => Knows(d)
      PROVE  /\ DOMAIN decider' = Deciders /\ decider' = [e \in Deciders |-> decider'[e]]
             /\ \A e \in Deciders : Knows(e)
  <2>1. decider'[d] = next /\ \A e \in Deciders \ {d} : decider'[e] = decider[e]
    BY <1>1, <1>3
  <2>2. \A e \in Deciders \ {d} : Knows(e)
    BY <2>1, DeciderStays
  <2> QED
    BY <1>1, <1>3, <2>1, <2>2
<1>4. ASSUME decider' = decider
      PROVE  /\ DOMAIN decider' = Deciders /\ decider' = [e \in Deciders |-> decider'[e]]
             /\ \A e \in Deciders : Knows(e)
  BY <1>1, <1>4, DeciderStays
<1>5. ASSUME NEW d \in Deciders, NEW c \in ToolCallIds, Evaluate(d, c)
      PROVE  decider'[d] \in Asking /\ decider' = [decider EXCEPT ![d] = decider'[d]]
  BY <1>1, <1>5 DEF Evaluate, Asking, ToolInv, RowsTyped
<1>6. ASSUME NEW d \in Deciders, decider'[d] \in {New, Over} \cup Asking
      PROVE  Knows(d)
  BY <1>6 DEF New, Over, Asking, AnswerRests
<1>7. ASSUME NEW d \in Deciders, LookUpApproval(d)
      PROVE  Knows(d) /\ decider' = [decider EXCEPT ![d] = decider'[d]]
  <2>1. decider[d] \in Asking
    BY <1>1, <1>7 DEF LookUpApproval, New, Over, Asking, Answering, Writing
  <2>2. PICK r \in Resolved(d, decider[d].call) :
            IF r.answer \in {"replay_wait", "replay_allow"}
            THEN decider' = [decider EXCEPT ![d] = Over]
            ELSE decider' = [decider EXCEPT ![d] =
                     With(decider[d], [phase |-> "sequence", known |-> tool[decider[d].call] # "absent",
                                       answer |-> r.answer, row |-> r.row])]
    BY <1>7 DEF LookUpApproval
  <2>3. CASE r.answer \in {"replay_wait", "replay_allow"}
    BY <1>1, <1>6, <2>2, <2>3
  <2>4. CASE r.answer \notin {"replay_wait", "replay_allow"}
    <3> DEFINE known == tool[decider[d].call] # "absent"
               next == With(decider[d], [phase |-> "sequence", known |-> known,
                                         answer |-> r.answer, row |-> r.row])
    <3>1. /\ r.answer \in {"allow", "deny", "wait"}
          /\ r.row \in {NoApproval} \cup ApprovalRow
          /\ r.row # NoApproval => InOrder(r.row)
          /\ r.answer = "allow" /\ decider[d].verdict # "allow" =>
                 SessionGranted(granted, decider[d].at)
          /\ r.row.status = "approved" =>
                 r.row.mode = "session" /\ Rests(granted, decider[d].call, "session", r.row.expires)
      BY <2>1, <2>4, ResolvedRests
    <3>2. decider'[d] = next /\ decider' = [decider EXCEPT ![d] = decider'[d]]
      BY <1>1, <2>2, <2>4
    <3>3. /\ next.phase = "sequence" /\ next.call = decider[d].call /\ next.at = decider[d].at
          /\ next.verdict = decider[d].verdict /\ next.answer = r.answer /\ next.row = r.row
      BY <2>1 DEF With, Asking
    <3>4. next.known = known
      BY <2>1 DEF With, Asking
    <3>5. next \in Answering
      BY <2>1, <3>1 DEF With, Asking, Answering
    <3>6. decider[d].call \in ToolCallIds
      BY <2>1 DEF Asking
    <3>7. known => tool'[decider[d].call] # "absent"
      BY <3>6 DEF CallStands
    <3>8. AnswerRests(granted', next)
      <4>1. AnswerRests(granted, next)
        BY <3>1, <3>3 DEF AnswerRests
      <4> QED
        BY <4>1, GivenStays
    <3> HIDE DEF next
    <3>9. decider'[d].known => tool'[decider'[d].call] # "absent"
      BY <3>2, <3>3, <3>4, <3>7, Zenon
    <3>10. /\ decider'[d] \in Answering
           /\ decider'[d].row # NoApproval => InOrder(decider'[d].row)
           /\ AnswerRests(granted', decider'[d])
      BY <3>1, <3>2, <3>3, <3>5, <3>8
    <3> QED
      BY <3>2, <3>9, <3>10
  <2> QED
    BY <2>3, <2>4
<1>8. ASSUME NEW d \in Deciders, ReadEvents(d)
      PROVE  Knows(d) /\ decider' = [decider EXCEPT ![d] = decider'[d]]
  <2> DEFINE next == With(decider[d], [phase |-> "write", seq |-> events + 1])
  <2>1. decider[d] \in Answering
    BY <1>1, <1>8 DEF ReadEvents, New, Over, Asking, Answering, Writing
  <2>2. decider'[d] = next /\ decider' = [decider EXCEPT ![d] = decider'[d]]
    BY <1>1, <1>8 DEF ReadEvents
  <2>3. /\ next.phase = "write" /\ next.call = decider[d].call /\ next.at = decider[d].at
        /\ next.verdict = decider[d].verdict /\ next.answer = decider[d].answer
        /\ next.row = decider[d].row
    BY <2>1 DEF With, Answering
  <2>4. next.known = decider[d].known
    BY <2>1 DEF With, Answering
  <2>5. events + 1 \in Nat
    BY DEF ToolInv, RowsTyped
  <2>6. next \in Writing
    BY <2>1, <2>5 DEF With, Answering, Writing
  <2>7. decider[d].phase = "sequence" /\ decider[d].call \in ToolCallIds
    BY <2>1 DEF Answering
  <2>8. /\ decider[d].known => tool'[decider[d].call] # "absent"
        /\ decider[d].row # NoApproval => InOrder(decider[d].row)
    BY <2>7 DEF ToolInv, DecidersKnow, CallStands
  <2>9. AnswerRests(granted', next)
    <3>1. AnswerRests(granted', decider[d])
      BY GivenStays DEF ToolInv, DecidersEarn
    <3> QED
      BY <2>3, <2>7, <3>1 DEF AnswerRests
  <2> QED
    BY <2>2, <2>3, <2>4, <2>6, <2>8, <2>9
<1>9. ASSUME NEW d \in Deciders, Decide(d)
      PROVE  decider'[d] = Over /\ decider' = [decider EXCEPT ![d] = decider'[d]]
  BY <1>1, <1>9 DEF Decide
<1>10. ASSUME NEW d \in Deciders,
              (\E c \in ToolCallIds : Evaluate(d, c)) \/ LookUpApproval(d) \/ ReadEvents(d) \/ Decide(d)
       PROVE  /\ DOMAIN decider' = Deciders /\ decider' = [e \in Deciders |-> decider'[e]]
              /\ \A e \in Deciders : Knows(e)
  BY <1>3, <1>5, <1>6, <1>7, <1>8, <1>9, <1>10
<1>11. CASE \/ \E a \in Resolvers :
                  \/ \E c \in ToolCallIds, decision \in {"approved", "denied"} :
                         ResolveBegin(a, c, decision)
                  \/ ResolveSequence(a)
                  \/ ResolveWrite(a)
            \/ \E p \in Reporters :
                  \/ \E c \in ToolCallIds, status \in {"completed", "failed"} : ReportBegin(p, c, status)
                  \/ ReportWrite(p)
            \/ \E v \in Policies : EditPolicy(v)
            \/ EndRun
            \/ Elapse
            \/ UNCHANGED toolVars
  <2>1. decider' = decider
    BY <1>11 DEF ResolveBegin, ResolveSequence, ResolveWrite, ReportBegin, ReportWrite, EditPolicy,
                 EndRun, Elapse, toolVars
  <2> QED
    BY <1>4, <2>1
<1> QED
  BY <1>10, <1>11 DEF ToolNext

LEMMA ResolversStep ==
    ASSUME ToolInv, [ToolNext]_toolVars
    PROVE  ResolversKnow'
<1>1. resolver \in [Resolvers -> {New, Over} \cup Resolving] /\ events \in Nat /\ moment \in Instants
  BY DEF ToolInv, ResolversKnow, RowsTyped
<1>2. ASSUME NEW a \in Resolvers, NEW c \in ToolCallIds, NEW decision \in {"approved", "denied"},
             ResolveBegin(a, c, decision)
      PROVE  ResolversKnow'
  <2>1. approval[c] \in ApprovalRow
    BY <1>2 DEF ResolveBegin, ToolInv, RowsTyped, NoApproval
  <2>2. approval[c].version \in Nat
    BY <2>1 DEF ApprovalRow
  <2> QED
    BY <1>1, <1>2, <2>2 DEF ResolveBegin, ResolversKnow, Resolving
<1>3. ASSUME NEW a \in Resolvers, ResolveSequence(a)
      PROVE  ResolversKnow'
  <2> DEFINE next == With(resolver[a], [phase |-> "write", seq |-> events + 1])
  <2>1. resolver[a] \in Resolving /\ resolver[a].phase = "sequence"
    BY <1>1, <1>3 DEF ResolveSequence, New, Over
  <2>2. next \in Resolving
    BY <1>1, <2>1 DEF With, Resolving
  <2>3. resolver' = [resolver EXCEPT ![a] = next]
    BY <1>3 DEF ResolveSequence
  <2> HIDE DEF next
  <2> QED
    BY <1>1, <2>2, <2>3 DEF ResolversKnow
<1>4. ASSUME NEW a \in Resolvers, ResolveWrite(a)
      PROVE  ResolversKnow'
  BY <1>1, <1>4 DEF ResolveWrite, ResolversKnow
<1>5. CASE \/ \E d \in Deciders :
                  (\E c \in ToolCallIds : Evaluate(d, c)) \/ LookUpApproval(d) \/ ReadEvents(d) \/ Decide(d)
           \/ \E p \in Reporters :
                 \/ \E c \in ToolCallIds, status \in {"completed", "failed"} : ReportBegin(p, c, status)
                 \/ ReportWrite(p)
           \/ \E v \in Policies : EditPolicy(v)
           \/ EndRun
           \/ Elapse
           \/ UNCHANGED toolVars
  <2>1. resolver' = resolver
    BY <1>5 DEF Evaluate, LookUpApproval, ReadEvents, Decide, ReportBegin, ReportWrite, EditPolicy,
                EndRun, Elapse, toolVars
  <2> QED
    BY <1>1, <2>1 DEF ResolversKnow
<1> QED
  BY <1>2, <1>3, <1>4, <1>5 DEF ToolNext

LEMMA ReportersStep ==
    ASSUME ToolInv, [ToolNext]_toolVars
    PROVE  ReportersKnow'
<1>1. reporter \in [Reporters -> {New, Over} \cup Reporting] /\ moment \in Instants
  BY DEF ToolInv, ReportersKnow, RowsTyped
<1>2. ASSUME NEW p \in Reporters, NEW c \in ToolCallIds, NEW status \in {"completed", "failed"},
             ReportBegin(p, c, status)
      PROVE  ReportersKnow'
  <2> DEFINE consume == approval[c].status = "approved" /\ approval[c].mode = "per_use"
             next == [phase |-> "write", call |-> c, at |-> moment, status |-> status,
                      consume |-> consume]
  <2>1. reporter' = [reporter EXCEPT ![p] = next]
    BY <1>2 DEF ReportBegin
  <2>2. next \in Reporting
    BY <1>1 DEF Reporting
  <2> HIDE DEF next
  <2> QED
    BY <1>1, <2>1, <2>2 DEF ReportersKnow
<1>3. ASSUME NEW p \in Reporters, ReportWrite(p)
      PROVE  ReportersKnow'
  BY <1>1, <1>3 DEF ReportWrite, ReportersKnow
<1>4. CASE \/ \E d \in Deciders :
                  (\E c \in ToolCallIds : Evaluate(d, c)) \/ LookUpApproval(d) \/ ReadEvents(d) \/ Decide(d)
           \/ \E a \in Resolvers :
                 \/ \E c \in ToolCallIds, decision \in {"approved", "denied"} :
                        ResolveBegin(a, c, decision)
                 \/ ResolveSequence(a)
                 \/ ResolveWrite(a)
           \/ \E v \in Policies : EditPolicy(v)
           \/ EndRun
           \/ Elapse
           \/ UNCHANGED toolVars
  <2>1. reporter' = reporter
    BY <1>4 DEF Evaluate, LookUpApproval, ReadEvents, Decide, ResolveBegin, ResolveSequence,
                ResolveWrite, EditPolicy, EndRun, Elapse, toolVars
  <2> QED
    BY <1>1, <2>1 DEF ReportersKnow
<1> QED
  BY <1>2, <1>3, <1>4 DEF ToolNext

\* What users have given is only added to.
LEMMA GrantsGrow == [ToolNext]_toolVars => granted \subseteq granted'
BY DEF ToolNext, toolVars, Evaluate, LookUpApproval, ReadEvents, Decide, ResolveBegin,
   ResolveSequence, ResolveWrite, ReportBegin, ReportWrite, EditPolicy, EndRun, Elapse

\* A row is approved by a user, or inherits what one has given.
LEMMA RowsRestStep ==
    ASSUME ToolInv, [ToolNext]_toolVars, CallStands, granted \subseteq granted'
    PROVE  RowsRest'
<1> SUFFICES ASSUME NEW c \in ToolCallIds, approval'[c].status = "approved"
             PROVE  Rests(granted', c, approval'[c].mode, approval'[c].expires)
  BY DEF RowsRest
<1>1. CASE approval[c].status = "approved"
  <2>1. approval'[c].mode = approval[c].mode /\ approval'[c].expires = approval[c].expires
    BY <1>1 DEF CallStands
  <2>2. Rests(granted, c, approval[c].mode, approval[c].expires)
    BY <1>1 DEF ToolInv, RowsRest
  <2> QED
    BY <2>1, <2>2, GivenStays
<1>2. ASSUME approval[c].status # "approved", NEW d \in Deciders, Decide(d)
      PROVE  Rests(granted', c, approval'[c].mode, approval'[c].expires)
  <2>1. approval'[c] = decider[d].row /\ c = decider[d].call
    BY <1>2 DEF Decide, ToolInv, RowsTyped
  <2>2. decider[d].row.mode = "session" /\ Rests(granted, c, "session", decider[d].row.expires)
    BY <1>2, <2>1 DEF Decide, ToolInv, DecidersEarn, AnswerRests
  <2> QED
    BY <2>1, <2>2, GivenStays
<1>3. ASSUME approval[c].status # "approved", NEW a \in Resolvers, ResolveWrite(a)
      PROVE  Rests(granted', c, approval'[c].mode, approval'[c].expires)
  <2>1. /\ c = resolver[a].call /\ Pending(a)
        /\ approval' = [approval EXCEPT ![c].status = resolver[a].status,
                                        ![c].version = approval[c].version + 1]
        /\ granted' = IF resolver[a].status = "approved" THEN granted \cup {Given(a)} ELSE granted
    BY <1>3 DEF ResolveWrite, ToolInv, RowsTyped
  <2>2. approval[c] \in ApprovalRow
    BY <2>1 DEF Pending, ToolInv, RowsTyped, NoApproval
  <2>3. /\ approval'[c].status = resolver[a].status
        /\ approval'[c].mode = approval[c].mode /\ approval'[c].expires = approval[c].expires
    BY <2>1, <2>2 DEF ToolInv, RowsTyped, ApprovalRow
  <2>4. Given(a) \in granted' /\ resolver[a].at < approval[c].expires
    BY <1>3, <2>1, <2>3 DEF ToolInv, ResolversEarn, ResolveWrite
  <2>5. /\ Given(a).at = resolver[a].at /\ Given(a).expires = approval[c].expires
        /\ Given(a).mode = approval[c].mode /\ Given(a).call = c
    BY <2>1 DEF Given
  <2> QED
    BY <2>3, <2>4, <2>5 DEF Rests
<1>4. ASSUME approval[c].status # "approved", NEW p \in Reporters, ReportWrite(p) PROVE FALSE
  BY <1>4 DEF ReportWrite, Consumable, Grants, ToolInv, RowsTyped
<1>5. CASE UNCHANGED approval
  BY <1>1, <1>5
<1> QED
  BY <1>1, <1>2, <1>3, <1>4, <1>5 DEF ToolNext, toolVars, Evaluate, LookUpApproval, ReadEvents,
     ResolveBegin, ResolveSequence, ReportBegin, EditPolicy, EndRun, Elapse

\* A resolver that is about to approve has seen a window that is open.
LEMMA ResolversEarnStep ==
    ASSUME ToolInv, [ToolNext]_toolVars, CallStands
    PROVE  ResolversEarn'
<1> SUFFICES ASSUME NEW a \in Resolvers, resolver'[a].phase \in {"sequence", "write"},
                    resolver'[a].status = "approved"
             PROVE  /\ approval'[resolver'[a].call].status # "absent"
                    /\ resolver'[a].at < approval'[resolver'[a].call].expires
  BY DEF ResolversEarn
<1>1. resolver \in [Resolvers -> {New, Over} \cup Resolving]
  BY DEF ToolInv, ResolversKnow
<1>2. ASSUME resolver[a].phase \in {"sequence", "write"}, resolver[a].status = "approved",
             resolver'[a].call = resolver[a].call, resolver'[a].at = resolver[a].at
      PROVE  /\ approval'[resolver'[a].call].status # "absent"
             /\ resolver'[a].at < approval'[resolver'[a].call].expires
  <2>1. resolver[a].call \in ToolCallIds
    BY <1>1, <1>2 DEF New, Over, Resolving
  <2> QED
    BY <1>2, <2>1 DEF ToolInv, ResolversEarn, CallStands
<1>3. CASE resolver'[a] = resolver[a]
  BY <1>2, <1>3
<1>4. ASSUME NEW z \in Resolvers, NEW c \in ToolCallIds, NEW decision \in {"approved", "denied"},
             ResolveBegin(z, c, decision), resolver'[a] # resolver[a]
      PROVE  /\ approval'[resolver'[a].call].status # "absent"
             /\ resolver'[a].at < approval'[resolver'[a].call].expires
  <2>1. /\ approval' = approval /\ approval[c].status = "pending" /\ moment \in Nat
        /\ resolver'[a] = [phase |-> "sequence", call |-> c, at |-> moment,
               version |-> approval[c].version,
               status |-> IF approval[c].expires > moment THEN decision ELSE "expired"]
    BY <1>1, <1>4, ToolConstants DEF ResolveBegin, ToolInv, RowsTyped, Instants
  <2>2. approval[c].expires \in Nat /\ approval[c].expires > moment
    BY <2>1 DEF ToolInv, RowsTyped, NoApproval, ApprovalRow
  <2> QED
    BY <2>1, <2>2
<1>5. ASSUME NEW z \in Resolvers, ResolveSequence(z), resolver'[a] # resolver[a]
      PROVE  /\ approval'[resolver'[a].call].status # "absent"
             /\ resolver'[a].at < approval'[resolver'[a].call].expires
  <2>1. /\ resolver[a].phase = "sequence" /\ resolver[a] \in Resolving
        /\ resolver'[a] = With(resolver[a], [phase |-> "write", seq |-> events + 1])
    BY <1>1, <1>5 DEF ResolveSequence, New, Over
  <2>2. /\ resolver'[a].call = resolver[a].call /\ resolver'[a].at = resolver[a].at
        /\ resolver'[a].status = resolver[a].status
    BY <2>1 DEF With, Resolving
  <2> QED
    BY <1>2, <2>1, <2>2
<1>6. ASSUME NEW z \in Resolvers, ResolveWrite(z), resolver'[a] # resolver[a] PROVE FALSE
  BY <1>1, <1>6 DEF ResolveWrite, Over
<1> QED
  BY <1>3, <1>4, <1>5, <1>6 DEF ToolNext, toolVars, Evaluate, LookUpApproval, ReadEvents, Decide,
     ReportBegin, ReportWrite, EditPolicy, EndRun, Elapse

\* What an answer rests on stands, and a new one is earned when it is given.
LEMMA AnswersStep ==
    ASSUME ToolInv, [ToolNext]_toolVars, granted \subseteq granted'
    PROVE  AllowIsEarned'
<1> DEFINE Earned(r) == r.allow /\ r.verdict # "allow" => Approved(granted', r.call, r.at)
<1>1. \A r \in answers : Earned(r)
  BY DEF ToolInv, AllowIsEarned, Approved
<1>2. ASSUME NEW d \in Deciders, LookUpApproval(d)
      PROVE  \A r \in answers' : Earned(r)
  <2>1. decider[d] \in Asking
    BY <1>2 DEF ToolInv, DecidersKnow, LookUpApproval, New, Over, Asking, Answering, Writing
  <2>2. PICK r \in Resolved(d, decider[d].call) :
            IF r.answer \in {"replay_wait", "replay_allow"}
            THEN answers' = answers \cup
                     {[call |-> decider[d].call, at |-> decider[d].at, verdict |-> decider[d].verdict,
                       allow |-> r.answer = "replay_allow"]}
            ELSE answers' = answers
    BY <1>2 DEF LookUpApproval
  <2> DEFINE said == [call |-> decider[d].call, at |-> decider[d].at, verdict |-> decider[d].verdict,
                      allow |-> r.answer = "replay_allow"]
  <2>3. answers' \subseteq answers \cup {said}
    BY <2>2
  <2>4. said.call = decider[d].call /\ said.at = decider[d].at
    OBVIOUS
  <2>5. said.allow => r.answer = "replay_allow"
    OBVIOUS
  <2>6. r.answer = "replay_allow" => Approved(granted', decider[d].call, decider[d].at)
    BY <2>1, ResolvedRests, GivenStays
  <2> HIDE DEF said
  <2>8. Earned(said)
    BY <2>4, <2>5, <2>6
  <2> QED
    BY <1>1, <2>3, <2>8
<1>3. ASSUME NEW d \in Deciders, Decide(d)
      PROVE  \A r \in answers' : Earned(r)
  <2> DEFINE said == [call |-> decider[d].call, at |-> decider[d].at, verdict |-> decider[d].verdict,
                      allow |-> decider[d].answer = "allow"]
  <2>1. answers' \subseteq answers \cup {said}
    BY <1>3 DEF Decide
  <2>2. decider[d].answer = "allow" /\ decider[d].verdict # "allow" =>
            SessionGranted(granted', decider[d].at)
    <3>1. AnswerRests(granted', decider[d])
      BY GivenStays DEF ToolInv, DecidersEarn
    <3> QED
      BY <1>3, <3>1 DEF Decide, AnswerRests
  <2>3. said.at = decider[d].at /\ said.verdict = decider[d].verdict
    OBVIOUS
  <2>4. said.allow => decider[d].answer = "allow"
    OBVIOUS
  <2> HIDE DEF said
  <2>5. Earned(said)
    BY <2>2, <2>3, <2>4 DEF SessionGranted, Approved
  <2> QED
    BY <1>1, <2>1, <2>5
<1>4. CASE answers' = answers
  BY <1>1, <1>4 DEF AllowIsEarned, Approved
<1>5. ASSUME \A r \in answers' : Earned(r) PROVE AllowIsEarned'
  BY <1>5 DEF AllowIsEarned, Approved
<1>6. CASE \/ \E d \in Deciders : (\E c \in ToolCallIds : Evaluate(d, c)) \/ ReadEvents(d)
           \/ \E a \in Resolvers :
                 \/ \E c \in ToolCallIds, decision \in {"approved", "denied"} :
                        ResolveBegin(a, c, decision)
                 \/ ResolveSequence(a)
                 \/ ResolveWrite(a)
           \/ \E p \in Reporters :
                 \/ \E c \in ToolCallIds, status \in {"completed", "failed"} : ReportBegin(p, c, status)
                 \/ ReportWrite(p)
           \/ \E v \in Policies : EditPolicy(v)
           \/ EndRun
           \/ Elapse
           \/ UNCHANGED toolVars
  <2>1. answers' = answers
    BY <1>6 DEF Evaluate, ReadEvents, ResolveBegin, ResolveSequence, ResolveWrite, ReportBegin,
                ReportWrite, EditPolicy, EndRun, Elapse, toolVars
  <2> QED
    BY <1>4, <2>1
<1> QED
  BY <1>2, <1>3, <1>5, <1>6 DEF ToolNext

-----------------------------------------------------------------------------
LEMMA ToolStep == ToolInv /\ [ToolNext]_toolVars => ToolInv'
  BY EveryStepStands, RowsStep, GrantsGrow, DecidersStep, ResolversStep, ReportersStep, RowsRestStep,
     ResolversEarnStep, AnswersStep DEF ToolInv

\* Every state satisfies what the invocations rely on.
THEOREM ToolCallsHold == ToolSpec => []ToolInv
  BY ToolInitially, ToolStep, PTL DEF ToolSpec

\* The rows and the policy are what the columns allow: no approval without its
\* call, and versions that count request, resolution and use.
THEOREM ToolCallsTypeCorrect == ToolSpec => []ToolTypeOK
<1>1. ToolInv => ToolTypeOK
  BY DEF ToolInv, RowsTyped, ToolTypeOK, Statuses, ApprovalRow, GrantRow, Instants
<1> QED
  BY <1>1, ToolCallsHold, PTL

\* A device is told to go ahead with a gated call only on the strength of an
\* approval that a user has given before, and in time (resolve_decision, persist_decision), in
\* whatever order decisions, resolutions, results and edits are interleaved.
THEOREM AllowAlwaysEarned == ToolSpec => []AllowIsEarned
<1>1. ToolInv => AllowIsEarned
  BY DEF ToolInv
<1> QED
  BY <1>1, ToolCallsHold, PTL

\* The second resolution of an approval changes nothing (resolve_approval).
THEOREM ResolutionsFinal == ToolSpec => ResolutionIsFinal
<1>1. ToolInv /\ [ToolNext]_toolVars =>
          [\A c \in ToolCallIds :
               approval[c].status \notin {"absent", "pending"} =>
                   approval'[c].status = approval[c].status]_toolVars
  BY EveryStepStands DEF CallStands
<1> QED
  BY <1>1, ToolCallsHold, PTL DEF ToolSpec, ResolutionIsFinal

-----------------------------------------------------------------------------
(***************************************************************************)
(* MCTenancy runs one of its parts at a time and leaves the others alone;  *)
(* so each of its behaviours is a behaviour of every part, and whatever    *)
(* is proved of a part holds of it too.                                    *)
(***************************************************************************)
\* In any behaviour of the composition every part keeps to its own specification.
THEOREM TenancyKeepsToItsParts ==
    MCSpec => Spec /\ OrgSpec /\ CodeSpec /\ ToolSpec /\ MachineSpec
<1>1. MCInit => Init /\ OrgInit /\ CodeInit /\ ToolInit /\ MachineInit
  BY DEF MCInit
<1>2. [MCNext]_allVars =>
          /\ [Next]_vars /\ [OrgNext]_orgVars /\ [CodeNext]_codeVars
          /\ [ToolNext]_toolVars /\ [MachineNext]_machineVars
  BY DEF MCNext, allVars
<1> QED
  BY <1>1, <1>2, PTL DEF MCSpec, Spec, OrgSpec, CodeSpec, ToolSpec, MachineSpec

\* Records, memberships, codes, tool calls, accounts and keys keep their types in
\* the composition, for any requests, users, codes, calls and keys.
THEOREM TenancyTypeCorrect == MCSpec => []MCTypeOK
<1>1. TypeOK /\ OrgTypeOK /\ CodeTypeOK /\ ToolTypeOK /\ MachineTypeOK => MCTypeOK
  BY DEF MCTypeOK
<1> QED
  BY <1>1, TenancyKeepsToItsParts, TypeCorrect, OrganizationsTypeCorrect, CodesTypeCorrect,
     ToolCallsTypeCorrect, MachineTypeCorrect, PTL
=============================================================================
