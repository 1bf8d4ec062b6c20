----------------------------- MODULE Membership -----------------------------
(***************************************************************************)
(* Who belongs to an organization, in which role, who is invited to it and *)
(* whom its slice is assigned to.  A membership row is never deleted: it   *)
(* ends and a later invitation brings it back.  Except for the lock on an  *)
(* invitation nothing is locked: a request reads, checks what it read and  *)
(* saves a few columns later, while others do the same (orgs.py,           *)
(* invitations.py, entitlements.py, members.py, slices.py).                *)
(***************************************************************************)
EXTENDS Naturals, FiniteSets

CONSTANTS
  Orgs, Users,
  Requests,    \* requests that may be under way at the same time
  Invites,     \* invitation ids; one is used again once nothing refers to it
  SeatLimit,   \* the entitlement of every org
  Kinds,       \* the kinds of request explored, per org
  Founders,    \* what a user may be in it to begin with, per org
  Nobody       \* the assignee of an unassigned slice

ASSUME MembershipAssumption ==
  /\ Nobody \notin Users /\ SeatLimit \in Nat
  /\ IsFiniteSet(Users) /\ IsFiniteSet(Invites) /\ IsFiniteSet(Requests)
  /\ \A o \in Orgs : Founders[o] \subseteq {"none", "owner", "admin", "member"}

Roles == {"owner", "admin", "member"}
InviteRoles == {"admin", "member"}

VARIABLES
  row,       \* per org and user: "none", a role, or "ended"
  pending,   \* the invitations neither accepted nor cancelled
  assignee,  \* per org: the assignee of its slice
  req,       \* per request: Idle, or what it has read and where it is
  overlapped \* history: a request started before another had ended

vars == <<row, pending, assignee, req, overlapped>>

Invitation == [id : Invites, org : Orgs, user : Users, role : InviteRoles]

Idle == [kind |-> "idle"]

RoleRequest == [kind : {"role"}, at : {"loaded", "permitted", "guarded"}, org : Orgs,
                by : Users, user : Users, was : Roles, role : Roles]
RemoveRequest == [kind : {"remove"}, at : {"loaded", "ending"}, org : Orgs,
                  by : Users, user : Users, was : Roles]
LeaveRequest == [kind : {"leave"}, at : {"loaded", "guarded", "ending"}, org : Orgs,
                 user : Users, was : Roles]
InviteRequest == [kind : {"invite"}, at : {"permitted", "checked", "counting", "counted"},
                  org : Orgs, user : Users, role : InviteRoles, seen : Nat]
CancelRequest == [kind : {"cancel"}, at : {"permitted"}, org : Orgs, id : Invites]
AcceptRequest == [kind : {"accept"}, at : {"locked", "checked", "found"},
                  inv : Invitation, was : {"none", "ended"} \cup Roles]
SliceRequest == [kind : {"slice"}, at : {"loaded"}, org : Orgs,
                 user : Users \cup {Nobody}]

RequestStates ==
  {Idle} \cup RoleRequest \cup RemoveRequest \cup LeaveRequest \cup InviteRequest
    \cup CancelRequest \cup AcceptRequest \cup SliceRequest

Active(o) == {u \in Users : row[o][u] \in Roles}
Owners(o) == {u \in Users : row[o][u] = "owner"}
IsAdmin(o, u) == row[o][u] \in {"owner", "admin"}
PendingIn(o) == {i \in pending : i.org = o}
Seats(o) == Cardinality(Active(o)) + Cardinality(PendingIn(o))

\* _owner_count(org) <= 1
AtMostOneOwner(o) == \A u, v \in Owners(o) : u = v

TypeOK ==
  /\ row \in [Orgs -> [Users -> {"none", "ended"} \cup Roles]]
  /\ pending \subseteq Invitation /\ IsFiniteSet(pending)
  /\ assignee \in [Orgs -> Users \cup {Nobody}]
  /\ req \in [Requests -> RequestStates]
  /\ overlapped \in BOOLEAN

Init ==
  /\ row \in [Orgs -> [Users -> {"none"} \cup Roles]]
  /\ \A o \in Orgs, u \in Users : row[o][u] \in Founders[o]
  /\ pending = {}
  /\ \A o \in Orgs : Owners(o) /= {} /\ Seats(o) <= SeatLimit
  /\ assignee = [o \in Orgs |-> Nobody]
  /\ req = [r \in Requests |-> Idle]
  /\ overlapped = FALSE

-----------------------------------------------------------------------------
Stage(r, kind, there) == req[r].kind = kind /\ req[r].at = there
Ends(r) == req' = [req EXCEPT ![r] = Idle] /\ UNCHANGED overlapped

\* A read or a check saves nothing.
Starts(r, what, o) == /\ req[r] = Idle /\ what.kind \in Kinds[o]
                      /\ req' = [req EXCEPT ![r] = what]
                      /\ overlapped' = (overlapped \/ \E s \in Requests : req[s] /= Idle)
                      /\ UNCHANGED <<row, pending, assignee>>
Goes(r, there) == /\ req' = [req EXCEPT ![r].at = there]
                  /\ UNCHANGED <<row, pending, assignee, overlapped>>

(***************************************************************************)
(* member_role: the row is read, then the caller's role, then the owners   *)
(* are counted, then the role column is saved.                             *)
(***************************************************************************)
AskRole(r, o, by, u, role) ==
  /\ u \in Active(o)
  /\ Starts(r, [kind |-> "role", at |-> "loaded", org |-> o, by |-> by, user |-> u,
                was |-> row[o][u], role |-> role], o)

PermitRole(r) ==
  /\ Stage(r, "role", "loaded")
  /\ row[req[r].org][req[r].by] = "owner"
  /\ Goes(r, "permitted")

\* Mutant: the last owner may be demoted.
GuardRole_Unguarded(r) ==
  /\ Stage(r, "role", "permitted")
  /\ Goes(r, "guarded")

GuardRole(r) ==
  /\ Stage(r, "role", "permitted")
  /\ ~ (req[r].was = "owner" /\ req[r].role /= "owner" /\ AtMostOneOwner(req[r].org))
  /\ Goes(r, "guarded")

\* Mutant: the row is saved whole, ended_at as it was read included.
SaveRole_Whole(r) ==
  /\ Stage(r, "role", "guarded")
  /\ row' = [row EXCEPT ![req[r].org][req[r].user] = req[r].role]
  /\ Ends(r)
  /\ UNCHANGED <<pending, assignee>>

\* An ended membership stays ended; what role it had says nothing any more.
SaveRole(r) ==
  /\ Stage(r, "role", "guarded")
  /\ row' = [row EXCEPT ![req[r].org][req[r].user] = IF @ \in Roles THEN req[r].role ELSE @]
  /\ Ends(r)
  /\ UNCHANGED <<pending, assignee>>

(***************************************************************************)
(* member_remove and org_leave, which both end the membership.             *)
(***************************************************************************)
AskRemove(r, o, by, u) ==
  /\ u \in Active(o)
  /\ Starts(r, [kind |-> "remove", at |-> "loaded", org |-> o, by |-> by, user |-> u,
                was |-> row[o][u]], o)

PermitRemove(r) ==
  /\ Stage(r, "remove", "loaded")
  /\ IsAdmin(req[r].org, req[r].by)
  /\ req[r].was /= "owner"
  /\ Goes(r, "ending")

AskLeave(r, o, u) ==
  /\ u \in Active(o)
  /\ Starts(r, [kind |-> "leave", at |-> "loaded", org |-> o, user |-> u, was |-> row[o][u]], o)

GuardLeave(r) ==
  /\ Stage(r, "leave", "loaded")
  /\ ~ (req[r].was = "owner" /\ AtMostOneOwner(req[r].org))
  /\ Goes(r, "guarded")

CountOrgs(r) ==
  /\ Stage(r, "leave", "guarded")
  /\ \E o, p \in Orgs : o /= p /\ req[r].user \in Active(o) \cap Active(p)
  /\ Goes(r, "ending")

\* Mutant: what the member was assigned stays theirs.
EndMembership_KeepsSlices(r) ==
  /\ req[r].kind \in {"remove", "leave"} /\ req[r].at = "ending"
  /\ row' = [row EXCEPT ![req[r].org][req[r].user] = "ended"]
  /\ Ends(r)
  /\ UNCHANGED <<pending, assignee>>

EndMembership(r) ==
  /\ req[r].kind \in {"remove", "leave"} /\ req[r].at = "ending"
  /\ row' = [row EXCEPT ![req[r].org][req[r].user] = "ended"]
  /\ assignee' = [assignee EXCEPT ![req[r].org] = IF @ = req[r].user THEN Nobody ELSE @]
  /\ Ends(r)
  /\ UNCHANGED pending

-----------------------------------------------------------------------------
(***************************************************************************)
(* invite_create: permission, not a member yet, the pending invitations    *)
(* counted, then the members, then the insert.                             *)
(***************************************************************************)
AskInvite(r, o, by, u, role) ==
  /\ IsAdmin(o, by)
  /\ Starts(r, [kind |-> "invite", at |-> "permitted", org |-> o, user |-> u,
                role |-> role, seen |-> 0], o)

CheckInvitee(r) ==
  /\ Stage(r, "invite", "permitted")
  /\ req[r].user \notin Active(req[r].org)
  /\ Goes(r, "checked")

\* Mutant: only members count, invitations do not.
CountPending_Skipped(r) ==
  /\ Stage(r, "invite", "checked")
  /\ Goes(r, "counting")

CountPending(r) ==
  /\ Stage(r, "invite", "checked")
  /\ req' = [req EXCEPT ![r].at = "counting",
                        ![r].seen = Cardinality(PendingIn(req[r].org))]
  /\ UNCHANGED <<row, pending, assignee, overlapped>>

CountMembers(r) ==
  /\ Stage(r, "invite", "counting")
  /\ Cardinality(Active(req[r].org)) + req[r].seen < SeatLimit
  /\ Goes(r, "counted")

FreshInvite(id) ==
  /\ \A i \in pending : i.id /= id
  /\ \A r \in Requests : /\ req[r].kind = "cancel" => req[r].id /= id
                         /\ req[r].kind = "accept" => req[r].inv.id /= id

CreateInvite(r, id) ==
  /\ Stage(r, "invite", "counted")
  /\ FreshInvite(id)
  /\ pending' = pending \cup
       {[id |-> id, org |-> req[r].org, user |-> req[r].user, role |-> req[r].role]}
  /\ Ends(r)
  /\ UNCHANGED <<row, assignee>>

(***************************************************************************)
(* invite_accept: the invitation is locked until its transaction ends, the *)
(* membership rows are not; the email is that of the invitation.           *)
(***************************************************************************)
Locked(i) == \E r \in Requests : req[r].kind = "accept" /\ req[r].inv = i

AskAccept(r, i) ==
  /\ ~ Locked(i)
  /\ Starts(r, [kind |-> "accept", at |-> "locked", inv |-> i, was |-> "none"], i.org)

CheckNotMember(r) ==
  /\ Stage(r, "accept", "locked")
  /\ req[r].inv.user \notin Active(req[r].inv.org)
  /\ Goes(r, "checked")

FindRow(r) ==
  /\ Stage(r, "accept", "checked")
  /\ req' = [req EXCEPT ![r].at = "found", ![r].was = row[req[r].inv.org][req[r].inv.user]]
  /\ UNCHANGED <<row, pending, assignee, overlapped>>

\* A new row conflicts with one made meanwhile; a row that was found is
\* overwritten, whatever became of it.
Join(r) ==
  /\ Stage(r, "accept", "found")
  /\ req[r].was = "none" => row[req[r].inv.org][req[r].inv.user] = "none"
  /\ row' = [row EXCEPT ![req[r].inv.org][req[r].inv.user] = req[r].inv.role]
  /\ pending' = pending \ {req[r].inv}
  /\ Ends(r)
  /\ UNCHANGED assignee

AskCancel(r, o, by, id) ==
  /\ IsAdmin(o, by)
  /\ Starts(r, [kind |-> "cancel", at |-> "permitted", org |-> o, id |-> id], o)

DeleteInvite(r) ==
  /\ Stage(r, "cancel", "permitted")
  /\ \A i \in pending : i.id = req[r].id /\ i.org = req[r].org => ~ Locked(i)
  /\ pending' = {i \in pending : i.id /= req[r].id \/ i.org /= req[r].org}
  /\ Ends(r)
  /\ UNCHANGED <<row, assignee>>

(***************************************************************************)
(* update_slice: resolve_member finds an active member, or the loaded      *)
(* slice keeps its assignee; later the whole slice is saved.               *)
(***************************************************************************)
AskSlice(r, o, u) ==
  /\ u \in Active(o) \cup {Nobody, assignee[o]}
  /\ Starts(r, [kind |-> "slice", at |-> "loaded", org |-> o, user |-> u], o)

SaveSlice(r) ==
  /\ Stage(r, "slice", "loaded")
  /\ assignee' = [assignee EXCEPT ![req[r].org] = req[r].user]
  /\ Ends(r)
  /\ UNCHANGED <<row, pending>>

\* A check refuses the request, or its process dies: nothing was saved yet.
Stop(r) ==
  /\ req[r] /= Idle
  /\ Ends(r)
  /\ UNCHANGED <<row, pending, assignee>>

-----------------------------------------------------------------------------
Ask(r) ==
  \/ \E o \in Orgs, by, u \in Users :
       \/ \E role \in Roles : AskRole(r, o, by, u, role)
       \/ AskRemove(r, o, by, u)
       \/ \E role \in InviteRoles : AskInvite(r, o, by, u, role)
  \/ \E o \in Orgs, u \in Users : AskLeave(r, o, u)
  \/ \E i \in pending : AskAccept(r, i)
  \/ \E o \in Orgs, by \in Users, id \in Invites : AskCancel(r, o, by, id)
  \/ \E o \in Orgs, u \in Users \cup {Nobody} : AskSlice(r, o, u)

Check(r) == \/ PermitRole(r) \/ GuardRole(r) \/ PermitRemove(r)
            \/ GuardLeave(r) \/ CountOrgs(r)
            \/ CheckInvitee(r) \/ CountPending(r) \/ CountMembers(r)
            \/ CheckNotMember(r) \/ FindRow(r)

Save(r) == \/ SaveRole(r) \/ EndMembership(r) \/ Join(r) \/ DeleteInvite(r) \/ SaveSlice(r)
           \/ \E id \in Invites : CreateInvite(r, id)

Next == \E r \in Requests : Ask(r) \/ Check(r) \/ Save(r) \/ Stop(r)

Spec == Init /\ [][Next]_vars

-----------------------------------------------------------------------------
\* "Can't change the last owner's role", "the sole owner can't leave", and an
\* owner can't be removed: there is always someone who can run the org.
EveryOrgHasAnOwner == \A o \in Orgs : Owners(o) /= {}

\* The guards keep that as long as no two requests overlap ...
OwnerRemains == ~ overlapped => EveryOrgHasAnOwner

\* ... and so does end_membership: "someone who left cannot be the assignee".
AssigneesBelong == \A o \in Orgs : assignee[o] \in Active(o) \cup {Nobody}
AssigneesAreActive == ~ overlapped => AssigneesBelong

\* assert_can_add_seat: members and open invitations stay within the limit,
\* which requests that count at the same time exceed by one each at most,
\* however members and invitations come and go meanwhile.
SeatsWithinLimit ==
  \A o \in Orgs :
    \/ Seats(o) <= SeatLimit
    \/ overlapped /\ Seats(o) < SeatLimit + Cardinality(Requests)

\* A person who is not an active member becomes one only by an invitation of
\* theirs that was open until then, in the role it names: no save that was
\* under way brings an ended membership back.
OnlyInvitedGetIn ==
  [][\A o \in Orgs, u \in Users :
       row[o][u] \notin Roles /\ row'[o][u] \in Roles
         => \E i \in pending \ pending' :
              i.org = o /\ i.user = u /\ i.role = row'[o][u]]_vars

=============================================================================
