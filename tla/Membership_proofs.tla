-------------------------- MODULE Membership_proofs --------------------------
(***************************************************************************)
(* Proved for any number of orgs, people, invitations and requests: the    *)
(* types, that nobody gets in without an invitation, and by how much       *)
(* overlapping invites can exceed the seats.  While requests have not      *)
(* overlapped: an owner remains, assignees are active and seats suffice.   *)
(***************************************************************************)
EXTENDS Membership, FiniteSetTheorems, TLAPS

\* What a request is follows from its kind.
LEMMA KindDecides ==
  ASSUME TypeOK, NEW r \in Requests
  PROVE  /\ req[r].kind = "role" => req[r] \in RoleRequest
         /\ req[r].kind = "remove" => req[r] \in RemoveRequest
         /\ req[r].kind = "leave" => req[r] \in LeaveRequest
         /\ req[r].kind = "invite" => req[r] \in InviteRequest
         /\ req[r].kind = "cancel" => req[r] \in CancelRequest
         /\ req[r].kind = "accept" => req[r] \in AcceptRequest
         /\ req[r].kind = "slice" => req[r] \in SliceRequest
<1>1. req[r] \in RequestStates
  BY DEF TypeOK
<1> QED
  BY <1>1 DEF RequestStates, Idle, RoleRequest, RemoveRequest, LeaveRequest,
              InviteRequest, CancelRequest, AcceptRequest, SliceRequest

\* The actions by what they save.
Reads(r) == Ask(r) \/ Check(r) \/ Stop(r)

LEMMA ReadsSaveNothing ==
  ASSUME NEW r \in Requests, Reads(r) PROVE UNCHANGED <<row, pending, assignee>>
<1>1. ASSUME Ask(r) PROVE UNCHANGED <<row, pending, assignee>>
  BY <1>1 DEF Ask, AskRole, AskRemove, AskInvite, AskLeave, AskAccept, AskCancel, AskSlice, Starts
<1>2. ASSUME Check(r) PROVE UNCHANGED <<row, pending, assignee>>
  BY <1>2 DEF Check, PermitRole, GuardRole, PermitRemove, GuardLeave, CountOrgs,
              CheckInvitee, CountPending, CountMembers, CheckNotMember, FindRow, Goes
<1>3. ASSUME Stop(r) PROVE UNCHANGED <<row, pending, assignee>>
  BY <1>3 DEF Stop
<1> QED
  BY <1>1, <1>2, <1>3 DEF Reads

LEMMA MovesOn ==
  ASSUME TypeOK, NEW r \in Requests, NEW there, Goes(r, there),
         [req[r] EXCEPT !.at = there] \in RequestStates
  PROVE  req' \in [Requests -> RequestStates]
BY DEF TypeOK, Goes

\* Only the start of a request can make requests overlap.
LEMMA OverlapKept ==
  ASSUME NEW r \in Requests, Check(r) \/ Save(r) \/ Stop(r)
  PROVE  overlapped' = overlapped
<1>1. CASE Check(r)
  BY <1>1 DEF Check, PermitRole, GuardRole, PermitRemove, GuardLeave, CountOrgs,
              CheckInvitee, CountPending, CountMembers, CheckNotMember, FindRow, Goes
<1>2. CASE Save(r) \/ Stop(r)
  BY <1>2 DEF Save, Stop, SaveRole, EndMembership, Join, DeleteInvite, SaveSlice,
              CreateInvite, Ends
<1> QED
  BY <1>1, <1>2

LEMMA StartsOverlap ==
  ASSUME NEW r \in Requests, Ask(r)
  PROVE  /\ req[r] = Idle
         /\ overlapped' = (overlapped \/ \E s \in Requests : req[s] /= Idle)
BY DEF Ask, AskRole, AskRemove, AskInvite, AskLeave, AskAccept, AskCancel, AskSlice, Starts

LEMMA PendingFinite ==
  ASSUME TypeOK, NEW o PROVE Cardinality(PendingIn(o)) \in Nat
<1>1. PendingIn(o) \subseteq pending /\ IsFiniteSet(pending)
  BY DEF PendingIn, TypeOK
<1> QED
  BY <1>1, FS_Subset, FS_CardinalityType

\* The type invariant: every request is where its handler can be.
THEOREM TypeCorrect == Spec => []TypeOK
<1>1. Init => TypeOK
  BY FS_EmptySet DEF Init, TypeOK, RequestStates
<1>2. TypeOK /\ [Next]_vars => TypeOK'
  <2> SUFFICES ASSUME TypeOK, [Next]_vars PROVE TypeOK'
    OBVIOUS
  <2>0. overlapped' \in BOOLEAN
    <3>1. CASE UNCHANGED vars
      BY <3>1 DEF vars, TypeOK
    <3>2. ASSUME NEW r \in Requests, Ask(r) PROVE overlapped' \in BOOLEAN
      BY <3>2, StartsOverlap
    <3>3. ASSUME NEW r \in Requests, Check(r) \/ Save(r) \/ Stop(r)
          PROVE  overlapped' \in BOOLEAN
      BY <3>3, OverlapKept DEF TypeOK
    <3> QED
      BY <3>1, <3>2, <3>3 DEF Next
  <2>1. CASE UNCHANGED vars
    BY <2>1 DEF vars, TypeOK
  <2>2. ASSUME NEW r \in Requests, Ask(r) PROVE TypeOK'
    <3>1. UNCHANGED <<row, pending, assignee>>
      BY <2>2, ReadsSaveNothing DEF Reads
    <3>2. SUFFICES ASSUME NEW what \in RequestStates, req' = [req EXCEPT ![r] = what]
                   PROVE  TypeOK'
      <4> USE DEF Starts, RequestStates, RoleRequest, RemoveRequest, LeaveRequest,
                 InviteRequest, CancelRequest, AcceptRequest, SliceRequest
      <4>1. ASSUME NEW o \in Orgs, NEW by \in Users, NEW u \in Users, NEW role \in Roles,
                   AskRole(r, o, by, u, role)
            PROVE  \E what \in RequestStates : req' = [req EXCEPT ![r] = what]
        BY <4>1 DEF AskRole, Active
      <4>2. ASSUME NEW o \in Orgs, NEW by \in Users, NEW u \in Users, AskRemove(r, o, by, u)
            PROVE  \E what \in RequestStates : req' = [req EXCEPT ![r] = what]
        BY <4>2 DEF AskRemove, Active
      <4>3. ASSUME NEW o \in Orgs, NEW by \in Users, NEW u \in Users, NEW role \in InviteRoles,
                   AskInvite(r, o, by, u, role)
            PROVE  \E what \in RequestStates : req' = [req EXCEPT ![r] = what]
        BY <4>3 DEF AskInvite
      <4>4. ASSUME NEW o \in Orgs, NEW u \in Users, AskLeave(r, o, u)
            PROVE  \E what \in RequestStates : req' = [req EXCEPT ![r] = what]
        BY <4>4 DEF AskLeave, Active
      <4>5. ASSUME NEW i \in pending, AskAccept(r, i)
            PROVE  \E what \in RequestStates : req' = [req EXCEPT ![r] = what]
        <5>1. i \in Invitation
          BY DEF TypeOK
        <5> QED
          BY <4>5, <5>1 DEF AskAccept
      <4>6. ASSUME NEW o \in Orgs, NEW by \in Users, NEW id \in Invites, AskCancel(r, o, by, id)
            PROVE  \E what \in RequestStates : req' = [req EXCEPT ![r] = what]
        BY <4>6 DEF AskCancel
      <4>7. ASSUME NEW o \in Orgs, NEW u \in Users \cup {Nobody}, AskSlice(r, o, u)
            PROVE  \E what \in RequestStates : req' = [req EXCEPT ![r] = what]
        BY <4>7 DEF AskSlice
      <4> HIDE DEF Starts, RequestStates, RoleRequest, RemoveRequest, LeaveRequest,
                  InviteRequest, CancelRequest, AcceptRequest, SliceRequest
      <4> QED
        BY <2>2, <4>1, <4>2, <4>3, <4>4, <4>5, <4>6, <4>7 DEF Ask
    <3> QED
      BY <3>1, <3>2, <2>0 DEF TypeOK
  <2>3. ASSUME NEW r \in Requests, Check(r) PROVE TypeOK'
    <3>1. UNCHANGED <<row, pending, assignee>>
      BY <2>3, ReadsSaveNothing DEF Reads
    <3>2. req' \in [Requests -> RequestStates]
      <4>0. req \in [Requests -> RequestStates]
        BY DEF TypeOK
      <4>1. CASE PermitRole(r)
        <5>1. req[r] \in RoleRequest /\ Goes(r, "permitted")
          BY <4>1, KindDecides DEF PermitRole, Stage
        <5>2. [req[r] EXCEPT !.at = "permitted"] \in RoleRequest
          BY <5>1 DEF RoleRequest
        <5> QED
          BY <5>1, <5>2, MovesOn DEF RequestStates
      <4>2. CASE GuardRole(r)
        <5>1. req[r] \in RoleRequest /\ Goes(r, "guarded")
          BY <4>2, KindDecides DEF GuardRole, Stage
        <5>2. [req[r] EXCEPT !.at = "guarded"] \in RoleRequest
          BY <5>1 DEF RoleRequest
        <5> QED
          BY <5>1, <5>2, MovesOn DEF RequestStates
      <4>3. CASE PermitRemove(r)
        <5>1. req[r] \in RemoveRequest /\ Goes(r, "ending")
          BY <4>3, KindDecides DEF PermitRemove, Stage
        <5>2. [req[r] EXCEPT !.at = "ending"] \in RemoveRequest
          BY <5>1 DEF RemoveRequest
        <5> QED
          BY <5>1, <5>2, MovesOn DEF RequestStates
      <4>4. CASE GuardLeave(r)
        <5>1. req[r] \in LeaveRequest /\ Goes(r, "guarded")
          BY <4>4, KindDecides DEF GuardLeave, Stage
        <5>2. [req[r] EXCEPT !.at = "guarded"] \in LeaveRequest
          BY <5>1 DEF LeaveRequest
        <5> QED
          BY <5>1, <5>2, MovesOn DEF RequestStates
      <4>5. CASE CountOrgs(r)
        <5>1. req[r] \in LeaveRequest /\ Goes(r, "ending")
          BY <4>5, KindDecides DEF CountOrgs, Stage
        <5>2. [req[r] EXCEPT !.at = "ending"] \in LeaveRequest
          BY <5>1 DEF LeaveRequest
        <5> QED
          BY <5>1, <5>2, MovesOn DEF RequestStates
      <4>6. CASE CheckInvitee(r)
        <5>1. req[r] \in InviteRequest /\ Goes(r, "checked")
          BY <4>6, KindDecides DEF CheckInvitee, Stage
        <5>2. [req[r] EXCEPT !.at = "checked"] \in InviteRequest
          BY <5>1 DEF InviteRequest
        <5> QED
          BY <5>1, <5>2, MovesOn DEF RequestStates
      <4>7. CASE CountMembers(r)
        <5>1. req[r] \in InviteRequest /\ Goes(r, "counted")
          BY <4>7, KindDecides DEF CountMembers, Stage
        <5>2. [req[r] EXCEPT !.at = "counted"] \in InviteRequest
          BY <5>1 DEF InviteRequest
        <5> QED
          BY <5>1, <5>2, MovesOn DEF RequestStates
      <4>8. CASE CheckNotMember(r)
        <5>1. req[r] \in AcceptRequest /\ Goes(r, "checked")
          BY <4>8, KindDecides DEF CheckNotMember, Stage
        <5>2. [req[r] EXCEPT !.at = "checked"] \in AcceptRequest
          BY <5>1 DEF AcceptRequest
        <5> QED
          BY <5>1, <5>2, MovesOn DEF RequestStates
      <4>9. CASE CountPending(r)
        <5> DEFINE n == Cardinality(PendingIn(req[r].org))
                   what == [req[r] EXCEPT !.at = "counting", !.seen = n]
        <5>1. req[r] \in InviteRequest /\ req' = [req EXCEPT ![r] = what]
          BY <4>9, KindDecides, <4>0 DEF CountPending, Stage
        <5>2. n \in Nat
          BY PendingFinite
        <5>3. what \in InviteRequest
          BY <5>1, <5>2 DEF InviteRequest
        <5> QED
          BY <4>0, <5>1, <5>3 DEF RequestStates
      <4>10. CASE FindRow(r)
        <5> DEFINE was == row[req[r].inv.org][req[r].inv.user]
                   what == [req[r] EXCEPT !.at = "found", !.was = was]
        <5>1. req[r] \in AcceptRequest /\ req' = [req EXCEPT ![r] = what]
          BY <4>10, KindDecides, <4>0 DEF FindRow, Stage
        <5>2. was \in {"none", "ended"} \cup Roles
          BY <5>1 DEF TypeOK, AcceptRequest, Invitation
        <5>3. what \in AcceptRequest
          BY <5>1, <5>2 DEF AcceptRequest
        <5> QED
          BY <4>0, <5>1, <5>3 DEF RequestStates
      <4> QED
        BY <2>3, <4>1, <4>2, <4>3, <4>4, <4>5, <4>6, <4>7, <4>8, <4>9, <4>10 DEF Check
    <3> QED
      BY <3>1, <3>2, <2>0 DEF TypeOK
  <2>4. ASSUME NEW r \in Requests, Ends(r) PROVE req' \in [Requests -> RequestStates]
    BY <2>4 DEF Ends, RequestStates, TypeOK
  <2>5. ASSUME NEW r \in Requests, SaveRole(r) PROVE TypeOK'
    <3>1. row' \in [Orgs -> [Users -> {"none", "ended"} \cup Roles]]
      BY <2>5, KindDecides DEF SaveRole, Stage, RoleRequest, TypeOK
    <3> QED
      BY <2>5, <2>4, <3>1, <2>0 DEF SaveRole, TypeOK
  <2>6. ASSUME NEW r \in Requests, EndMembership(r) PROVE TypeOK'
    <3>1. req[r] \in RemoveRequest \cup LeaveRequest
      BY <2>6, KindDecides DEF EndMembership
    <3>2. row' \in [Orgs -> [Users -> {"none", "ended"} \cup Roles]]
      BY <2>6, <3>1 DEF EndMembership, RemoveRequest, LeaveRequest, TypeOK
    <3>3. assignee' \in [Orgs -> Users \cup {Nobody}]
      BY <2>6, <3>1 DEF EndMembership, RemoveRequest, LeaveRequest, TypeOK
    <3> QED
      BY <2>6, <2>4, <3>2, <3>3, <2>0 DEF EndMembership, TypeOK
  <2>7. ASSUME NEW r \in Requests, Join(r) PROVE TypeOK'
    <3>1. req[r].inv \in Invitation
      BY <2>7, KindDecides DEF Join, Stage, AcceptRequest
    <3>2. row' \in [Orgs -> [Users -> {"none", "ended"} \cup Roles]]
      BY <2>7, <3>1 DEF Join, Invitation, InviteRoles, Roles, TypeOK
    <3>3. pending' \subseteq pending /\ IsFiniteSet(pending')
      BY <2>7, FS_Subset DEF Join, TypeOK
    <3> QED
      BY <2>7, <2>4, <3>2, <3>3, <2>0 DEF Join, TypeOK
  <2>8. ASSUME NEW r \in Requests, DeleteInvite(r) PROVE TypeOK'
    <3>1. pending' \subseteq pending /\ IsFiniteSet(pending')
      BY <2>8, FS_Subset DEF DeleteInvite, TypeOK
    <3> QED
      BY <2>8, <2>4, <3>1, <2>0 DEF DeleteInvite, TypeOK
  <2>9. ASSUME NEW r \in Requests, SaveSlice(r) PROVE TypeOK'
    <3>1. assignee' \in [Orgs -> Users \cup {Nobody}]
      BY <2>9, KindDecides DEF SaveSlice, Stage, SliceRequest, TypeOK
    <3> QED
      BY <2>9, <2>4, <3>1, <2>0 DEF SaveSlice, TypeOK
  <2>10. ASSUME NEW r \in Requests, NEW id \in Invites, CreateInvite(r, id) PROVE TypeOK'
    <3>1. [id |-> id, org |-> req[r].org, user |-> req[r].user, role |-> req[r].role]
            \in Invitation
      BY <2>10, KindDecides DEF CreateInvite, Stage, InviteRequest, Invitation
    <3>2. IsFiniteSet(pending')
      BY <2>10, FS_AddElement DEF CreateInvite, TypeOK
    <3> QED
      BY <2>10, <2>4, <3>1, <3>2, <2>0 DEF CreateInvite, TypeOK
  <2>11. ASSUME NEW r \in Requests, Stop(r) PROVE TypeOK'
    BY <2>11, <2>4, <2>0 DEF Stop, TypeOK
  <2> QED
    BY <2>1, <2>2, <2>3, <2>5, <2>6, <2>7, <2>8, <2>9, <2>10, <2>11 DEF Next, Save
<1> QED
  BY <1>1, <1>2, PTL DEF Spec

-----------------------------------------------------------------------------
(***************************************************************************)
(* The lock: an invitation that is being accepted stays pending, and one   *)
(* request accepts it.                                                     *)
(***************************************************************************)
Accepts(r) == req[r].kind = "accept"

Lock == /\ \A r \in Requests : Accepts(r) => req[r].inv \in pending
        /\ \A r, s \in Requests : Accepts(r) /\ Accepts(s) /\ req[r].inv = req[s].inv => r = s

\* A request other than the one that steps is as it was.
LEMMA OthersStay ==
  ASSUME TypeOK, NEW r \in Requests, Ask(r) \/ Check(r) \/ Save(r) \/ Stop(r)
  PROVE  \A s \in Requests : s /= r => req'[s] = req[s]
<1> USE DEF TypeOK, Starts, Goes, Ends
<1>1. CASE Ask(r)
  BY <1>1 DEF Ask, AskRole, AskRemove, AskInvite, AskLeave, AskAccept, AskCancel, AskSlice
<1>2. CASE Check(r)
  BY <1>2 DEF Check, PermitRole, GuardRole, PermitRemove, GuardLeave, CountOrgs,
              CheckInvitee, CountPending, CountMembers, CheckNotMember, FindRow
<1>3. CASE Save(r) \/ Stop(r)
  BY <1>3 DEF Save, Stop, SaveRole, EndMembership, Join, DeleteInvite, SaveSlice, CreateInvite
<1> QED
  BY <1>1, <1>2, <1>3

\* A check moves a request on, and an acceptance keeps its invitation.
LEMMA ChecksKeepInvite ==
  ASSUME TypeOK, NEW r \in Requests, Check(r)
  PROVE  /\ Accepts(r)' <=> Accepts(r)
         /\ Accepts(r) => req'[r].inv = req[r].inv
<1> USE DEF Accepts, Stage, Goes
<1>0. req \in [Requests -> RequestStates]
  BY DEF TypeOK
<1>1. CASE PermitRole(r) \/ GuardRole(r)
  BY <1>0, <1>1, KindDecides DEF PermitRole, GuardRole, RoleRequest
<1>2. CASE PermitRemove(r)
  BY <1>0, <1>2, KindDecides DEF PermitRemove, RemoveRequest
<1>3. CASE GuardLeave(r) \/ CountOrgs(r)
  BY <1>0, <1>3, KindDecides DEF GuardLeave, CountOrgs, LeaveRequest
<1>4. CASE CheckInvitee(r) \/ CountPending(r) \/ CountMembers(r)
  BY <1>0, <1>4, KindDecides DEF CheckInvitee, CountPending, CountMembers, InviteRequest
<1>5. CASE CheckNotMember(r) \/ FindRow(r)
  BY <1>0, <1>5, KindDecides DEF CheckNotMember, FindRow, AcceptRequest
<1> QED
  BY <1>1, <1>2, <1>3, <1>4, <1>5 DEF Check

THEOREM LockHolds == Spec => []Lock
<1>1. Init => Lock
  BY DEF Init, Lock, Accepts, Idle
<1>2. TypeOK /\ Lock /\ [Next]_vars => Lock'
  <2> SUFFICES ASSUME TypeOK, Lock, [Next]_vars PROVE Lock'
    OBVIOUS
  <2>0. req \in [Requests -> RequestStates]
    BY DEF TypeOK
  <2>1. CASE UNCHANGED vars
    BY <2>1 DEF vars, Lock, Accepts
  <2>2. ASSUME NEW r \in Requests, Ends(r),
               \A s \in Requests \ {r} : Accepts(s) => req[s].inv \in pending'
        PROVE  Lock'
    <3>1. ~ Accepts(r)'
      BY <2>0, <2>2 DEF Ends, Accepts, Idle
    <3>2. \A s \in Requests \ {r} : req'[s] = req[s]
      BY <2>0, <2>2 DEF Ends
    <3> QED
      BY <2>2, <3>1, <3>2 DEF Lock, Accepts
  <2>3. ASSUME NEW r \in Requests, Save(r) \/ Stop(r) PROVE Lock'
    <3>1. Ends(r)
      BY <2>3 DEF Save, Stop, SaveRole, EndMembership, Join, DeleteInvite, SaveSlice, CreateInvite
    <3>2. ASSUME NEW s \in Requests \ {r}, Accepts(s) PROVE req[s].inv \in pending'
      <4>1. CASE pending \subseteq pending'
        BY <4>1, <3>2 DEF Lock
      <4>2. CASE Join(r)
        BY <4>2, <3>2 DEF Join, Stage, Lock, Accepts
      <4>3. CASE DeleteInvite(r)
        BY <4>3, <3>2 DEF DeleteInvite, Lock, Locked, Accepts
      <4>4. SaveRole(r) \/ EndMembership(r) \/ SaveSlice(r) \/ Stop(r) => pending' = pending
        BY DEF SaveRole, EndMembership, SaveSlice, Stop
      <4>5. \A id \in Invites : CreateInvite(r, id) => pending \subseteq pending'
        BY DEF CreateInvite
      <4> QED
        BY <2>3, <4>1, <4>2, <4>3, <4>4, <4>5 DEF Save
    <3> QED
      BY <2>2, <3>1, <3>2
  <2>4. ASSUME NEW r \in Requests, Check(r) PROVE Lock'
    <3>1. pending' = pending
      BY <2>4, ReadsSaveNothing DEF Reads
    <3> QED
      BY <2>4, <3>1, OthersStay, ChecksKeepInvite DEF Lock, Accepts
  <2>5. ASSUME NEW r \in Requests, Ask(r) PROVE Lock'
    <3>1. pending' = pending
      BY <2>5, ReadsSaveNothing DEF Reads
    <3>2. \/ ~ Accepts(r)'
          \/ \E i \in pending : ~ Locked(i) /\ req'[r].inv = i
      BY <2>0, <2>5 DEF Ask, AskRole, AskRemove, AskInvite, AskLeave, AskAccept, AskCancel,
                        AskSlice, Starts, Accepts
    <3>3. \A s \in Requests : s /= r => req'[s] = req[s]
      BY <2>5, OthersStay
    <3> QED
      BY <3>1, <3>2, <3>3 DEF Lock, Accepts, Locked
  <2> QED
    BY <2>1, <2>3, <2>4, <2>5 DEF Next
<1> QED
  BY <1>1, <1>2, TypeCorrect, PTL DEF Spec

\* accept_invitation is the one way in: no role change, ending or slice save
\* that was under way makes a membership active, and an invitation is used once.
THEOREM NobodyElseGetsIn == Spec => OnlyInvitedGetIn
<1> DEFINE Invited(o, u) ==
      row[o][u] \notin Roles /\ row'[o][u] \in Roles
        => \E i \in pending \ pending' : i.org = o /\ i.user = u /\ i.role = row'[o][u]
<1>1. ASSUME TypeOK, Lock, [Next]_vars, NEW o \in Orgs, NEW u \in Users
      PROVE  Invited(o, u)
  <2>1. CASE row' = row
    BY <2>1
  <2>2. ASSUME NEW r \in Requests, Ask(r) \/ Check(r) \/ Stop(r) PROVE row' = row
    BY <2>2, ReadsSaveNothing DEF Reads
  <2>3. ASSUME NEW r \in Requests, DeleteInvite(r) \/ SaveSlice(r)
                                     \/ \E id \in Invites : CreateInvite(r, id)
        PROVE  row' = row
    BY <2>3 DEF DeleteInvite, SaveSlice, CreateInvite
  <2>4. ASSUME NEW r \in Requests, SaveRole(r) PROVE Invited(o, u)
    BY <1>1, <2>4, KindDecides DEF SaveRole, Stage, RoleRequest, TypeOK
  <2>5. ASSUME NEW r \in Requests, EndMembership(r) PROVE Invited(o, u)
    <3>1. req[r] \in RemoveRequest \cup LeaveRequest
      BY <1>1, <2>5, KindDecides DEF EndMembership
    <3>2. "ended" \notin Roles
      BY DEF Roles
    <3> QED
      BY <1>1, <2>5, <3>1, <3>2 DEF EndMembership, RemoveRequest, LeaveRequest, TypeOK
  <2>6. ASSUME NEW r \in Requests, Join(r) PROVE Invited(o, u)
    <3> DEFINE i == req[r].inv
    <3>1. i \in pending /\ i \in Invitation
      BY <1>1, <2>6, KindDecides DEF Join, Stage, Lock, Accepts, AcceptRequest
    <3>2. pending' = pending \ {i} /\ row' = [row EXCEPT ![i.org][i.user] = i.role]
      BY <2>6 DEF Join
    <3>3. CASE o = i.org /\ u = i.user
      BY <1>1, <3>1, <3>2, <3>3 DEF Invitation, TypeOK
    <3>4. CASE ~ (o = i.org /\ u = i.user)
      BY <1>1, <3>1, <3>2, <3>4 DEF Invitation, TypeOK
    <3> QED
      BY <3>3, <3>4
  <2>7. CASE UNCHANGED vars
    BY <2>7 DEF vars
  <2> QED
    BY <1>1, <2>1, <2>2, <2>3, <2>4, <2>5, <2>6, <2>7 DEF Next, Save
<1>2. TypeOK /\ Lock /\ [Next]_vars
        => [\A o \in Orgs, u \in Users : Invited(o, u)]_vars
  BY <1>1
<1> QED
  BY <1>2, TypeCorrect, LockHolds, PTL DEF Spec, OnlyInvitedGetIn

-----------------------------------------------------------------------------
(***************************************************************************)
(* One request at a time: what a request read is still so when it saves.   *)
(***************************************************************************)
Fresh(r) ==
  /\ req[r].kind = "role" =>
       /\ req[r].was = row[req[r].org][req[r].user]
       /\ req[r].at = "guarded" /\ req[r].was = "owner" /\ req[r].role /= "owner"
            => ~ AtMostOneOwner(req[r].org)
  /\ req[r].kind = "remove" =>
       /\ req[r].was = row[req[r].org][req[r].user]
       /\ req[r].at = "ending" => req[r].was /= "owner"
  /\ req[r].kind = "leave" =>
       /\ req[r].was = row[req[r].org][req[r].user]
       /\ req[r].at /= "loaded" /\ req[r].was = "owner" => ~ AtMostOneOwner(req[r].org)
  /\ req[r].kind = "accept" /\ req[r].at /= "locked" =>
       row[req[r].inv.org][req[r].inv.user] \notin Roles
  /\ req[r].kind = "slice" => req[r].user \in Active(req[r].org) \cup {Nobody}

Alone == \A r, s \in Requests : req[r] /= Idle /\ req[s] /= Idle => r = s

Sound == ~ overlapped => /\ EveryOrgHasAnOwner /\ AssigneesBelong
                         /\ Alone
                         /\ \A r \in Requests : Fresh(r)

LEMMA ChecksStayFresh ==
  ASSUME TypeOK, NEW r \in Requests, Fresh(r), Check(r) PROVE Fresh(r)'
<1>0. req \in [Requests -> RequestStates]
  BY DEF TypeOK
<1>1. row' = row
  BY ReadsSaveNothing DEF Reads
<1> USE DEF Fresh, Stage, Goes, Active, AtMostOneOwner, Owners
<1>2. CASE PermitRole(r) \/ GuardRole(r)
  BY <1>0, <1>1, <1>2, KindDecides DEF PermitRole, GuardRole, RoleRequest
<1>3. CASE PermitRemove(r)
  BY <1>0, <1>1, <1>3, KindDecides DEF PermitRemove, RemoveRequest
<1>4. CASE GuardLeave(r) \/ CountOrgs(r)
  BY <1>0, <1>1, <1>4, KindDecides DEF GuardLeave, CountOrgs, LeaveRequest
<1>5. CASE CheckInvitee(r) \/ CountPending(r) \/ CountMembers(r)
  BY <1>0, <1>1, <1>5, KindDecides DEF CheckInvitee, CountPending, CountMembers, InviteRequest
<1>6. CASE CheckNotMember(r) \/ FindRow(r)
  BY <1>0, <1>1, <1>6, KindDecides DEF CheckNotMember, FindRow, AcceptRequest, Invitation, TypeOK
<1> QED
  BY <1>2, <1>3, <1>4, <1>5, <1>6 DEF Check

LEMMA AsksAreFresh ==
  ASSUME TypeOK, AssigneesBelong, NEW r \in Requests, Ask(r) PROVE Fresh(r)'
<1>0. req \in [Requests -> RequestStates]
  BY DEF TypeOK
<1>1. row' = row
  BY ReadsSaveNothing DEF Reads
<1> USE DEF Fresh, Starts, Active
<1>2. ASSUME NEW o \in Orgs, NEW by \in Users, NEW u \in Users, NEW role \in Roles,
             AskRole(r, o, by, u, role)
      PROVE  Fresh(r)'
  BY <1>0, <1>1, <1>2 DEF AskRole
<1>3. ASSUME NEW o \in Orgs, NEW by \in Users, NEW u \in Users, AskRemove(r, o, by, u)
      PROVE  Fresh(r)'
  BY <1>0, <1>1, <1>3 DEF AskRemove
<1>4. ASSUME NEW o \in Orgs, NEW by \in Users, NEW u \in Users, NEW role \in InviteRoles,
             AskInvite(r, o, by, u, role)
      PROVE  Fresh(r)'
  BY <1>0, <1>1, <1>4 DEF AskInvite
<1>5. ASSUME NEW o \in Orgs, NEW u \in Users, AskLeave(r, o, u) PROVE Fresh(r)'
  BY <1>0, <1>1, <1>5 DEF AskLeave
<1>6. ASSUME NEW i \in pending, AskAccept(r, i) PROVE Fresh(r)'
  BY <1>0, <1>1, <1>6 DEF AskAccept
<1>7. ASSUME NEW o \in Orgs, NEW by \in Users, NEW id \in Invites, AskCancel(r, o, by, id)
      PROVE  Fresh(r)'
  BY <1>0, <1>1, <1>7 DEF AskCancel
<1>8. ASSUME NEW o \in Orgs, NEW u \in Users \cup {Nobody}, AskSlice(r, o, u) PROVE Fresh(r)'
  BY <1>0, <1>1, <1>8 DEF AskSlice, AssigneesBelong
<1> QED
  BY <1>2, <1>3, <1>4, <1>5, <1>6, <1>7, <1>8 DEF Ask

\* What a save does to owners and assignees when what was read still holds.
LEMMA SavesAreSound ==
  ASSUME TypeOK, EveryOrgHasAnOwner, AssigneesBelong, NEW r \in Requests, Fresh(r), Save(r)
  PROVE  (EveryOrgHasAnOwner /\ AssigneesBelong)'
<1> USE DEF EveryOrgHasAnOwner, AssigneesBelong, Owners, Active
<1>0. /\ row \in [Orgs -> [Users -> {"none", "ended"} \cup Roles]]
      /\ assignee \in [Orgs -> Users \cup {Nobody}] /\ Nobody \notin Users
  BY MembershipAssumption DEF TypeOK
<1>1. CASE SaveRole(r)
  <2> DEFINE o == req[r].org  u == req[r].user
  <2>1. o \in Orgs /\ u \in Users /\ req[r].role \in Roles /\ req[r].kind = "role"
    BY <1>1, KindDecides DEF SaveRole, Stage, RoleRequest
  <2>2. /\ row' = [row EXCEPT ![o][u] = IF @ \in Roles THEN req[r].role ELSE @]
        /\ assignee' = assignee
    BY <1>1 DEF SaveRole
  <2>3. AssigneesBelong'
    BY <1>0, <2>1, <2>2
  <2>4. \A p \in Orgs \ {o} : row'[p] = row[p]
    BY <1>0, <2>1, <2>2
  <2>5. \E v \in Users : row'[o][v] = "owner"
    <3>1. CASE row[o][u] = "owner" /\ req[r].role /= "owner"
      <4>1. ~ AtMostOneOwner(o)
        BY <1>1, <2>1, <3>1 DEF Fresh, SaveRole, Stage
      <4>2. PICK v \in Users : row[o][v] = "owner" /\ v /= u
        BY <4>1 DEF AtMostOneOwner
      <4> QED
        BY <1>0, <2>1, <2>2, <4>2
    <3>2. CASE ~ (row[o][u] = "owner" /\ req[r].role /= "owner")
      <4>1. PICK v \in Users : row[o][v] = "owner"
        BY <2>1
      <4> QED
        BY <1>0, <2>1, <2>2, <3>2, <4>1 DEF Roles
    <3> QED
      BY <3>1, <3>2
  <2> QED
    BY <2>3, <2>4, <2>5
<1>2. CASE EndMembership(r)
  <2> DEFINE o == req[r].org  u == req[r].user
  <2>1. o \in Orgs /\ u \in Users
    BY <1>2, KindDecides DEF EndMembership, RemoveRequest, LeaveRequest
  <2>2. /\ row' = [row EXCEPT ![o][u] = "ended"]
        /\ assignee' = [assignee EXCEPT ![o] = IF @ = u THEN Nobody ELSE @]
    BY <1>2 DEF EndMembership
  <2>3. AssigneesBelong'
    BY <1>0, <2>1, <2>2
  <2>4. PICK v \in Users : row[o][v] = "owner" /\ v /= u
    <3>1. row[o][u] = "owner" => ~ AtMostOneOwner(o)
      BY <1>2 DEF EndMembership, Fresh
    <3> QED
      BY <2>1, <3>1 DEF AtMostOneOwner
  <2> QED
    BY <1>0, <2>1, <2>2, <2>3, <2>4
<1>3. CASE Join(r)
  <2> DEFINE o == req[r].inv.org  u == req[r].inv.user
  <2>1. o \in Orgs /\ u \in Users /\ req[r].inv.role \in Roles
    BY <1>3, KindDecides DEF Join, Stage, AcceptRequest, Invitation, InviteRoles, Roles
  <2>2. row' = [row EXCEPT ![o][u] = req[r].inv.role] /\ assignee' = assignee
    BY <1>3 DEF Join
  <2>3. row[o][u] \notin Roles
    BY <1>3 DEF Join, Stage, Fresh
  <2>4. \A p \in Orgs, v \in Users : row[p][v] \in Roles => row'[p][v] = row[p][v]
    BY <1>0, <2>1, <2>2, <2>3
  <2> QED
    BY <2>2, <2>4 DEF Roles
<1>4. CASE SaveSlice(r)
  BY <1>0, <1>4, KindDecides DEF SaveSlice, Stage, SliceRequest, Fresh
<1>5. CASE DeleteInvite(r) \/ \E id \in Invites : CreateInvite(r, id)
  BY <1>5 DEF DeleteInvite, CreateInvite
<1> QED
  BY <1>1, <1>2, <1>3, <1>4, <1>5 DEF Save

LEMMA SteppingIsBusy ==
  ASSUME NEW r \in Requests, Check(r) \/ Save(r) \/ Stop(r) PROVE req[r] /= Idle
BY DEF Check, Save, Stop, Stage, Idle, PermitRole, GuardRole, PermitRemove, GuardLeave, CountOrgs,
       CheckInvitee, CountPending, CountMembers, CheckNotMember, FindRow, SaveRole,
       EndMembership, Join, DeleteInvite, SaveSlice, CreateInvite

\* While nothing has overlapped, a request steps alone.
LEMMA OthersIdle ==
  ASSUME TypeOK, Sound, ~ overlapped', NEW r \in Requests, Ask(r) \/ Check(r) \/ Save(r) \/ Stop(r)
  PROVE  ~ overlapped /\ \A s \in Requests \ {r} : req[s] = Idle /\ req'[s] = Idle
<1>1. ~ overlapped
  BY OverlapKept, StartsOverlap
<1>2. ASSUME NEW s \in Requests \ {r} PROVE req[s] = Idle
  <2>1. CASE Ask(r)
    BY <2>1, StartsOverlap
  <2>2. CASE Check(r) \/ Save(r) \/ Stop(r)
    BY <1>1, <2>2, SteppingIsBusy DEF Sound, Alone
  <2> QED
    BY <2>1, <2>2
<1> QED
  BY <1>1, <1>2, OthersStay

LEMMA SoundAlways == Spec => []Sound
<1>1. Init => Sound
  BY DEF Init, Sound, Alone, Fresh, EveryOrgHasAnOwner, AssigneesBelong, Idle
<1>2. TypeOK /\ Sound /\ [Next]_vars => Sound'
  <2> SUFFICES ASSUME TypeOK, Sound, [Next]_vars, ~ overlapped' PROVE Sound'
    BY DEF Sound
  <2>0. req \in [Requests -> RequestStates]
    BY DEF TypeOK
  <2>1. CASE UNCHANGED vars
    BY <2>1 DEF vars, Sound, Alone, Fresh, EveryOrgHasAnOwner, AssigneesBelong, Owners, Active,
                AtMostOneOwner
  <2>2. ASSUME NEW r \in Requests, Ask(r) \/ Check(r) \/ Save(r) \/ Stop(r)
        PROVE  ~ overlapped /\ \A s \in Requests \ {r} : req[s] = Idle /\ req'[s] = Idle
    BY <2>2, OthersIdle
  <2>3. ASSUME NEW r \in Requests, Ask(r) \/ Check(r) \/ Save(r) \/ Stop(r),
               Fresh(r)', EveryOrgHasAnOwner', AssigneesBelong'
        PROVE  Sound'
    <3>1. \A s \in Requests \ {r} : req'[s] = Idle
      BY <2>2, <2>3
    <3>2. \A s \in Requests \ {r} : Fresh(s)'
      BY <3>1 DEF Fresh, Idle
    <3> QED
      BY <2>3, <3>1, <3>2 DEF Sound, Alone
  <2>4. ASSUME NEW r \in Requests, Ask(r) \/ Check(r) \/ Stop(r) PROVE Sound'
    <3>1. row' = row /\ assignee' = assignee
      BY <2>4, ReadsSaveNothing DEF Reads
    <3>2. EveryOrgHasAnOwner /\ AssigneesBelong /\ Fresh(r)
      BY <2>2, <2>4 DEF Sound
    <3>3. (EveryOrgHasAnOwner /\ AssigneesBelong)'
      BY <3>1, <3>2 DEF EveryOrgHasAnOwner, AssigneesBelong, Owners, Active
    <3>4. Stop(r) => Fresh(r)'
      BY <2>0 DEF Stop, Ends, Fresh, Idle
    <3>5. Fresh(r)'
      BY <2>4, <3>2, <3>4, AsksAreFresh, ChecksStayFresh
    <3> QED
      BY <2>3, <2>4, <3>3, <3>5
  <2>5. ASSUME NEW r \in Requests, Save(r) PROVE Sound'
    <3>1. EveryOrgHasAnOwner /\ AssigneesBelong /\ Fresh(r)
      BY <2>2, <2>5 DEF Sound
    <3>2. (EveryOrgHasAnOwner /\ AssigneesBelong)'
      BY <2>5, <3>1, SavesAreSound
    <3>3. Ends(r)
      BY <2>5 DEF Save, SaveRole, EndMembership, Join, DeleteInvite, SaveSlice, CreateInvite
    <3>4. Fresh(r)'
      BY <2>0, <3>3 DEF Ends, Fresh, Idle
    <3> QED
      BY <2>3, <2>5, <3>2, <3>4
  <2> QED
    BY <2>1, <2>4, <2>5 DEF Next
<1> QED
  BY <1>1, <1>2, TypeCorrect, PTL DEF Spec

\* change_member_role, leave_org and remove_member leave an owner, as long as requests have
\* not overlapped (orgs.py).
THEOREM OneByOneIsSound == Spec => []OwnerRemains
<1>1. Sound => OwnerRemains
  BY DEF Sound, OwnerRemains
<1> QED
  BY <1>1, SoundAlways, PTL

\* end_membership and resolve_member leave no slice with an assignee who left or never
\* belonged, as long as requests have not overlapped (orgs.py, slices.py).
THEOREM AssigneesStayActive == Spec => []AssigneesAreActive
<1>1. Sound => AssigneesAreActive
  BY DEF Sound, AssigneesAreActive
<1> QED
  BY <1>1, SoundAlways, PTL

-----------------------------------------------------------------------------
(***************************************************************************)
(* Seats.  An invite that has counted the pending invitations may yet find *)
(* room, the more so the more members leave: so the bound is kept for      *)
(* every number of members, from none to the present one.                  *)
(***************************************************************************)
MembersOf(o) == Cardinality(Active(o))
InvitedTo(o) == Cardinality(PendingIn(o))

MayCreate(o, a) ==
  {r \in Requests : /\ req[r].kind = "invite" /\ req[r].org = o
                    /\ \/ req[r].at = "counted"
                       \/ req[r].at = "counting" /\ a + req[r].seen < SeatLimit}

RoomFor(o, a) ==
  \/ MayCreate(o, a) = {} /\ a + InvitedTo(o) <= SeatLimit
  \/ a + InvitedTo(o) + Cardinality(MayCreate(o, a)) < SeatLimit + Cardinality(Requests)

SeatsBounded == \A o \in Orgs : \A a \in 0..MembersOf(o) : RoomFor(o, a)

LEMMA SeatNumbers ==
  ASSUME TypeOK, NEW o
  PROVE  /\ MembersOf(o) \in Nat /\ InvitedTo(o) \in Nat /\ IsFiniteSet(Active(o))
         /\ IsFiniteSet(PendingIn(o)) /\ Cardinality(Requests) \in Nat /\ SeatLimit \in Nat
         /\ \A a : /\ Cardinality(MayCreate(o, a)) \in Nat /\ IsFiniteSet(MayCreate(o, a))
                   /\ Cardinality(MayCreate(o, a)) <= Cardinality(Requests)
<1>1. PendingIn(o) \subseteq pending /\ IsFiniteSet(pending)
  BY DEF PendingIn, TypeOK
<1>2. Active(o) \subseteq Users /\ \A a : MayCreate(o, a) \subseteq Requests
  BY DEF Active, MayCreate
<1> QED
  BY <1>1, <1>2, MembershipAssumption, FS_Subset, FS_CardinalityType DEF MembersOf, InvitedTo

LEMMA NextSeatNumbers ==
  ASSUME TypeOK', NEW o
  PROVE  /\ MembersOf(o)' \in Nat /\ InvitedTo(o)' \in Nat
         /\ \A a : /\ Cardinality(MayCreate(o, a)') \in Nat /\ IsFiniteSet(MayCreate(o, a)')
                   /\ Cardinality(MayCreate(o, a)') <= Cardinality(Requests)
<1>1. PendingIn(o)' \subseteq pending' /\ IsFiniteSet(pending')
  BY DEF PendingIn, TypeOK
<1>2. Active(o)' \subseteq Users /\ \A a : MayCreate(o, a)' \subseteq Requests
  BY DEF Active, MayCreate
<1> QED
  BY <1>1, <1>2, MembershipAssumption, FS_Subset, FS_CardinalityType DEF MembersOf, InvitedTo

\* How one step changes what is counted: nothing is added, or an invitation becomes a
\* membership, or a request that was let through inserts its own.
LEMMA SeatsChange ==
  ASSUME TypeOK, Lock, TypeOK', NEW o \in Orgs, NEW r \in Requests,
         Ask(r) \/ Check(r) \/ Save(r) \/ Stop(r)
  PROVE  \/ MembersOf(o)' <= MembersOf(o) /\ InvitedTo(o)' <= InvitedTo(o)
         \/ /\ MembersOf(o)' <= MembersOf(o) + 1 /\ InvitedTo(o)' + 1 <= InvitedTo(o)
            /\ ~ Check(r)
         \/ /\ MembersOf(o)' = MembersOf(o) /\ InvitedTo(o)' <= InvitedTo(o) + 1
            /\ Stage(r, "invite", "counted") /\ req[r].org = o /\ req'[r] = Idle
<1>0. /\ row \in [Orgs -> [Users -> {"none", "ended"} \cup Roles]]
      /\ req \in [Requests -> RequestStates]
  BY DEF TypeOK
<1>1. SUFFICES ASSUME ~ (Active(o)' \subseteq Active(o) /\ PendingIn(o)' \subseteq PendingIn(o))
               PROVE  \/ /\ MembersOf(o)' <= MembersOf(o) + 1 /\ InvitedTo(o)' + 1 <= InvitedTo(o)
                         /\ ~ Check(r)
                      \/ /\ MembersOf(o)' = MembersOf(o) /\ InvitedTo(o)' <= InvitedTo(o) + 1
                         /\ Stage(r, "invite", "counted") /\ req[r].org = o /\ req'[r] = Idle
  BY SeatNumbers, FS_Subset DEF MembersOf, InvitedTo
<1>2. ~ Reads(r)
  BY <1>1, ReadsSaveNothing DEF Active, PendingIn
<1>3. ~ SaveRole(r)
  <2>1. SUFFICES ASSUME SaveRole(r) PROVE FALSE
    OBVIOUS
  <2>2. req[r].org \in Orgs /\ req[r].user \in Users
    BY <2>1, KindDecides DEF SaveRole, Stage, RoleRequest
  <2> QED
    BY <1>0, <1>1, <2>1, <2>2 DEF SaveRole, Active, PendingIn
<1>4. ~ EndMembership(r)
  <2>1. SUFFICES ASSUME EndMembership(r) PROVE FALSE
    OBVIOUS
  <2>2. req[r].org \in Orgs /\ req[r].user \in Users
    BY <2>1, KindDecides DEF EndMembership, RemoveRequest, LeaveRequest
  <2> QED
    BY <1>0, <1>1, <2>1, <2>2 DEF EndMembership, Active, PendingIn, Roles
<1>5. ~ DeleteInvite(r) /\ ~ SaveSlice(r)
  BY <1>1 DEF DeleteInvite, SaveSlice, Active, PendingIn
<1>6. CASE Join(r)
  <2> DEFINE i == req[r].inv
  <2>1. i \in pending /\ i \in Invitation
    BY <1>6, KindDecides DEF Join, Stage, Lock, Accepts, AcceptRequest
  <2>2. row' = [row EXCEPT ![i.org][i.user] = i.role] /\ pending' = pending \ {i}
    BY <1>6 DEF Join
  <2> HIDE DEF i
  <2>3. i.org = o
    <3>1. i.org /= o => Active(o)' = Active(o)
      BY <1>0, <2>1, <2>2 DEF Active, Invitation
    <3> QED
      BY <1>1, <2>2, <3>1 DEF PendingIn
  <2>4. Active(o)' \subseteq Active(o) \cup {i.user}
    BY <1>0, <2>1, <2>2, <2>3 DEF Active, Invitation
  <2>5. MembersOf(o)' <= MembersOf(o) + 1
    <3>1. /\ IsFiniteSet(Active(o) \cup {i.user})
          /\ Cardinality(Active(o) \cup {i.user}) \in {MembersOf(o), MembersOf(o) + 1}
      BY SeatNumbers, FS_AddElement DEF MembersOf
    <3>2. MembersOf(o)' <= Cardinality(Active(o) \cup {i.user})
      BY <2>4, <3>1, FS_Subset DEF MembersOf
    <3> QED
      BY <3>1, <3>2, SeatNumbers, NextSeatNumbers
  <2>6. PendingIn(o)' = PendingIn(o) \ {i} /\ i \in PendingIn(o)
    BY <2>1, <2>2, <2>3 DEF PendingIn
  <2>7. InvitedTo(o)' = InvitedTo(o) - 1
    BY <2>6, SeatNumbers, FS_RemoveElement DEF InvitedTo
  <2>8. ~ Check(r)
    <3>1. Check(r) => pending' = pending
      BY ReadsSaveNothing DEF Reads
    <3> QED
      BY <2>1, <2>2, <3>1
  <2> QED
    BY <2>5, <2>7, <2>8, SeatNumbers
<1>7. ASSUME NEW id \in Invites, CreateInvite(r, id)
      PROVE  /\ MembersOf(o)' = MembersOf(o) /\ InvitedTo(o)' <= InvitedTo(o) + 1
             /\ Stage(r, "invite", "counted") /\ req[r].org = o /\ req'[r] = Idle
  <2> DEFINE i == [id |-> id, org |-> req[r].org, user |-> req[r].user, role |-> req[r].role]
  <2>1. /\ row' = row /\ pending' = pending \cup {i} /\ Stage(r, "invite", "counted")
        /\ i.org = req[r].org
    BY <1>7 DEF CreateInvite
  <2>2. req'[r] = Idle
    BY <1>0, <1>7 DEF CreateInvite, Ends
  <2> HIDE DEF i
  <2>3. Active(o)' = Active(o)
    BY <2>1 DEF Active
  <2>4. req[r].org = o
    BY <1>1, <2>1, <2>3 DEF PendingIn
  <2>5. PendingIn(o)' = PendingIn(o) \cup {i}
    BY <2>1, <2>4 DEF PendingIn
  <2>6. InvitedTo(o)' \in {InvitedTo(o), InvitedTo(o) + 1}
    BY <2>5, SeatNumbers, FS_AddElement DEF InvitedTo
  <2> QED
    BY <2>1, <2>2, <2>3, <2>4, <2>6, SeatNumbers DEF MembersOf
<1> QED
  BY <1>2, <1>3, <1>4, <1>5, <1>6, <1>7 DEF Reads, Save

\* No step but the count of the pending invitations adds to those that may find room.
LEMMA WhoMayCreate ==
  ASSUME TypeOK, NEW o \in Orgs, NEW a \in Nat, NEW r \in Requests,
         Ask(r) \/ Check(r) \/ Save(r) \/ Stop(r), ~ CountPending(r),
         ~ Check(r) \/ a <= MembersOf(o)
  PROVE  MayCreate(o, a)' \subseteq MayCreate(o, a)
<1>0. req \in [Requests -> RequestStates]
  BY DEF TypeOK
<1>1. SUFFICES ASSUME r \in MayCreate(o, a)' PROVE r \in MayCreate(o, a)
  BY OthersStay DEF MayCreate
<1>2. /\ req'[r].kind = "invite" /\ req'[r].org = o
      /\ \/ req'[r].at = "counted"
         \/ req'[r].at = "counting" /\ a + req'[r].seen < SeatLimit
  BY <1>1 DEF MayCreate
<1>3. ~ Save(r) /\ ~ Stop(r)
  <2>1. SUFFICES ASSUME Ends(r) PROVE FALSE
    BY DEF Save, Stop, SaveRole, EndMembership, Join, DeleteInvite, SaveSlice, CreateInvite
  <2> QED
    BY <1>0, <1>2, <2>1 DEF Ends, Idle
<1>4. ~ Ask(r)
  BY <1>0, <1>2 DEF Ask, AskRole, AskRemove, AskInvite, AskLeave, AskAccept, AskCancel, AskSlice,
                    Starts
<1>5. ~ PermitRole(r) /\ ~ GuardRole(r) /\ ~ PermitRemove(r) /\ ~ GuardLeave(r) /\ ~ CountOrgs(r)
  BY <1>0, <1>2, KindDecides DEF PermitRole, GuardRole, PermitRemove, GuardLeave, CountOrgs, Goes,
                                 Stage, RoleRequest, RemoveRequest, LeaveRequest
<1>6. ~ CheckInvitee(r) /\ ~ CheckNotMember(r) /\ ~ FindRow(r)
  BY <1>0, <1>2, KindDecides DEF CheckInvitee, CheckNotMember, FindRow, Goes, Stage,
                                 InviteRequest, AcceptRequest
<1>7. CountMembers(r)
  BY <1>3, <1>4, <1>5, <1>6 DEF Check
<1>8. /\ req[r] \in InviteRequest /\ req[r].kind = "invite" /\ req[r].at = "counting"
      /\ req[r].org = o /\ MembersOf(o) + req[r].seen < SeatLimit
  BY <1>0, <1>2, <1>7, KindDecides DEF CountMembers, Goes, Stage, InviteRequest, MembersOf
<1>9. a + req[r].seen < SeatLimit
  <2>1. req[r].seen \in Nat /\ a <= MembersOf(o)
    BY <1>7, <1>8 DEF InviteRequest, Check
  <2> QED
    BY <1>8, <2>1, SeatNumbers
<1> QED
  BY <1>8, <1>9 DEF MayCreate

\* Less of each leaves room.
LEMMA RoomRemains ==
  ASSUME TypeOK, TypeOK', NEW o \in Orgs, NEW a \in Nat, NEW b \in Nat, RoomFor(o, b),
         MayCreate(o, a)' \subseteq MayCreate(o, b), a + InvitedTo(o)' <= b + InvitedTo(o)
  PROVE  RoomFor(o, a)'
<1>1. Cardinality(MayCreate(o, a)') <= Cardinality(MayCreate(o, b))
  BY SeatNumbers, FS_Subset
<1>2. /\ InvitedTo(o) \in Nat /\ InvitedTo(o)' \in Nat /\ SeatLimit \in Nat
      /\ Cardinality(MayCreate(o, a)') \in Nat /\ Cardinality(MayCreate(o, b)) \in Nat
      /\ Cardinality(Requests) \in Nat
  BY SeatNumbers, NextSeatNumbers
<1>3. CASE MayCreate(o, b) = {} /\ b + InvitedTo(o) <= SeatLimit
  BY <1>2, <1>3 DEF RoomFor
<1>4. CASE b + InvitedTo(o) + Cardinality(MayCreate(o, b)) < SeatLimit + Cardinality(Requests)
  BY <1>1, <1>2, <1>4 DEF RoomFor
<1> QED
  BY <1>3, <1>4 DEF RoomFor

LEMMA SeatsBoundedStep ==
  ASSUME TypeOK, Lock, TypeOK', SeatsBounded, NEW r \in Requests,
         Ask(r) \/ Check(r) \/ Save(r) \/ Stop(r)
  PROVE  SeatsBounded'
<1>0. req \in [Requests -> RequestStates]
  BY DEF TypeOK
<1>1. SUFFICES ASSUME NEW o \in Orgs, NEW a \in 0..MembersOf(o)' PROVE RoomFor(o, a)'
  BY DEF SeatsBounded
<1>2. /\ MembersOf(o) \in Nat /\ MembersOf(o)' \in Nat /\ a \in Nat /\ a <= MembersOf(o)'
      /\ InvitedTo(o) \in Nat /\ InvitedTo(o)' \in Nat
      /\ Cardinality(Requests) \in Nat /\ SeatLimit \in Nat
  BY SeatNumbers, NextSeatNumbers
<1>3. \A b \in Nat : b <= MembersOf(o) => RoomFor(o, b)
  BY <1>2 DEF SeatsBounded
<1>4. CASE MembersOf(o)' <= MembersOf(o) /\ InvitedTo(o)' <= InvitedTo(o) /\ ~ CountPending(r)
  <2>1. a <= MembersOf(o) /\ a + InvitedTo(o)' <= a + InvitedTo(o)
    BY <1>2, <1>4
  <2>2. MayCreate(o, a)' \subseteq MayCreate(o, a)
    BY <1>2, <1>4, <2>1, WhoMayCreate
  <2> QED
    BY <1>2, <1>3, <2>1, <2>2, RoomRemains
<1>5. CASE CountPending(r)
  <2>1. /\ row' = row /\ pending' = pending /\ Stage(r, "invite", "checked")
        /\ \A s \in Requests \ {r} : req'[s] = req[s]
    BY <1>5, OthersStay DEF CountPending
  <2>2. MembersOf(o)' = MembersOf(o) /\ InvitedTo(o)' = InvitedTo(o)
    BY <2>1 DEF MembersOf, InvitedTo, Active, PendingIn
  <2>3. CASE r \in MayCreate(o, a)'
    <3>1. /\ req'[r].org = req[r].org /\ req'[r].at = "counting"
          /\ req'[r].seen = InvitedTo(req[r].org)
      BY <1>0, <1>5, KindDecides DEF CountPending, Stage, InviteRequest, InvitedTo
    <3>2. a + InvitedTo(o) < SeatLimit
      BY <2>3, <3>1 DEF MayCreate
    <3>3. /\ Cardinality(MayCreate(o, a)') <= Cardinality(Requests)
          /\ Cardinality(MayCreate(o, a)') \in Nat
      BY NextSeatNumbers
    <3> QED
      BY <1>2, <2>2, <3>2, <3>3 DEF RoomFor
  <2>4. CASE r \notin MayCreate(o, a)'
    <3>1. MayCreate(o, a)' \subseteq MayCreate(o, a)
      BY <2>1, <2>4 DEF MayCreate
    <3> QED
      BY <1>2, <1>3, <2>2, <3>1, RoomRemains
  <2> QED
    BY <2>3, <2>4
<1>6. CASE MembersOf(o)' <= MembersOf(o) + 1 /\ InvitedTo(o)' + 1 <= InvitedTo(o) /\ ~ Check(r)
  <2> DEFINE b == IF a = 0 THEN 0 ELSE a - 1
  <2>1. b \in Nat /\ b <= a /\ b <= MembersOf(o) /\ a + InvitedTo(o)' <= b + InvitedTo(o)
    BY <1>2, <1>6
  <2> HIDE DEF b
  <2>2. MayCreate(o, a)' \subseteq MayCreate(o, a)
    BY <1>2, <1>6, WhoMayCreate DEF Check
  <2>3. MayCreate(o, a) \subseteq MayCreate(o, b)
    <3>1. ASSUME NEW s \in Requests, req[s].kind = "invite", req[s].at = "counting",
                 a + req[s].seen < SeatLimit
          PROVE  b + req[s].seen < SeatLimit
      <4>1. req[s].seen \in Nat
        BY <3>1, KindDecides DEF InviteRequest
      <4> QED
        BY <1>2, <2>1, <3>1, <4>1
    <3> QED
      BY <3>1 DEF MayCreate
  <2> QED
    BY <1>2, <1>3, <2>1, <2>2, <2>3, RoomRemains
<1>7. CASE /\ MembersOf(o)' = MembersOf(o) /\ InvitedTo(o)' <= InvitedTo(o) + 1
           /\ Stage(r, "invite", "counted") /\ req[r].org = o /\ req'[r] = Idle
  <2> DEFINE M == MayCreate(o, a)
  <2>1. r \in M /\ ~ Check(r) /\ ~ CountPending(r)
    <3>1. r \in M
      BY <1>7 DEF MayCreate, Stage
    <3>2. Check(r) => req'[r] # Idle
      BY <1>0, <1>7, KindDecides DEF Check, Stage, PermitRole, GuardRole, PermitRemove,
         GuardLeave, CountOrgs, CheckInvitee, CountPending, CountMembers, CheckNotMember, FindRow
    <3> QED
      BY <1>7, <3>1, <3>2 DEF Check
  <2>2. MayCreate(o, a)' \subseteq M \ {r}
    <3>1. r \notin MayCreate(o, a)'
      BY <1>7 DEF MayCreate, Idle
    <3> QED
      BY <1>2, <2>1, <3>1, WhoMayCreate
  <2>3. Cardinality(M) \in Nat /\ IsFiniteSet(M)
    BY SeatNumbers
  <2>4. Cardinality(MayCreate(o, a)') <= Cardinality(M) - 1
    <3>1. Cardinality(M \ {r}) = Cardinality(M) - 1 /\ IsFiniteSet(M \ {r})
      BY <2>1, <2>3, FS_RemoveElement
    <3> QED
      BY <2>2, <3>1, FS_Subset
  <2>5. a + InvitedTo(o) + Cardinality(M) < SeatLimit + Cardinality(Requests)
    BY <1>2, <1>3, <1>7, <2>1 DEF RoomFor
  <2> HIDE DEF M
  <2>6. Cardinality(MayCreate(o, a)') \in Nat
    BY NextSeatNumbers
  <2> QED
    BY <1>2, <1>7, <2>3, <2>4, <2>5, <2>6 DEF RoomFor
<1> QED
  <2>1. CountPending(r) => MembersOf(o)' = MembersOf(o) /\ InvitedTo(o)' = InvitedTo(o)
    BY DEF CountPending, MembersOf, InvitedTo, Active, PendingIn
  <2> QED
    BY <1>2, <1>4, <1>5, <1>6, <1>7, <2>1, SeatsChange

\* One request at a time: what an invite counted is still so.
Counted(r) ==
  req[r].kind = "invite" =>
     /\ req[r].at = "counting" => req[r].seen = InvitedTo(req[r].org)
     /\ req[r].at = "counted" => Seats(req[r].org) < SeatLimit

SeatsCounted == ~ overlapped => /\ \A o \in Orgs : Seats(o) <= SeatLimit
                                /\ \A r \in Requests : Counted(r)

LEMMA SeatsCountedStep ==
  ASSUME TypeOK, Lock, Sound, TypeOK', SeatsCounted, NEW r \in Requests,
         Ask(r) \/ Check(r) \/ Save(r) \/ Stop(r)
  PROVE  SeatsCounted'
<1>0. req \in [Requests -> RequestStates]
  BY DEF TypeOK
<1>1. SUFFICES ASSUME ~ overlapped'
               PROVE  (\A o \in Orgs : Seats(o) <= SeatLimit)' /\ \A s \in Requests : Counted(s)'
  BY DEF SeatsCounted
<1>2. ~ overlapped /\ \A s \in Requests \ {r} : req[s] = Idle /\ req'[s] = Idle
  BY <1>1, OthersIdle
<1>3. /\ \A o \in Orgs : MembersOf(o) + InvitedTo(o) <= SeatLimit
      /\ Counted(r)
  BY <1>2 DEF SeatsCounted, Seats, MembersOf, InvitedTo
<1>4. ASSUME NEW o \in Orgs PROVE Seats(o)' <= SeatLimit
  <2>1. /\ MembersOf(o) \in Nat /\ MembersOf(o)' \in Nat
        /\ InvitedTo(o) \in Nat /\ InvitedTo(o)' \in Nat /\ SeatLimit \in Nat
    BY SeatNumbers, NextSeatNumbers
  <2>2. Stage(r, "invite", "counted") /\ req[r].org = o => MembersOf(o) + InvitedTo(o) < SeatLimit
    BY <1>3 DEF Counted, Stage, Seats, MembersOf, InvitedTo
  <2>3. MembersOf(o)' + InvitedTo(o)' <= SeatLimit
    BY <1>3, <2>1, <2>2, SeatsChange
  <2> QED
    BY <2>3 DEF Seats, MembersOf, InvitedTo
<1>5. ASSUME NEW s \in Requests \ {r} PROVE Counted(s)'
  BY <1>2 DEF Counted, Idle
<1>6. CASE Save(r) \/ Stop(r)
  <2>1. Ends(r)
    BY <1>6 DEF Save, Stop, SaveRole, EndMembership, Join, DeleteInvite, SaveSlice, CreateInvite
  <2>2. Counted(r)'
    BY <1>0, <2>1 DEF Ends, Counted, Idle
  <2> QED
    BY <1>4, <1>5, <2>2
<1>7. CASE Ask(r)
  <2>1. req'[r].at \notin {"counting", "counted"}
    BY <1>0, <1>7 DEF Ask, AskRole, AskRemove, AskInvite, AskLeave, AskAccept, AskCancel, AskSlice,
                      Starts
  <2>2. Counted(r)'
    BY <2>1 DEF Counted
  <2> QED
    BY <1>4, <1>5, <2>2
<1>8. CASE Check(r)
  <2>1. row' = row /\ pending' = pending
    BY <1>8, ReadsSaveNothing DEF Reads
  <2>2. ASSUME CountPending(r) PROVE Counted(r)'
    BY <1>0, <2>1, <2>2, KindDecides
       DEF CountPending, Stage, InviteRequest, Counted, InvitedTo, PendingIn
  <2>3. ASSUME CountMembers(r) PROVE Counted(r)'
    <3>1. /\ req[r] \in InviteRequest /\ req[r].kind = "invite" /\ req[r].at = "counting"
          /\ MembersOf(req[r].org) + req[r].seen < SeatLimit
          /\ req'[r] = [req[r] EXCEPT !.at = "counted"]
      BY <1>0, <2>3, KindDecides DEF CountMembers, Goes, Stage, MembersOf
    <3>2. req'[r].at = "counted" /\ req'[r].org = req[r].org
      BY <3>1 DEF InviteRequest
    <3>3. Seats(req[r].org) < SeatLimit
      BY <1>3, <3>1 DEF Counted, Seats, MembersOf, InvitedTo
    <3>4. Seats(req[r].org)' < SeatLimit
      BY <2>1, <3>2, <3>3 DEF Seats, Active, PendingIn
    <3> QED
      BY <3>2, <3>4 DEF Counted
  <2>4. ASSUME ~ CountPending(r), ~ CountMembers(r) PROVE Counted(r)'
    <3>1. req'[r].kind = "invite" => req'[r].at = "checked"
      BY <1>0, <1>8, <2>4, KindDecides
         DEF Check, PermitRole, GuardRole, PermitRemove, GuardLeave, CountOrgs, CheckInvitee,
             CheckNotMember, FindRow, Goes, Stage, RoleRequest, RemoveRequest, LeaveRequest,
             InviteRequest, AcceptRequest
    <3> QED
      BY <3>1 DEF Counted
  <2>5. Counted(r)'
    BY <2>2, <2>3, <2>4
  <2> QED
    BY <1>4, <1>5, <2>5
<1> QED
  BY <1>6, <1>7, <1>8

\* assert_can_add_seat keeps members and open invitations within the limit while requests do
\* not overlap; however many count at the same time, and whoever leaves or joins meanwhile,
\* they exceed it by fewer than they are (entitlements.py, invitations.py).
THEOREM SeatsAreBounded == Spec => []SeatsWithinLimit
<1>1. Init => SeatsBounded /\ SeatsCounted
  <2> SUFFICES ASSUME Init PROVE SeatsBounded /\ SeatsCounted
    OBVIOUS
  <2>1. /\ \A r \in Requests : req[r] = Idle
        /\ \A o \in Orgs : Seats(o) <= SeatLimit /\ IsFiniteSet(Active(o))
    <3>1. \A o \in Orgs : Active(o) \subseteq Users
      BY DEF Active
    <3> QED
      BY <3>1, MembershipAssumption, FS_Subset DEF Init
  <2>2. SeatsCounted
    BY <2>1 DEF SeatsCounted, Counted, Idle
  <2>3. ASSUME NEW o \in Orgs, NEW a \in 0..MembersOf(o) PROVE RoomFor(o, a)
    <3>1. MayCreate(o, a) = {}
      BY <2>1 DEF MayCreate, Idle
    <3>2. PendingIn(o) = {} /\ InvitedTo(o) = 0
      BY FS_EmptySet DEF Init, PendingIn, InvitedTo
    <3>3. MembersOf(o) \in Nat /\ MembersOf(o) + 0 <= SeatLimit
      BY <2>1, <3>2, FS_CardinalityType DEF Seats, MembersOf, InvitedTo
    <3> QED
      BY <3>1, <3>2, <3>3, MembershipAssumption DEF RoomFor
  <2> QED
    BY <2>2, <2>3 DEF SeatsBounded
<1>2. TypeOK /\ TypeOK' /\ Lock /\ Sound /\ SeatsBounded /\ SeatsCounted /\ [Next]_vars
        => SeatsBounded' /\ SeatsCounted'
  <2> SUFFICES ASSUME TypeOK, TypeOK', Lock, Sound, SeatsBounded, SeatsCounted, [Next]_vars
               PROVE  SeatsBounded' /\ SeatsCounted'
    OBVIOUS
  <2>1. CASE UNCHANGED vars
    BY <2>1 DEF vars, SeatsBounded, SeatsCounted, RoomFor, MayCreate, MembersOf, InvitedTo, Active,
                PendingIn, Counted, Seats
  <2> QED
    BY <2>1, SeatsBoundedStep, SeatsCountedStep DEF Next
<1>3. TypeOK /\ SeatsBounded /\ SeatsCounted => SeatsWithinLimit
  <2> SUFFICES ASSUME TypeOK, SeatsBounded, SeatsCounted, NEW o \in Orgs
               PROVE  \/ Seats(o) <= SeatLimit
                      \/ overlapped /\ Seats(o) < SeatLimit + Cardinality(Requests)
    BY DEF SeatsWithinLimit
  <2>1. RoomFor(o, MembersOf(o)) /\ Seats(o) = MembersOf(o) + InvitedTo(o)
    BY SeatNumbers DEF SeatsBounded, Seats, MembersOf, InvitedTo
  <2>2. /\ MembersOf(o) \in Nat /\ InvitedTo(o) \in Nat /\ SeatLimit \in Nat
        /\ Cardinality(Requests) \in Nat /\ Cardinality(MayCreate(o, MembersOf(o))) \in Nat
    BY SeatNumbers
  <2> QED
    BY <2>1, <2>2 DEF RoomFor, SeatsCounted
<1> QED
  BY <1>1, <1>2, <1>3, TypeCorrect, LockHolds, SoundAlways, PTL DEF Spec
=============================================================================
