---------------------------- MODULE MCMembership ----------------------------
(***************************************************************************)
(* Everything is asked of the first org.  The second begins with everybody *)
(* as an owner, and is only left: enough for a user to have a last org.    *)
(* Users, invitations and requests are interchangeable.                    *)
(***************************************************************************)
EXTENDS Membership, TLC

CONSTANTS o1, o2

MCOrgs == {o1, o2}
MCKinds == [o \in MCOrgs |-> IF o = o2 THEN {"leave"}
              ELSE {"role", "remove", "leave", "invite", "cancel", "accept", "slice"}]
MCFounders == [o \in MCOrgs |-> IF o = o2 THEN {"owner"}
                 ELSE {"none"} \cup Roles]

Symmetric == Permutations(Users) \cup Permutations(Invites) \cup Permutations(Requests)

=============================================================================
