--------------------------------- MODULE Teams ---------------------------------
(***************************************************************************)
(* TeamManager of teams/__init__.py for one team: members with roles, and  *)
(* invitations, which whoever has the token may accept within seven days.  *)
(* Of the roles those are kept that differ in a permission the manager     *)
(* asks for; shared strategies, keys and the activity log change nothing.  *)
(***************************************************************************)
EXTENDS Integers, FiniteSets

CONSTANTS
    Users,
    Owner,          \* the user who creates the team
    Invitations,
    MaxMembers      \* max_members

None == "none"
Roles == {"owner", "admin", "manager", "trader"}
Invite == {"owner", "admin", "manager"}     \* the roles with USER_INVITE
Manage == {"owner", "admin"}                \* with USER_MANAGE
Remove == {"owner"}                         \* with USER_REMOVE

VARIABLES
    members,        \* the role of each member
    invitations,    \* role, status
    joined          \* ghost: the user who accepted an invitation

teamVars == <<members, invitations, joined>>

TeamConstants == Owner \in Users /\ None \notin Users /\ MaxMembers \in Nat \ {0}

Member == {u \in Users : members[u] # None}
HasPermission(u, roles) == members[u] \in roles

(* After create_team. *)
Init ==
    /\ members = [u \in Users |-> IF u = Owner THEN "owner" ELSE None]
    /\ invitations = [i \in Invitations |-> [role |-> None, status |-> None]]
    /\ joined = [i \in Invitations |-> None]

-----------------------------------------------------------------------------
(* invite_member: the limit is checked against the members there are.      *)
InviteMember(i, role, by) ==
    /\ invitations[i].status = None
    /\ HasPermission(by, Invite)
    /\ Cardinality(Member) < MaxMembers
    /\ invitations' = [invitations EXCEPT ![i] = [role |-> role, status |-> "open"]]
    /\ UNCHANGED <<members, joined>>

(* Seven days pass. *)
Expire(i) ==
    /\ invitations[i].status = "open"
    /\ invitations' = [invitations EXCEPT ![i].status = "expired"]
    /\ UNCHANGED <<members, joined>>

Accepted_StaysOpen(i) == invitations
Accepted(i) == [invitations EXCEPT ![i].status = "accepted"]

(* accept_invitation: the user gets the role, a member and the owner too.  *)
AcceptInvitation(i, u) ==
    /\ invitations[i].status = "open"
    /\ members' = [members EXCEPT ![u] = invitations[i].role]
    /\ invitations' = Accepted(i)
    /\ joined' = [joined EXCEPT ![i] = u]

RemoveMember(u, by) ==
    /\ HasPermission(by, Remove) /\ u # Owner /\ u \in Member
    /\ members' = [members EXCEPT ![u] = None]
    /\ UNCHANGED <<invitations, joined>>

ChangeRole(u, role, by) ==
    /\ HasPermission(by, Manage) /\ u # Owner /\ u \in Member
    /\ members' = [members EXCEPT ![u] = role]
    /\ UNCHANGED <<invitations, joined>>

Next ==
    \/ \E i \in Invitations, role \in Roles, by \in Users : InviteMember(i, role, by)
    \/ \E i \in Invitations : Expire(i)
    \/ \E i \in Invitations, u \in Users : AcceptInvitation(i, u)
    \/ \E u \in Users, by \in Users : RemoveMember(u, by)
    \/ \E u \in Users, role \in Roles, by \in Users : ChangeRole(u, role, by)

Spec == Init /\ [][Next]_teamVars

-----------------------------------------------------------------------------
TypeOK ==
    /\ members \in [Users -> Roles \cup {None}]
    /\ invitations \in [Invitations -> [role : Roles \cup {None},
                                        status : {None, "open", "accepted", "expired"}]]
    /\ joined \in [Invitations -> Users \cup {None}]

(* Through any sequence of invitations, removals and changes of roles the  *)
(* creator stays a member, and everyone else came by an invitation that    *)
(* nobody else has used.                                                   *)
MembersWereInvited ==
    /\ Owner \in Member
    /\ \A u \in Member \ {Owner} : \E i \in Invitations : joined[i] = u
    /\ \A i \in Invitations : joined[i] # None <=> invitations[i].status = "accepted"

(* Inductive: an invitation that can be accepted has a role to give. *)
IInv ==
    /\ TypeOK /\ MembersWereInvited
    /\ \A i \in Invitations : invitations[i].status = "open" => invitations[i].role # None

-----------------------------------------------------------------------------
(* What the docstrings promise and the code does not do. *)

(* "Cannot change owner's role": accepting an invitation does, and nobody  *)
(* can change it back.                                                     *)
OwnerKeepsRole == members[Owner] = "owner"

(* "Check team member limit": not for those who accept.                    *)
SizeWithinLimit == Cardinality(Member) <= MaxMembers
=============================================================================
