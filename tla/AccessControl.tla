--------------------------- MODULE AccessControl ---------------------------
(***************************************************************************)
(* contracts/access-control: roles with members, a parent for each role    *)
(* that has one, and the admins who change them.  A holder of a role holds *)
(* every role below it.                                                    *)
(*                                                                         *)
(* A walk from a role to its ancestors is written without recursion: the   *)
(* roles at or above r are those in every set that has r and, with a role, *)
(* its parent.  RoleQueries has the loops of the code and checks that they *)
(* find the same.                                                          *)
(***************************************************************************)
EXTENDS Integers, Sequences

CONSTANTS
    Accounts,    \* the addresses that sign calls and hold roles
    NoAddress,   \* not set
    Roles,       \* role names, the super role among them
    SuperRole,   \* symbol_short!("super")
    MaxListed    \* bound: entries of the list of roles, which every initialize extends

ASSUME AccessAssumption ==
    /\ SuperRole \in Roles
    /\ NoAddress \notin Accounts
    /\ MaxListed \in Nat

VARIABLES
    super_admin,
    admins,      \* accounts mapped to true; a removed one is mapped to false
    roles,       \* registered roles
    all_roles,   \* the list that get_all_roles returns
    parent,      \* role -> parent, for the roles that were given one
    members      \* pairs <<role, account>>: direct members

vars == <<super_admin, admins, roles, all_roles, parent, members>>

Listed(list) == {list[k] : k \in DOMAIN list}

(***************************************************************************)
(* Types: whatever the order of the calls, only registered roles get a     *)
(* parent or members, the list names exactly the registered roles, and     *)
(* once there is a super admin it is an admin, so that somebody always can *)
(* administer.                                                             *)
(***************************************************************************)
TypeOK ==
    /\ super_admin \in Accounts \cup {NoAddress}
    /\ admins \subseteq Accounts
    /\ roles \subseteq Roles
    /\ all_roles \in Seq(Roles)
    /\ Listed(all_roles) = roles
    /\ DOMAIN parent \subseteq roles
    /\ \A r \in DOMAIN parent : parent[r] \in roles
    /\ members \subseteq roles \X Accounts
    /\ super_admin # NoAddress => super_admin \in admins /\ SuperRole \in roles
    /\ super_admin = NoAddress => admins = {}

Init ==
    /\ super_admin = NoAddress
    /\ admins = {}
    /\ roles = {}
    /\ all_roles = << >>
    /\ parent = [r \in {} |-> SuperRole]
    /\ members = {}

-----------------------------------------------------------------------------
(* The hierarchy.                                                          *)

Closed(S) == \A r \in S : r \in DOMAIN parent => parent[r] \in S

\* r and its ancestors.
Up(r) == {a \in Roles : \A S \in SUBSET Roles : r \in S /\ Closed(S) => a \in S}

HasAncestor(r, a) == r \in DOMAIN parent /\ a \in Up(parent[r])

\* Mutant: only the direct parent is looked at.
SwapsParent(role, new_parent) == new_parent \in DOMAIN parent /\ parent[new_parent] = role

\* The cycle check of set_role_parent.
ClosesCycle(role, new_parent) == HasAncestor(new_parent, role)

HasRole(r, u) == \E a \in Up(r) : <<a, u>> \in members

-----------------------------------------------------------------------------
(* Calls.                                                                  *)

\* A role is appended to the list each time it is registered.
Register(role) ==
    /\ Len(all_roles) < MaxListed
    /\ roles' = roles \cup {role}
    /\ all_roles' = Append(all_roles, role)

\* Mutant: the grant starts a new map of members.
GrantAfresh(role, user) ==
    members' = {m \in members : m[1] # role} \cup {<<role, user>>}

Grant(role, user) == members' = members \cup {<<role, user>>}

(***************************************************************************)
(* Nothing refuses a second initialize: it makes its argument the only     *)
(* admin.  The roles, their members and parents stay, the super role of    *)
(* the former super admin included.                                        *)
(***************************************************************************)
Initialize(new_super_admin) ==
    /\ super_admin' = new_super_admin
    /\ admins' = {new_super_admin}
    /\ Register(SuperRole)
    /\ Grant(SuperRole, new_super_admin)
    /\ UNCHANGED parent

AddAdmin(caller, new_admin) ==
    /\ caller \in admins
    /\ admins' = admins \cup {new_admin}
    /\ UNCHANGED <<super_admin, roles, all_roles, parent, members>>

RemoveAdmin(caller, target) ==
    /\ caller \in admins
    /\ target # super_admin
    /\ admins' = admins \ {target}
    /\ UNCHANGED <<super_admin, roles, all_roles, parent, members>>

CreateRole(caller, role) ==
    /\ caller \in admins
    /\ role \notin roles
    /\ Register(role)
    /\ UNCHANGED <<super_admin, admins, parent, members>>

\* A role that has a parent gets another one, and loses the first.
SetRoleParent(caller, role, new_parent) ==
    /\ caller \in admins
    /\ role \in roles
    /\ new_parent \in roles
    /\ role # new_parent
    /\ ~ClosesCycle(role, new_parent)
    /\ parent' = [r \in DOMAIN parent \cup {role} |->
                    IF r = role THEN new_parent ELSE parent[r]]
    /\ UNCHANGED <<super_admin, admins, roles, all_roles, members>>

GrantRole(caller, role, user) ==
    /\ caller \in admins
    /\ role \in roles
    /\ Grant(role, user)
    /\ UNCHANGED <<super_admin, admins, roles, all_roles, parent>>

\* The super role may be revoked like any other, also from the super admin.
RevokeRole(caller, role, user) ==
    /\ caller \in admins
    /\ role \in roles
    /\ members' = members \ {<<role, user>>}
    /\ UNCHANGED <<super_admin, admins, roles, all_roles, parent>>

Next ==
    \/ \E new_super_admin \in Accounts : Initialize(new_super_admin)
    \/ \E caller, new_admin \in Accounts : AddAdmin(caller, new_admin)
    \/ \E caller, target \in Accounts : RemoveAdmin(caller, target)
    \/ \E caller \in Accounts, role \in Roles : CreateRole(caller, role)
    \/ \E caller \in Accounts, role, new_parent \in Roles : SetRoleParent(caller, role, new_parent)
    \/ \E caller, user \in Accounts, role \in Roles : GrantRole(caller, role, user)
    \/ \E caller, user \in Accounts, role \in Roles : RevokeRole(caller, role, user)

Spec == Init /\ [][Next]_vars

-----------------------------------------------------------------------------

(***************************************************************************)
(* No role is its own ancestor, in whatever order the parents are set and  *)
(* replaced: has_role, has_ancestor and get_role_ancestors have no other   *)
(* reason to end.                                                          *)
(***************************************************************************)
NoRoleCycle == \A r \in Roles : ~HasAncestor(r, r)

\* Between this state and the next, u stops (starts) being a direct member of a.
LeavesRole(a, u) == <<a, u>> \in members /\ <<a, u>> \notin members'
JoinsRole(a, u) == <<a, u>> \notin members /\ <<a, u>> \in members'

\* Between this state and the next, a gets a parent, or another one.
IsReparented(a) == a \in DOMAIN parent' /\ (a \in DOMAIN parent => parent'[a] # parent[a])

\* One step, for one role and one user.
RightsStep(r, u) ==
    /\ HasRole(r, u) /\ ~HasRole(r, u)' =>
          \/ \E a \in Up(r) : LeavesRole(a, u) /\ members' = members \ {<<a, u>>}
          \/ \E a \in Up(r) : IsReparented(a) /\ a \in DOMAIN parent
    /\ ~HasRole(r, u) /\ HasRole(r, u)' =>
          \/ \E a \in Up(r) : JoinsRole(a, u) /\ members' = members \cup {<<a, u>>}
          \/ \E a \in Up(r) : IsReparented(a)

(***************************************************************************)
(* What a user may do changes only by a call about that user or about the  *)
(* hierarchy above the role, and in the direction of that call: a right is *)
(* lost only by being revoked at the role or above it, or because one of   *)
(* these is moved to another parent; a right is won only by a grant at the *)
(* role or above it, or by such a move.  A grant to one user takes nothing *)
(* from another; a second initialize takes no role from anybody.           *)
(***************************************************************************)
RightsFollowTheirCause == [][\A r \in Roles, u \in Accounts : RightsStep(r, u)]_vars
=============================================================================
