------------------------ MODULE AccessControlProofs ------------------------
(***************************************************************************)
(* Theorems about AccessControl, for every set of accounts and roles,      *)
(* finite or not; those about its queries, which walk over the roles, for  *)
(* every finite set of roles.                                              *)
(***************************************************************************)
EXTENDS RoleQueries, LedgerProofs

-----------------------------------------------------------------------------
(* Types.                                                                  *)

\* Appending a role adds it to those the list names.
LEMMA ListedAppend ==
    ASSUME NEW S, NEW list \in Seq(S), NEW x \in S
    PROVE  /\ Append(list, x) \in Seq(S)
           /\ Listed(Append(list, x)) = Listed(list) \cup {x}
<1> DEFINE longer == Append(list, x)
<1>1. /\ longer \in Seq(S)
      /\ Len(list) \in Nat
      /\ DOMAIN list = 1 .. Len(list)
      /\ DOMAIN longer = 1 .. Len(list) + 1
      /\ \A k \in 1 .. Len(list) : longer[k] = list[k]
      /\ longer[Len(list) + 1] = x
  OBVIOUS
<1> HIDE DEF longer
<1>2. DOMAIN longer = DOMAIN list \cup {Len(list) + 1}
  BY <1>1
<1>3. {longer[k] : k \in DOMAIN longer} = {list[k] : k \in DOMAIN list} \cup {x}
  BY <1>1, <1>2
<1> QED BY <1>1, <1>3 DEF Listed, longer

LEMMA InitTypes ==
    ASSUME Init
    PROVE  TypeOK
<1>1. Listed(all_roles) = {}
  <2>1. DOMAIN all_roles = {}
    BY DEF Init
  <2> QED BY <2>1 DEF Listed
<1>2. DOMAIN parent = {}
  BY DEF Init
<1>3. all_roles \in Seq(Roles)
  BY DEF Init
<1> QED BY <1>1, <1>2, <1>3 DEF Init, TypeOK

\* Each call keeps the types.
LEMMA TypeStep ==
    ASSUME TypeOK, [Next]_vars
    PROVE  TypeOK'
<1> USE AccessAssumption DEF TypeOK
<1>1. ASSUME NEW new_super_admin \in Accounts, Initialize(new_super_admin)
      PROVE  TypeOK'
  <2>1. /\ all_roles' \in Seq(Roles)
        /\ Listed(all_roles') = roles'
    BY <1>1, ListedAppend DEF Initialize, Register
  <2>2. /\ roles' \subseteq Roles
        /\ members' \subseteq roles' \X Accounts
        /\ \A r \in DOMAIN parent' : parent'[r] \in roles'
        /\ DOMAIN parent' \subseteq roles'
    BY <1>1 DEF Initialize, Register, Grant
  <2>3. /\ super_admin' \in Accounts
        /\ admins' \subseteq Accounts
        /\ super_admin' \in admins' /\ SuperRole \in roles'
        /\ super_admin' # NoAddress
    BY <1>1 DEF Initialize, Register
  <2> QED BY <2>1, <2>2, <2>3
<1>2. ASSUME NEW caller \in Accounts, NEW new_admin \in Accounts, AddAdmin(caller, new_admin)
      PROVE  TypeOK'
  BY <1>2 DEF AddAdmin
<1>3. ASSUME NEW caller \in Accounts, NEW target \in Accounts, RemoveAdmin(caller, target)
      PROVE  TypeOK'
  BY <1>3 DEF RemoveAdmin
<1>4. ASSUME NEW caller \in Accounts, NEW role \in Roles, CreateRole(caller, role)
      PROVE  TypeOK'
  <2>1. /\ all_roles' \in Seq(Roles)
        /\ Listed(all_roles') = roles'
    BY <1>4, ListedAppend DEF CreateRole, Register
  <2>2. /\ roles' \subseteq Roles
        /\ members' \subseteq roles' \X Accounts
        /\ \A r \in DOMAIN parent' : parent'[r] \in roles'
        /\ DOMAIN parent' \subseteq roles'
    BY <1>4 DEF CreateRole, Register
  <2> QED BY <1>4, <2>1, <2>2 DEF CreateRole, Register
<1>5. ASSUME NEW caller \in Accounts, NEW role \in Roles, NEW new_parent \in Roles,
             SetRoleParent(caller, role, new_parent)
      PROVE  TypeOK'
  <2>1. /\ DOMAIN parent' \subseteq roles
        /\ \A r \in DOMAIN parent' : parent'[r] \in roles
    BY <1>5 DEF SetRoleParent
  <2> QED BY <1>5, <2>1 DEF SetRoleParent
<1>6. ASSUME NEW caller \in Accounts, NEW role \in Roles, NEW user \in Accounts,
             GrantRole(caller, role, user)
      PROVE  TypeOK'
  BY <1>6 DEF GrantRole, Grant
<1>7. ASSUME NEW caller \in Accounts, NEW role \in Roles, NEW user \in Accounts,
             RevokeRole(caller, role, user)
      PROVE  TypeOK'
  BY <1>7 DEF RevokeRole
<1>8. CASE UNCHANGED vars
  BY <1>8 DEF vars
<1> QED BY <1>1, <1>2, <1>3, <1>4, <1>5, <1>6, <1>7, <1>8 DEF Next

\* The types of access-control hold in every state.
THEOREM AccessTyped == Spec => []TypeOK
<1>1. Init => TypeOK
  BY InitTypes
<1>2. TypeOK /\ [Next]_vars => TypeOK'
  BY TypeStep
<1> QED BY <1>1, <1>2, PTL DEF Spec

-----------------------------------------------------------------------------
(* The walk upward.                                                        *)

\* The roles at or above r are closed under parents, and every closed set
\* that has r has them all.
LEMMA UpIsClosed ==
    ASSUME TypeOK, NEW r \in Roles
    PROVE  /\ r \in Up(r)
           /\ Up(r) \subseteq Roles
           /\ Closed(Up(r))
BY DEF TypeOK, Up, Closed

LEMMA UpIsLeast ==
    ASSUME NEW r \in Roles, NEW S \in SUBSET Roles, r \in S, Closed(S)
    PROVE  Up(r) \subseteq S
BY DEF Up

\* What is above r, but for r, is found by the walk from r.
LEMMA UpIsWalked ==
    ASSUME TypeOK, NEW r \in Roles, NEW a \in Up(r), a # r
    PROVE  HasAncestor(r, a)
<1>1. ASSUME r \notin DOMAIN parent PROVE FALSE
  <2>1. Closed({r})
    BY <1>1 DEF Closed
  <2> QED BY <2>1, UpIsLeast
<1>2. parent[r] \in Roles
  BY <1>1 DEF TypeOK
<1>3. Closed({r} \cup Up(parent[r]))
  BY <1>2, UpIsClosed DEF Closed
<1>4. {r} \cup Up(parent[r]) \in SUBSET Roles
  BY <1>2, UpIsClosed
<1>5. a \in {r} \cup Up(parent[r])
  BY <1>3, <1>4, UpIsLeast
<1> QED BY <1>1, <1>5 DEF HasAncestor

\* S is closed under the parents of the next state.
ClosedNext(S) == \A r \in S : r \in DOMAIN parent' => parent'[r] \in S

\* A set closed under the next parents leaves out what is not above.
LEMMA NotAboveNext ==
    ASSUME NEW x \in Roles, NEW S \in SUBSET Roles, ClosedNext(S), x \notin S,
           x \in DOMAIN parent' => parent'[x] \in S
    PROVE  ~HasAncestor(x, x)'
<1>1. Closed(S)' <=> ClosedNext(S)
  BY DEF Closed, ClosedNext
<1> QED BY <1>1 DEF HasAncestor, Up

\* A new parent that has not the role above it closes no cycle.
LEMMA NoCycleSetParent ==
    ASSUME TypeOK, NoRoleCycle, NEW caller \in Accounts,
           NEW role \in Roles, NEW new_parent \in Roles,
           SetRoleParent(caller, role, new_parent)
    PROVE  NoRoleCycle'
<1> DEFINE above == Up(new_parent)
<1>1. /\ new_parent \in above
      /\ above \in SUBSET Roles
      /\ Closed(above)
  BY UpIsClosed
<1>2. role \notin above
  BY UpIsWalked DEF SetRoleParent, ClosesCycle
<1>3. /\ DOMAIN parent' = DOMAIN parent \cup {role}
      /\ parent'[role] = new_parent
      /\ \A r \in DOMAIN parent : r # role => parent'[r] = parent[r]
  BY DEF SetRoleParent
<1> HIDE DEF above
<1>4. ClosedNext(above)
  BY <1>1, <1>2, <1>3 DEF Closed, ClosedNext
<1>5. ASSUME NEW x \in Roles PROVE ~HasAncestor(x, x)'
  <2>1. CASE x = role
    BY <1>1, <1>2, <1>3, <1>4, <2>1, NotAboveNext
  <2>2. CASE x # role /\ x \notin DOMAIN parent
    BY <1>3, <2>2 DEF HasAncestor
  <2>3. CASE x # role /\ x \in DOMAIN parent
    <3> DEFINE T == Up(parent[x])
    <3>1. parent[x] \in Roles
      BY <2>3 DEF TypeOK
    <3>2. /\ parent[x] \in T
          /\ T \in SUBSET Roles
          /\ Closed(T)
      BY <3>1, UpIsClosed
    <3>3. x \notin T
      BY <2>3 DEF NoRoleCycle, HasAncestor
    <3>4. parent'[x] = parent[x]
      BY <1>3, <2>3
    <3>5. CASE role \notin T
      <4> HIDE DEF T
      <4>1. ClosedNext(T)
        BY <1>3, <3>2, <3>5 DEF Closed, ClosedNext
      <4> QED BY <3>2, <3>3, <3>4, <4>1, NotAboveNext
    <3>6. CASE role \in T
      <4>1. x \notin above
        <5>1. SUFFICES ASSUME x \in above PROVE FALSE
          OBVIOUS
        <5>2. parent[x] \in above
          BY <1>1, <2>3, <5>1 DEF Closed
        <5>3. T \subseteq above
          BY <1>1, <3>1, <5>2, UpIsLeast
        <5> QED BY <1>2, <3>6, <5>3
      <4> HIDE DEF T
      <4>2. ClosedNext(T \cup above)
        BY <1>1, <1>3, <1>4, <3>2 DEF Closed, ClosedNext
      <4>3. /\ T \cup above \in SUBSET Roles
            /\ x \notin T \cup above
            /\ parent'[x] \in T \cup above
        BY <1>1, <3>2, <3>3, <3>4, <4>1
      <4> QED BY <4>2, <4>3, NotAboveNext
    <3> QED BY <3>5, <3>6
  <2> QED BY <2>1, <2>2, <2>3
<1> QED BY <1>5 DEF NoRoleCycle

\* Walks depend on the parents alone.
LEMMA SameParents ==
    ASSUME UNCHANGED parent
    PROVE  /\ \A r \in Roles : Up(r)' = Up(r)
           /\ \A r, a \in Roles : HasAncestor(r, a)' <=> HasAncestor(r, a)
BY DEF Up, Closed, HasAncestor

\* Every call but set_role_parent leaves the parents alone.
LEMMA ParentsStep ==
    ASSUME [Next]_vars
    PROVE  \/ UNCHANGED parent
           \/ \E caller \in Accounts, role, new_parent \in Roles :
                  SetRoleParent(caller, role, new_parent)
BY DEF Next, vars, Initialize, AddAdmin, RemoveAdmin, CreateRole, GrantRole, RevokeRole

\* The hierarchy of access-control has no cycle in any state.
THEOREM HierarchyHasNoCycle == Spec => []NoRoleCycle
<1>1. Init => NoRoleCycle
  <2>1. ASSUME Init PROVE DOMAIN parent = {}
    BY <2>1 DEF Init
  <2> QED BY <2>1 DEF NoRoleCycle, HasAncestor
<1>2. TypeOK /\ NoRoleCycle /\ [Next]_vars => NoRoleCycle'
  <2> SUFFICES ASSUME TypeOK, NoRoleCycle, [Next]_vars
               PROVE  NoRoleCycle'
    OBVIOUS
  <2>1. CASE UNCHANGED parent
    BY <2>1, SameParents DEF NoRoleCycle
  <2>2. ASSUME NEW caller \in Accounts, NEW role \in Roles, NEW new_parent \in Roles,
               SetRoleParent(caller, role, new_parent)
        PROVE  NoRoleCycle'
    BY <2>2, NoCycleSetParent
  <2> QED BY <2>1, <2>2, ParentsStep
<1> QED BY <1>1, <1>2, AccessTyped, PTL DEF Spec

-----------------------------------------------------------------------------
(* Who holds what.                                                         *)

\* What changes the members adds one, or removes one, with the parents unchanged.
LEMMA MembersStep ==
    ASSUME [Next]_vars
    PROVE  \/ UNCHANGED members
           \/ /\ UNCHANGED parent
              /\ \E m \in Roles \X Accounts :
                    members' = members \cup {m} \/ members' = members \ {m}
<1> USE AccessAssumption
<1>1. ASSUME NEW new_super_admin \in Accounts, Initialize(new_super_admin)
      PROVE  UNCHANGED parent /\ members' = members \cup {<<SuperRole, new_super_admin>>}
  BY <1>1 DEF Initialize, Grant
<1>2. ASSUME NEW caller \in Accounts, NEW role \in Roles, NEW user \in Accounts,
             GrantRole(caller, role, user)
      PROVE  UNCHANGED parent /\ members' = members \cup {<<role, user>>}
  BY <1>2 DEF GrantRole, Grant
<1>3. ASSUME NEW caller \in Accounts, NEW role \in Roles, NEW user \in Accounts,
             RevokeRole(caller, role, user)
      PROVE  UNCHANGED parent /\ members' = members \ {<<role, user>>}
  BY <1>3 DEF RevokeRole
<1>4. ASSUME \/ UNCHANGED vars
             \/ \E caller, new_admin \in Accounts : AddAdmin(caller, new_admin)
             \/ \E caller, target \in Accounts : RemoveAdmin(caller, target)
             \/ \E caller \in Accounts, role \in Roles : CreateRole(caller, role)
             \/ \E caller \in Accounts, role, new_parent \in Roles :
                    SetRoleParent(caller, role, new_parent)
      PROVE  UNCHANGED members
  BY <1>4 DEF vars, AddAdmin, RemoveAdmin, CreateRole, SetRoleParent
<1> QED BY <1>1, <1>2, <1>3, <1>4 DEF Next

\* With the parents unchanged, a right changes with one membership.
LEMMA RightsStepMembers ==
    ASSUME [Next]_vars, UNCHANGED parent, NEW r \in Roles, NEW u \in Accounts
    PROVE  RightsStep(r, u)
<1>1. Up(r)' = Up(r)
  BY SameParents
<1>2. /\ HasRole(r, u) <=> \E a \in Up(r) : <<a, u>> \in members
      /\ HasRole(r, u)' <=> \E a \in Up(r) : <<a, u>> \in members'
  BY <1>1 DEF HasRole
<1>3. CASE UNCHANGED members
  BY <1>2, <1>3 DEF RightsStep
<1>4. ASSUME NEW m \in Roles \X Accounts, members' = members \cup {m}
      PROVE  RightsStep(r, u)
  <2>1. ASSUME NEW a \in Up(r), <<a, u>> \in members', <<a, u>> \notin members
        PROVE  JoinsRole(a, u) /\ members' = members \cup {<<a, u>>}
    BY <1>4, <2>1 DEF JoinsRole
  <2>2. HasRole(r, u) => HasRole(r, u)'
    BY <1>2, <1>4
  <2> QED BY <1>2, <2>1, <2>2 DEF RightsStep
<1>5. ASSUME NEW m \in Roles \X Accounts, members' = members \ {m}
      PROVE  RightsStep(r, u)
  <2>1. ASSUME NEW a \in Up(r), <<a, u>> \in members, <<a, u>> \notin members'
        PROVE  LeavesRole(a, u) /\ members' = members \ {<<a, u>>}
    BY <1>5, <2>1 DEF LeavesRole
  <2>2. HasRole(r, u)' => HasRole(r, u)
    BY <1>2, <1>5
  <2> QED BY <1>2, <2>1, <2>2 DEF RightsStep
<1> QED BY <1>3, <1>4, <1>5, MembersStep

\* A new parent changes rights at and below the role that gets it only.
LEMMA RightsStepParent ==
    ASSUME TypeOK, TypeOK', NEW caller \in Accounts,
           NEW role \in Roles, NEW new_parent \in Roles,
           SetRoleParent(caller, role, new_parent),
           NEW r \in Roles, NEW u \in Accounts
    PROVE  RightsStep(r, u)
<1>1. /\ DOMAIN parent' = DOMAIN parent \cup {role}
      /\ parent'[role] = new_parent
      /\ \A a \in DOMAIN parent : a # role => parent'[a] = parent[a]
      /\ UNCHANGED members
  BY DEF SetRoleParent
<1> DEFINE now == Up(r)
           next == Up(r)'
<1>2. /\ r \in now /\ now \in SUBSET Roles
      /\ Closed(now)
      /\ \A S \in SUBSET Roles : r \in S /\ Closed(S) => now \subseteq S
  BY UpIsClosed, UpIsLeast
<1>3. /\ r \in next /\ next \in SUBSET Roles
      /\ ClosedNext(next)
      /\ \A S \in SUBSET Roles : r \in S /\ ClosedNext(S) => next \subseteq S
  <2>1. /\ \A a \in DOMAIN parent' : parent'[a] \in Roles
        /\ next = {a \in Roles : \A S \in SUBSET Roles : r \in S /\ ClosedNext(S) => a \in S}
    BY DEF TypeOK, Up, Closed, ClosedNext
  <2> HIDE DEF next
  <2> QED BY <2>1 DEF ClosedNext
<1>4. /\ HasRole(r, u) <=> \E a \in now : <<a, u>> \in members
      /\ HasRole(r, u)' <=> \E a \in next : <<a, u>> \in members
  BY <1>1 DEF HasRole
<1> HIDE DEF next
<1>5. CASE role \notin now
  <2> HIDE DEF now
  <2>1. next \subseteq now
    <3>1. ClosedNext(now)
      BY <1>1, <1>2, <1>5 DEF Closed, ClosedNext
    <3> QED BY <1>2, <1>3, <3>1
  <2>2. now \subseteq next
    <3>1. Closed(next)
      BY <1>1, <1>3, <1>5, <2>1 DEF Closed, ClosedNext
    <3> QED BY <1>2, <1>3, <3>1
  <2> QED BY <1>4, <2>1, <2>2 DEF RightsStep
<1>6. CASE role \in now /\ role \in DOMAIN parent /\ new_parent # parent[role]
  BY <1>1, <1>6 DEF RightsStep, IsReparented
<1>7. CASE role \in now /\ role \in DOMAIN parent /\ new_parent = parent[role]
  <2> HIDE DEF now
  <2>1. \A S : Closed(S) <=> ClosedNext(S)
    BY <1>1, <1>7 DEF Closed, ClosedNext
  <2>2. next \subseteq now /\ now \subseteq next
    BY <1>2, <1>3, <2>1
  <2> QED BY <1>4, <2>2 DEF RightsStep
<1>8. CASE role \in now /\ role \notin DOMAIN parent
  <2>1. IsReparented(role)
    BY <1>1, <1>8 DEF IsReparented
  <2>2. Closed(next)
    BY <1>1, <1>3, <1>8 DEF Closed, ClosedNext
  <2>3. now \subseteq next
    BY <1>2, <1>3, <2>2
  <2>4. HasRole(r, u) => HasRole(r, u)'
    BY <1>4, <2>3
  <2> QED BY <1>8, <2>1, <2>4 DEF RightsStep
<1> QED BY <1>5, <1>6, <1>7, <1>8

\* Rights change by a grant, a revocation or a move of a role at or above
\* them, in every step of access-control.
THEOREM RightsHaveACause == Spec => RightsFollowTheirCause
<1>1. TypeOK /\ TypeOK' /\ [Next]_vars => \A r \in Roles, u \in Accounts : RightsStep(r, u)
  <2> SUFFICES ASSUME TypeOK, TypeOK', [Next]_vars, NEW r \in Roles, NEW u \in Accounts
               PROVE  RightsStep(r, u)
    OBVIOUS
  <2>1. CASE UNCHANGED parent
    BY <2>1, RightsStepMembers
  <2>2. ASSUME NEW caller \in Accounts, NEW role \in Roles, NEW new_parent \in Roles,
               SetRoleParent(caller, role, new_parent)
        PROVE  RightsStep(r, u)
    BY <2>2, RightsStepParent
  <2> QED BY <2>1, <2>2, ParentsStep
<1> QED BY <1>1, AccessTyped, PTL DEF Spec, RightsFollowTheirCause

-----------------------------------------------------------------------------
(* What the queries answer.                                                *)

\* The loops do what their recursion says: each is an iteration over the number
\* of steps, which exists (IterationExists).
LEMMA HeldUnfolds ==
    ASSUME NEW user, NEW n \in 0 .. MaxSteps
    PROVE  has_role_recursive(user)[n] =
             {role \in Roles :
                \/ <<role, user>> \in members
                \/ /\ n > 0 /\ role \in DOMAIN parent
                   /\ parent[role] \in has_role_recursive(user)[n - 1]}
<1> DEFINE S == SUBSET Roles
           Held(prev) == {role \in Roles : \/ <<role, user>> \in members
                                           \/ role \in DOMAIN parent /\ parent[role] \in prev}
           base == {role \in Roles : <<role, user>> \in members}
           step == [p \in (1 .. MaxSteps) \X S |-> Held(p[2])]
           IsIt(g) == g = [k \in 0 .. MaxSteps |->
                             {role \in Roles :
                                \/ <<role, user>> \in members
                                \/ k > 0 /\ role \in DOMAIN parent /\ parent[role] \in g[k - 1]}]
           it == CHOOSE g : IsIt(g)
<1>1. MaxSteps \in Nat
  BY QueryAssumption, FS_CardinalityType DEF MaxSteps
<1>2. base \in S /\ step \in [(1 .. MaxSteps) \X S -> S]
  OBVIOUS
<1>3. PICK g : Iterates(g, MaxSteps, S, base, step)
  <2> HIDE DEF S, base, step
  <2> QED BY ONLY <1>1, <1>2, IterationExists
<1>4. ASSUME NEW k \in 0 .. MaxSteps
      PROVE  g[k] = {role \in Roles :
                       \/ <<role, user>> \in members
                       \/ k > 0 /\ role \in DOMAIN parent /\ parent[role] \in g[k - 1]}
  <2>1. CASE k = 0
    BY <1>3, <2>1 DEF Iterates
  <2>2. CASE k # 0
    <3>1. k > 0 /\ k \in 1 .. MaxSteps /\ k - 1 \in 0 .. MaxSteps
      BY <1>1, <2>2
    <3>2. <<k, g[k - 1]>> \in (1 .. MaxSteps) \X S
      BY <1>3, <3>1 DEF Iterates
    <3>3. g[k] = Held(g[k - 1])
      <4>1. step[<<k, g[k - 1]>>] = Held(g[k - 1])
        BY <3>2
      <4> QED BY <1>3, <3>1, <4>1 DEF Iterates
    <3> QED BY <3>1, <3>3
  <2> QED BY <2>1, <2>2
<1>5. IsIt(g)
  BY <1>3, <1>4 DEF Iterates
<1>6. IsIt(it)
  <2> HIDE DEF IsIt
  <2> QED BY <1>5
<1>7. has_role_recursive(user) = it
  BY DEF has_role_recursive
<1> HIDE DEF it
<1> QED BY <1>6, <1>7

LEMMA BelowUnfolds ==
    ASSUME NEW candidate, NEW n \in 0 .. MaxSteps
    PROVE  has_ancestor_from(candidate)[n] =
             {role \in Roles :
                /\ n > 0
                /\ role \in DOMAIN parent
                /\ \/ parent[role] = candidate
                   \/ parent[role] \in has_ancestor_from(candidate)[n - 1]}
<1> DEFINE S == SUBSET Roles
           Below(prev) == {role \in Roles : /\ role \in DOMAIN parent
                                            /\ parent[role] = candidate \/ parent[role] \in prev}
           step == [p \in (1 .. MaxSteps) \X S |-> Below(p[2])]
           IsIt(g) == g = [k \in 0 .. MaxSteps |->
                             {role \in Roles :
                                /\ k > 0
                                /\ role \in DOMAIN parent
                                /\ parent[role] = candidate \/ parent[role] \in g[k - 1]}]
           it == CHOOSE g : IsIt(g)
<1>1. MaxSteps \in Nat
  BY QueryAssumption, FS_CardinalityType DEF MaxSteps
<1>2. {} \in S /\ step \in [(1 .. MaxSteps) \X S -> S]
  OBVIOUS
<1>3. PICK g : Iterates(g, MaxSteps, S, {}, step)
  <2> HIDE DEF S, step
  <2> QED BY ONLY <1>1, <1>2, IterationExists
<1>4. ASSUME NEW k \in 0 .. MaxSteps
      PROVE  g[k] = {role \in Roles :
                       /\ k > 0
                       /\ role \in DOMAIN parent
                       /\ parent[role] = candidate \/ parent[role] \in g[k - 1]}
  <2>1. CASE k = 0
    BY <1>3, <2>1 DEF Iterates
  <2>2. CASE k # 0
    <3>1. k > 0 /\ k \in 1 .. MaxSteps /\ k - 1 \in 0 .. MaxSteps
      BY <1>1, <2>2
    <3>2. <<k, g[k - 1]>> \in (1 .. MaxSteps) \X S
      BY <1>3, <3>1 DEF Iterates
    <3>3. g[k] = Below(g[k - 1])
      <4>1. step[<<k, g[k - 1]>>] = Below(g[k - 1])
        BY <3>2
      <4> QED BY <1>3, <3>1, <4>1 DEF Iterates
    <3> QED BY <3>1, <3>3
  <2> QED BY <2>1, <2>2
<1>5. IsIt(g)
  BY <1>3, <1>4 DEF Iterates
<1>6. IsIt(it)
  <2> HIDE DEF IsIt
  <2> QED BY <1>5
<1>7. has_ancestor_from(candidate) = it
  BY DEF has_ancestor_from
<1> HIDE DEF it
<1> QED BY <1>6, <1>7

LEMMA ChainUnfolds ==
    ASSUME TypeOK, NEW n \in 0 .. MaxSteps, NEW r \in Roles
    PROVE  /\ ancestors_from[n][r] \in Seq(Roles)
           /\ ancestors_from[n][r] =
                IF n > 0 /\ r \in DOMAIN parent
                THEN <<parent[r]>> \o ancestors_from[n - 1][parent[r]]
                ELSE << >>
<1> DEFINE S == [Roles -> Seq(Roles)]
           Chain(prev) == [role \in Roles |-> IF role \in DOMAIN parent
                                              THEN <<parent[role]>> \o prev[parent[role]]
                                              ELSE << >>]
           base == [role \in Roles |-> << >>]
           step == [p \in (1 .. MaxSteps) \X S |-> Chain(p[2])]
           IsIt(g) == g = [k \in 0 .. MaxSteps |->
                             [role \in Roles |->
                                IF k > 0 /\ role \in DOMAIN parent
                                THEN <<parent[role]>> \o g[k - 1][parent[role]]
                                ELSE << >>]]
           it == CHOOSE g : IsIt(g)
<1>1. MaxSteps \in Nat
  BY QueryAssumption, FS_CardinalityType DEF MaxSteps
<1>2. \A role \in DOMAIN parent : parent[role] \in Roles
  BY DEF TypeOK
<1>3. ASSUME NEW prev \in S PROVE Chain(prev) \in S
  <2>1. ASSUME NEW role \in DOMAIN parent PROVE <<parent[role]>> \o prev[parent[role]] \in Seq(Roles)
    <3>1. parent[role] \in Roles /\ prev[parent[role]] \in Seq(Roles)
      BY <1>2
    <3> DEFINE s == prev[parent[role]]
               a == parent[role]
    <3> HIDE DEF s, a
    <3>2. a \in Roles /\ s \in Seq(Roles) => <<a>> \o s \in Seq(Roles)
      OBVIOUS
    <3> QED BY <3>1, <3>2 DEF s, a
  <2>2. << >> \in Seq(Roles)
    OBVIOUS
  <2> QED BY <2>1, <2>2
<1>4. base \in S /\ step \in [(1 .. MaxSteps) \X S -> S]
  <2>1. base \in S
    OBVIOUS
  <2> HIDE DEF S, Chain
  <2> QED BY <1>3, <2>1
<1>5. PICK g : Iterates(g, MaxSteps, S, base, step)
  <2> HIDE DEF S, base, step
  <2> QED BY ONLY <1>1, <1>4, IterationExists
<1>6. ASSUME NEW k \in 0 .. MaxSteps
      PROVE  g[k] = [role \in Roles |->
                       IF k > 0 /\ role \in DOMAIN parent
                       THEN <<parent[role]>> \o g[k - 1][parent[role]]
                       ELSE << >>]
  <2>1. CASE k = 0
    BY <1>5, <2>1 DEF Iterates
  <2>2. CASE k # 0
    <3>1. k > 0 /\ k \in 1 .. MaxSteps /\ k - 1 \in 0 .. MaxSteps
      BY <1>1, <2>2
    <3>2. <<k, g[k - 1]>> \in (1 .. MaxSteps) \X S
      <4> HIDE DEF S
      <4> QED BY <1>5, <3>1 DEF Iterates
    <3>3. g[k] = Chain(g[k - 1])
      <4> HIDE DEF S, Chain
      <4>1. step[<<k, g[k - 1]>>] = Chain(g[k - 1])
        BY <3>2
      <4> QED BY <1>3, <1>5, <3>1, <4>1 DEF Iterates
    <3> QED BY <3>1, <3>3
  <2> QED BY <2>1, <2>2
<1>7. IsIt(g)
  <2> HIDE DEF S
  <2> QED BY <1>5, <1>6 DEF Iterates
<1>8. IsIt(it)
  <2> HIDE DEF IsIt
  <2> QED BY <1>7
<1>9. ancestors_from = it
  BY DEF ancestors_from
<1>10. \A k \in 0 .. MaxSteps : it[k] = g[k]
  <2> DEFINE Bad == {k \in 0 .. MaxSteps : it[k] # g[k]}
  <2> SUFFICES ASSUME Bad # {} PROVE FALSE
    OBVIOUS
  <2>1. PICK k \in Bad : \A j \in Bad : k <= j
    <3>1. Bad \in SUBSET Nat
      OBVIOUS
    <3> HIDE DEF Bad
    <3> QED BY <3>1, LeastExists
  <2>2. k \in 0 .. MaxSteps /\ it[k] # g[k]
    BY <2>1
  <2>3. k # 0 => k - 1 \in 0 .. MaxSteps /\ it[k - 1] = g[k - 1]
    <3>1. ASSUME k # 0 PROVE k - 1 \in 0 .. MaxSteps /\ ~(k <= k - 1)
      BY <1>1, <2>2, <3>1
    <3>2. \A j \in 0 .. MaxSteps : j \notin Bad => it[j] = g[j]
      OBVIOUS
    <3> HIDE DEF Bad
    <3> QED BY <2>1, <3>1, <3>2
  <2> DEFINE Row(f) == [role \in Roles |->
                          IF k > 0 /\ role \in DOMAIN parent
                          THEN <<parent[role]>> \o f[k - 1][parent[role]]
                          ELSE << >>]
  <2>4. it[k] = Row(it)
    <3> HIDE DEF it
    <3> QED BY <1>8, <2>2
  <2>5. g[k] = Row(g)
    BY <1>6, <2>2
  <2>6. k = 0 \/ it[k - 1] = g[k - 1]
    BY <2>3
  <2> HIDE DEF it, S, Bad
  <2>7. Row(it) = Row(g)
    <3>1. CASE k = 0
      BY <3>1
    <3>2. CASE it[k - 1] = g[k - 1]
      BY <3>2
    <3> QED BY <2>6, <3>1, <3>2
  <2> HIDE DEF Row
  <2> QED BY <2>2, <2>4, <2>5, <2>7
<1>11. it[n][r] \in Seq(Roles)
  <2>1. n \in 0 .. MaxSteps /\ g[n] \in S
    BY <1>5 DEF Iterates
  <2> QED BY <1>10, <2>1
<1>12. it[n] = [role \in Roles |->
                 IF n > 0 /\ role \in DOMAIN parent
                 THEN <<parent[role]>> \o it[n - 1][parent[role]]
                 ELSE << >>]
  <2> HIDE DEF it
  <2> QED BY <1>8
<1>13. it[n][r] = IF n > 0 /\ r \in DOMAIN parent
                  THEN <<parent[r]>> \o it[n - 1][parent[r]]
                  ELSE << >>
  <2> HIDE DEF it
  <2> QED BY ONLY <1>12, r \in Roles
<1> HIDE DEF it
<1> QED BY <1>9, <1>11, <1>13

\* How many roles there are from r upward.
Height(r) == Cardinality(Up(r))

\* Without cycles the walk from a role is that from its parent, with the role
\* before it: each step up leaves one role less above.
LEMMA HeightOfParent ==
    ASSUME TypeOK, NoRoleCycle, NEW r \in Roles
    PROVE  /\ Height(r) \in Nat /\ Height(r) > 0 /\ Height(r) <= Cardinality(Roles)
           /\ r \in DOMAIN parent =>
                /\ parent[r] \in Roles
                /\ Up(r) = {r} \cup Up(parent[r])
                /\ r \notin Up(parent[r])
                /\ Height(r) = Height(parent[r]) + 1
           /\ r \notin DOMAIN parent => Up(r) = {r}
<1>1. r \in Up(r) /\ Up(r) \subseteq Roles /\ Closed(Up(r))
  BY UpIsClosed
<1>2. IsFiniteSet(Roles)
  BY QueryAssumption
<1>3. Height(r) \in Nat /\ Height(r) > 0 /\ Height(r) <= Cardinality(Roles)
  <2>1. IsFiniteSet(Up(r)) /\ Height(r) <= Cardinality(Roles)
    BY <1>1, <1>2, FS_Subset DEF Height
  <2>2. Height(r) \in Nat /\ Height(r) # 0
    BY <1>1, <2>1, FS_CardinalityType, FS_EmptySet DEF Height
  <2> QED BY <2>1, <2>2
<1>4. ASSUME r \in DOMAIN parent
      PROVE  /\ parent[r] \in Roles
             /\ Up(r) = {r} \cup Up(parent[r])
             /\ r \notin Up(parent[r])
             /\ Height(r) = Height(parent[r]) + 1
  <2> DEFINE p == parent[r]
  <2>1. p \in Roles
    BY <1>4 DEF TypeOK
  <2>2. p \in Up(p) /\ Up(p) \subseteq Roles /\ Closed(Up(p))
    BY <2>1, UpIsClosed
  <2>3. Up(p) \subseteq Up(r)
    <3>1. p \in Up(r)
      BY <1>1, <1>4 DEF Closed
    <3> QED BY <1>1, <2>1, <3>1, UpIsLeast
  <2>4. Up(r) \subseteq {r} \cup Up(p)
    <3>1. Closed({r} \cup Up(p))
      BY <2>2 DEF Closed
    <3> QED BY <2>2, <3>1, UpIsLeast
  <2>5. r \notin Up(p)
    BY <1>4 DEF NoRoleCycle, HasAncestor
  <2>6. Up(r) = {r} \cup Up(p)
    BY <1>1, <2>3, <2>4
  <2>7. Cardinality(Up(p) \cup {r}) = Cardinality(Up(p)) + 1
    BY <1>2, <2>2, <2>5, FS_Subset, FS_AddElement
  <2>8. Up(r) = Up(p) \cup {r}
    BY <2>6
  <2> QED BY <2>1, <2>5, <2>6, <2>7, <2>8 DEF Height
<1>5. ASSUME r \notin DOMAIN parent PROVE Up(r) = {r}
  <2>1. Closed({r})
    BY <1>5 DEF Closed
  <2> QED BY <1>1, <2>1, UpIsLeast
<1> QED BY <1>3, <1>4, <1>5

\* What the loops answer after n steps from r, if that is enough to get to the
\* top: the roles held, the ancestors found, and the chain of them.
Found(r, n) ==
    /\ \A u \in Accounts : r \in has_role_recursive(u)[n] <=> HasRole(r, u)
    /\ \A a \in Roles : r \in has_ancestor_from(a)[n] <=> HasAncestor(r, a)
    /\ LET chain == ancestors_from[n][r]
       IN  /\ IsInjective(chain)
           /\ \A a : a \in {chain[k] : k \in 1 .. Len(chain)} <=> a \in Up(r) \ {r}

\* One role put before a chain that has not got it.
LEMMA ChainLonger ==
    ASSUME NEW S, NEW s \in Seq(S), NEW a \in S,
           IsInjective(s), a \notin {s[k] : k \in 1 .. Len(s)}
    PROVE  LET t == <<a>> \o s
           IN  /\ IsInjective(t)
               /\ {t[k] : k \in 1 .. Len(t)} = {a} \cup {s[k] : k \in 1 .. Len(s)}
<1> DEFINE t == <<a>> \o s
<1>1. Len(s) \in Nat /\ DOMAIN s = 1 .. Len(s)
  OBVIOUS
<1>2. t \in Seq(S) /\ Len(t) = Len(s) + 1 /\ DOMAIN t = 1 .. Len(s) + 1
  OBVIOUS
<1>3. t[1] = a /\ \A k \in 1 .. Len(s) : t[k + 1] = s[k]
  OBVIOUS
<1>4. \A k \in DOMAIN t : k = 1 \/ (k - 1 \in 1 .. Len(s) /\ t[k] = s[k - 1])
  <2>1. ASSUME NEW k \in 1 .. Len(s) + 1, k # 1
        PROVE  k - 1 \in 1 .. Len(s) /\ t[k] = s[k - 1]
    <3>1. k - 1 \in 1 .. Len(s) /\ (k - 1) + 1 = k
      BY <1>1, <2>1
    <3> QED BY <1>3, <3>1
  <2> QED BY <1>2, <2>1
<1> HIDE DEF t
<1>5. IsInjective(t)
  <2>1. ASSUME NEW j \in DOMAIN t, NEW k \in DOMAIN t, t[j] = t[k]
        PROVE  j = k
    <3>1. j \in Int /\ k \in Int
      BY <1>2
    <3>2. CASE j = 1 /\ k = 1
      BY <3>2
    <3>3. CASE j # 1 /\ k = 1
      BY <1>3, <1>4, <2>1, <3>3
    <3>4. CASE j = 1 /\ k # 1
      BY <1>3, <1>4, <2>1, <3>4
    <3>5. CASE j # 1 /\ k # 1
      <4>1. j - 1 \in DOMAIN s /\ k - 1 \in DOMAIN s /\ s[j - 1] = s[k - 1]
        BY <1>1, <1>4, <2>1, <3>5
      <4>2. j - 1 = k - 1
        BY <4>1 DEF IsInjective
      <4> QED BY <3>1, <4>2
    <3> QED BY <3>2, <3>3, <3>4, <3>5
  <2> QED BY <2>1 DEF IsInjective
<1>6. {t[k] : k \in 1 .. Len(t)} = {a} \cup {s[k] : k \in 1 .. Len(s)}
  <2>1. 1 \in 1 .. Len(t) /\ \A k \in 1 .. Len(s) : k + 1 \in 1 .. Len(t)
    BY <1>1, <1>2
  <2>2. 1 .. Len(t) = DOMAIN t
    BY <1>2
  <2> QED BY <1>3, <1>4, <2>1, <2>2
<1> QED BY <1>5, <1>6 DEF t

\* One step of the walk, with the rest of it done by one step less from the
\* parent.
LEMMA FoundFromParent ==
    ASSUME TypeOK, NoRoleCycle, NEW r \in Roles, NEW n \in 1 .. MaxSteps,
           r \in DOMAIN parent, Found(parent[r], n - 1)
    PROVE  Found(r, n)
<1> DEFINE p == parent[r]
<1>1. n \in 0 .. MaxSteps /\ n - 1 \in 0 .. MaxSteps /\ n > 0
  <2>1. MaxSteps \in Nat
    BY QueryAssumption, FS_CardinalityType DEF MaxSteps
  <2> QED BY <2>1
<1>2. p \in Roles /\ Up(r) = {r} \cup Up(p) /\ r \notin Up(p) /\ p \in Up(p)
  BY HeightOfParent, UpIsClosed
<1>3. ASSUME NEW u \in Accounts PROVE r \in has_role_recursive(u)[n] <=> HasRole(r, u)
  <2>1. r \in has_role_recursive(u)[n]
          <=> <<r, u>> \in members \/ p \in has_role_recursive(u)[n - 1]
    BY <1>1, HeldUnfolds
  <2>2. p \in has_role_recursive(u)[n - 1] <=> HasRole(p, u)
    BY DEF Found
  <2>3. HasRole(r, u) <=> <<r, u>> \in members \/ HasRole(p, u)
    BY <1>2 DEF HasRole
  <2> QED BY <2>1, <2>2, <2>3
<1>4. ASSUME NEW a \in Roles PROVE r \in has_ancestor_from(a)[n] <=> HasAncestor(r, a)
  <2>1. r \in has_ancestor_from(a)[n] <=> p = a \/ p \in has_ancestor_from(a)[n - 1]
    BY <1>1, BelowUnfolds
  <2>2. p \in has_ancestor_from(a)[n - 1] <=> HasAncestor(p, a)
    BY DEF Found
  <2>3. HasAncestor(r, a) <=> a \in Up(p)
    BY DEF HasAncestor
  <2>4. a \in Up(p) => a = p \/ HasAncestor(p, a)
    BY <1>2, UpIsWalked
  <2>5. HasAncestor(p, a) => a \in Up(p)
    BY <1>2, HeightOfParent DEF HasAncestor
  <2> QED BY <1>2, <2>1, <2>2, <2>3, <2>4, <2>5
<1>5. LET chain == ancestors_from[n][r]
      IN  /\ IsInjective(chain)
          /\ \A a : a \in {chain[k] : k \in 1 .. Len(chain)} <=> a \in Up(r) \ {r}
  <2> DEFINE s == ancestors_from[n - 1][p]
             t == <<p>> \o s
  <2>1. ancestors_from[n][r] = t /\ s \in Seq(Roles)
    BY <1>1, <1>2, ChainUnfolds
  <2>2. /\ IsInjective(s)
        /\ \A a : a \in {s[k] : k \in 1 .. Len(s)} <=> a \in Up(p) \ {p}
    BY DEF Found
  <2> HIDE DEF s
  <2>3. p \notin {s[k] : k \in 1 .. Len(s)}
    BY <2>2
  <2>4. IsInjective(t) /\ {t[k] : k \in 1 .. Len(t)} = {p} \cup {s[k] : k \in 1 .. Len(s)}
    <3> HIDE DEF p
    <3> QED BY <1>2, <2>1, <2>2, <2>3, ChainLonger
  <2>5. \A a : a \in {t[k] : k \in 1 .. Len(t)} <=> a \in Up(r) \ {r}
    <3>1. \A a : a \in {t[k] : k \in 1 .. Len(t)} <=> a = p \/ a \in Up(p) \ {p}
      <4> HIDE DEF t
      <4> QED BY <2>2, <2>4
    <3> HIDE DEF t, p
    <3> QED BY <1>2, <3>1
  <2> HIDE DEF t
  <2> QED BY <2>1, <2>4, <2>5
<1> QED BY <1>3, <1>4, <1>5 DEF Found

\* From the top of a hierarchy every walk ends at once.
LEMMA FoundAtTop ==
    ASSUME TypeOK, NoRoleCycle, NEW r \in Roles, NEW n \in 0 .. MaxSteps, r \notin DOMAIN parent
    PROVE  Found(r, n)
<1>1. Up(r) = {r}
  BY HeightOfParent
<1>2. ASSUME NEW u \in Accounts PROVE r \in has_role_recursive(u)[n] <=> HasRole(r, u)
  BY <1>1, HeldUnfolds DEF HasRole
<1>3. ASSUME NEW a \in Roles PROVE r \in has_ancestor_from(a)[n] <=> HasAncestor(r, a)
  BY BelowUnfolds DEF HasAncestor
<1>4. ancestors_from[n][r] = << >>
  BY ChainUnfolds
<1>5. IsInjective(<< >>) /\ {<< >>[k] : k \in 1 .. Len(<< >>)} = {}
  BY DEF IsInjective
<1> QED BY <1>1, <1>2, <1>3, <1>4, <1>5 DEF Found

\* As many steps as there are roles are enough, since no role has more above it.
LEMMA WalksFind ==
    ASSUME TypeOK, NoRoleCycle
    PROVE  \A r \in Roles : Found(r, MaxSteps)
<1> DEFINE Bad == {m \in Nat : \E r \in Roles : Height(r) = m /\ \E n \in 0 .. MaxSteps : n >= m /\ ~Found(r, n)}
<1>1. Bad = {}
  <2> SUFFICES ASSUME Bad # {} PROVE FALSE
    OBVIOUS
  <2>1. PICK m \in Bad : m \in Nat /\ \A k \in Bad : m <= k
    <3>1. Bad \in SUBSET Nat
      OBVIOUS
    <3> HIDE DEF Bad
    <3> QED BY <3>1, LeastExists
  <2>2. PICK r \in Roles : Height(r) = m /\ \E n \in 0 .. MaxSteps : n >= m /\ ~Found(r, n)
    BY <2>1
  <2>3. PICK n \in 0 .. MaxSteps : n >= m /\ ~Found(r, n)
    BY <2>2
  <2>4. r \in DOMAIN parent
    BY <2>3, FoundAtTop
  <2> DEFINE p == parent[r]
  <2>5. p \in Roles /\ Height(p) \in Nat /\ m = Height(p) + 1 /\ Height(p) > 0
    BY <2>2, <2>4, HeightOfParent
  <2>6. n \in 1 .. MaxSteps /\ n - 1 \in 0 .. MaxSteps /\ n - 1 >= Height(p) /\ Height(p) < m
    <3>1. MaxSteps \in Nat
      BY QueryAssumption, FS_CardinalityType DEF MaxSteps
    <3> HIDE DEF p
    <3> QED BY <2>1, <2>3, <2>5, <3>1
  <2>7. ~Found(p, n - 1)
    BY <2>3, <2>4, <2>6, FoundFromParent
  <2>8. Height(p) \in Bad
    BY <2>5, <2>6, <2>7
  <2> HIDE DEF Bad, p
  <2> QED BY <2>1, <2>5, <2>6, <2>8
<1>2. ASSUME NEW r \in Roles PROVE Found(r, MaxSteps)
  <2>1. Height(r) \in Nat /\ Height(r) <= Cardinality(Roles)
    BY HeightOfParent
  <2>2. Cardinality(Roles) \in Nat
    BY QueryAssumption, FS_CardinalityType
  <2>3. MaxSteps \in 0 .. MaxSteps /\ MaxSteps >= Height(r)
    BY <2>1, <2>2 DEF MaxSteps
  <2> QED BY <1>1, <2>1, <2>3
<1> QED BY <1>2

\* has_role, has_ancestor and get_role_ancestors answer what the hierarchy says,
\* and therefore agree with each other and with get_role_members, for any number
\* of roles and users and in every hierarchy that calls can make.
THEOREM QueriesAlwaysAgree == Spec => []QueriesAgree
<1>1. TypeOK /\ NoRoleCycle => QueriesAgree
  <2> SUFFICES ASSUME TypeOK, NoRoleCycle, NEW r \in Roles
               PROVE  LET chain == get_role_ancestors(r)
                      IN  /\ IsInjective(chain)
                          /\ \A a \in Roles :
                                /\ has_ancestor(r, a) <=> Contains(chain, a)
                                /\ has_ancestor(r, a) <=> HasAncestor(r, a)
                          /\ \A u \in Accounts :
                                /\ has_role(r, u)
                                     <=> \E a \in {r} \cup Range(chain) : u \in get_role_members(a)
                                /\ has_role(r, u) <=> HasRole(r, u)
                                /\ r \in DOMAIN parent /\ has_role(parent[r], u) => has_role(r, u)
    BY DEF QueriesAgree
  <2> DEFINE chain == get_role_ancestors(r)
  <2>1. MaxSteps \in 0 .. MaxSteps
    BY QueryAssumption, FS_CardinalityType DEF MaxSteps
  <2>2. chain \in Seq(Roles) /\ chain = ancestors_from[MaxSteps][r]
    BY <2>1, ChainUnfolds DEF get_role_ancestors
  <2>3. \A q \in Roles : Found(q, MaxSteps)
    BY WalksFind
  <2>4. /\ IsInjective(chain)
        /\ \A a : a \in {chain[k] : k \in 1 .. Len(chain)} <=> a \in Up(r) \ {r}
    BY <2>2, <2>3 DEF Found
  <2> HIDE DEF chain
  <2>5. \A q \in Roles, u \in Accounts : has_role(q, u) <=> HasRole(q, u)
    BY <2>3 DEF Found, has_role
  <2>6. ASSUME NEW a \in Roles
        PROVE  /\ has_ancestor(r, a) <=> Contains(chain, a)
               /\ has_ancestor(r, a) <=> HasAncestor(r, a)
    <3>1. has_ancestor(r, a) <=> HasAncestor(r, a)
      BY <2>3 DEF Found, has_ancestor
    <3>2. Contains(chain, a) <=> a \in Up(r) \ {r}
      BY <2>4 DEF Contains
    <3>3. a \in Up(r) \ {r} => HasAncestor(r, a)
      BY UpIsWalked
    <3>4. HasAncestor(r, a) => a \in Up(r) \ {r}
      BY HeightOfParent DEF HasAncestor, NoRoleCycle
    <3> QED BY <3>1, <3>2, <3>3, <3>4
  <2>7. {r} \cup Range(chain) = Up(r)
    <3>1. DOMAIN chain = 1 .. Len(chain)
      BY <2>2
    <3>2. Range(chain) = Up(r) \ {r}
      BY <2>4, <3>1 DEF Range
    <3> QED BY <3>2, UpIsClosed
  <2>8. ASSUME NEW u \in Accounts
        PROVE  /\ has_role(r, u)
                    <=> \E a \in {r} \cup Range(chain) : u \in get_role_members(a)
               /\ r \in DOMAIN parent /\ has_role(parent[r], u) => has_role(r, u)
    <3>1. has_role(r, u) <=> \E a \in Up(r) : u \in get_role_members(a)
      BY <2>5 DEF HasRole, get_role_members
    <3>2. r \in DOMAIN parent => parent[r] \in Roles /\ Up(parent[r]) \subseteq Up(r)
      BY HeightOfParent
    <3>3. r \in DOMAIN parent /\ has_role(parent[r], u) => has_role(r, u)
      BY <2>5, <3>2 DEF HasRole
    <3> QED BY <2>7, <3>1, <3>3
  <2> QED BY <2>4, <2>5, <2>6, <2>8 DEF chain
<1> QED BY <1>1, AccessTyped, HierarchyHasNoCycle, PTL
=============================================================================
