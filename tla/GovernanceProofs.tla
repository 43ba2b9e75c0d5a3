-------------------------- MODULE GovernanceProofs --------------------------
(***************************************************************************)
(* Theorems about Governance, for every finite set of accounts, all roles, *)
(* parameters, bounds, admin sets and thresholds, and any number of        *)
(* proposals.                                                              *)
(***************************************************************************)
EXTENDS Governance, FiniteSetTheorems, TLAPS

\* Until initialize is called nobody holds a role; from then on the threshold
\* is positive.
Begun == threshold >= 1 \/ held = {}

IInv == TypeOK /\ Begun /\ VotesAreCounted

-----------------------------------------------------------------------------
(* Types.                                                                  *)

LEMMA ParamsWritten ==
    ASSUME TypeOK, NEW key, NEW value, ValidParam(key, value)
    PROVE  /\ DOMAIN Written(key, value) \subseteq DOMAIN Bounds
           /\ \A k \in DOMAIN Written(key, value) : InBounds(k, Written(key, value)[k])
BY DEF TypeOK, Written, ValidParam

LEMMA ParamsSeeded ==
    ASSUME TypeOK
    PROVE  /\ DOMAIN Seeded \subseteq DOMAIN Bounds
           /\ \A k \in DOMAIN Seeded : InBounds(k, Seeded[k])
BY GovernanceAssumption DEF TypeOK, Seeded, InBounds

LEMMA SeqElement ==
    ASSUME NEW S, NEW s \in Seq(S), NEW i \in DOMAIN s
    PROVE  s[i] \in S
OBVIOUS

\* What approving and executing do to a proposal.
LEMMA ProposalFields ==
    ASSUME NEW p \in Proposal
    PROVE  p.action \in ProposalAction /\ p.approval_count \in Nat
BY DEF Proposal

LEMMA ProposalCounted ==
    ASSUME NEW p \in Proposal
    PROVE  [p EXCEPT !.approval_count = @ + 1] \in Proposal
BY DEF Proposal

LEMMA ProposalExecuted ==
    ASSUME NEW p \in Proposal
    PROVE  [p EXCEPT !.status = "Executed"] \in Proposal
BY DEF Proposal

\* What an action of each kind names.
LEMMA ActionFields ==
    ASSUME NEW action \in ProposalAction
    PROVE  action.kind \in {"GrantRole", "RevokeRole"} => action.who \in Accounts /\ action.role \in Roles
BY DEF ProposalAction

\* An executed action keeps the types of what it may change.
LEMMA ExecuteActionType ==
    ASSUME TypeOK, NEW action \in ProposalAction, ExecuteAction(action)
    PROVE  /\ held' \subseteq Accounts \X Roles
           /\ paused' \in BOOLEAN
           /\ DOMAIN params' \subseteq DOMAIN Bounds
           /\ \A k \in DOMAIN params' : InBounds(k, params'[k])
           /\ held = {} => held' = {} \/ action.kind = "GrantRole"
<1>1. /\ held \subseteq Accounts \X Roles
      /\ paused \in BOOLEAN
      /\ DOMAIN params \subseteq DOMAIN Bounds
      /\ \A k \in DOMAIN params : InBounds(k, params[k])
  BY DEF TypeOK
<1>2. CASE action.kind = "GrantRole" /\ held' = held \cup {<<action.who, action.role>>} /\ UNCHANGED <<params, paused>>
  <2>1. <<action.who, action.role>> \in Accounts \X Roles
    BY <1>2, ActionFields
  <2>2. held' \subseteq Accounts \X Roles
    BY <1>1, <1>2, <2>1
  <2> QED BY <1>1, <1>2, <2>2
<1>3. CASE action.kind = "RevokeRole" /\ held' = held \ {<<action.who, action.role>>} /\ UNCHANGED <<params, paused>>
  BY <1>1, <1>3
<1>4. CASE /\ action.kind = "SetParameter"
           /\ ValidParam(action.key, action.value)
           /\ params' = Written(action.key, action.value)
           /\ UNCHANGED <<held, paused>>
  <2>1. /\ DOMAIN params' \subseteq DOMAIN Bounds
        /\ \A k \in DOMAIN params' : InBounds(k, params'[k])
    BY <1>4, ParamsWritten
  <2> QED BY <1>1, <1>4, <2>1
<1>5. CASE action.kind \in {"Pause", "Unpause"} /\ paused' = (action.kind = "Pause") /\ UNCHANGED <<held, params>>
  BY <1>1, <1>5
<1> QED BY <1>2, <1>3, <1>4, <1>5 DEF ExecuteAction

LEMMA TypeStep ==
    ASSUME TypeOK, [Next]_vars
    PROVE  TypeOK'
<1> USE GovernanceAssumption DEF TypeOK
<1>1. ASSUME NEW new_admin \in FirstAdmins, NEW m \in Thresholds, NEW members \in AdminSets,
             Initialize(new_admin, m, members)
      PROVE  TypeOK'
  <2>1. members \in Seq(Accounts) /\ new_admin \in Accounts /\ m \in Nat
    OBVIOUS
  <2>2. \A i \in DOMAIN members : <<members[i], Admin>> \in Accounts \X Roles
    BY <2>1
  <2>3. held' \subseteq Accounts \X Roles
    BY <1>1, <2>2 DEF Initialize
  <2>4. /\ DOMAIN params' \subseteq DOMAIN Bounds
        /\ \A k \in DOMAIN params' : InBounds(k, params'[k])
    BY <1>1, ParamsSeeded DEF Initialize
  <2> QED BY <1>1, <2>1, <2>3, <2>4 DEF Initialize
<1>2. ASSUME NEW caller \in Accounts, NEW who \in Accounts, NEW role \in Roles,
             GrantRole(caller, who, role) \/ RevokeRole(caller, who, role)
      PROVE  TypeOK'
  BY <1>2 DEF GrantRole, RevokeRole
<1>3. ASSUME NEW caller \in Accounts, NEW members \in AdminSets, NEW m \in Thresholds,
             SetAdminSet(caller, members, m)
      PROVE  TypeOK'
  BY <1>3 DEF SetAdminSet
<1>4. ASSUME NEW caller \in Accounts, NEW key \in Keys, NEW value \in Values,
             SetParam(caller, key, value)
      PROVE  TypeOK'
  <2>1. /\ DOMAIN params' \subseteq DOMAIN Bounds
        /\ \A k \in DOMAIN params' : InBounds(k, params'[k])
    BY <1>4, ParamsWritten DEF SetParam
  <2> QED BY <1>4, <2>1 DEF SetParam
<1>5. ASSUME NEW caller \in Accounts, NEW action \in Actions, Propose(caller, action)
      PROVE  TypeOK'
  <2>1. [action |-> action, approval_count |-> 0, status |-> "Pending"] \in Proposal
    BY DEF Proposal
  <2>2. proposals' \in Seq(Proposal) /\ DOMAIN proposals \subseteq DOMAIN proposals'
    BY <1>5, <2>1 DEF Propose
  <2>3. approvals' \subseteq (DOMAIN proposals') \X Accounts
    BY <1>5, <2>2 DEF Propose
  <2> QED BY <1>5, <2>2, <2>3 DEF Propose
<1>6. ASSUME NEW caller \in Accounts, NEW id \in DOMAIN proposals, Approve(caller, id)
      PROVE  TypeOK'
  <2>1. proposals' \in Seq(Proposal) /\ DOMAIN proposals' = DOMAIN proposals
    <3>1. proposals[id] \in Proposal
      OBVIOUS
    <3>2. [proposals[id] EXCEPT !.approval_count = @ + 1] \in Proposal
      BY ONLY <3>1, ProposalCounted
    <3>3. proposals' = [proposals EXCEPT ![id] = [proposals[id] EXCEPT !.approval_count = @ + 1]]
      BY <1>6 DEF Approve
    <3> QED BY <3>2, <3>3
  <2>2. approvals' \subseteq (DOMAIN proposals') \X Accounts
    BY <1>6, <2>1 DEF Approve
  <2> QED BY <1>6, <2>1, <2>2 DEF Approve
<1>7. ASSUME NEW caller \in Accounts, NEW id \in DOMAIN proposals, Execute(caller, id)
      PROVE  TypeOK'
  <2>1. proposals[id] \in Proposal /\ proposals[id].action \in ProposalAction
    <3>1. proposals \in Seq(Proposal)
      OBVIOUS
    <3>2. proposals[id] \in Proposal
      BY ONLY <3>1, id \in DOMAIN proposals, SeqElement
    <3> QED BY ONLY <3>2, ProposalFields
  <2>2. proposals' \in Seq(Proposal) /\ DOMAIN proposals' = DOMAIN proposals
    <3>1. [proposals[id] EXCEPT !.status = "Executed"] \in Proposal
      BY ONLY <2>1, ProposalExecuted
    <3>2. proposals' = [proposals EXCEPT ![id] = [proposals[id] EXCEPT !.status = "Executed"]]
      BY <1>7 DEF Execute
    <3> QED BY <3>1, <3>2
  <2>3. /\ held' \subseteq Accounts \X Roles
        /\ paused' \in BOOLEAN
        /\ DOMAIN params' \subseteq DOMAIN Bounds
        /\ \A k \in DOMAIN params' : InBounds(k, params'[k])
    BY <1>7, <2>1, ExecuteActionType DEF Execute
  <2> QED BY <1>7, <2>2, <2>3 DEF Execute
<1>8. CASE UNCHANGED vars
  BY <1>8 DEF vars
<1> QED BY <1>1, <1>2, <1>3, <1>4, <1>5, <1>6, <1>7, <1>8
        DEF Next, InitializeStep, AdminStep, ProposalStep

LEMMA TypeInit ==
    ASSUME Init
    PROVE  TypeOK
<1>1. /\ admin = NoAddress /\ threshold = 0 /\ admin_set = << >> /\ held = {}
      /\ paused = FALSE /\ params = << >> /\ proposals = << >> /\ approvals = {}
  BY DEF Init
<1>2. DOMAIN params = {}
  BY <1>1
<1>3. threshold \in Nat
  BY <1>1
<1>4. admin_set \in Seq(Accounts) /\ proposals \in Seq(Proposal)
  BY ONLY <1>1
<1> QED BY ONLY <1>1, <1>2, <1>3, <1>4 DEF TypeOK

\* Roles, proposals and approvals keep their types, and every parameter that
\* has a value has one within its bounds, however it was set.
THEOREM TypeCorrect == Spec => []TypeOK
<1>1. TypeOK /\ [Next]_vars => TypeOK'
  BY TypeStep
<1> QED BY <1>1, TypeInit, PTL DEF Spec

-----------------------------------------------------------------------------
(* Votes.                                                                  *)

LEMMA BegunStep ==
    ASSUME TypeOK, Begun, [Next]_vars
    PROVE  Begun'
<1> USE DEF Begun
<1>1. ASSUME NEW new_admin \in FirstAdmins, NEW m \in Thresholds, NEW members \in AdminSets,
             Initialize(new_admin, m, members)
      PROVE  Begun'
  BY <1>1, GovernanceAssumption DEF Initialize, EnoughMembers
<1>2. ASSUME NEW caller \in Accounts, NEW members \in AdminSets, NEW m \in Thresholds,
             SetAdminSet(caller, members, m)
      PROVE  Begun'
  BY <1>2, GovernanceAssumption DEF SetAdminSet, EnoughMembers
<1>3. ASSUME NEW caller \in Accounts, IsAdmin(caller), threshold' = threshold
      PROVE  Begun'
  BY <1>3 DEF IsAdmin
<1>4. CASE UNCHANGED <<threshold, held>>
  BY <1>4
<1> QED BY <1>1, <1>2, <1>3, <1>4
        DEF Next, InitializeStep, AdminStep, ProposalStep, GrantRole, RevokeRole, SetParam, Propose,
            Approve, Execute, vars

\* One approval more is one approver more.
LEMMA ApproverAdded ==
    ASSUME TypeOK, NEW caller \in Accounts, NEW id \in DOMAIN proposals,
           approvals' = approvals \cup {<<id, caller>>}, <<id, caller>> \notin approvals
    PROVE  /\ Cardinality(Approvers(id)') = Cardinality(Approvers(id)) + 1
           /\ \A j \in DOMAIN proposals : j # id => Approvers(j)' = Approvers(j)
<1>1. Approvers(id) \subseteq Accounts /\ caller \notin Approvers(id)
  BY DEF Approvers
<1>2. Approvers(id)' = Approvers(id) \cup {caller}
  BY DEF Approvers
<1>3. IsFiniteSet(Approvers(id))
  BY <1>1, GovernanceAssumption, FS_Subset
<1>4. Cardinality(Approvers(id) \cup {caller}) = Cardinality(Approvers(id)) + 1
  BY ONLY <1>1, <1>3, FS_AddElement
<1>5. \A j \in DOMAIN proposals : j # id => Approvers(j)' = Approvers(j)
  BY DEF Approvers
<1> QED BY <1>2, <1>4, <1>5

LEMMA VotesStep ==
    ASSUME TypeOK, VotesAreCounted, [Next]_vars
    PROVE  VotesAreCounted'
<1>1. CASE UNCHANGED <<proposals, approvals>>
  BY <1>1 DEF VotesAreCounted, Approvers
<1>2. ASSUME NEW caller \in Accounts, NEW action \in Actions, Propose(caller, action)
      PROVE  VotesAreCounted'
  <2> DEFINE new == [action |-> action, approval_count |-> 0, status |-> "Pending"]
  <2>1. proposals \in Seq(Proposal) /\ approvals \subseteq (DOMAIN proposals) \X Accounts
    BY DEF TypeOK
  <2>2. proposals' = Append(proposals, new) /\ approvals' = approvals
    BY <1>2 DEF Propose
  <2>3. /\ DOMAIN proposals' = 1 .. Len(proposals) + 1
        /\ DOMAIN proposals = 1 .. Len(proposals)
        /\ \A j \in DOMAIN proposals : proposals'[j] = proposals[j]
        /\ proposals'[Len(proposals) + 1] = new
        /\ Len(proposals) \in Nat
    BY <2>1, <2>2
  <2>4. ASSUME NEW j \in DOMAIN proposals'
        PROVE  proposals'[j].approval_count = Cardinality(Approvers(j)')
    <3>1. Approvers(j)' = Approvers(j)
      BY <2>2 DEF Approvers
    <3>2. CASE j \in DOMAIN proposals
      BY <2>3, <3>1, <3>2 DEF VotesAreCounted
    <3>3. CASE j \notin DOMAIN proposals
      <4>1. Approvers(j) = {}
        BY <2>1, <3>3 DEF Approvers
      <4>2. j = Len(proposals) + 1
        BY <2>3, <3>3
      <4>3. proposals'[j].approval_count = 0
        BY <2>3, <4>2
      <4>4. Cardinality({}) = 0
        BY FS_EmptySet
      <4> QED BY ONLY <3>1, <4>1, <4>3, <4>4
    <3> QED BY <3>2, <3>3
  <2> QED BY <2>4 DEF VotesAreCounted
<1>3. ASSUME NEW caller \in Accounts, NEW id \in DOMAIN proposals, Approve(caller, id)
      PROVE  VotesAreCounted'
  <2>1. /\ approvals' = approvals \cup {<<id, caller>>}
        /\ <<id, caller>> \notin approvals
        /\ proposals' = [proposals EXCEPT ![id].approval_count = @ + 1]
    BY <1>3 DEF Approve, Approvable
  <2>2. /\ DOMAIN proposals' = DOMAIN proposals
        /\ proposals'[id].approval_count = proposals[id].approval_count + 1
        /\ \A j \in DOMAIN proposals : j # id => proposals'[j] = proposals[j]
    <3>1. proposals[id] \in Proposal
      BY DEF TypeOK
    <3>2. proposals[id].approval_count \in Nat
      BY <3>1 DEF Proposal
    <3> QED BY <2>1, <3>1, <3>2 DEF TypeOK, Proposal
  <2>3. /\ Cardinality(Approvers(id)') = Cardinality(Approvers(id)) + 1
        /\ \A j \in DOMAIN proposals : j # id => Approvers(j)' = Approvers(j)
    BY <2>1, ApproverAdded
  <2> QED BY <2>2, <2>3 DEF VotesAreCounted
<1>4. ASSUME NEW caller \in Accounts, NEW id \in DOMAIN proposals, Execute(caller, id)
      PROVE  VotesAreCounted'
  <2>1. approvals' = approvals /\ proposals' = [proposals EXCEPT ![id].status = "Executed"]
    BY <1>4 DEF Execute
  <2>2. /\ DOMAIN proposals' = DOMAIN proposals
        /\ \A j \in DOMAIN proposals : proposals'[j].approval_count = proposals[j].approval_count
    <3>1. \A j \in DOMAIN proposals : proposals[j] \in Proposal
      BY DEF TypeOK
    <3> QED BY <2>1, <3>1 DEF TypeOK, Proposal
  <2>3. \A j : Approvers(j)' = Approvers(j)
    BY <2>1 DEF Approvers
  <2> QED BY <2>2, <2>3 DEF VotesAreCounted
<1> QED BY <1>1, <1>2, <1>3, <1>4
        DEF Next, InitializeStep, AdminStep, ProposalStep, Initialize, GrantRole, RevokeRole, SetAdminSet,
            SetParam, vars

LEMMA IInvAlways == Spec => []IInv
<1>1. ASSUME Init PROVE IInv
  <2>1. held = {} /\ proposals = << >>
    BY <1>1 DEF Init
  <2>2. DOMAIN proposals = {}
    BY ONLY <2>1
  <2>3. Begun /\ VotesAreCounted
    BY <2>1, <2>2 DEF Begun, VotesAreCounted
  <2> QED BY <1>1, <2>3, TypeInit DEF IInv
<1>2. IInv /\ [Next]_vars => IInv'
  BY TypeStep, BegunStep, VotesStep DEF IInv
<1> QED BY <1>1, <1>2, PTL DEF Spec

\* The count of every proposal is the number of accounts that approved it.
THEOREM VotesAlwaysCounted == Spec => []VotesAreCounted
<1>1. IInv => VotesAreCounted
  BY DEF IInv
<1> QED BY <1>1, IInvAlways, PTL

\* No order of calls, changes of roles and thresholds included, executes a
\* proposal twice or without the votes, or pauses the contract without one.
THEOREM DecisionsAlwaysBacked == Spec => DecisionsAreBacked
<1> DEFINE A == /\ \A id \in DOMAIN proposals :
                    /\ Decided(id) => Cardinality(Approvers(id)) >= threshold /\ threshold >= 1
                    /\ proposals[id].status = "Executed" => proposals'[id] = proposals[id]
                /\ paused' # paused => \E id \in DOMAIN proposals :
                    Decided(id) /\ proposals[id].action.kind = (IF paused' THEN "Pause" ELSE "Unpause")
<1>1. ASSUME IInv, [Next]_vars PROVE [A]_vars
  <2>1. /\ proposals \in Seq(Proposal)
        /\ \A id \in DOMAIN proposals : proposals[id] \in Proposal
        /\ paused \in BOOLEAN
    BY <1>1 DEF IInv, TypeOK
  <2>2. CASE UNCHANGED <<proposals, paused>>
    BY <2>1, <2>2 DEF Decided, Proposal
  <2>3. ASSUME NEW caller \in Accounts, NEW action \in Actions, Propose(caller, action)
        PROVE  A
    <3>1. \A id \in DOMAIN proposals : proposals'[id] = proposals[id]
      BY <2>1, <2>3 DEF Propose
    <3>2. paused' = paused
      BY <2>3 DEF Propose
    <3> QED BY <3>1, <3>2 DEF Decided
  <2>4. ASSUME NEW caller \in Accounts, NEW id \in DOMAIN proposals, Approve(caller, id)
        PROVE  A
    <3>1. /\ proposals[id].status = "Pending"
          /\ proposals'[id].status = "Pending"
          /\ \A j \in DOMAIN proposals : j # id => proposals'[j] = proposals[j]
          /\ paused' = paused
      BY <2>1, <2>4 DEF Approve, Approvable, Proposal
    <3> QED BY <3>1 DEF Decided
  <2>5. ASSUME NEW caller \in Accounts, NEW id \in DOMAIN proposals, Execute(caller, id)
        PROVE  A
    <3>1. /\ proposals[id].status = "Pending"
          /\ proposals[id].approval_count >= threshold
          /\ proposals' = [proposals EXCEPT ![id].status = "Executed"]
          /\ ExecuteAction(proposals[id].action)
          /\ IsAdmin(caller)
      BY <2>5 DEF Execute, Executable
    <3>2. /\ proposals'[id].status = "Executed"
          /\ \A j \in DOMAIN proposals : j # id => proposals'[j] = proposals[j]
      BY <2>1, <3>1 DEF Proposal
    <3>3. threshold >= 1
      BY <1>1, <3>1 DEF IInv, Begun, IsAdmin
    <3>4. proposals[id].approval_count = Cardinality(Approvers(id))
      BY <1>1 DEF IInv, VotesAreCounted
    <3>5. Cardinality(Approvers(id)) >= threshold
      BY ONLY <3>1, <3>4
    <3>6. Decided(id)
      BY <3>1, <3>2 DEF Decided
    <3>7. \A j \in DOMAIN proposals :
            /\ Decided(j) => Cardinality(Approvers(j)) >= threshold /\ threshold >= 1
            /\ proposals[j].status = "Executed" => proposals'[j] = proposals[j]
      BY <3>1, <3>2, <3>3, <3>5 DEF Decided
    <3>8. paused' # paused => proposals[id].action.kind = (IF paused' THEN "Pause" ELSE "Unpause")
      BY <3>1 DEF ExecuteAction
    <3> QED BY <3>6, <3>7, <3>8
  <2> QED BY <1>1, <2>2, <2>3, <2>4, <2>5
          DEF Next, InitializeStep, AdminStep, ProposalStep, Initialize, GrantRole, RevokeRole,
              SetAdminSet, SetParam, vars
<1> QED BY <1>1, IInvAlways, PTL DEF Spec, DecisionsAreBacked
=============================================================================
