----------------------------- MODULE Governance -----------------------------
(***************************************************************************)
(* contracts/governance-contract: accounts with the role Admin propose     *)
(* actions, approve them and, once enough have approved, execute them; a   *)
(* single one of them may also grant and revoke roles and replace the      *)
(* admin set and the threshold.  The one address of set_admin sets         *)
(* parameters on its own.                                                  *)
(*                                                                         *)
(* The admin set is stored and returned, and no check reads it: who takes  *)
(* part is decided by the role alone, when a call is made.                 *)
(*                                                                         *)
(* Bound: MaxProposals.                                                    *)
(***************************************************************************)
EXTENDS Integers, Sequences, FiniteSets

CONSTANTS
    Accounts,      \* the addresses that sign calls
    NoAddress,     \* no admin
    FirstAdmins,   \* who may be named admin by initialize
    Roles,
    Admin,         \* Role::Admin
    Keys,          \* the parameters callers may name
    Bounds,        \* parameter -> [min, max]; some names have none
    Defaults,      \* parameter -> value seeded by initialize; some have none
    Values,        \* values callers may pass
    Actions,       \* what callers may propose
    AdminSets,     \* lists of addresses callers may pass
    Thresholds,    \* thresholds callers may pass
    MaxProposals

ProposalAction ==
    [kind : {"GrantRole", "RevokeRole"}, who : Accounts, role : Roles]
        \cup [kind : {"SetParameter"}, key : Keys, value : Int]
        \cup [kind : {"Pause", "Unpause"}]

ASSUME GovernanceAssumption ==
    /\ IsFiniteSet(Accounts)
    /\ NoAddress \notin Accounts
    /\ FirstAdmins \subseteq Accounts
    /\ Admin \in Roles
    /\ DOMAIN Bounds \subseteq Keys
    /\ \A k \in DOMAIN Bounds : Bounds[k].min \in Int /\ Bounds[k].max \in Int
    /\ DOMAIN Defaults \subseteq DOMAIN Bounds
    /\ \A k \in DOMAIN Defaults : Defaults[k] \in Bounds[k].min .. Bounds[k].max
    /\ Values \subseteq Int
    /\ Actions \subseteq ProposalAction
    /\ AdminSets \subseteq Seq(Accounts)
    /\ Thresholds \subseteq Nat
    /\ MaxProposals \in Nat

Proposal ==
    [action : ProposalAction, approval_count : Nat, status : {"Pending", "Executed"}]

VARIABLES
    admin,
    threshold,
    admin_set,
    held,       \* the pairs of an account and a role it holds
    paused,
    params,     \* the parameters that have a value, and that value
    proposals,  \* by number
    approvals   \* the pairs of a proposal's number and an account that approved it

vars == <<admin, threshold, admin_set, held, paused, params, proposals, approvals>>

InBounds(key, value) == value \in Bounds[key].min .. Bounds[key].max

TypeOK ==
    /\ admin \in Accounts \cup {NoAddress}
    /\ threshold \in Nat
    /\ admin_set \in Seq(Accounts)
    /\ held \subseteq Accounts \X Roles
    /\ paused \in BOOLEAN
    /\ DOMAIN params \subseteq DOMAIN Bounds
    /\ \A k \in DOMAIN params : InBounds(k, params[k])
    /\ proposals \in Seq(Proposal)
    /\ approvals \subseteq (DOMAIN proposals) \X Accounts

Init ==
    /\ admin = NoAddress
    /\ threshold = 0
    /\ admin_set = << >>
    /\ held = {}
    /\ paused = FALSE
    /\ params = << >>
    /\ proposals = << >>
    /\ approvals = {}

IsAdmin(caller) == <<caller, Admin>> \in held

-----------------------------------------------------------------------------
(* Parameters.                                                             *)

\* Mutant: every parameter that has bounds takes every value.
HasBounds(key, value) == key \in DOMAIN Bounds

ValidParam(key, value) == key \in DOMAIN Bounds /\ InBounds(key, value)

Written(key, value) ==
    [k \in DOMAIN params \cup {key} |-> IF k = key THEN value ELSE params[k]]

Seeded ==
    [k \in DOMAIN params \cup DOMAIN Defaults |->
        IF k \in DOMAIN Defaults THEN Defaults[k] ELSE params[k]]

SetParam(caller, key, value) ==
    /\ caller = admin
    /\ ValidParam(key, value)
    /\ params' = Written(key, value)
    /\ UNCHANGED <<admin, threshold, admin_set, held, paused, proposals, approvals>>

-----------------------------------------------------------------------------
(* Roles and the admin set.                                                *)

EnoughMembers(members, m) == m >= 1 /\ Len(members) >= m

\* Unguarded; earlier roles, proposals and approvals stay.
Initialize(new_admin, m, members) ==
    /\ EnoughMembers(members, m)
    /\ admin' = new_admin
    /\ threshold' = m
    /\ admin_set' = members
    /\ held' = held \cup {<<members[i], Admin>> : i \in DOMAIN members}
    /\ params' = Seeded
    /\ UNCHANGED <<paused, proposals, approvals>>

GrantRole(caller, who, role) ==
    /\ IsAdmin(caller)
    /\ held' = held \cup {<<who, role>>}
    /\ UNCHANGED <<admin, threshold, admin_set, paused, params, proposals, approvals>>

RevokeRole(caller, who, role) ==
    /\ IsAdmin(caller)
    /\ held' = held \ {<<who, role>>}
    /\ UNCHANGED <<admin, threshold, admin_set, paused, params, proposals, approvals>>

\* No role is granted to new members or taken from old ones.
SetAdminSet(caller, members, m) ==
    /\ IsAdmin(caller)
    /\ EnoughMembers(members, m)
    /\ threshold' = m
    /\ admin_set' = members
    /\ UNCHANGED <<admin, held, paused, params, proposals, approvals>>

-----------------------------------------------------------------------------
(* Proposals.                                                              *)

Propose(caller, action) ==
    /\ IsAdmin(caller)
    /\ Len(proposals) < MaxProposals
    /\ proposals' = Append(proposals, [action |-> action, approval_count |-> 0, status |-> "Pending"])
    /\ UNCHANGED <<admin, threshold, admin_set, held, paused, params, approvals>>

\* Mutant: an approval is counted however often it is given.
Pending(id, caller) == proposals[id].status = "Pending"

Approvable(id, caller) == proposals[id].status = "Pending" /\ <<id, caller>> \notin approvals

Approve(caller, id) ==
    /\ IsAdmin(caller)
    /\ Approvable(id, caller)
    /\ proposals' = [proposals EXCEPT ![id].approval_count = @ + 1]
    /\ approvals' = approvals \cup {<<id, caller>>}
    /\ UNCHANGED <<admin, threshold, admin_set, held, paused, params>>

\* Everything an executed action may change.
ExecuteAction(action) ==
    \/ /\ action.kind = "GrantRole"
       /\ held' = held \cup {<<action.who, action.role>>}
       /\ UNCHANGED <<params, paused>>
    \/ /\ action.kind = "RevokeRole"
       /\ held' = held \ {<<action.who, action.role>>}
       /\ UNCHANGED <<params, paused>>
    \/ /\ action.kind = "SetParameter"
       /\ ValidParam(action.key, action.value)
       /\ params' = Written(action.key, action.value)
       /\ UNCHANGED <<held, paused>>
    \/ /\ action.kind \in {"Pause", "Unpause"}
       /\ paused' = (action.kind = "Pause")
       /\ UNCHANGED <<held, params>>

\* Mutant: the status is not looked at.
ExecutableAgain(id) == proposals[id].approval_count >= threshold

\* The threshold is the present one; the approvals may be of accounts that hold
\* the role no more.
Executable(id) ==
    /\ proposals[id].status = "Pending"
    /\ proposals[id].approval_count >= threshold

Execute(caller, id) ==
    /\ IsAdmin(caller)
    /\ Executable(id)
    /\ ExecuteAction(proposals[id].action)
    /\ proposals' = [proposals EXCEPT ![id].status = "Executed"]
    /\ UNCHANGED <<admin, threshold, admin_set, approvals>>

-----------------------------------------------------------------------------

AdminStep ==
    \E caller \in Accounts :
        \/ \E who \in Accounts, role \in Roles : GrantRole(caller, who, role) \/ RevokeRole(caller, who, role)
        \/ \E members \in AdminSets, m \in Thresholds : SetAdminSet(caller, members, m)
        \/ \E key \in Keys, value \in Values : SetParam(caller, key, value)

ProposalStep ==
    \E caller \in Accounts :
        \/ \E action \in Actions : Propose(caller, action)
        \/ \E id \in DOMAIN proposals : Approve(caller, id) \/ Execute(caller, id)

InitializeStep ==
    \E new_admin \in FirstAdmins, m \in Thresholds, members \in AdminSets : Initialize(new_admin, m, members)

Next == InitializeStep \/ AdminStep \/ ProposalStep

Spec == Init /\ [][Next]_vars

-----------------------------------------------------------------------------

Approvers(id) == {a \in Accounts : <<id, a>> \in approvals}

\* The number kept in a proposal is that of the accounts that approved it, also
\* when an account loses the role and gets it again, or roles start afresh.
VotesAreCounted ==
    \A id \in DOMAIN proposals : proposals[id].approval_count = Cardinality(Approvers(id))

Decided(id) == proposals[id].status = "Pending" /\ proposals'[id].status = "Executed"

\* A proposal is executed once, with the approval of as many accounts as the
\* present threshold, and never altered after; and nothing but the execution of
\* such a proposal pauses or unpauses the contract.
DecisionsAreBacked ==
    [][/\ \A id \in DOMAIN proposals :
            /\ Decided(id) => Cardinality(Approvers(id)) >= threshold /\ threshold >= 1
            /\ proposals[id].status = "Executed" => proposals'[id] = proposals[id]
       /\ paused' # paused => \E id \in DOMAIN proposals :
            Decided(id) /\ proposals[id].action.kind = (IF paused' THEN "Pause" ELSE "Unpause")]_vars
=============================================================================
