---------------------------- MODULE RoleQueries ----------------------------
(***************************************************************************)
(* The loops of contracts/access-control over the parents of a role, as    *)
(* the code runs them.  They have no bound in the code: here a walk gives  *)
(* up after more steps than there are roles, which only a walk around a    *)
(* cycle can take.                                                         *)
(***************************************************************************)
EXTENDS AccessControl, FiniteSets, SequencesExt

ASSUME QueryAssumption == IsFiniteSet(Roles)

MaxSteps == Cardinality(Roles) + 1

\* The roles that a user holds according to a walk of at most n more calls.
has_role_recursive(user) ==
    LET held[n \in 0 .. MaxSteps] ==
          {role \in Roles :
              \/ <<role, user>> \in members
              \/ n > 0 /\ role \in DOMAIN parent /\ parent[role] \in held[n - 1]}
    IN  held

\* The roles from which a walk of at most n steps meets the candidate.
has_ancestor_from(candidate) ==
    LET below[n \in 0 .. MaxSteps] ==
          {role \in Roles :
              /\ n > 0
              /\ role \in DOMAIN parent
              /\ parent[role] = candidate \/ parent[role] \in below[n - 1]}
    IN  below

\* What n steps from each role collect, from the immediate parent upward.
ancestors_from ==
    LET chain[n \in 0 .. MaxSteps] ==
          [role \in Roles |->
              IF n > 0 /\ role \in DOMAIN parent
              THEN <<parent[role]>> \o chain[n - 1][parent[role]]
              ELSE << >>]
    IN  chain

\* Mutant: the walk of has_role looks no further than the parent.
has_role_of_parent(role, user) == role \in has_role_recursive(user)[1]

has_role(role, user) == role \in has_role_recursive(user)[MaxSteps]
has_ancestor(role, candidate) == role \in has_ancestor_from(candidate)[MaxSteps]
get_role_ancestors(role) == ancestors_from[MaxSteps][role]

get_role_members(role) == {user \in Accounts : <<role, user>> \in members}

(***************************************************************************)
(* The answers of the contract fit together in every state: has_role is    *)
(* what an off-chain reader computes from get_role_members along           *)
(* get_role_ancestors, that chain names every ancestor once, in the order  *)
(* of the hierarchy, the check of set_role_parent finds exactly its        *)
(* entries, and who holds the parent of a role holds the role.             *)
(***************************************************************************)
QueriesAgree ==
    \A r \in Roles :
        LET chain == get_role_ancestors(r)
        IN  /\ IsInjective(chain)
            /\ \A a \in Roles :
                  /\ has_ancestor(r, a) <=> Contains(chain, a)
                  /\ has_ancestor(r, a) <=> HasAncestor(r, a)
            /\ \A u \in Accounts :
                  /\ has_role(r, u) <=> \E a \in {r} \cup Range(chain) : u \in get_role_members(a)
                  /\ has_role(r, u) <=> HasRole(r, u)
                  /\ r \in DOMAIN parent /\ has_role(parent[r], u) => has_role(r, u)
=============================================================================
