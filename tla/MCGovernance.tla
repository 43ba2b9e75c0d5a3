---------------------------- MODULE MCGovernance ----------------------------
(***************************************************************************)
(* Values for the constants of Governance: three accounts, a parameter     *)
(* with a default, one without, and a name without bounds.                 *)
(***************************************************************************)
EXTENDS Governance

CONSTANTS ann, ben, cat, expiry, tier, nonsense

MCBounds == [k \in {expiry, tier} |-> [min |-> IF k = expiry THEN 1 ELSE 0, max |-> 2]]
MCDefaults == [k \in {expiry} |-> 1]

MCActions ==
    {[kind |-> "Pause"], [kind |-> "Unpause"],
     [kind |-> "GrantRole", who |-> cat, role |-> Admin],
     [kind |-> "RevokeRole", who |-> ann, role |-> Admin],
     [kind |-> "SetParameter", key |-> expiry, value |-> 0],
     [kind |-> "SetParameter", key |-> tier, value |-> 1]}

MCAdminSets == {<<ann, ben>>, <<cat, cat>>}
=============================================================================
