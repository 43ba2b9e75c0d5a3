-------------------------- MODULE MCAccessControl --------------------------
(***************************************************************************)
(* Values for the constants of AccessControl: two accounts, and the super  *)
(* role with two more, so that a cycle may be closed over three roles.     *)
(***************************************************************************)
EXTENDS RoleQueries

CONSTANTS ann, ben, minter, pauser
=============================================================================
