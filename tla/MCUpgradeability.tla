-------------------------- MODULE MCUpgradeability --------------------------
(***************************************************************************)
(* Values for the constants of Upgradeability: two contracts and two names *)
(* (so that one contract may be entered twice, or both once), and enough   *)
(* versions and proposals for two upgrades of one contract.                *)
(***************************************************************************)
EXTENDS UpgradeQueries

CONSTANTS ann, ben, aid, treasury, aid_name, treasury_name, old_wasm, new_wasm, hook
=============================================================================
