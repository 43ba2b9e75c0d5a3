------------------------------- MODULE MCAid -------------------------------
(***************************************************************************)
(* Values for the constants of Aid: two users, each of them a possible     *)
(* donor, recipient and admin, and a contract that already holds one unit  *)
(* that belongs to no aid.                                                 *)
(***************************************************************************)
EXTENDS Aid, TLC

CONSTANTS ann, ben

MCInitialBalance == [a \in {ann, ben, Contract} |-> 1]

\* The two users are treated alike.
MCSymmetry == Permutations({ann, ben})
=============================================================================
