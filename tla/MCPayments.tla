----------------------------- MODULE MCPayments -----------------------------
(***************************************************************************)
(* Values for the constants of Payments: ann starts with four units of    *)
(* gold, which reach ben through entries and payouts, and somebody once    *)
(* sent the contract two units of tin.  A payout may pay the contract      *)
(* itself first, or hold an invalid amount behind a valid one.             *)
(***************************************************************************)
EXTENDS Payments

CONSTANTS ann, ben, gold, tin

MCInitialBalance ==
    [t \in {gold, tin} |-> [a \in {ann, ben, Contract} |->
        CASE t = gold /\ a = ann -> 4
          [] t = tin /\ a = Contract -> 2
          [] OTHER -> 0]]

To(a, n) == [to |-> a, amount |-> n]

MCPayouts == {<<To(Contract, 1), To(ben, 2)>>, <<To(ben, 2), To(ann, 0), To(ann, 2)>>}
=============================================================================
