------------------------------- MODULE Batch -------------------------------
(***************************************************************************)
(* shared/src/batch.rs: what a batch of transfers from one payer does.  A  *)
(* batch is a sequence of [to, amount].                                    *)
(*                                                                         *)
(* In Atomic mode a transfer that traps takes the whole transaction down,  *)
(* but an operation that fails its own check (amount not positive) only    *)
(* stops the loop: the call returns Ok with reverted = true, and the       *)
(* transfers before that operation stay made.                              *)
(***************************************************************************)
EXTENDS Ledger, Sequences

ABSOLUTE_MAX_BATCH_SIZE == 100
DEFAULT_MAX_BATCH_SIZE == 50

\* The call is not refused before its first operation.
Accepted(ops, max_operations) ==
    /\ max_operations \in 1 .. ABSOLUTE_MAX_BATCH_SIZE
    /\ Len(ops) \in 1 .. max_operations

ValidTransfer(op) == op.amount > 0

\* The operations an atomic batch gets through: those before the first invalid one.
Performed(ops) ==
    LET positions == {k \in DOMAIN ops : \A j \in 1 .. k : ValidTransfer(ops[j])}
    IN  [k \in positions |-> ops[k]]

\* BatchResult.reverted of an atomic batch that returns.
Reverted(ops) == \E k \in DOMAIN ops : ~ValidTransfer(ops[k])
=============================================================================
