---------------------------- MODULE BatchOutcome ----------------------------
(***************************************************************************)
(* What a caller of shared/src/batch.rs gets: a batch is one step.  It is  *)
(* refused, or it fails and leaves nothing, or its effect is that of the   *)
(* operations its receipt calls successful, in order, and the receipt      *)
(* counts them right.  BatchRun shows that the executor, which works       *)
(* operation by operation, implements this.                                *)
(*                                                                         *)
(* The documentation of the file promises more, which PromisedSpec states: *)
(* the two differ in what an atomic batch of transfers keeps when it       *)
(* returns with reverted = true.                                           *)
(*                                                                         *)
(* Transfers go through one token.  An invocation sets a flag of its       *)
(* target (the batched pause and resume of the documentation); what makes  *)
(* it trap is the target's affair, so any invocation may.                  *)
(***************************************************************************)
EXTENDS Batch

CONSTANTS
    Payers,        \* accounts that send batches
    Transfers,     \* the sequences of [to, amount] they send
    Invocations,   \* the sequences of [target, flag] they send
    MaxOperations, \* the max_operations of a BatchConfig
    Holdings,      \* account -> what it holds of the token at first
    Targets        \* contracts that invocations go to

Holders == DOMAIN Holdings

ASSUME BatchAssumption ==
    /\ Holdings \in [Holders -> Nat]
    /\ Payers \subseteq Holders
    /\ Transfers \subseteq Seq([to : Holders, amount : Int])
    /\ Invocations \subseteq Seq([target : Targets, flag : BOOLEAN])
    /\ MaxOperations \in Nat

VARIABLES
    balances,      \* of the token
    flags,         \* target -> what the last successful invocation set
    answer         \* what the last batch returned, until the caller has read it

outcomeVars == <<balances, flags, answer>>

Modes == {"Atomic", "NonAtomic"}

NoAnswer == [status |-> "none"]
Refused == [status |-> "refused"]
Trapped == [status |-> "trapped"]

\* The BatchResult of a call, over the positions that were tried, of which
\* those in S succeeded.
Receipt(kind, mode, payer, ops, tried, S, reverted) ==
    [status |-> "returned", call |-> <<kind, mode, payer, ops>>, total |-> Len(ops),
     results |-> [k \in 1 .. tried |-> IF k \in S THEN "Success" ELSE "Failure"],
     succeeded |-> Cardinality(S), failed |-> tried - Cardinality(S), reverted |-> reverted]

\* The operations at the positions of S alone.
Only(ops, S) == [k \in S |-> ops[k]]

\* The last of the invocations at the positions of S decides what a flag is.
FlagsAfter(calls, S) ==
    [t \in DOMAIN flags |->
        LET hits == {k \in S : calls[k].target = t}
        IN  IF hits = {} THEN flags[t]
            ELSE calls[CHOOSE k \in hits : \A j \in hits : j <= k].flag]

-----------------------------------------------------------------------------

OutcomeInit ==
    /\ balances = Holdings
    /\ flags = [t \in Targets |-> FALSE]
    /\ answer = NoAnswer

Refuse ==
    /\ answer' = Refused
    /\ UNCHANGED <<balances, flags>>

\* A call traps in an atomic batch, or the host stops the transaction.
Fail ==
    /\ answer' = Trapped
    /\ UNCHANGED <<balances, flags>>

\* Tried are the operations up to the first invalid one, and all of them or
\* none can be paid; the transfers of kept are those that stay made.
AtomicTransfers(payer, ops, kept) ==
    LET done == DOMAIN Performed(ops)
        tried == Cardinality(done) + (IF Reverted(ops) THEN 1 ELSE 0)
    IN  /\ answer' = Receipt("transfer", "Atomic", payer, ops, tried, done, Reverted(ops))
        /\ CanPayAll(balances, payer, Performed(ops))
        /\ balances' = PayAll(balances, payer, kept)
        /\ UNCHANGED flags

\* S are exactly the operations that are valid and that the payer can still
\* pay when their turn comes.
NonAtomicTransfers(payer, ops, S) ==
    /\ answer' = Receipt("transfer", "NonAtomic", payer, ops, Len(ops), S, FALSE)
    /\ \A k \in DOMAIN ops :
          k \in S <=> /\ ValidTransfer(ops[k])
                      /\ CanPayAll(balances, payer, Only(ops, {j \in S : j < k} \cup {k}))
    /\ balances' = PayAll(balances, payer, Only(ops, S))
    /\ UNCHANGED flags

\* Which invocations succeed is up to their targets, but in an atomic batch all do.
Invoke(kind, mode, payer, calls, S) ==
    /\ mode = "Atomic" => S = DOMAIN calls
    /\ answer' = Receipt(kind, mode, payer, calls, Len(calls), S, FALSE)
    /\ flags' = FlagsAfter(calls, S)
    /\ UNCHANGED balances

TransactNonAtomic ==
    \E payer \in Payers, ops \in Transfers :
        /\ Accepted(ops, MaxOperations)
        /\ \E S \in SUBSET DOMAIN ops : NonAtomicTransfers(payer, ops, S)

TransactInvoke ==
    \E payer \in Payers, calls \in Invocations :
        /\ Accepted(calls, MaxOperations)
        /\ \E kind \in {"invoke", "no_args"}, mode \in Modes, S \in SUBSET DOMAIN calls :
              Invoke(kind, mode, payer, calls, S)

\* What the executor does: it returns Ok, so what precedes the invalid operation
\* stays made, whatever the receipt says.
KeepWhatPrecedes ==
    \E payer \in Payers, ops \in Transfers :
        /\ Accepted(ops, MaxOperations)
        /\ AtomicTransfers(payer, ops, Performed(ops))

\* What is promised: "All operations must succeed or the entire batch reverts."
AllOrNothing ==
    \E payer \in Payers, ops \in Transfers :
        /\ Accepted(ops, MaxOperations)
        /\ AtomicTransfers(payer, ops, IF Reverted(ops) THEN << >> ELSE Performed(ops))

Read ==
    /\ answer' = NoAnswer
    /\ UNCHANGED <<balances, flags>>

OutcomeNext ==
    \/ answer = NoAnswer /\ (Refuse \/ Fail \/ KeepWhatPrecedes \/ TransactNonAtomic \/ TransactInvoke)
    \/ answer # NoAnswer /\ Read

OutcomeSpec == OutcomeInit /\ [][OutcomeNext]_outcomeVars

PromisedNext ==
    \/ answer = NoAnswer /\ (Refuse \/ Fail \/ AllOrNothing \/ TransactNonAtomic \/ TransactInvoke)
    \/ answer # NoAnswer /\ Read

PromisedSpec == OutcomeInit /\ [][PromisedNext]_outcomeVars
=============================================================================
