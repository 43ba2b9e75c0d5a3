------------------------------ MODULE BatchRun ------------------------------
(***************************************************************************)
(* shared/src/batch.rs: a batch as the executor runs it, one operation a   *)
(* step, inside one host transaction.                                      *)
(*                                                                         *)
(* What a transaction wrote is seen by nobody else before it returns, and  *)
(* a trap takes all of it back, the re-entrancy guard included: that is    *)
(* what saved is for.  The host runs a transaction to its end: the steps   *)
(* of a batch that has begun are fair, beginning one is not.               *)
(***************************************************************************)
EXTENDS BatchOutcome

VARIABLES
    run,    \* the batch that is being executed, or NoRun
    guard   \* REENTRANCY_KEY in temporary storage

runVars == <<outcomeVars, run, guard>>

NoRun == [kind |-> "none"]

Running == run # NoRun

RunInit ==
    /\ OutcomeInit
    /\ run = NoRun
    /\ guard = FALSE

-----------------------------------------------------------------------------
(* Beginning and refusing.                                                 *)

\* The checks of an executor passed: the loop starts at the first operation.
Begin(kind, mode, payer, ops) ==
    /\ Accepted(ops, MaxOperations)
    /\ ~guard
    /\ guard' = TRUE
    /\ run' = [kind |-> kind, mode |-> mode, payer |-> payer, ops |-> ops, next |-> 1,
               results |-> << >>, succeeded |-> 0, failed |-> 0, reverted |-> FALSE,
               saved |-> [balances |-> balances, flags |-> flags]]
    /\ UNCHANGED outcomeVars

\* Empty, longer than max_operations, or the guard is set.
RefuseBatch(ops) ==
    /\ ~Accepted(ops, MaxOperations) \/ guard
    /\ Refuse
    /\ UNCHANGED <<run, guard>>

ExecuteMultiTransfer(mode, payer, ops) == Begin("transfer", mode, payer, ops)

\* The configuration is fixed: atomic, DEFAULT_MAX_BATCH_SIZE.
MultiTransferAll(payer, ops) ==
    /\ MaxOperations <= DEFAULT_MAX_BATCH_SIZE
    /\ ExecuteMultiTransfer("Atomic", payer, ops)

ExecuteMultiInvoke(mode, payer, calls) == Begin("invoke", mode, payer, calls)

BatchInvokeNoArgs(mode, payer, calls) == Begin("no_args", mode, payer, calls)

-----------------------------------------------------------------------------
(* The loops.                                                              *)

\* There is a next operation, and the loop was not left.
InLoop == Running /\ run.next <= Len(run.ops) /\ ~run.reverted

Op == run.ops[run.next]

Succeed == run' = [run EXCEPT !.results = Append(@, "Success"), !.succeeded = @ + 1, !.next = @ + 1]

\* Mutant: the batch goes on after a failure, in both modes.
RecordFailureAlways ==
    run' = [run EXCEPT !.results = Append(@, "Failure"), !.failed = @ + 1, !.next = @ + 1]

\* An atomic batch leaves the loop.
RecordFailure ==
    run' = [run EXCEPT !.results = Append(@, "Failure"), !.failed = @ + 1, !.next = @ + 1,
                       !.reverted = (run.mode = "Atomic")]

\* The transaction ends with an error: everything it wrote is taken back.
RollBack ==
    /\ balances' = run.saved.balances
    /\ flags' = run.saved.flags
    /\ guard' = FALSE
    /\ run' = NoRun
    /\ answer' = Trapped

\* The host fails the call to the token: what happens depends on the mode.
FailedTransfer ==
    \/ run.mode = "Atomic" /\ RollBack
    \/ run.mode = "NonAtomic" /\ RecordFailure /\ UNCHANGED <<outcomeVars, guard>>

\* transfer, or try_invoke_contract of it.
SingleTransfer ==
    \/ /\ CanTransfer(balances, run.payer, Op.amount)
       /\ balances' = Transfer(balances, run.payer, Op.to, Op.amount)
       /\ Succeed
       /\ UNCHANGED <<flags, answer, guard>>
    \/ /\ ~CanTransfer(balances, run.payer, Op.amount)
       /\ FailedTransfer

\* An operation that fails its own check is recorded without a call.
TransferStep ==
    /\ InLoop /\ run.kind = "transfer"
    /\ \/ ValidTransfer(Op) /\ SingleTransfer
       \/ ~ValidTransfer(Op) /\ RecordFailure /\ UNCHANGED <<outcomeVars, guard>>

\* The target returns, or it traps; the host refuses a call back into the
\* contract that runs the batch, which is a trap as well.
SingleInvoke ==
    \/ flags' = [flags EXCEPT ![Op.target] = Op.flag] /\ Succeed /\ UNCHANGED <<balances, answer, guard>>
    \/ run.mode = "NonAtomic" /\ RecordFailure /\ UNCHANGED <<outcomeVars, guard>>
    \/ run.mode = "Atomic" /\ RollBack

InvokeStep == InLoop /\ run.kind = "invoke" /\ SingleInvoke

NoArgsStep == InLoop /\ run.kind = "no_args" /\ SingleInvoke

\* The resources of the transaction are used up: no mode survives that.
RunOutOfBudget == Running /\ RollBack

\* The BatchResult of the batch that ran.
Result ==
    [status |-> "returned", call |-> <<run.kind, run.mode, run.payer, run.ops>>,
     total |-> Len(run.ops), results |-> run.results,
     succeeded |-> run.succeeded, failed |-> run.failed, reverted |-> run.reverted]

\* Mutant: the guard is not removed.
ReturnLocked ==
    /\ Running /\ ~InLoop
    /\ answer' = Result
    /\ run' = NoRun
    /\ UNCHANGED <<balances, flags, guard>>

\* After the loop: the guard is removed and the result returned.
Return ==
    /\ Running /\ ~InLoop
    /\ answer' = Result
    /\ guard' = FALSE
    /\ run' = NoRun
    /\ UNCHANGED <<balances, flags>>

-----------------------------------------------------------------------------

Work == TransferStep \/ InvokeStep \/ NoArgsStep \/ RunOutOfBudget \/ Return

Call ==
    /\ ~Running /\ answer = NoAnswer
    /\ \/ \E payer \in Payers, ops \in Transfers :
             \/ \E mode \in Modes : ExecuteMultiTransfer(mode, payer, ops)
             \/ MultiTransferAll(payer, ops)
       \/ \E payer \in Payers, mode \in Modes, calls \in Invocations :
             ExecuteMultiInvoke(mode, payer, calls) \/ BatchInvokeNoArgs(mode, payer, calls)
       \/ \E ops \in Transfers \cup Invocations : RefuseBatch(ops)

ReadAnswer == ~Running /\ answer # NoAnswer /\ Read /\ UNCHANGED <<run, guard>>

RunNext == Work \/ Call \/ ReadAnswer

RunSpec == RunInit /\ [][RunNext]_runVars /\ WF_runVars(Work)

-----------------------------------------------------------------------------

(***************************************************************************)
(* A batch is one step for everybody else, in both modes and wherever it   *)
(* fails: while it runs others see what was saved; its receipt is that of  *)
(* the money that moved and the invocations that took effect.              *)
(***************************************************************************)
Seen == IF Running THEN run.saved ELSE [balances |-> balances, flags |-> flags]

OneStep == INSTANCE BatchOutcome WITH balances <- Seen.balances, flags <- Seen.flags

BatchIsOneStep == OneStep!OutcomeSpec

(***************************************************************************)
(* What batch.rs and SECURITY_BATCH.md say of the atomic mode: a failure   *)
(* reverts the entire batch, prior transfers included, so that a receipt   *)
(* with reverted = true goes with no transfer at all.  The executor does   *)
(* not keep this: an invalid amount only ends its loop.                    *)
(***************************************************************************)
BatchKeepsItsPromise == OneStep!PromisedSpec

(***************************************************************************)
(* A batch that has begun comes to an end, whatever its operations do, and *)
(* leaves the guard open for the next one.                                 *)
(***************************************************************************)
BatchEnds == Running ~> (~Running /\ ~guard)
-----------------------------------------------------------------------------
(* How far a batch has come: the inductive invariant behind BatchIsOneStep. *)

RunRecord ==
    [kind : {"transfer", "invoke", "no_args"}, mode : Modes, payer : Payers,
     ops : Transfers \cup Invocations, next : Nat \ {0},
     results : Seq({"Success", "Failure"}), succeeded : Nat, failed : Nat,
     reverted : BOOLEAN, saved : [balances : [Holders -> Nat], flags : [Targets -> BOOLEAN]]]

\* Of the operations tried so far, the positions of those that succeeded.
Succeeded == {k \in DOMAIN run.results : run.results[k] = "Success"}

RunTypeOK ==
    /\ balances \in [Holders -> Nat]
    /\ flags \in [Targets -> BOOLEAN]
    /\ run \in RunRecord \cup {NoRun}
    /\ guard = Running

\* Every operation before the next one has its result, and the counts are right.
Tally ==
    /\ answer = NoAnswer
    /\ run.ops \in (IF run.kind = "transfer" THEN Transfers ELSE Invocations)
    /\ Accepted(run.ops, MaxOperations)
    /\ Len(run.results) = run.next - 1
    /\ Len(run.results) <= Len(run.ops)
    /\ run.succeeded = Cardinality(Succeeded)
    /\ run.failed = Len(run.results) - run.succeeded

\* A transfer succeeded if and only if it was valid and what came before it had
\* left enough, and the balances are what the successful ones made of them.
TransfersMade ==
    run.kind = "transfer" =>
        /\ flags = run.saved.flags
        /\ \A k \in DOMAIN run.results :
              k \in Succeeded <=>
                /\ ValidTransfer(run.ops[k])
                /\ CanPayAll(run.saved.balances, run.payer,
                             Only(run.ops, {j \in Succeeded : j < k} \cup {k}))
        /\ CanPayAll(run.saved.balances, run.payer, Only(run.ops, Succeeded))
        /\ balances = PayAll(run.saved.balances, run.payer, Only(run.ops, Succeeded))

\* The flags are what the successful invocations made of them.
InvocationsMade ==
    run.kind # "transfer" =>
        /\ balances = run.saved.balances
        /\ flags = OneStep!FlagsAfter(run.ops, Succeeded)

\* An atomic batch that still runs has only successes behind it, unless its
\* last transfer was invalid.
AtomicProgress ==
    LET tried == Len(run.results)
    IN  IF run.reverted
        THEN /\ run.mode = "Atomic" /\ run.kind = "transfer"
             /\ tried > 0 /\ Succeeded = 1 .. tried - 1
             /\ ~ValidTransfer(run.ops[tried])
        ELSE run.mode = "Atomic" => Succeeded = 1 .. tried

RunInv ==
    /\ RunTypeOK
    /\ Running => Tally /\ TransfersMade /\ InvocationsMade /\ AtomicProgress
=============================================================================
