----------------------------- MODULE MCBatchRun -----------------------------
(***************************************************************************)
(* Values for the constants of BatchRun: ann holds two units of the token, *)
(* so that of up to three transfers of nothing, one or two units some are  *)
(* invalid, some are paid and some come too late; ben may pay ann back.    *)
(***************************************************************************)
EXTENDS BatchRun, TLC

CONSTANTS ann, ben, aid, treasury

UpTo(S, n) == UNION {[1 .. k -> S] : k \in 0 .. n}

MCTransfers == UpTo([to : {ann, ben}, amount : 0 .. 2], 3)

\* Up to two invocations, and more than max_operations allows.
MCInvocations ==
    UpTo([target : {aid, treasury}, flag : BOOLEAN], 2)
        \cup {[k \in 1 .. 4 |-> [target |-> aid, flag |-> TRUE]]}

MCHoldings == ann :> 2 @@ ben :> 1
=============================================================================
