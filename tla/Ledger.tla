------------------------------- MODULE Ledger -------------------------------
(***************************************************************************)
(* The token contracts that every Trellis contract calls through           *)
(* token::Client.  They are not part of the repository: what is written    *)
(* here is how the contracts use them.  The balances of ONE token are a    *)
(* function from accounts to natural numbers.  A transfer of a negative    *)
(* amount, or of more than the payer holds, traps and takes the calling    *)
(* transaction down with it, so each operator that moves tokens comes with *)
(* the condition under which the call returns.                             *)
(***************************************************************************)
EXTENDS Integers, FiniteSets

\* F[x] distinct units for every x of S.
Units(S, F) == UNION {{x} \X (1 .. F[x]) : x \in S}

\* The sum of F[x] over the finite set S, for F[x] \in Nat.
SumOver(S, F) == Cardinality(Units(S, F))

-----------------------------------------------------------------------------

\* token::Client::transfer returns.
CanTransfer(bals, from, amount) == amount >= 0 /\ bals[from] >= amount

\* Debit, then credit: a transfer to oneself changes nothing.
Transfer(bals, from, to, amount) ==
    [[bals EXCEPT ![from] = @ - amount] EXCEPT ![to] = @ + amount]

(***************************************************************************)
(* A run of transfers from one payer: pay is a function from positions     *)
(* (integers, in the order of the calls) to [to, amount].  The k-th call   *)
(* finds what the payer held less what the earlier calls took from it.     *)
(***************************************************************************)
PayAmounts(pay) == [k \in DOMAIN pay |-> pay[k].amount]

CanPayAll(bals, from, pay) ==
    \A k \in DOMAIN pay :
        SumOver({j \in DOMAIN pay : j < k /\ pay[j].to # from}, PayAmounts(pay))
            + pay[k].amount <= bals[from]

PayTotal(pay) == SumOver(DOMAIN pay, PayAmounts(pay))

PaidTo(pay, a) == SumOver({k \in DOMAIN pay : pay[k].to = a}, PayAmounts(pay))

PayAll(bals, from, pay) ==
    [a \in DOMAIN bals |->
        bals[a] + PaidTo(pay, a) - (IF a = from THEN PayTotal(pay) ELSE 0)]
=============================================================================
