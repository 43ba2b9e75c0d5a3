------------------------------ MODULE Payments ------------------------------
(***************************************************************************)
(* contracts/payments-contract over shared/src/payments.rs: users keep     *)
(* deposits in the contract and withdraw them less a fee; depositors open  *)
(* escrow entries that the admin releases or refunds; the admin pays out   *)
(* batches.  All of it moves one pooled balance of the configured token.   *)
(*                                                                         *)
(* initialize has no guard and asks for no signature: a second call may    *)
(* change the token and sets the total to zero, and leaves deposits and    *)
(* escrow entries as they are.                                             *)
(*                                                                         *)
(* Bounds: MaxInits, MaxSequence, MaxEscrows, MaxDeposited (per user).     *)
(***************************************************************************)
EXTENDS Batch

CONSTANTS
    Users,           \* the addresses that sign calls
    Contract,        \* the address of the payments contract
    Tokens,          \* the token contracts
    NoAddress,       \* not set: no token, user or account
    InitialBalance,  \* token -> account -> amount before the first call
    Admins,          \* admins a caller may install
    FeeRecipients,   \* fee recipients a caller may pass
    Beneficiaries,   \* beneficiaries a depositor may name
    FeeRates,        \* fee rates a caller may pass, in basis points
    Amounts,         \* amounts a caller may pass
    Expiries,        \* expiry ledgers a depositor may pass
    Payouts,         \* batches the admin may pass
    MaxI128,
    MaxInits, MaxSequence, MaxEscrows, MaxDeposited

Accounts  == Users \cup {Contract}
EscrowIds == 1 .. MaxEscrows

ASSUME PaymentsAssumption ==
    /\ IsFiniteSet(Users)
    /\ Contract \notin Users
    /\ NoAddress \notin Accounts \cup Tokens
    /\ InitialBalance \in [Tokens -> [Accounts -> Nat]]
    /\ Admins \subseteq Users
    /\ FeeRecipients \subseteq Accounts
    /\ Beneficiaries \subseteq Accounts
    /\ FeeRates \subseteq Int
    /\ Amounts \subseteq Int
    /\ Expiries \subseteq Nat
    /\ Payouts \subseteq Seq([to : Accounts, amount : Int])
    /\ MaxI128 \in Nat
    /\ MaxInits \in Nat
    /\ MaxSequence \in Nat
    /\ MaxEscrows \in Nat
    /\ MaxDeposited \in Nat

VARIABLES
    sequence,    \* env.ledger().sequence()
    inits,       \* how often initialize was called
    config,      \* admin, TOKEN, FEE_RATE, FEE_RECIPIENT
    deposited,   \* DEPOSITED: user -> internal balance
    total,       \* TOTAL_DEPOSITS
    escrow_seq,  \* ESCROW_ID_SEQ: the last identifier given out
    escrows,     \* the records under esc_rec
    active,      \* the identifiers in ESCROW_ACTIVE
    balance      \* token -> account -> amount

vars == <<sequence, inits, config, deposited, total, escrow_seq, escrows, active, balance>>

NoEscrow == [state |-> "None"]

EscrowRecord ==
    [depositor : Users, beneficiary : Accounts, token : Tokens, amount : Nat \ {0},
     expiry_ledger : Nat, state : {"Active", "Released", "Refunded"}]

BPS_DENOM == 10000

PaymentConfig ==
    [admin : Users, token : Tokens, fee_rate : 0 .. BPS_DENOM, fee_recipient : Accounts]

NoConfig == [admin |-> NoAddress, token |-> NoAddress, fee_rate |-> 0, fee_recipient |-> NoAddress]

RecordsUpToSequence == \A i \in EscrowIds : escrows[i] = NoEscrow <=> i > escrow_seq

TypeOK ==
    /\ sequence \in Nat
    /\ inits \in Nat
    /\ config \in PaymentConfig \cup {NoConfig}
    /\ deposited \in [Users -> Nat]
    /\ total \in Int
    /\ escrow_seq \in 0 .. MaxEscrows
    /\ escrows \in [EscrowIds -> EscrowRecord \cup {NoEscrow}]
    /\ active \subseteq EscrowIds
    /\ balance \in [Tokens -> [Accounts -> Nat]]
    /\ RecordsUpToSequence

Init ==
    /\ sequence = 0
    /\ inits = 0
    /\ config = NoConfig
    /\ deposited = [u \in Users |-> 0]
    /\ total = 0
    /\ escrow_seq = 0
    /\ escrows = [i \in EscrowIds |-> NoEscrow]
    /\ active = {}
    /\ balance = InitialBalance

Initialized == config # NoConfig
-----------------------------------------------------------------------------
(* Configuration.                                                          *)

ValidFeeRate(rate) == rate \in 0 .. BPS_DENOM

Initialize(admin, token, rate, recipient) ==
    /\ inits < MaxInits
    /\ inits' = inits + 1
    /\ ValidFeeRate(rate)
    /\ config' = [admin |-> admin, token |-> token, fee_rate |-> rate,
                  fee_recipient |-> recipient]
    /\ total' = 0
    /\ UNCHANGED <<sequence, deposited, escrow_seq, escrows, active, balance>>

SetFeeRate(caller, rate) ==
    /\ ValidFeeRate(rate)
    /\ caller = config.admin
    /\ config' = [config EXCEPT !.fee_rate = rate]
    /\ UNCHANGED <<sequence, inits, deposited, total, escrow_seq, escrows, active, balance>>

-----------------------------------------------------------------------------
(* Transfers of the configured token.                                      *)

Pool == balance[config.token]

Move(from, to, amount) ==
    /\ CanTransfer(Pool, from, amount)
    /\ balance' = [balance EXCEPT ![config.token] = Transfer(@, from, to, amount)]

PayOut(pay) ==
    /\ CanPayAll(Pool, Contract, pay)
    /\ balance' = [balance EXCEPT ![config.token] = PayAll(@, Contract, pay)]

-----------------------------------------------------------------------------
(* Deposits.                                                               *)

Deposit(from, amount) ==
    /\ Initialized
    /\ amount > 0
    /\ deposited[from] + amount <= MaxDeposited
    /\ deposited[from] + amount <= MaxI128
    /\ total + amount <= MaxI128
    /\ Move(from, Contract, amount)
    /\ deposited' = [deposited EXCEPT ![from] = @ + amount]
    /\ total' = total + amount
    /\ UNCHANGED <<sequence, inits, config, escrow_seq, escrows, active>>

\* calculate_fee: rounded down, and refused if the product overflows.
FeeIsDefined(amount) == amount * config.fee_rate <= MaxI128
Fee(amount) == (amount * config.fee_rate) \div BPS_DENOM

\* Mutant: the fee comes on top of the amount.
FeeOnTop(who, amount) ==
    << [to |-> config.fee_recipient, amount |-> Fee(amount)], [to |-> who, amount |-> amount] >>

\* Transfers of zero are not made; here they change nothing.
Shares(who, amount) ==
    << [to |-> config.fee_recipient, amount |-> Fee(amount)],
       [to |-> who, amount |-> amount - Fee(amount)] >>

\* Mutant: the total only grows.
NotReduced(sum, amount) == sum

\* checked_sub(..).unwrap_or(0): zero only below the least i128.
Reduced(sum, amount) == IF sum - amount >= -MaxI128 - 1 THEN sum - amount ELSE 0

TakeOut(who, amount) ==
    /\ Initialized
    /\ FeeIsDefined(amount)
    /\ PayOut(Shares(who, amount))
    /\ deposited' = [deposited EXCEPT ![who] = @ - amount]
    /\ total' = Reduced(total, amount)
    /\ UNCHANGED <<sequence, inits, config, escrow_seq, escrows, active>>

Withdraw(who) == deposited[who] > 0 /\ TakeOut(who, deposited[who])

\* Mutant: only the whole deposit can be asked for.
WithdrawAll(who, amount) == amount > 0 /\ amount = deposited[who] /\ TakeOut(who, amount)

WithdrawAmount(who, amount) == amount \in 1 .. deposited[who] /\ TakeOut(who, amount)

-----------------------------------------------------------------------------
(* Escrow entries.                                                         *)

CreateEscrow(depositor, beneficiary, amount, expiry) ==
    LET id == escrow_seq + 1
        record == [depositor |-> depositor, beneficiary |-> beneficiary,
                   token |-> config.token, amount |-> amount,
                   expiry_ledger |-> expiry, state |-> "Active"]
    IN  /\ Initialized
        /\ amount > 0
        /\ expiry > sequence
        /\ id \in EscrowIds
        /\ escrow_seq' = id
        /\ escrows' = [escrows EXCEPT ![id] = record]
        /\ active' = active \cup {id}
        /\ Move(depositor, Contract, amount)
        /\ UNCHANGED <<sequence, inits, config, deposited, total>>

\* Mutants: the expiry ledger is ignored; what was refunded can be released.
ReleasableForEver(id) == escrows[id].state = "Active"
ReleasableTwice(id) ==
    escrows[id].state \in {"Active", "Refunded"} /\ sequence <= escrows[id].expiry_ledger

Releasable(id) == escrows[id].state = "Active" /\ sequence <= escrows[id].expiry_ledger

\* Mutant: the list forgets everything.
ForgetAll(id) == {}

RemoveFromActive(id) == active \ {id}

\* The transfer is in the configured token, whatever token the record names.
CloseEscrow(caller, id, state, to) ==
    /\ caller = config.admin
    /\ escrows' = [escrows EXCEPT ![id].state = state]
    /\ active' = RemoveFromActive(id)
    /\ Move(Contract, to, escrows[id].amount)
    /\ UNCHANGED <<sequence, inits, config, deposited, total, escrow_seq>>

ReleaseEscrow(caller, id) ==
    Releasable(id) /\ CloseEscrow(caller, id, "Released", escrows[id].beneficiary)

\* At any time: the expiry is not looked at.
RefundEscrow(caller, id) ==
    /\ escrows[id].state = "Active"
    /\ CloseEscrow(caller, id, "Refunded", escrows[id].depositor)

-----------------------------------------------------------------------------
(* Payouts, from the pooled balance.                                       *)

BatchPayout(caller, ops) ==
    /\ caller = config.admin
    /\ Accepted(ops, DEFAULT_MAX_BATCH_SIZE)
    /\ PayOut(Performed(ops))
    /\ UNCHANGED <<sequence, inits, config, deposited, total, escrow_seq, escrows, active>>

-----------------------------------------------------------------------------

Tick ==
    /\ sequence < MaxSequence
    /\ sequence' = sequence + 1
    /\ UNCHANGED <<inits, config, deposited, total, escrow_seq, escrows, active, balance>>

ConfigStep ==
    \/ \E admin \in Admins, token \in Tokens, rate \in FeeRates, recipient \in FeeRecipients :
            Initialize(admin, token, rate, recipient)
    \/ \E caller \in Users, rate \in FeeRates : SetFeeRate(caller, rate)

DepositStep ==
    \E u \in Users :
        \/ Withdraw(u)
        \/ \E amount \in Amounts : Deposit(u, amount) \/ WithdrawAmount(u, amount)

EscrowStep ==
    \/ \E depositor \in Users, beneficiary \in Beneficiaries,
          amount \in Amounts, expiry \in Expiries :
            CreateEscrow(depositor, beneficiary, amount, expiry)
    \/ \E caller \in Users, id \in EscrowIds : ReleaseEscrow(caller, id) \/ RefundEscrow(caller, id)

PayoutStep == \E caller \in Users, ops \in Payouts : BatchPayout(caller, ops)

Next == Tick \/ ConfigStep \/ DepositStep \/ EscrowStep \/ PayoutStep

Spec == Init /\ [][Next]_vars

-----------------------------------------------------------------------------

HeldAmounts ==
    [i \in EscrowIds |-> IF escrows[i].state = "Active" THEN escrows[i].amount ELSE 0]

\* What the contract owes, all of it in the configured token.
Owed == SumOver(Users, deposited) + SumOver(EscrowIds, HeldAmounts)

\* What the contract holds beyond what it owes.
Backing == Pool[Contract] - Owed

\* The list of active entries names exactly the entries that can still be
\* closed, through every interleaving of create_escrow, release_escrow,
\* refund_escrow and initialize.
ActiveListIsExact == active = {i \in EscrowIds : escrows[i].state = "Active"}

\* While initialize was called once, the running total is the sum of the
\* internal balances (deposit, withdraw, withdraw_amount).
TotalIsTheSum == inits <= 1 => total = SumOver(Users, deposited)

\* As long as the token stays the same, no call but a batch payout takes from
\* the contract more than it takes off its books: deposits, withdrawals with
\* their fee, escrow entries and their closing never eat into what other users
\* are owed, wherever fee and entries go, the contract itself included.
OnlyPayoutsEatIntoCustody ==
    [][Initialized /\ config'.token = config.token /\ Backing' < Backing => PayoutStep]_vars

\* If the contract holds what it owes, nobody's money is locked in: a deposit
\* can be withdrawn at once or, should the product of the fee overflow, in
\* parts, and the admin can close every active entry.
CoveredMeansPayable ==
    Initialized /\ Backing >= 0 =>
        /\ \A u \in Users : deposited[u] > 0 =>
                \/ ENABLED Withdraw(u)
                \/ \E amount \in 1 .. deposited[u] : ENABLED WithdrawAmount(u, amount)
        /\ \A i \in active : ENABLED RefundEscrow(config.admin, i)

\* What the module says of its escrow entries: "funds are held until a release
\* or refund condition is met" (lib.rs), for a contract that was initialized once.
FundsAreHeld ==
    Initialized /\ inits = 1 => Pool[Contract] >= SumOver(EscrowIds, HeldAmounts)
-----------------------------------------------------------------------------
(* An escrow entry is a deal of Escrow, in purses that serve other ends    *)
(* too (deposits, payouts, a change of token).                             *)

EntryStage(state) ==
    CASE state = "Active" -> "Held"
      [] state = "Released" -> "Delivered"
      [] state = "Refunded" -> "Returned"

Entries ==
    [i \in EscrowIds |->
        IF escrows[i] = NoEscrow THEN [stage |-> "None"]
        ELSE [stage |-> EntryStage(escrows[i].state), from |-> escrows[i].depositor,
              to |-> escrows[i].beneficiary, amount |-> escrows[i].amount,
              deadline |-> escrows[i].expiry_ledger]]

Purses == [u \in Users |-> IF Initialized THEN Pool[u] ELSE 0]

E == INSTANCE Escrow WITH Parties <- Users, Ids <- EscrowIds,
        EarlyReturn <- TRUE, SharedPurse <- TRUE,
        time <- sequence, deals <- Entries, purse <- Purses

\* Every call implements the abstract escrow: an entry is closed once, with
\* one payment of its whole amount, to the beneficiary not after the expiry
\* ledger or back to the depositor, and with it no other purse moves.
ImplementsEscrow == E!Spec
=============================================================================
