--------------------------- MODULE PaymentsProofs ---------------------------
(***************************************************************************)
(* Theorems about Payments, for every finite set of users, all tokens,     *)
(* balances, rates, amounts and payouts, and any number of calls of        *)
(* initialize; and about BatchRun, the executor of batches, for batches of *)
(* any length.                                                             *)
(***************************************************************************)
EXTENDS Payments, BatchRun, LedgerProofs

\* The identifiers of entries are finitely many.
LEMMA EscrowIdsFinite == IsFiniteSet(EscrowIds) /\ EscrowIds \subseteq Nat
<1>1. MaxEscrows \in Nat
  BY PaymentsAssumption
<1>2. IsFiniteSet(1 .. MaxEscrows)
  BY <1>1, FS_Interval
<1> QED BY <1>1, <1>2 DEF EscrowIds

\* A configured contract has a token, with balances, and known parties.
LEMMA ConfigFacts ==
    ASSUME TypeOK, Initialized
    PROVE  /\ config \in PaymentConfig
           /\ config.token \in Tokens
           /\ Pool \in [Accounts -> Nat]
           /\ config.fee_rate \in Nat /\ config.fee_rate <= BPS_DENOM
           /\ config.fee_recipient \in Accounts
           /\ Contract \in Accounts /\ Users \subseteq Accounts /\ Contract \notin Users
<1>1. config \in PaymentConfig
  BY DEF TypeOK, Initialized
<1>2. config.token \in Tokens /\ config.fee_rate \in 0 .. BPS_DENOM /\ config.fee_recipient \in Accounts
  BY <1>1 DEF PaymentConfig
<1>3. Pool \in [Accounts -> Nat]
  BY <1>2 DEF Pool, TypeOK
<1>4. config.fee_rate \in Nat /\ config.fee_rate <= BPS_DENOM
  <2>1. BPS_DENOM \in Nat
    BY DEF BPS_DENOM
  <2> QED BY <1>2, <2>1
<1> QED BY <1>1, <1>2, <1>3, <1>4, PaymentsAssumption DEF Accounts

\* Whoever passes the admin check of a call calls a configured contract.
LEMMA AdminMeansInitialized ==
    ASSUME NEW caller \in Users, caller = config.admin
    PROVE  Initialized
BY PaymentsAssumption DEF Initialized, NoConfig, Accounts

-----------------------------------------------------------------------------
(* What the calls do to the balances.                                      *)

\* One transfer of the configured token.
LEMMA MoveBounds ==
    ASSUME TypeOK, Initialized, NEW from \in Accounts, NEW to \in Accounts,
           NEW amount \in Int, Move(from, to, amount)
    PROVE  /\ balance' \in [Tokens -> [Accounts -> Nat]]
           /\ balance'[config.token] = Transfer(Pool, from, to, amount)
           /\ \A t \in Tokens \ {config.token} : balance'[t] = balance[t]
<1>1. config.token \in Tokens /\ Pool \in [Accounts -> Nat]
  BY ConfigFacts
<1>2. /\ CanTransfer(Pool, from, amount)
      /\ balance' = [balance EXCEPT ![config.token] = Transfer(Pool, from, to, amount)]
  BY DEF Move, Pool
<1>3. Transfer(Pool, from, to, amount) \in [Accounts -> Nat]
  BY <1>1, <1>2, TransferBounds
<1> QED BY <1>1, <1>2, <1>3 DEF TypeOK

\* A run of transfers out of the contract.
LEMMA PayOutBounds ==
    ASSUME TypeOK, Initialized, NEW n \in Nat, NEW pay, DOMAIN pay = 1 .. n,
           \A k \in 1 .. n : pay[k].amount \in Nat, PayOut(pay)
    PROVE  /\ balance' \in [Tokens -> [Accounts -> Nat]]
           /\ n > 0 => balance'[config.token][Contract] >= Pool[Contract] - PayTotal(pay)
<1>1. config.token \in Tokens /\ Pool \in [Accounts -> Nat] /\ Contract \in Accounts
  BY ConfigFacts
<1>2. /\ CanPayAll(Pool, Contract, pay)
      /\ balance' = [balance EXCEPT ![config.token] = PayAll(Pool, Contract, pay)]
  BY DEF PayOut, Pool
<1>3. CASE n = 0
  <2>1. DOMAIN pay = {}
    BY <1>3
  <2>2. PayAll(Pool, Contract, pay) = Pool
    BY <1>1, <2>1, PayNothing
  <2> QED BY <1>1, <1>2, <1>3, <2>2 DEF TypeOK
<1>4. CASE n > 0
  <2>1. 1 \in Int /\ n \in Int /\ 1 <= n
    BY <1>4
  <2>2. /\ PayAll(Pool, Contract, pay) \in [Accounts -> Nat]
        /\ PayAll(Pool, Contract, pay)[Contract] >= Pool[Contract] - PayTotal(pay)
    BY <1>1, <1>2, <2>1, PayAllBounds
  <2> QED BY <1>1, <1>2, <2>2 DEF TypeOK
<1> QED BY <1>3, <1>4

\* The fee is a part of the amount.
LEMMA FeeBounds ==
    ASSUME TypeOK, Initialized, NEW amount \in Nat
    PROVE  Fee(amount) \in Nat /\ Fee(amount) <= amount
<1>1. config.fee_rate \in Nat /\ config.fee_rate <= BPS_DENOM
  BY ConfigFacts
<1>2. PICK product : product = amount * config.fee_rate
  OBVIOUS
<1>3. product \in Nat /\ product <= amount * BPS_DENOM
  BY <1>1, <1>2 DEF BPS_DENOM
<1>4. product \div BPS_DENOM \in Nat /\ BPS_DENOM * (product \div BPS_DENOM) <= product
  BY <1>3 DEF BPS_DENOM
<1>5. product \div BPS_DENOM <= amount
  BY <1>3, <1>4 DEF BPS_DENOM
<1> QED BY <1>2, <1>4, <1>5 DEF Fee

\* The two shares of a withdrawal come to its amount.
LEMMA SharesTotal ==
    ASSUME TypeOK, Initialized, NEW who, NEW amount \in Nat
    PROVE  /\ DOMAIN Shares(who, amount) = 1 .. 2
           /\ \A k \in 1 .. 2 : Shares(who, amount)[k].amount \in Nat
           /\ PayTotal(Shares(who, amount)) = amount
<1> DEFINE pay == Shares(who, amount)
<1>1. Fee(amount) \in Nat /\ Fee(amount) <= amount
  BY FeeBounds
<1>2. /\ DOMAIN pay = 1 .. 2
      /\ pay[1].amount = Fee(amount) /\ pay[2].amount = amount - Fee(amount)
  BY DEF Shares
<1> HIDE DEF pay
<1>3. pay[1].amount \in Nat /\ pay[2].amount \in Nat
  BY <1>1, <1>2
<1>4. \A k \in 1 .. 2 : pay[k].amount \in Nat
  <2>1. \A k \in 1 .. 2 : k = 1 \/ k = 2
    OBVIOUS
  <2> QED BY <1>3, <2>1
<1>5. PayTotal(pay) = amount
  <2>1. PayTotal(pay) = pay[1].amount + pay[2].amount
    BY <1>2, <1>3, PayTwo
  <2> QED BY <1>1, <1>2, <2>1
<1> QED BY <1>2, <1>4, <1>5 DEF pay

\* The operations a batch gets through are the first so many, all valid.
LEMMA PerformedPrefix ==
    ASSUME NEW ops \in Seq([to : Accounts, amount : Int])
    PROVE  \E n \in Nat : /\ DOMAIN Performed(ops) = 1 .. n
                          /\ \A k \in 1 .. n : Performed(ops)[k].amount \in Nat
<1> DEFINE Bad == {k \in DOMAIN ops : ~ValidTransfer(ops[k])}
           Good == {k \in DOMAIN ops : \A j \in 1 .. k : ValidTransfer(ops[j])}
<1>1. /\ Len(ops) \in Nat /\ DOMAIN ops = 1 .. Len(ops)
      /\ \A k \in DOMAIN ops : ops[k].amount \in Int
  <2>1. Len(ops) \in Nat /\ DOMAIN ops = 1 .. Len(ops)
    OBVIOUS
  <2>2. \A k \in 1 .. Len(ops) : ops[k] \in [to : Accounts, amount : Int]
    <3>1. PICK R : R = [to : Accounts, amount : Int]
      OBVIOUS
    <3>2. ops \in Seq(R)
      BY <3>1
    <3>3. \A k \in 1 .. Len(ops) : ops[k] \in R
      BY ONLY <3>2
    <3> QED BY <3>1, <3>3
  <2> QED BY <2>1, <2>2
<1>2. \A k \in DOMAIN ops : ValidTransfer(ops[k]) => ops[k].amount \in Nat
  BY <1>1 DEF ValidTransfer
<1>3. DOMAIN Performed(ops) = Good /\ \A k \in Good : Performed(ops)[k] = ops[k]
  BY DEF Performed
<1>4. \E n \in Nat : Good = 1 .. n
  <2>1. CASE Bad = {}
    <3>1. Good = DOMAIN ops
      BY <1>1, <2>1
    <3> QED BY <1>1, <3>1
  <2>2. CASE Bad # {}
    <3>1. Bad \in SUBSET Nat
      BY <1>1
    <3>2. PICK m \in Bad : \A j \in Bad : m <= j
      BY <2>2, <3>1, LeastExists
    <3>3. m \in Nat /\ m >= 1 /\ m <= Len(ops) /\ ~ValidTransfer(ops[m])
      BY <1>1, <3>2
    <3>4. \A j \in 1 .. (m - 1) : ValidTransfer(ops[j])
      BY <1>1, <3>2, <3>3
    <3>5. Good = 1 .. (m - 1)
      <4>1. ASSUME NEW k \in Good PROVE k \in 1 .. (m - 1)
        <5>1. k \in Nat /\ k >= 1 /\ m \notin 1 .. k
          BY <1>1, <3>3
        <5> QED BY <3>3, <5>1
      <4>2. ASSUME NEW k \in 1 .. (m - 1) PROVE k \in Good
        <5>1. k \in DOMAIN ops /\ 1 .. k \subseteq 1 .. (m - 1)
          BY <1>1, <3>3
        <5> QED BY <3>4, <5>1
      <4> QED BY <4>1, <4>2
    <3>6. m - 1 \in Nat
      BY <3>3
    <3> HIDE DEF Good
    <3> QED BY <3>5, <3>6
  <2> HIDE DEF Good, Bad
  <2> QED BY <2>1, <2>2
<1>5. PICK n \in Nat : Good = 1 .. n
  BY <1>4
<1>6. \A k \in Good : ops[k].amount \in Nat
  <2>1. ASSUME NEW k \in Good PROVE ops[k].amount \in Nat
    <3>1. k \in DOMAIN ops /\ k \in 1 .. k
      BY <1>1
    <3> QED BY <1>2, <3>1
  <2> QED BY <2>1
<1> HIDE DEF Good
<1> QED BY <1>3, <1>5, <1>6

-----------------------------------------------------------------------------
(* Type correctness.                                                       *)

LEMMA InitType == Init => TypeOK
<1> SUFFICES ASSUME Init PROVE TypeOK
  OBVIOUS
<1>1. \A i \in EscrowIds : i > 0
  BY EscrowIdsFinite DEF EscrowIds
<1>2. RecordsUpToSequence
  BY <1>1 DEF Init, RecordsUpToSequence
<1>3. escrow_seq \in 0 .. MaxEscrows
  <2>1. MaxEscrows \in Nat
    BY PaymentsAssumption
  <2> QED BY <2>1 DEF Init
<1>4. balance \in [Tokens -> [Accounts -> Nat]]
  BY PaymentsAssumption DEF Init
<1>5. config \in PaymentConfig \cup {NoConfig}
  BY DEF Init
<1>6. sequence \in Nat /\ inits \in Nat /\ total \in Int /\ active \subseteq EscrowIds
  BY DEF Init
<1>7. deposited \in [Users -> Nat]
  BY DEF Init
<1>8. escrows \in [EscrowIds -> EscrowRecord \cup {NoEscrow}]
  BY DEF Init
<1> QED BY <1>2, <1>3, <1>4, <1>5, <1>6, <1>7, <1>8 DEF TypeOK

\* The clock and the configuration touch no record and no balance.
LEMMA ConfigType == TypeOK /\ (ConfigStep \/ Tick) => TypeOK'
<1> SUFFICES ASSUME TypeOK, ConfigStep \/ Tick PROVE TypeOK'
  OBVIOUS
<1>1. UNCHANGED <<deposited, escrow_seq, escrows, active, balance>>
  BY DEF ConfigStep, Initialize, SetFeeRate, Tick
<1>2. /\ sequence' \in Nat /\ inits' \in Nat /\ total' \in Int
  <2>1. sequence \in Nat /\ inits \in Nat /\ total \in Int
    BY DEF TypeOK
  <2>2. /\ sequence' \in {sequence, sequence + 1}
        /\ inits' \in {inits, inits + 1}
        /\ total' \in {total, 0}
    BY DEF ConfigStep, Initialize, SetFeeRate, Tick
  <2> QED BY <2>1, <2>2
<1>3. config' \in PaymentConfig \cup {NoConfig}
  <2>1. ASSUME NEW admin \in Admins, NEW token \in Tokens, NEW rate \in FeeRates,
               NEW recipient \in FeeRecipients, Initialize(admin, token, rate, recipient)
        PROVE  config' \in PaymentConfig
    BY <2>1, PaymentsAssumption DEF Initialize, ValidFeeRate, PaymentConfig
  <2>2. ASSUME NEW caller \in Users, NEW rate \in FeeRates, SetFeeRate(caller, rate)
        PROVE  config' \in PaymentConfig
    <3>1. Initialized
      BY <2>2, AdminMeansInitialized DEF SetFeeRate
    <3>2. config \in PaymentConfig
      BY <3>1, ConfigFacts
    <3> QED BY <2>2, <3>2 DEF SetFeeRate, ValidFeeRate, PaymentConfig
  <2>3. CASE Tick
    BY <2>3 DEF Tick, TypeOK
  <2> QED BY <2>1, <2>2, <2>3 DEF ConfigStep
<1> QED BY <1>1, <1>2, <1>3 DEF TypeOK, RecordsUpToSequence

\* What a withdrawal leaves.
LEMMA TakeOutEffect ==
    ASSUME TypeOK, NEW who \in Users, NEW amount \in Nat, amount <= deposited[who],
           TakeOut(who, amount)
    PROVE  /\ Initialized
           /\ deposited' \in [Users -> Nat]
           /\ deposited'[who] = deposited[who] - amount
           /\ \A u \in Users \ {who} : deposited'[u] = deposited[u]
           /\ total' = Reduced(total, amount) /\ total' \in Int
           /\ balance' \in [Tokens -> [Accounts -> Nat]]
           /\ balance'[config.token][Contract] >= Pool[Contract] - amount
           /\ UNCHANGED <<sequence, inits, config, escrow_seq, escrows, active>>
<1>1. /\ Initialized /\ PayOut(Shares(who, amount))
      /\ deposited' = [deposited EXCEPT ![who] = @ - amount]
      /\ total' = Reduced(total, amount)
      /\ UNCHANGED <<sequence, inits, config, escrow_seq, escrows, active>>
  BY DEF TakeOut
<1>2. /\ deposited \in [Users -> Nat] /\ total \in Int
  BY DEF TypeOK
<1>3. deposited[who] - amount \in Nat
  BY <1>2
<1>4. total' \in Int
  <2>1. total - amount \in Int
    BY <1>2
  <2> QED BY <1>1, <2>1 DEF Reduced
<1>5. /\ DOMAIN Shares(who, amount) = 1 .. 2
      /\ \A k \in 1 .. 2 : Shares(who, amount)[k].amount \in Nat
      /\ PayTotal(Shares(who, amount)) = amount
  BY <1>1, SharesTotal
<1>6. /\ balance' \in [Tokens -> [Accounts -> Nat]]
      /\ balance'[config.token][Contract] >= Pool[Contract] - PayTotal(Shares(who, amount))
  <2>1. PICK pay : pay = Shares(who, amount)
    OBVIOUS
  <2>2. DOMAIN pay = 1 .. 2 /\ (\A k \in 1 .. 2 : pay[k].amount \in Nat) /\ PayOut(pay)
    BY <1>1, <1>5, <2>1
  <2>3. 2 \in Nat /\ 2 > 0
    OBVIOUS
  <2> QED BY <1>1, <2>1, <2>2, <2>3, PayOutBounds
<1> QED BY <1>1, <1>2, <1>3, <1>4, <1>5, <1>6

\* Every call on deposits is a deposit or takes a part of one out.
LEMMA DepositCases ==
    ASSUME TypeOK, DepositStep
    PROVE  \E u \in Users :
              \/ \E amount \in Amounts : Deposit(u, amount)
              \/ \E amount \in Nat : amount <= deposited[u] /\ TakeOut(u, amount)
<1>1. PICK u \in Users :
          \/ Withdraw(u)
          \/ \E amount \in Amounts : Deposit(u, amount) \/ WithdrawAmount(u, amount)
  BY DEF DepositStep
<1>2. deposited[u] \in Nat
  BY DEF TypeOK
<1>3. CASE Withdraw(u)
  <2>1. deposited[u] <= deposited[u]
    BY <1>2
  <2> QED BY <1>2, <1>3, <2>1 DEF Withdraw
<1>4. ASSUME NEW amount \in Amounts, WithdrawAmount(u, amount)
      PROVE  \E a \in Nat : a <= deposited[u] /\ TakeOut(u, a)
  <2>1. amount \in Nat /\ amount <= deposited[u]
    BY <1>2, <1>4 DEF WithdrawAmount
  <2> QED BY <1>4, <2>1 DEF WithdrawAmount
<1> QED BY <1>1, <1>3, <1>4

\* What a deposit adds.
LEMMA DepositEffect ==
    ASSUME TypeOK, NEW from \in Users, NEW amount \in Amounts, Deposit(from, amount)
    PROVE  /\ Initialized /\ amount \in Nat
           /\ deposited' \in [Users -> Nat]
           /\ deposited'[from] = deposited[from] + amount
           /\ \A u \in Users \ {from} : deposited'[u] = deposited[u]
           /\ total' = total + amount /\ total' \in Int
           /\ balance' \in [Tokens -> [Accounts -> Nat]]
           /\ balance'[config.token][Contract] = Pool[Contract] + amount
           /\ UNCHANGED <<sequence, inits, config, escrow_seq, escrows, active>>
<1>1. /\ Initialized /\ amount > 0 /\ Move(from, Contract, amount)
      /\ deposited' = [deposited EXCEPT ![from] = @ + amount]
      /\ total' = total + amount
      /\ UNCHANGED <<sequence, inits, config, escrow_seq, escrows, active>>
  BY DEF Deposit
<1>2. amount \in Nat /\ amount \in Int
  BY <1>1, PaymentsAssumption
<1>3. /\ from \in Accounts /\ Contract \in Accounts /\ from # Contract
      /\ Pool \in [Accounts -> Nat]
  BY <1>1, ConfigFacts
<1>4. /\ balance' \in [Tokens -> [Accounts -> Nat]]
      /\ balance'[config.token] = Transfer(Pool, from, Contract, amount)
  BY <1>1, <1>2, <1>3, MoveBounds
<1>5. CanTransfer(Pool, from, amount)
  BY <1>1 DEF Move
<1>6. Transfer(Pool, from, Contract, amount)[Contract] = Pool[Contract] + amount
  BY <1>2, <1>3, <1>5, TransferBounds
<1>7. deposited \in [Users -> Nat] /\ total \in Int
  BY DEF TypeOK
<1>8. deposited[from] + amount \in Nat /\ total + amount \in Int
  BY <1>2, <1>7
<1> QED BY <1>1, <1>2, <1>4, <1>6, <1>7, <1>8

\* Calls on deposits keep the types.
LEMMA DepositType == TypeOK /\ DepositStep => TypeOK'
<1> SUFFICES ASSUME TypeOK, DepositStep PROVE TypeOK'
  OBVIOUS
<1>1. ASSUME NEW u \in Users, NEW amount \in Amounts, Deposit(u, amount) PROVE TypeOK'
  <2>1. /\ deposited' \in [Users -> Nat] /\ total' \in Int
        /\ balance' \in [Tokens -> [Accounts -> Nat]]
        /\ UNCHANGED <<sequence, inits, config, escrow_seq, escrows, active>>
    BY <1>1, DepositEffect
  <2> QED BY <2>1 DEF TypeOK, RecordsUpToSequence
<1>2. ASSUME NEW u \in Users, NEW amount \in Nat, amount <= deposited[u], TakeOut(u, amount)
      PROVE  TypeOK'
  <2>1. /\ deposited' \in [Users -> Nat] /\ total' \in Int
        /\ balance' \in [Tokens -> [Accounts -> Nat]]
        /\ UNCHANGED <<sequence, inits, config, escrow_seq, escrows, active>>
    BY <1>2, TakeOutEffect
  <2> QED BY <2>1 DEF TypeOK, RecordsUpToSequence
<1> QED BY <1>1, <1>2, DepositCases

\* What a new entry adds.
LEMMA CreateEffect ==
    ASSUME TypeOK, NEW depositor \in Users, NEW beneficiary \in Beneficiaries,
           NEW amount \in Amounts, NEW expiry \in Expiries,
           CreateEscrow(depositor, beneficiary, amount, expiry)
    PROVE  /\ Initialized /\ amount \in Nat \ {0} /\ expiry \in Nat /\ expiry > sequence
           /\ escrow_seq' = escrow_seq + 1 /\ escrow_seq' \in EscrowIds
           /\ escrows[escrow_seq'] = NoEscrow
           /\ escrows' \in [EscrowIds -> EscrowRecord \cup {NoEscrow}]
           /\ escrows'[escrow_seq'] =
                [depositor |-> depositor, beneficiary |-> beneficiary, token |-> config.token,
                 amount |-> amount, expiry_ledger |-> expiry, state |-> "Active"]
           /\ \A i \in EscrowIds \ {escrow_seq'} : escrows'[i] = escrows[i]
           /\ active' = active \cup {escrow_seq'}
           /\ CanTransfer(Pool, depositor, amount)
           /\ balance' \in [Tokens -> [Accounts -> Nat]]
           /\ balance'[config.token] = Transfer(Pool, depositor, Contract, amount)
           /\ balance'[config.token][Contract] = Pool[Contract] + amount
           /\ UNCHANGED <<sequence, inits, config, deposited, total>>
<1> DEFINE record == [depositor |-> depositor, beneficiary |-> beneficiary,
                      token |-> config.token, amount |-> amount,
                      expiry_ledger |-> expiry, state |-> "Active"]
<1>1. /\ Initialized /\ amount > 0 /\ expiry > sequence
      /\ escrow_seq' = escrow_seq + 1 /\ escrow_seq' \in EscrowIds
      /\ escrows' = [escrows EXCEPT ![escrow_seq'] = record]
      /\ active' = active \cup {escrow_seq'}
      /\ Move(depositor, Contract, amount)
      /\ UNCHANGED <<sequence, inits, config, deposited, total>>
  BY DEF CreateEscrow
<1>2. amount \in Nat \ {0} /\ amount \in Int /\ expiry \in Nat /\ beneficiary \in Accounts
  BY <1>1, PaymentsAssumption
<1>3. /\ depositor \in Accounts /\ Contract \in Accounts /\ depositor # Contract
      /\ Pool \in [Accounts -> Nat] /\ config.token \in Tokens
  BY <1>1, ConfigFacts
<1>4. /\ balance' \in [Tokens -> [Accounts -> Nat]]
      /\ balance'[config.token] = Transfer(Pool, depositor, Contract, amount)
  BY <1>1, <1>2, <1>3, MoveBounds
<1>5. CanTransfer(Pool, depositor, amount)
  BY <1>1 DEF Move
<1>6. Transfer(Pool, depositor, Contract, amount)[Contract] = Pool[Contract] + amount
  BY <1>2, <1>3, <1>5, TransferBounds
<1>7. record \in EscrowRecord
  BY <1>2, <1>3 DEF EscrowRecord
<1>8. escrows[escrow_seq'] = NoEscrow
  <2>1. escrow_seq \in Nat
    BY PaymentsAssumption DEF TypeOK
  <2>2. escrow_seq' > escrow_seq
    BY <1>1, <2>1
  <2> QED BY <1>1, <2>2 DEF TypeOK, RecordsUpToSequence
<1> HIDE DEF record
<1>9. /\ escrows' \in [EscrowIds -> EscrowRecord \cup {NoEscrow}]
      /\ escrows'[escrow_seq'] = record
      /\ \A i \in EscrowIds \ {escrow_seq'} : escrows'[i] = escrows[i]
  BY <1>1, <1>7 DEF TypeOK
<1> QED BY <1>1, <1>2, <1>4, <1>5, <1>6, <1>8, <1>9 DEF record

\* An entry that is there is a record.
LEMMA EntryType ==
    ASSUME TypeOK, NEW id \in EscrowIds, escrows[id] # NoEscrow
    PROVE  escrows[id] \in EscrowRecord
BY DEF TypeOK

\* What closing an entry changes.
LEMMA CloseEffect ==
    ASSUME TypeOK, NEW caller \in Users, NEW id \in EscrowIds, escrows[id].state = "Active",
           NEW state \in {"Released", "Refunded"}, NEW to \in Accounts,
           CloseEscrow(caller, id, state, to)
    PROVE  /\ Initialized /\ escrows[id] \in EscrowRecord
           /\ escrows' \in [EscrowIds -> EscrowRecord \cup {NoEscrow}]
           /\ escrows'[id] \in EscrowRecord /\ escrows'[id].state = state
           /\ \A i \in EscrowIds \ {id} : escrows'[i] = escrows[i]
           /\ active' = active \ {id}
           /\ CanTransfer(Pool, Contract, escrows[id].amount)
           /\ balance' \in [Tokens -> [Accounts -> Nat]]
           /\ balance'[config.token] = Transfer(Pool, Contract, to, escrows[id].amount)
           /\ balance'[config.token][Contract] >= Pool[Contract] - escrows[id].amount
           /\ UNCHANGED <<sequence, inits, config, deposited, total, escrow_seq>>
<1> DEFINE amount == escrows[id].amount
<1>1. /\ caller = config.admin
      /\ escrows' = [escrows EXCEPT ![id].state = state]
      /\ active' = active \ {id}
      /\ Move(Contract, to, amount)
      /\ UNCHANGED <<sequence, inits, config, deposited, total, escrow_seq>>
  BY DEF CloseEscrow, RemoveFromActive
<1>2. Initialized
  BY <1>1, AdminMeansInitialized
<1>3. escrows[id] \in EscrowRecord
  BY EntryType DEF NoEscrow
<1>4. amount \in Nat /\ amount \in Int
  BY <1>3 DEF EscrowRecord
<1>5. escrows'[id] = [escrows[id] EXCEPT !.state = state]
      /\ \A i \in EscrowIds \ {id} : escrows'[i] = escrows[i]
  BY <1>1 DEF TypeOK
<1>6. escrows'[id] \in EscrowRecord /\ escrows'[id].state = state
  BY <1>3, <1>5 DEF EscrowRecord
<1>7. escrows' \in [EscrowIds -> EscrowRecord \cup {NoEscrow}]
  BY <1>1, <1>5, <1>6 DEF TypeOK
<1>8. Contract \in Accounts /\ Pool \in [Accounts -> Nat]
  BY <1>2, ConfigFacts
<1>9. CanTransfer(Pool, Contract, amount)
  BY <1>1 DEF Move
<1> HIDE DEF amount
<1>10. /\ balance' \in [Tokens -> [Accounts -> Nat]]
       /\ balance'[config.token] = Transfer(Pool, Contract, to, amount)
  BY <1>1, <1>2, <1>4, <1>8, MoveBounds
<1>11. Transfer(Pool, Contract, to, amount)[Contract] >= Pool[Contract] - amount
  <2>1. Transfer(Pool, Contract, to, amount)[Contract] \in {Pool[Contract], Pool[Contract] - amount}
    BY <1>4, <1>8, <1>9, TransferBounds
  <2>2. Pool[Contract] \in Nat
    BY <1>8
  <2> QED BY <1>4, <2>1, <2>2
<1> QED BY <1>1, <1>2, <1>3, <1>5, <1>6, <1>7, <1>9, <1>10, <1>11 DEF amount

\* A call on an entry creates one, or closes an active one in favour of a side.
LEMMA EscrowCases ==
    ASSUME TypeOK, EscrowStep
    PROVE  \/ \E depositor \in Users, beneficiary \in Beneficiaries,
                 amount \in Amounts, expiry \in Expiries :
                    CreateEscrow(depositor, beneficiary, amount, expiry)
           \/ \E caller \in Users, id \in EscrowIds :
                /\ escrows[id].state = "Active"
                /\ \/ /\ sequence <= escrows[id].expiry_ledger
                      /\ escrows[id].beneficiary \in Accounts
                      /\ CloseEscrow(caller, id, "Released", escrows[id].beneficiary)
                   \/ /\ escrows[id].depositor \in Accounts
                      /\ CloseEscrow(caller, id, "Refunded", escrows[id].depositor)
<1>1. ASSUME NEW caller \in Users, NEW id \in EscrowIds,
             ReleaseEscrow(caller, id) \/ RefundEscrow(caller, id)
      PROVE  /\ escrows[id].state = "Active"
             /\ escrows[id].beneficiary \in Accounts /\ escrows[id].depositor \in Accounts
  <2>1. escrows[id].state = "Active"
    BY <1>1 DEF ReleaseEscrow, RefundEscrow, Releasable
  <2>2. escrows[id] \in EscrowRecord
    BY <2>1, EntryType DEF NoEscrow
  <2> QED BY <2>1, <2>2 DEF EscrowRecord, Accounts
<1> QED BY <1>1 DEF EscrowStep, ReleaseEscrow, RefundEscrow, Releasable

\* Calls on entries keep the types.
LEMMA EscrowType == TypeOK /\ EscrowStep => TypeOK'
<1> SUFFICES ASSUME TypeOK, EscrowStep PROVE TypeOK'
  OBVIOUS
<1>1. ASSUME NEW depositor \in Users, NEW beneficiary \in Beneficiaries,
             NEW amount \in Amounts, NEW expiry \in Expiries,
             CreateEscrow(depositor, beneficiary, amount, expiry)
      PROVE  TypeOK'
  <2>1. /\ escrow_seq' = escrow_seq + 1 /\ escrow_seq' \in EscrowIds
        /\ escrows' \in [EscrowIds -> EscrowRecord \cup {NoEscrow}]
        /\ \A i \in EscrowIds \ {escrow_seq'} : escrows'[i] = escrows[i]
        /\ active' = active \cup {escrow_seq'}
        /\ balance' \in [Tokens -> [Accounts -> Nat]]
        /\ UNCHANGED <<sequence, inits, config, deposited, total>>
    BY <1>1, CreateEffect
  <2>2. escrow_seq \in Nat /\ EscrowIds \subseteq Nat /\ EscrowIds \subseteq 0 .. MaxEscrows
    BY PaymentsAssumption DEF TypeOK, EscrowIds
  <2>3. escrows'[escrow_seq'] # NoEscrow
    <3>1. escrows'[escrow_seq'] =
            [depositor |-> depositor, beneficiary |-> beneficiary, token |-> config.token,
             amount |-> amount, expiry_ledger |-> expiry, state |-> "Active"]
      BY <1>1, CreateEffect
    <3> QED BY <3>1 DEF NoEscrow
  <2>4. \A i \in EscrowIds : escrows'[i] = NoEscrow <=> i > escrow_seq'
    <3>1. ASSUME NEW i \in EscrowIds PROVE escrows'[i] = NoEscrow <=> i > escrow_seq'
      <4>1. CASE i = escrow_seq'
        BY <2>1, <2>2, <2>3, <4>1
      <4>2. CASE i # escrow_seq'
        <5>1. escrows'[i] = escrows[i] /\ (escrows[i] = NoEscrow <=> i > escrow_seq)
          BY <2>1, <4>2 DEF TypeOK, RecordsUpToSequence
        <5> QED BY <2>1, <2>2, <4>2, <5>1
      <4> QED BY <4>1, <4>2
    <3> QED BY <3>1
  <2>5. escrow_seq' \in 0 .. MaxEscrows /\ active' \subseteq EscrowIds
    BY <2>1, <2>2 DEF TypeOK
  <2> QED BY <2>1, <2>4, <2>5 DEF TypeOK, RecordsUpToSequence
<1>2. ASSUME NEW caller \in Users, NEW id \in EscrowIds, escrows[id].state = "Active",
             NEW state \in {"Released", "Refunded"}, NEW to \in Accounts,
             CloseEscrow(caller, id, state, to)
      PROVE  TypeOK'
  <2>1. /\ escrows[id].state = "Active"
        /\ escrows' \in [EscrowIds -> EscrowRecord \cup {NoEscrow}]
        /\ escrows'[id] \in EscrowRecord
        /\ \A i \in EscrowIds \ {id} : escrows'[i] = escrows[i]
        /\ active' = active \ {id}
        /\ balance' \in [Tokens -> [Accounts -> Nat]]
        /\ UNCHANGED <<sequence, inits, config, deposited, total, escrow_seq>>
    BY <1>2, CloseEffect
  <2>2. escrows[id] # NoEscrow /\ escrows'[id] # NoEscrow
    BY <2>1 DEF NoEscrow, EscrowRecord
  <2>3. \A i \in EscrowIds : escrows'[i] = NoEscrow <=> i > escrow_seq'
    BY <2>1, <2>2 DEF TypeOK, RecordsUpToSequence
  <2> QED BY <2>1, <2>3 DEF TypeOK, RecordsUpToSequence
<1> QED BY <1>1, <1>2, EscrowCases

\* A payout moves balances only.
LEMMA PayoutType == TypeOK /\ PayoutStep => TypeOK'
<1> SUFFICES ASSUME TypeOK, PayoutStep PROVE TypeOK'
  OBVIOUS
<1>1. PICK caller \in Users, ops \in Payouts : BatchPayout(caller, ops)
  BY DEF PayoutStep
<1>2. /\ Initialized /\ PayOut(Performed(ops))
      /\ UNCHANGED <<sequence, inits, config, deposited, total, escrow_seq, escrows, active>>
  BY <1>1, AdminMeansInitialized DEF BatchPayout
<1>3. PICK n \in Nat : /\ DOMAIN Performed(ops) = 1 .. n
                       /\ \A k \in 1 .. n : Performed(ops)[k].amount \in Nat
  BY PaymentsAssumption, PerformedPrefix
<1>4. balance' \in [Tokens -> [Accounts -> Nat]]
  BY <1>2, <1>3, PayOutBounds
<1> QED BY <1>2, <1>4 DEF TypeOK, RecordsUpToSequence

\* Every step keeps the types.
LEMMA NextType == TypeOK /\ [Next]_vars => TypeOK'
<1>1. TypeOK /\ UNCHANGED vars => TypeOK'
  BY DEF TypeOK, RecordsUpToSequence, vars
<1> QED BY <1>1, ConfigType, DepositType, EscrowType, PayoutType DEF Next

\* Every value the contract stores keeps its type, and the identifiers of the
\* entries are exactly those given out.
THEOREM TypeCorrect == Spec => []TypeOK
<1> QED BY InitType, NextType, PTL DEF Spec

-----------------------------------------------------------------------------
(* The books.                                                              *)

\* The list of active entries names exactly the active entries, whatever
\* entries are created, released and refunded in whatever order.
THEOREM ActiveListCorrect == Spec => []ActiveListIsExact
<1>1. Init => ActiveListIsExact
  BY DEF Init, ActiveListIsExact, NoEscrow
<1>2. TypeOK /\ ActiveListIsExact /\ [Next]_vars => ActiveListIsExact'
  <2> SUFFICES ASSUME TypeOK, ActiveListIsExact, [Next]_vars PROVE ActiveListIsExact'
    OBVIOUS
  <2>1. CASE EscrowStep
    <3>1. ASSUME NEW depositor \in Users, NEW beneficiary \in Beneficiaries,
                 NEW amount \in Amounts, NEW expiry \in Expiries,
                 CreateEscrow(depositor, beneficiary, amount, expiry)
          PROVE  ActiveListIsExact'
      <4>1. PICK id \in EscrowIds : id = escrow_seq'
        BY <3>1, CreateEffect
      <4>2. /\ active' = active \cup {id}
            /\ escrows'[id] =
                 [depositor |-> depositor, beneficiary |-> beneficiary, token |-> config.token,
                  amount |-> amount, expiry_ledger |-> expiry, state |-> "Active"]
            /\ \A i \in EscrowIds \ {id} : escrows'[i] = escrows[i]
        BY <3>1, <4>1, CreateEffect
      <4>3. escrows'[id].state = "Active"
        BY <4>2
      <4> QED BY <4>2, <4>3 DEF ActiveListIsExact
    <3>2. ASSUME NEW caller \in Users, NEW id \in EscrowIds, escrows[id].state = "Active",
                 NEW state \in {"Released", "Refunded"}, NEW to \in Accounts,
                 CloseEscrow(caller, id, state, to)
          PROVE  ActiveListIsExact'
      <4>1. /\ active' = active \ {id}
            /\ escrows'[id].state = state
            /\ \A i \in EscrowIds \ {id} : escrows'[i] = escrows[i]
        BY <3>2, CloseEffect
      <4>2. escrows'[id].state # "Active"
        BY <4>1
      <4> QED BY <4>1, <4>2 DEF ActiveListIsExact
    <3> QED BY <2>1, <3>1, <3>2, EscrowCases
  <2>2. CASE UNCHANGED <<escrows, active>>
    BY <2>2 DEF ActiveListIsExact
  <2>3. EscrowStep \/ UNCHANGED <<escrows, active>>
    BY DEF Next, vars, Tick, ConfigStep, Initialize, SetFeeRate, DepositStep, Deposit,
           Withdraw, WithdrawAmount, TakeOut, PayoutStep, BatchPayout
  <2> QED BY <2>1, <2>2, <2>3
<1> QED BY <1>1, <1>2, TypeCorrect, PTL DEF Spec

\* One internal balance changes, and the sum of them by as much.
LEMMA DepositedUpdate ==
    ASSUME TypeOK, deposited' \in [Users -> Nat], NEW u \in Users,
           \A v \in Users \ {u} : deposited'[v] = deposited[v]
    PROVE  /\ SumOver(Users, deposited) \in Nat
           /\ deposited[u] <= SumOver(Users, deposited)
           /\ SumOver(Users, deposited)'
                = SumOver(Users, deposited) + deposited'[u] - deposited[u]
<1>1. IsFiniteSet(Users) /\ deposited \in [Users -> Nat]
  BY PaymentsAssumption DEF TypeOK
<1>2. \A v \in Users : deposited[v] \in Nat /\ deposited'[v] \in Nat
  BY <1>1
<1>3. SumOver(Users, deposited) \in Nat
  BY <1>1, <1>2, SumType
<1>4. SumOver(Users, deposited') = SumOver(Users, deposited) + deposited'[u] - deposited[u]
  BY <1>1, <1>2, SumUpdate
<1>5. SumOver(Users, deposited)' = SumOver(Users, deposited')
  BY DEF SumOver, Units
<1>6. SumOver({u}, deposited) <= SumOver(Users, deposited)
  BY <1>1, <1>2, SumSubset
<1>7. SumOver({u}, deposited) = deposited[u]
  BY <1>2, SumSingleton
<1> QED BY <1>3, <1>4, <1>5, <1>6, <1>7

\* Nobody has called initialize: there is no configuration and no deposit.
BeforeInitialize == inits = 0 => config = NoConfig /\ total = 0

\* The running total is the sum of the internal balances, as long as
\* initialize has been called at most once.
THEOREM TotalCorrect == Spec => []TotalIsTheSum
<1> DEFINE Inv == BeforeInitialize /\ TotalIsTheSum
<1>1. Init => Inv
  <2> SUFFICES ASSUME Init PROVE Inv
    OBVIOUS
  <2>1. \A u \in Users : {u} \X (1 .. deposited[u]) = {}
    BY DEF Init
  <2>2. Units(Users, deposited) = {}
    BY <2>1 DEF Units
  <2> QED BY <2>2, FS_EmptySet DEF Init, BeforeInitialize, TotalIsTheSum, SumOver
<1>2. TypeOK /\ Inv /\ [Next]_vars => Inv'
  <2> SUFFICES ASSUME TypeOK, Inv, [Next]_vars PROVE Inv'
    OBVIOUS
  <2>1. ASSUME NEW u \in Users, NEW amount \in Amounts, Deposit(u, amount) PROVE Inv'
    <3>1. /\ Initialized /\ amount \in Nat
          /\ deposited' \in [Users -> Nat]
          /\ deposited'[u] = deposited[u] + amount
          /\ \A v \in Users \ {u} : deposited'[v] = deposited[v]
          /\ total' = total + amount
          /\ UNCHANGED <<inits, config>>
      BY <2>1, DepositEffect
    <3>2. /\ SumOver(Users, deposited) \in Nat
          /\ SumOver(Users, deposited)'
                = SumOver(Users, deposited) + deposited'[u] - deposited[u]
      BY <3>1, DepositedUpdate
    <3>3. deposited[u] \in Nat
      BY DEF TypeOK
    <3> QED BY <3>1, <3>2, <3>3 DEF BeforeInitialize, TotalIsTheSum, Initialized
  <2>2. ASSUME NEW u \in Users, NEW amount \in Nat, amount <= deposited[u], TakeOut(u, amount)
        PROVE  Inv'
    <3>1. /\ Initialized
          /\ deposited' \in [Users -> Nat]
          /\ deposited'[u] = deposited[u] - amount
          /\ \A v \in Users \ {u} : deposited'[v] = deposited[v]
          /\ total' = Reduced(total, amount)
          /\ UNCHANGED <<inits, config>>
      BY <2>2, TakeOutEffect
    <3>2. /\ SumOver(Users, deposited) \in Nat
          /\ deposited[u] <= SumOver(Users, deposited)
          /\ SumOver(Users, deposited)'
                = SumOver(Users, deposited) + deposited'[u] - deposited[u]
      BY <3>1, DepositedUpdate
    <3>3. deposited[u] \in Nat /\ MaxI128 \in Nat
      BY PaymentsAssumption DEF TypeOK
    <3>4. inits <= 1 => total' = total - amount
      <4> SUFFICES ASSUME inits <= 1 PROVE total' = total - amount
        OBVIOUS
      <4>1. total = SumOver(Users, deposited)
        BY DEF TotalIsTheSum
      <4>2. total - amount >= -MaxI128 - 1
        BY <2>2, <3>2, <3>3, <4>1
      <4> QED BY <3>1, <4>2 DEF Reduced
    <3> QED BY <2>2, <3>1, <3>2, <3>3, <3>4 DEF BeforeInitialize, TotalIsTheSum, Initialized
  <2>3. ASSUME NEW admin, NEW token, NEW rate, NEW recipient,
               Initialize(admin, token, rate, recipient)
        PROVE  Inv'
    <3>1. inits \in Nat /\ inits' = inits + 1 /\ total' = 0 /\ deposited' = deposited
      BY <2>3 DEF Initialize, TypeOK
    <3>2. inits' # 0 /\ (inits' <= 1 => inits = 0 /\ inits <= 1)
      BY <3>1
    <3>3. inits' <= 1 => total' = SumOver(Users, deposited)
      BY <3>1, <3>2 DEF BeforeInitialize, TotalIsTheSum
    <3>4. SumOver(Users, deposited)' = SumOver(Users, deposited)
      BY <3>1
    <3> QED BY <3>2, <3>3, <3>4 DEF BeforeInitialize, TotalIsTheSum
  <2>4. ASSUME NEW caller \in Users, NEW rate, SetFeeRate(caller, rate) PROVE Inv'
    <3>1. Initialized
      BY <2>4, AdminMeansInitialized DEF SetFeeRate
    <3> QED BY <2>4, <3>1 DEF SetFeeRate, Initialized, BeforeInitialize, TotalIsTheSum
  <2>5. CASE UNCHANGED <<inits, config, deposited, total>>
    BY <2>5 DEF BeforeInitialize, TotalIsTheSum
  <2>6. CASE DepositStep
    BY <2>1, <2>2, <2>6, DepositCases
  <2>7. CASE ConfigStep
    BY <2>3, <2>4, <2>7 DEF ConfigStep
  <2>8. \/ DepositStep \/ ConfigStep
        \/ UNCHANGED <<inits, config, deposited, total>>
    BY DEF Next, vars, Tick, EscrowStep, CreateEscrow, ReleaseEscrow, RefundEscrow,
           CloseEscrow, PayoutStep, BatchPayout
  <2> QED BY <2>5, <2>6, <2>7, <2>8
<1>3. Inv => TotalIsTheSum
  OBVIOUS
<1> QED BY <1>1, <1>2, <1>3, TypeCorrect, PTL DEF Spec

-----------------------------------------------------------------------------
(* Custody.                                                                *)

\* What is held for an entry.
LEMMA HeldType ==
    ASSUME TypeOK, NEW i \in EscrowIds
    PROVE  /\ HeldAmounts[i] \in Nat
           /\ escrows[i].state = "Active" => HeldAmounts[i] = escrows[i].amount
           /\ escrows[i].state # "Active" => HeldAmounts[i] = 0
<1>1. escrows[i].state = "Active" => escrows[i].amount \in Nat
  <2>1. escrows[i].state = "Active" => escrows[i] # NoEscrow
    BY DEF NoEscrow
  <2> QED BY <2>1, EntryType DEF EscrowRecord
<1> QED BY <1>1 DEF HeldAmounts

\* One entry changes, and the sum of what is held by as much.
LEMMA HeldUpdate ==
    ASSUME TypeOK, TypeOK', NEW id \in EscrowIds,
           \A i \in EscrowIds \ {id} : escrows'[i] = escrows[i]
    PROVE  /\ SumOver(EscrowIds, HeldAmounts) \in Nat
           /\ SumOver(EscrowIds, HeldAmounts)'
                = SumOver(EscrowIds, HeldAmounts) + HeldAmounts'[id] - HeldAmounts[id]
<1> DEFINE F == HeldAmounts
           G == HeldAmounts'
<1>1. \A i \in EscrowIds : F[i] \in Nat
  BY HeldType
<1>2. \A i \in EscrowIds : G[i] \in Nat
  <2>1. ASSUME NEW i \in EscrowIds PROVE G[i] \in Nat
    <3>1. escrows'[i] \in EscrowRecord \cup {NoEscrow}
      BY DEF TypeOK
    <3>2. escrows'[i].state = "Active" => escrows'[i].amount \in Nat
      BY <3>1 DEF EscrowRecord, NoEscrow
    <3> QED BY <3>2 DEF HeldAmounts
  <2> QED BY <2>1
<1>3. \A i \in EscrowIds \ {id} : F[i] = G[i]
  BY DEF HeldAmounts
<1>4. IsFiniteSet(EscrowIds)
  BY EscrowIdsFinite
<1> HIDE DEF F, G
<1>5. SumOver(EscrowIds, G) = SumOver(EscrowIds, F) + G[id] - F[id]
  BY <1>1, <1>2, <1>3, <1>4, SumUpdate
<1>6. SumOver(EscrowIds, F) \in Nat
  BY <1>1, <1>4, SumType
<1>7. SumOver(EscrowIds, HeldAmounts)' = SumOver(EscrowIds, G)
  BY DEF G, SumOver, Units
<1> QED BY <1>5, <1>6, <1>7 DEF F, G

\* What is owed is a natural number.
LEMMA OwedType ==
    ASSUME TypeOK
    PROVE  /\ SumOver(Users, deposited) \in Nat /\ SumOver(EscrowIds, HeldAmounts) \in Nat
           /\ Initialized => Pool[Contract] \in Nat
<1>1. SumOver(Users, deposited) \in Nat
  <2>1. IsFiniteSet(Users) /\ \A u \in Users : deposited[u] \in Nat
    BY PaymentsAssumption DEF TypeOK
  <2> QED BY <2>1, SumType
<1>2. SumOver(EscrowIds, HeldAmounts) \in Nat
  BY HeldType, EscrowIdsFinite, SumType
<1>3. Initialized => Pool[Contract] \in Nat
  BY ConfigFacts
<1> QED BY <1>1, <1>2, <1>3

\* The same in the next state.
OwedIsNatural ==
    /\ SumOver(Users, deposited) \in Nat /\ SumOver(EscrowIds, HeldAmounts) \in Nat
    /\ Initialized => Pool[Contract] \in Nat

LEMMA OwedTypeNext == TypeOK' => OwedIsNatural'
<1>1. TypeOK => OwedIsNatural
  BY OwedType DEF OwedIsNatural
<1> QED BY <1>1, PTL

\* Deposits and withdrawals move what the contract has and what it owes alike.
LEMMA DepositKeepsBacking ==
    ASSUME TypeOK, DepositStep
    PROVE  ~(Backing' < Backing)
<1>1. ASSUME NEW u \in Users, NEW amount \in Nat, NEW change \in {amount, -amount},
             Initialized, UNCHANGED <<config, escrows>>,
             deposited' \in [Users -> Nat], deposited'[u] = deposited[u] + change,
             \A v \in Users \ {u} : deposited'[v] = deposited[v],
             balance'[config.token][Contract] \in Nat,
             balance'[config.token][Contract] >= Pool[Contract] + change
      PROVE  ~(Backing' < Backing)
  <2>1. /\ SumOver(Users, deposited) \in Nat
        /\ SumOver(Users, deposited)'
              = SumOver(Users, deposited) + deposited'[u] - deposited[u]
    BY <1>1, DepositedUpdate
  <2>2. deposited[u] \in Nat /\ change \in Int /\ Pool[Contract] \in Nat
    BY <1>1, OwedType DEF TypeOK
  <2>3. SumOver(EscrowIds, HeldAmounts)' = SumOver(EscrowIds, HeldAmounts)
    BY <1>1 DEF HeldAmounts
  <2>4. SumOver(EscrowIds, HeldAmounts) \in Nat
    BY OwedType
  <2>5. Pool'[Contract] = balance'[config.token][Contract]
    BY <1>1 DEF Pool
  <2> QED BY <1>1, <2>1, <2>2, <2>3, <2>4, <2>5 DEF Backing, Owed
<1>2. ASSUME NEW u \in Users, NEW amount \in Amounts, Deposit(u, amount)
      PROVE  ~(Backing' < Backing)
  <2>1. /\ Initialized /\ amount \in Nat /\ UNCHANGED <<config, escrows>>
        /\ deposited' \in [Users -> Nat] /\ deposited'[u] = deposited[u] + amount
        /\ \A v \in Users \ {u} : deposited'[v] = deposited[v]
        /\ balance'[config.token][Contract] = Pool[Contract] + amount
    BY <1>2, DepositEffect
  <2>2. Pool[Contract] \in Nat
    BY <2>1, OwedType
  <2>3. /\ balance'[config.token][Contract] \in Nat
        /\ balance'[config.token][Contract] >= Pool[Contract] + amount
    BY <2>1, <2>2
  <2> QED BY <1>1, <2>1, <2>3
<1>3. ASSUME NEW u \in Users, NEW amount \in Nat, amount <= deposited[u], TakeOut(u, amount)
      PROVE  ~(Backing' < Backing)
  <2>1. /\ Initialized /\ UNCHANGED <<config, escrows>>
        /\ deposited' \in [Users -> Nat] /\ deposited'[u] = deposited[u] - amount
        /\ \A v \in Users \ {u} : deposited'[v] = deposited[v]
        /\ balance' \in [Tokens -> [Accounts -> Nat]]
        /\ balance'[config.token][Contract] >= Pool[Contract] - amount
    BY <1>3, TakeOutEffect
  <2>2. /\ Pool[Contract] \in Nat /\ deposited[u] \in Nat
        /\ balance'[config.token][Contract] \in Nat
    BY <2>1, OwedType, ConfigFacts DEF TypeOK
  <2>3. /\ -amount \in {amount, -amount}
        /\ deposited'[u] = deposited[u] + (-amount)
        /\ balance'[config.token][Contract] >= Pool[Contract] + (-amount)
    BY <2>1, <2>2
  <2> QED BY <1>1, <2>1, <2>2, <2>3
<1> QED BY <1>2, <1>3, DepositCases

\* So do calls on entries.
LEMMA EscrowKeepsBacking ==
    ASSUME TypeOK, TypeOK', EscrowStep
    PROVE  ~(Backing' < Backing)
<1>1. ASSUME NEW depositor \in Users, NEW beneficiary \in Beneficiaries,
             NEW amount \in Amounts, NEW expiry \in Expiries,
             CreateEscrow(depositor, beneficiary, amount, expiry)
      PROVE  ~(Backing' < Backing)
  <2>1. PICK id \in EscrowIds : id = escrow_seq'
    BY <1>1, CreateEffect
  <2>2. /\ Initialized /\ amount \in Nat /\ UNCHANGED <<config, deposited>>
        /\ escrows[id] = NoEscrow
        /\ \A i \in EscrowIds \ {id} : escrows'[i] = escrows[i]
        /\ balance'[config.token][Contract] = Pool[Contract] + amount
    BY <1>1, <2>1, CreateEffect
  <2>3. escrows'[id] =
          [depositor |-> depositor, beneficiary |-> beneficiary, token |-> config.token,
           amount |-> amount, expiry_ledger |-> expiry, state |-> "Active"]
    BY <1>1, <2>1, CreateEffect
  <2>4. HeldAmounts'[id] = amount /\ HeldAmounts[id] = 0
    BY <2>2, <2>3 DEF HeldAmounts, NoEscrow
  <2>5. /\ SumOver(EscrowIds, HeldAmounts) \in Nat
        /\ SumOver(EscrowIds, HeldAmounts)'
              = SumOver(EscrowIds, HeldAmounts) + HeldAmounts'[id] - HeldAmounts[id]
    BY <2>2, HeldUpdate
  <2>6. SumOver(Users, deposited)' = SumOver(Users, deposited) /\ SumOver(Users, deposited) \in Nat
    BY <2>2, OwedType
  <2>7. Pool'[Contract] = balance'[config.token][Contract] /\ Pool[Contract] \in Nat
    BY <2>2, OwedType DEF Pool
  <2> QED BY <2>2, <2>4, <2>5, <2>6, <2>7 DEF Backing, Owed
<1>2. ASSUME NEW caller \in Users, NEW id \in EscrowIds, escrows[id].state = "Active",
             NEW state \in {"Released", "Refunded"}, NEW to \in Accounts,
             CloseEscrow(caller, id, state, to)
      PROVE  ~(Backing' < Backing)
  <2>1. /\ Initialized /\ escrows[id] \in EscrowRecord /\ UNCHANGED <<config, deposited>>
        /\ escrows'[id].state = state
        /\ \A i \in EscrowIds \ {id} : escrows'[i] = escrows[i]
        /\ balance' \in [Tokens -> [Accounts -> Nat]]
        /\ balance'[config.token][Contract] >= Pool[Contract] - escrows[id].amount
    BY <1>2, CloseEffect
  <2>2. HeldAmounts'[id] = 0 /\ HeldAmounts[id] = escrows[id].amount
    BY <1>2, <2>1 DEF HeldAmounts
  <2>3. /\ SumOver(EscrowIds, HeldAmounts) \in Nat
        /\ SumOver(EscrowIds, HeldAmounts)'
              = SumOver(EscrowIds, HeldAmounts) + HeldAmounts'[id] - HeldAmounts[id]
    BY <2>1, HeldUpdate
  <2>4. SumOver(Users, deposited)' = SumOver(Users, deposited) /\ SumOver(Users, deposited) \in Nat
    BY <2>1, OwedType
  <2>5. /\ Pool'[Contract] = balance'[config.token][Contract] /\ Pool[Contract] \in Nat
        /\ balance'[config.token][Contract] \in Nat /\ escrows[id].amount \in Nat
    BY <2>1, OwedType, ConfigFacts DEF Pool, EscrowRecord
  <2> QED BY <2>1, <2>2, <2>3, <2>4, <2>5 DEF Backing, Owed
<1> QED BY <1>1, <1>2, EscrowCases

\* While the token stays the same, nothing but a batch payout makes the
\* contract hold less beyond what it owes.
THEOREM OnlyPayoutsDrain == Spec => OnlyPayoutsEatIntoCustody
<1> DEFINE Step == Initialized /\ config'.token = config.token /\ Backing' < Backing => PayoutStep
<1>1. TypeOK /\ TypeOK' /\ [Next]_vars => [Step]_vars
  <2> SUFFICES ASSUME TypeOK, TypeOK', Next, Initialized, config'.token = config.token,
                      Backing' < Backing
               PROVE  PayoutStep
    OBVIOUS
  <2>1. Backing \in Int
    BY OwedType DEF Backing, Owed
  <2>2. ASSUME ConfigStep \/ Tick PROVE Backing' = Backing
    <3>1. UNCHANGED <<deposited, escrows, balance>>
      BY <2>2 DEF ConfigStep, Initialize, SetFeeRate, Tick
    <3> QED BY <3>1 DEF Backing, Owed, Pool, HeldAmounts
  <2>3. ~(ConfigStep \/ Tick)
    BY <2>1, <2>2
  <2> QED BY <2>3, DepositKeepsBacking, EscrowKeepsBacking DEF Next
<1> QED BY <1>1, TypeCorrect, PTL DEF Spec, OnlyPayoutsEatIntoCustody

-----------------------------------------------------------------------------
(* What CoveredMeansPayable promises, call by call.                        *)

\* If the contract holds what it owes, the guards of withdraw and
\* withdraw_amount hold of every part of a deposit whose fee does not
\* overflow, that of a single unit never does, and the guards of
\* refund_escrow hold of every entry in the list.
CoveredPays ==
    Initialized /\ Backing >= 0 =>
        /\ \A u \in Users : \A amount \in 1 .. deposited[u] :
                FeeIsDefined(amount) => CanPayAll(Pool, Contract, Shares(u, amount))
        /\ \A u \in Users : deposited[u] > 0 => FeeIsDefined(1)
        /\ \A i \in active : /\ escrows[i].state = "Active"
                             /\ CanTransfer(Pool, Contract, escrows[i].amount)

\* Every deposit and every entry is part of what the contract owes.
LEMMA PartsOfOwed ==
    ASSUME TypeOK
    PROVE  /\ \A u \in Users : deposited[u] \in Nat /\ deposited[u] <= Owed
           /\ \A i \in EscrowIds : HeldAmounts[i] \in Nat /\ HeldAmounts[i] <= Owed
<1>1. SumOver(Users, deposited) \in Nat /\ SumOver(EscrowIds, HeldAmounts) \in Nat
  BY OwedType
<1>2. ASSUME NEW S, IsFiniteSet(S), NEW F, \A i \in S : F[i] \in Nat, NEW i \in S
      PROVE  F[i] <= SumOver(S, F)
  <2>1. SumOver({i}, F) <= SumOver(S, F)
    BY <1>2, SumSubset
  <2> QED BY <1>2, <2>1, SumSingleton
<1>3. IsFiniteSet(Users) /\ \A u \in Users : deposited[u] \in Nat
  BY PaymentsAssumption DEF TypeOK
<1>4. \A u \in Users : deposited[u] <= SumOver(Users, deposited)
  BY ONLY <1>2, <1>3
<1>5. IsFiniteSet(EscrowIds) /\ \A i \in EscrowIds : HeldAmounts[i] \in Nat
  BY EscrowIdsFinite, HeldType
<1>6. \A i \in EscrowIds : HeldAmounts[i] <= SumOver(EscrowIds, HeldAmounts)
  BY ONLY <1>2, <1>5
<1> QED BY <1>1, <1>3, <1>4, <1>5, <1>6 DEF Owed

\* A contract that holds what it owes can pay it: any deposit, whole or in
\* parts, with the fee cut out of it, and any active entry.  (withdraw,
\* withdraw_amount, refund_escrow; the products of i128 are larger than the
\* denominator of a rate.)
THEOREM CoveredAlwaysPays == ASSUME BPS_DENOM <= MaxI128 PROVE Spec => []CoveredPays
<1>1. TypeOK /\ ActiveListIsExact => CoveredPays
  <2> SUFFICES ASSUME TypeOK, ActiveListIsExact, Initialized, Backing >= 0
               PROVE  /\ \A u \in Users : \A amount \in 1 .. deposited[u] :
                            CanPayAll(Pool, Contract, Shares(u, amount))
                      /\ FeeIsDefined(1)
                      /\ \A i \in active : /\ escrows[i].state = "Active"
                                           /\ CanTransfer(Pool, Contract, escrows[i].amount)
    BY DEF CoveredPays
  <2>1. Pool[Contract] \in Nat /\ Owed \in Nat
    BY OwedType DEF Owed
  <2>2. Owed <= Pool[Contract]
    BY <2>1 DEF Backing
  <2>3. ASSUME NEW u \in Users, NEW amount \in 1 .. deposited[u]
        PROVE  CanPayAll(Pool, Contract, Shares(u, amount))
    <3>1. deposited[u] \in Nat /\ deposited[u] <= Owed
      BY PartsOfOwed
    <3>2. amount \in Nat /\ amount <= Pool[Contract]
      BY <2>1, <2>2, <3>1
    <3> DEFINE pay == Shares(u, amount)
    <3>3. /\ 1 \in Int /\ 2 \in Int /\ DOMAIN pay = 1 .. 2
          /\ \A k \in 1 .. 2 : pay[k].amount \in Nat
          /\ PayTotal(pay) = amount
      BY <3>2, SharesTotal
    <3> HIDE DEF pay
    <3>4. CanPayAll(Pool, Contract, pay)
      BY ONLY <2>1, <3>2, <3>3, CoveredIsPayable
    <3> QED BY <3>4 DEF pay
  <2>4. FeeIsDefined(1)
    BY ConfigFacts, PaymentsAssumption DEF FeeIsDefined, BPS_DENOM
  <2>5. ASSUME NEW i \in active
        PROVE  escrows[i].state = "Active" /\ CanTransfer(Pool, Contract, escrows[i].amount)
    <3>1. i \in EscrowIds /\ escrows[i].state = "Active"
      BY DEF ActiveListIsExact
    <3>2. HeldAmounts[i] = escrows[i].amount /\ HeldAmounts[i] \in Nat /\ HeldAmounts[i] <= Owed
      BY <3>1, HeldType, PartsOfOwed
    <3> QED BY <2>1, <2>2, <3>1, <3>2 DEF CanTransfer
  <2> QED BY <2>3, <2>4, <2>5
<1> QED BY <1>1, TypeCorrect, ActiveListCorrect, PTL DEF Spec

\* The next states of a withdrawal and of a refund, every variable given a
\* value and nothing asked of the present ones: there always are some.
TakenOut(who, amount) ==
    /\ balance' = [balance EXCEPT
                        ![config.token] = PayAll(@, Contract, Shares(who, amount))]
    /\ deposited' = [deposited EXCEPT ![who] = @ - amount]
    /\ total' = Reduced(total, amount)
    /\ UNCHANGED <<sequence, inits, config, escrow_seq, escrows, active>>

GivenBack(i) ==
    /\ escrows' = [escrows EXCEPT ![i].state = "Refunded"]
    /\ active' = RemoveFromActive(i)
    /\ balance' = [balance EXCEPT
            ![config.token] = Transfer(@, Contract, escrows[i].depositor, escrows[i].amount)]
    /\ UNCHANGED <<sequence, inits, config, deposited, total, escrow_seq>>

\* The calls that a contract which holds what it owes lets through: every
\* withdrawal whose fee is defined, one unit at least, and every refund.
CallsGoThrough ==
    Initialized /\ Backing >= 0 =>
        /\ \A u \in Users : \A amount \in 1 .. deposited[u] :
                FeeIsDefined(amount) /\ TakenOut(u, amount) =>
                    WithdrawAmount(u, amount) /\ (amount = deposited[u] => Withdraw(u))
        /\ \A u \in Users : deposited[u] > 0 => FeeIsDefined(1)
        /\ \A i \in active : GivenBack(i) => RefundEscrow(config.admin, i)

\* What CoveredMeansPayable says, with the steps themselves in place of ENABLED.
\* (withdraw, withdraw_amount, refund_escrow.)
THEOREM CoveredCallsGoThrough == ASSUME TypeOK, CoveredPays PROVE CallsGoThrough
<1> SUFFICES ASSUME Initialized, Backing >= 0
             PROVE  /\ \A u \in Users : \A amount \in 1 .. deposited[u] :
                            FeeIsDefined(amount) /\ TakenOut(u, amount) =>
                                WithdrawAmount(u, amount) /\ (amount = deposited[u] => Withdraw(u))
                    /\ \A u \in Users : deposited[u] > 0 => FeeIsDefined(1)
                    /\ \A i \in active : GivenBack(i) => RefundEscrow(config.admin, i)
  BY DEF CallsGoThrough
<1>1. ASSUME NEW u \in Users, NEW amount \in 1 .. deposited[u],
             FeeIsDefined(amount), TakenOut(u, amount)
      PROVE  WithdrawAmount(u, amount) /\ (amount = deposited[u] => Withdraw(u))
  <2>1. CanPayAll(Pool, Contract, Shares(u, amount))
    BY <1>1 DEF CoveredPays
  <2>2. TakeOut(u, amount)
    BY <1>1, <2>1 DEF TakenOut, TakeOut, PayOut
  <2>3. deposited[u] \in Nat /\ amount \in Nat /\ amount > 0
    BY DEF TypeOK
  <2>4. WithdrawAmount(u, amount)
    BY <2>2 DEF WithdrawAmount
  <2>5. amount = deposited[u] => Withdraw(u)
    BY <2>2, <2>3 DEF Withdraw
  <2> QED BY <2>4, <2>5
<1>2. ASSUME NEW i \in active, GivenBack(i)
      PROVE  RefundEscrow(config.admin, i)
  <2>1. escrows[i].state = "Active" /\ CanTransfer(Pool, Contract, escrows[i].amount)
    BY DEF CoveredPays
  <2>2. Move(Contract, escrows[i].depositor, escrows[i].amount)
    BY <1>2, <2>1 DEF GivenBack, Move
  <2> QED BY <1>2, <2>1, <2>2 DEF RefundEscrow, CloseEscrow, GivenBack
<1>3. \A u \in Users : deposited[u] > 0 => FeeIsDefined(1)
  BY DEF CoveredPays
<1> QED BY <1>1, <1>2, <1>3

-----------------------------------------------------------------------------
(* Why FundsAreHeld fails, and when it does not.                           *)

\* A contract that nobody configured owes nothing, one that is configured
\* holds what it owes.
Covered ==
    /\ ~Initialized => Owed = 0
    /\ Initialized => Backing >= 0

\* A payout leaves what is owed, and the token is not exchanged.
Prudent ==
    /\ Next
    /\ PayoutStep => Backing' >= 0
    /\ Initialized => config'.token = config.token

\* Before the first call nothing is owed.
LEMMA InitCovered == Init => Covered
<1> SUFFICES ASSUME Init PROVE Covered
  OBVIOUS
<1>1. ~Initialized
  BY DEF Init, Initialized
<1>2. \A u \in Users : deposited[u] = 0
  BY DEF Init
<1>3. \A i \in EscrowIds : HeldAmounts[i] = 0
  BY DEF Init, HeldAmounts, NoEscrow
<1>4. ASSUME NEW S, NEW F, \A i \in S : F[i] = 0
      PROVE  SumOver(S, F) = 0
  <2>1. \A i \in S : {i} \X (1 .. F[i]) = {}
    BY <1>4
  <2>2. Units(S, F) = {}
    BY <2>1 DEF Units
  <2> QED BY <2>2, FS_EmptySet DEF SumOver
<1>5. SumOver(Users, deposited) = 0
  BY ONLY <1>2, <1>4
<1>6. SumOver(EscrowIds, HeldAmounts) = 0
  BY ONLY <1>3, <1>4
<1> QED BY <1>1, <1>5, <1>6 DEF Covered, Owed

\* Prudent steps keep what is owed covered.
LEMMA PrudentStep == TypeOK /\ TypeOK' /\ Covered /\ [Prudent]_vars => Covered'
<1> SUFFICES ASSUME TypeOK, TypeOK', Covered, [Prudent]_vars PROVE Covered'
  OBVIOUS
<1>1. Owed \in Nat /\ (Initialized => Pool[Contract] \in Nat /\ Backing \in Int)
  BY OwedType DEF Owed, Backing
<1>2. ASSUME UNCHANGED <<deposited, escrows>>
      PROVE  Owed' = Owed
  BY <1>2 DEF Owed, HeldAmounts
<1>3. CASE UNCHANGED vars
  BY <1>2, <1>3 DEF vars, Covered, Initialized, Backing, Pool
<1>4. CASE Tick
  BY <1>2, <1>4 DEF Tick, Covered, Initialized, Backing, Pool
<1>5. ASSUME NEW admin \in Admins, NEW token \in Tokens, NEW rate \in FeeRates,
             NEW recipient \in FeeRecipients, Initialize(admin, token, rate, recipient),
             Initialized => config'.token = config.token
      PROVE  Covered'
  <2>1. /\ config' = [admin |-> admin, token |-> token, fee_rate |-> rate,
                      fee_recipient |-> recipient]
        /\ UNCHANGED <<deposited, escrows, balance>>
    BY <1>5 DEF Initialize
  <2>2. Owed' = Owed
    BY <1>2, <2>1
  <2>3. admin # NoAddress /\ Contract \in Accounts
    BY PaymentsAssumption DEF Accounts
  <2>4. Initialized'
    BY <2>1, <2>3 DEF Initialized, NoConfig
  <2>5. Pool'[Contract] = balance[token][Contract] /\ balance[token][Contract] \in Nat
    BY <2>1, <2>3 DEF Pool, TypeOK
  <2>6. CASE Initialized
    BY <1>5, <2>1, <2>2, <2>4, <2>6 DEF Covered, Backing, Pool
  <2>7. CASE ~Initialized
    BY <2>2, <2>4, <2>5, <2>7 DEF Covered, Backing
  <2> QED BY <2>6, <2>7
<1>6. ASSUME NEW caller \in Users, NEW rate \in FeeRates, SetFeeRate(caller, rate)
      PROVE  Covered'
  <2>1. Initialized /\ UNCHANGED <<deposited, escrows, balance>>
    BY <1>6, AdminMeansInitialized DEF SetFeeRate
  <2>2. config' = [config EXCEPT !.fee_rate = rate] /\ config \in PaymentConfig
    BY <1>6, <2>1, ConfigFacts DEF SetFeeRate
  <2>3. config'.token = config.token /\ config'.admin = config.admin /\ config.admin \in Users
    BY <2>2 DEF PaymentConfig
  <2>4. Initialized'
    BY <2>3, PaymentsAssumption DEF Initialized, NoConfig, Accounts
  <2> QED BY <1>2, <2>1, <2>3, <2>4 DEF Covered, Backing, Pool
<1>7. CASE DepositStep \/ EscrowStep
  <2>1. Initialized /\ config' = config
    BY <1>7, AdminMeansInitialized DEF DepositStep, Deposit, Withdraw, WithdrawAmount, TakeOut,
        EscrowStep, CreateEscrow, ReleaseEscrow, RefundEscrow, CloseEscrow
  <2>2. ~(Backing' < Backing)
    BY <1>7, DepositKeepsBacking, EscrowKeepsBacking
  <2>3. Initialized'
    BY <2>1 DEF Initialized
  <2>4. Backing' \in Int
    <3>1. SumOver(Users, deposited)' \in Nat /\ SumOver(EscrowIds, HeldAmounts)' \in Nat
          /\ Pool'[Contract] \in Nat
      BY <2>3, OwedTypeNext DEF OwedIsNatural
    <3> QED BY <3>1 DEF Backing, Owed
  <2>5. Backing \in Int /\ Backing >= 0
    BY <1>1, <2>1 DEF Covered
  <2> QED BY <2>2, <2>3, <2>4, <2>5 DEF Covered
<1>8. CASE PayoutStep /\ Prudent
  <2>1. Initialized /\ config' = config
    BY <1>8, AdminMeansInitialized DEF PayoutStep, BatchPayout
  <2> QED BY <1>8, <2>1 DEF Prudent, Covered, Initialized
<1>9. CASE ConfigStep /\ Prudent
  BY <1>5, <1>6, <1>9 DEF ConfigStep, Prudent
<1>10. Prudent => \/ Tick
                  \/ ConfigStep /\ Prudent
                  \/ DepositStep
                  \/ EscrowStep
                  \/ PayoutStep /\ Prudent
  BY DEF Prudent, Next
<1> QED BY <1>3, <1>4, <1>7, <1>8, <1>9, <1>10

\* The two calls behind the failure of FundsAreHeld, and no other: as long as
\* no payout takes what is owed and no second initialize exchanges the token,
\* the contract holds every deposit and every active entry, for any number of
\* users, calls and entries.  (batch_payout, initialize.)
THEOREM PrudenceHoldsTheFunds ==
    Init /\ [][Prudent]_vars => []((Initialized => Backing >= 0) /\ FundsAreHeld)
<1>1. [Prudent]_vars => [Next]_vars
  BY DEF Prudent
<1>2. TypeOK /\ Covered => (Initialized => Backing >= 0) /\ FundsAreHeld
  BY OwedType DEF Covered, Backing, Owed, FundsAreHeld
<1> QED BY <1>1, <1>2, InitType, NextType, InitCovered, PrudentStep, PTL

-----------------------------------------------------------------------------
(* Payments implements Escrow.                                             *)

\* Creating an entry opens its deal.
LEMMA CreateOpens ==
    ASSUME TypeOK, NEW id \in EscrowIds, id = escrow_seq',
           NEW depositor \in Users, NEW beneficiary \in Beneficiaries,
           NEW amount \in Amounts, NEW expiry \in Expiries,
           CreateEscrow(depositor, beneficiary, amount, expiry)
    PROVE  E!Open(id)
<1> DEFINE d == [stage |-> "Held", from |-> depositor, to |-> beneficiary,
                 amount |-> amount, deadline |-> expiry]
<1>1. /\ Initialized /\ amount \in Nat \ {0} /\ expiry > sequence
      /\ escrows[id] = NoEscrow
      /\ \A i \in EscrowIds \ {id} : escrows'[i] = escrows[i]
      /\ CanTransfer(Pool, depositor, amount)
      /\ balance'[config.token] = Transfer(Pool, depositor, Contract, amount)
      /\ UNCHANGED <<sequence, config>>
  <2>1. /\ Initialized /\ amount \in Nat \ {0} /\ expiry > sequence
        /\ CanTransfer(Pool, depositor, amount)
        /\ UNCHANGED <<sequence, config>>
    BY CreateEffect
  <2>2. balance'[config.token] = Transfer(Pool, depositor, Contract, amount)
    <3>1. Move(depositor, Contract, amount)
      BY DEF CreateEscrow
    <3>2. config.token \in Tokens
      BY <2>1, ConfigFacts
    <3> QED BY <3>1, <3>2 DEF Move, Pool, TypeOK
  <2>3. escrows[escrow_seq'] = NoEscrow
    BY CreateEffect
  <2>4. \A i \in EscrowIds \ {escrow_seq'} : escrows'[i] = escrows[i]
    BY CreateEffect
  <2> QED BY <2>1, <2>2, <2>3, <2>4
<1>2. escrows'[id] =
        [depositor |-> depositor, beneficiary |-> beneficiary, token |-> config.token,
         amount |-> amount, expiry_ledger |-> expiry, state |-> "Active"]
  BY CreateEffect
<1>3. Entries[id] = [stage |-> "None"]
  BY <1>1 DEF Entries
<1>4. Entries'[id] = d
  <2>1. escrows'[id].state = "Active" /\ escrows'[id] # NoEscrow
    BY <1>2 DEF NoEscrow
  <2> QED BY <1>2, <2>1 DEF Entries, EntryStage
<1>5. \A i \in EscrowIds \ {id} : Entries'[i] = Entries[i]
  BY <1>1 DEF Entries, EntryStage
<1>6. Entries' = [Entries EXCEPT ![id] = d]
  <2>1. Entries' = [i \in EscrowIds |-> Entries'[i]] /\ Entries = [i \in EscrowIds |-> Entries[i]]
    BY DEF Entries
  <2> HIDE DEF d
  <2> QED BY <1>4, <1>5, <2>1
<1>7. /\ Pool \in [Accounts -> Nat] /\ Users \subseteq Accounts /\ Contract \notin Users
      /\ Contract \in Accounts
  BY <1>1, ConfigFacts
<1>8. Purses[depositor] = Pool[depositor] /\ amount <= Pool[depositor]
  BY <1>1 DEF Purses, CanTransfer
<1>9. Purses' = E!Moved(depositor, -amount)
  <2>1. Purses' = [u \in Users |-> balance'[config.token][u]]
    BY <1>1 DEF Purses, Pool, Initialized
  <2>2. \A u \in Users : balance'[config.token][u]
                            = IF u = depositor THEN Pool[u] + -amount ELSE Pool[u]
    BY <1>1, <1>7 DEF Transfer
  <2>3. E!Moved(depositor, -amount)
            = [u \in Users |-> IF u = depositor THEN Pool[u] + -amount ELSE Pool[u]]
    BY <1>1 DEF Purses, E!Moved
  <2> QED BY <2>1, <2>2, <2>3
<1>10. /\ d.stage = "Held" /\ d.from = depositor /\ d.deadline = expiry /\ d.amount = amount
  OBVIOUS
<1> HIDE DEF d
<1> QED BY <1>1, <1>3, <1>4, <1>6, <1>8, <1>9, <1>10 DEF E!Open, E!NoDeal

\* Closing an entry closes its deal and pays one side of it.
LEMMA CloseCloses ==
    ASSUME TypeOK, NEW caller \in Users, NEW id \in EscrowIds, escrows[id].state = "Active",
           NEW state \in {"Released", "Refunded"}, NEW to \in Accounts,
           CloseEscrow(caller, id, state, to)
    PROVE  /\ E!Close(id, EntryStage(state))
           /\ Purses' = E!Moved(to, escrows[id].amount)
           /\ Entries[id] = [stage |-> "Held", from |-> escrows[id].depositor,
                             to |-> escrows[id].beneficiary, amount |-> escrows[id].amount,
                             deadline |-> escrows[id].expiry_ledger]
<1>1. /\ Initialized /\ escrows[id] \in EscrowRecord
      /\ \A i \in EscrowIds \ {id} : escrows'[i] = escrows[i]
      /\ CanTransfer(Pool, Contract, escrows[id].amount)
      /\ balance'[config.token] = Transfer(Pool, Contract, to, escrows[id].amount)
      /\ UNCHANGED <<sequence, config>>
  BY CloseEffect
<1>2. escrows'[id] = [escrows[id] EXCEPT !.state = state]
  BY DEF CloseEscrow, TypeOK
<1>3. Entries[id] = [stage |-> "Held", from |-> escrows[id].depositor,
                     to |-> escrows[id].beneficiary, amount |-> escrows[id].amount,
                     deadline |-> escrows[id].expiry_ledger]
  BY DEF Entries, EntryStage, NoEscrow
<1>4. Entries'[id] = [Entries[id] EXCEPT !.stage = EntryStage(state)]
  <2>1. escrows'[id] # NoEscrow /\ escrows'[id].state = state
    BY <1>1, <1>2 DEF EscrowRecord, NoEscrow
  <2> QED BY <1>1, <1>2, <1>3, <2>1 DEF Entries, EscrowRecord, EntryStage
<1>5. \A i \in EscrowIds \ {id} : Entries'[i] = Entries[i]
  BY <1>1 DEF Entries, EntryStage
<1>6. Entries' = [Entries EXCEPT ![id].stage = EntryStage(state)]
  <2>1. Entries' = [i \in EscrowIds |-> Entries'[i]] /\ Entries = [i \in EscrowIds |-> Entries[i]]
    BY DEF Entries
  <2> QED BY <1>4, <1>5, <2>1
<1>7. /\ Pool \in [Accounts -> Nat] /\ Users \subseteq Accounts /\ Contract \notin Users
      /\ Contract \in Accounts /\ escrows[id].amount \in Nat
  BY <1>1, ConfigFacts DEF EscrowRecord
<1>8. Purses' = E!Moved(to, escrows[id].amount)
  <2>1. Purses' = [u \in Users |-> balance'[config.token][u]]
    BY <1>1 DEF Purses, Pool, Initialized
  <2>2. \A u \in Users : balance'[config.token][u]
                            = IF u = to THEN Pool[u] + escrows[id].amount ELSE Pool[u]
    BY <1>1, <1>7 DEF Transfer
  <2>3. E!Moved(to, escrows[id].amount)
            = [u \in Users |-> IF u = to THEN Pool[u] + escrows[id].amount ELSE Pool[u]]
    BY <1>1 DEF Purses, E!Moved
  <2> QED BY <2>1, <2>2, <2>3
<1> QED BY <1>1, <1>3, <1>6, <1>8 DEF E!Close

\* The escrow entries of the payments contract implement the abstract escrow:
\* each is closed once, with one payment of its whole amount to one side, and
\* only the beneficiary's side has a deadline.
THEOREM PaymentsImplementEscrow == Spec => ImplementsEscrow
<1>1. Init => E!Init
  <2> SUFFICES ASSUME Init PROVE E!Init
    OBVIOUS
  <2>1. Entries = [i \in EscrowIds |-> E!NoDeal]
    BY DEF Init, Entries, E!NoDeal
  <2>2. Purses \in [Users -> Nat]
    BY DEF Init, Purses, Initialized
  <2> QED BY <2>1, <2>2 DEF Init, E!Init
<1>2. TypeOK /\ [Next]_vars => [E!Next]_(E!vars)
  <2> SUFFICES ASSUME TypeOK, [Next]_vars PROVE [E!Next]_(E!vars)
    OBVIOUS
  <2>1. CASE EscrowStep
    <3>1. ASSUME NEW depositor \in Users, NEW beneficiary \in Beneficiaries,
                 NEW amount \in Amounts, NEW expiry \in Expiries,
                 CreateEscrow(depositor, beneficiary, amount, expiry)
          PROVE  E!Next
      <4>1. PICK id \in EscrowIds : id = escrow_seq'
        BY <3>1, CreateEffect
      <4>2. E!Open(id)
        BY <3>1, <4>1, CreateOpens
      <4> QED BY <4>2 DEF E!Next
    <3>2. ASSUME NEW caller \in Users, NEW id \in EscrowIds, escrows[id].state = "Active",
                 sequence <= escrows[id].expiry_ledger, escrows[id].beneficiary \in Accounts,
                 CloseEscrow(caller, id, "Released", escrows[id].beneficiary)
          PROVE  E!Next
      <4>1. PICK to \in Accounts : to = escrows[id].beneficiary
        BY <3>2
      <4>2. /\ E!Close(id, EntryStage("Released"))
            /\ Purses' = E!Moved(to, escrows[id].amount)
            /\ Entries[id] = [stage |-> "Held", from |-> escrows[id].depositor,
                              to |-> escrows[id].beneficiary, amount |-> escrows[id].amount,
                              deadline |-> escrows[id].expiry_ledger]
        BY <3>2, <4>1, CloseCloses
      <4>3. E!Deliver(id)
        BY <3>2, <4>1, <4>2 DEF E!Deliver, EntryStage
      <4> QED BY <4>3 DEF E!Next
    <3>3. ASSUME NEW caller \in Users, NEW id \in EscrowIds, escrows[id].state = "Active",
                 escrows[id].depositor \in Accounts,
                 CloseEscrow(caller, id, "Refunded", escrows[id].depositor)
          PROVE  E!Next
      <4>1. PICK to \in Accounts : to = escrows[id].depositor
        BY <3>3
      <4>2. /\ E!Close(id, EntryStage("Refunded"))
            /\ Purses' = E!Moved(to, escrows[id].amount)
            /\ Entries[id] = [stage |-> "Held", from |-> escrows[id].depositor,
                              to |-> escrows[id].beneficiary, amount |-> escrows[id].amount,
                              deadline |-> escrows[id].expiry_ledger]
        BY <3>3, <4>1, CloseCloses
      <4>3. E!Return(id)
        BY <4>1, <4>2 DEF E!Return, EntryStage
      <4> QED BY <4>3 DEF E!Next
    <3> QED BY <2>1, <3>1, <3>2, <3>3, EscrowCases
  <2>2. CASE Tick
    <3>1. sequence' > sequence /\ UNCHANGED <<config, escrows, balance>>
      BY <2>2 DEF Tick, TypeOK
    <3>2. E!Pass
      BY <3>1 DEF E!Pass, Entries, Purses, Pool, Initialized
    <3> QED BY <3>2 DEF E!Next
  <2>3. CASE UNCHANGED <<sequence, escrows>>
    <3>1. E!OtherBusiness
      BY <2>3 DEF E!OtherBusiness, Entries
    <3> QED BY <3>1 DEF E!Next
  <2>4. EscrowStep \/ Tick \/ UNCHANGED <<sequence, escrows>>
    BY DEF Next, vars, ConfigStep, Initialize, SetFeeRate, DepositStep, Deposit,
           Withdraw, WithdrawAmount, TakeOut, PayoutStep, BatchPayout
  <2> QED BY <2>1, <2>2, <2>3, <2>4
<1> QED BY <1>1, <1>2, TypeCorrect, PTL DEF Spec, ImplementsEscrow, E!Spec

-----------------------------------------------------------------------------
(* The batch executor: BatchRun implements BatchOutcome.                   *)

\* The tokens of the abstract batch are those of the executor.
LEMMA SameLedger ==
    /\ \A S : OneStep!Cardinality(S) = Cardinality(S)
    /\ \A b, f, p : OneStep!CanPayAll(b, f, p) <=> CanPayAll(b, f, p)
    /\ \A b, f, p : OneStep!PayAll(b, f, p) = PayAll(b, f, p)
    /\ \A ops : OneStep!Performed(ops) = Performed(ops)
    /\ \A ops : OneStep!Reverted(ops) <=> Reverted(ops)
    /\ \A ops : OneStep!Accepted(ops, MaxOperations) <=> Accepted(ops, MaxOperations)
    /\ \A op : OneStep!ValidTransfer(op) <=> ValidTransfer(op)
    /\ \A ops, S : OneStep!Only(ops, S) = Only(ops, S)
<1>0. ASSUME NEW S PROVE OneStep!Cardinality(S) = Cardinality(S)
  BY DEF OneStep!Cardinality, Cardinality
<1>1. ASSUME NEW S, NEW F PROVE OneStep!SumOver(S, F) = SumOver(S, F)
  <2>1. OneStep!Units(S, F) = Units(S, F)
    BY DEF OneStep!Units, Units
  <2> QED BY <1>0, <2>1 DEF OneStep!SumOver, SumOver
<1>2. \A p : OneStep!PayAmounts(p) = PayAmounts(p)
  BY DEF OneStep!PayAmounts, PayAmounts
<1>3. \A b, f, p : OneStep!CanPayAll(b, f, p) <=> CanPayAll(b, f, p)
  BY <1>1, <1>2 DEF OneStep!CanPayAll, CanPayAll
<1>4. /\ \A p : OneStep!PayTotal(p) = PayTotal(p)
      /\ \A p, a : OneStep!PaidTo(p, a) = PaidTo(p, a)
  BY <1>1, <1>2 DEF OneStep!PayTotal, PayTotal, OneStep!PaidTo, PaidTo
<1>5. \A b, f, p : OneStep!PayAll(b, f, p) = PayAll(b, f, p)
  BY <1>4 DEF OneStep!PayAll, PayAll
<1>6. \A op : OneStep!ValidTransfer(op) <=> ValidTransfer(op)
  BY DEF OneStep!ValidTransfer, ValidTransfer
<1>7. /\ \A ops : OneStep!Performed(ops) = Performed(ops)
      /\ \A ops : OneStep!Reverted(ops) <=> Reverted(ops)
  BY <1>6 DEF OneStep!Performed, Performed, OneStep!Reverted, Reverted
<1>8. \A ops, S : OneStep!Only(ops, S) = Only(ops, S)
  BY DEF OneStep!Only, Only
<1>9. \A ops : OneStep!Accepted(ops, MaxOperations) <=> Accepted(ops, MaxOperations)
  BY DEF OneStep!Accepted, Accepted, OneStep!ABSOLUTE_MAX_BATCH_SIZE, ABSOLUTE_MAX_BATCH_SIZE
<1> QED BY <1>0, <1>3, <1>5, <1>6, <1>7, <1>8, <1>9

\* The flags after the invocations at the positions of S, from any flags f.
FlagsMade(f, calls, S) ==
    [t \in DOMAIN f |->
        LET hits == {k \in S : calls[k].target = t}
        IN  IF hits = {} THEN f[t]
            ELSE calls[CHOOSE k \in hits : \A j \in hits : j <= k].flag]

LEMMA SameFlags == \A calls, S : OneStep!FlagsAfter(calls, S) = FlagsMade(Seen.flags, calls, S)
BY DEF OneStep!FlagsAfter, FlagsMade

\* Without an invocation the flags are what they were.
LEMMA NoFlagMade == ASSUME NEW f \in [Targets -> BOOLEAN], NEW calls PROVE FlagsMade(f, calls, {}) = f
BY DEF FlagsMade

\* One more invocation, after all the others, sets the flag of its target.
LEMMA OneMoreFlag ==
    ASSUME NEW f \in [Targets -> BOOLEAN], NEW calls, NEW S \in SUBSET Int, NEW n \in Int,
           \A j \in S : j < n, calls[n].target \in Targets
    PROVE  FlagsMade(f, calls, S \cup {n})
             = [FlagsMade(f, calls, S) EXCEPT ![calls[n].target] = calls[n].flag]
<1> DEFINE Hits(T, t) == {k \in T : calls[k].target = t}
           Last(T, t) == CHOOSE k \in Hits(T, t) : \A j \in Hits(T, t) : j <= k
           F(T) == FlagsMade(f, calls, T)
<1>1. \A T : F(T) = [t \in Targets |-> IF Hits(T, t) = {} THEN f[t] ELSE calls[Last(T, t)].flag]
  BY DEF FlagsMade
<1>2. ASSUME NEW t \in Targets, t # calls[n].target
      PROVE  F(S \cup {n})[t] = F(S)[t]
  <2>1. Hits(S \cup {n}, t) = Hits(S, t)
    BY <1>2
  <2> HIDE DEF Hits
  <2>2. Last(S \cup {n}, t) = Last(S, t)
    BY <2>1
  <2> HIDE DEF Last, F
  <2> QED BY <1>1, <1>2, <2>1, <2>2
<1>3. F(S \cup {n})[calls[n].target] = calls[n].flag
  <2> DEFINE H == Hits(S \cup {n}, calls[n].target)
  <2>1. n \in H /\ \A j \in H : j <= n /\ j \in Int
    OBVIOUS
  <2> HIDE DEF H
  <2>2. (CHOOSE k \in H : \A j \in H : j <= k) = n
    <3>1. \A k \in H : (\A j \in H : j <= k) => k = n
      BY <2>1
    <3>2. n \in H /\ \A j \in H : j <= n
      BY <2>1
    <3> QED BY ONLY <3>1, <3>2
  <2>3. Last(S \cup {n}, calls[n].target) = n
    BY <2>2 DEF H
  <2>4. Hits(S \cup {n}, calls[n].target) # {}
    BY <2>1 DEF H
  <2> HIDE DEF Last, Hits, F
  <2> QED BY <1>1, <2>3, <2>4
<1> HIDE DEF Hits, Last
<1>4. /\ F(S) = [t \in Targets |-> F(S)[t]]
      /\ F(S \cup {n}) = [t \in Targets |-> F(S \cup {n})[t]]
  BY <1>1
<1> HIDE DEF F
<1>5. F(S \cup {n}) = [F(S) EXCEPT ![calls[n].target] = calls[n].flag]
  BY <1>2, <1>3, <1>4
<1> QED BY <1>5 DEF F

\* A running batch is a record with all its fields.
LEMMA RunFields ==
    ASSUME RunTypeOK, Running
    PROVE  /\ run \in RunRecord
           /\ Seen = run.saved
           /\ run.saved.balances \in [Holders -> Nat] /\ run.saved.flags \in [Targets -> BOOLEAN]
           /\ Len(run.results) \in Nat /\ DOMAIN run.results = 1 .. Len(run.results)
           /\ Len(run.ops) \in Nat /\ DOMAIN run.ops = 1 .. Len(run.ops)
           /\ Succeeded \in SUBSET (1 .. Len(run.results)) /\ IsFiniteSet(Succeeded)
           /\ Cardinality(Succeeded) \in Nat
<1>1. run \in RunRecord
  BY DEF RunTypeOK, Running
<1>2. /\ run.results \in Seq({"Success", "Failure"}) /\ run.ops \in Transfers \cup Invocations
      /\ run.saved \in [balances : [Holders -> Nat], flags : [Targets -> BOOLEAN]]
  BY <1>1 DEF RunRecord
<1>3. Len(run.results) \in Nat /\ DOMAIN run.results = 1 .. Len(run.results)
  BY <1>2
<1>4. Len(run.ops) \in Nat /\ DOMAIN run.ops = 1 .. Len(run.ops)
  BY <1>2, BatchAssumption
<1>5. Succeeded \in SUBSET (1 .. Len(run.results))
  BY <1>3 DEF Succeeded
<1>6. IsFiniteSet(1 .. Len(run.results))
  BY <1>3, FS_Interval
<1>7. IsFiniteSet(Succeeded) /\ Cardinality(Succeeded) \in Nat
  BY ONLY <1>5, <1>6, FS_Subset, FS_CardinalityType
<1> QED BY <1>1, <1>2, <1>3, <1>4, <1>5, <1>7 DEF Seen

\* One more result: everything the executor knows but the result is kept.
Kept ==
    /\ run' \in RunRecord
    /\ run'.kind = run.kind /\ run'.mode = run.mode /\ run'.payer = run.payer
    /\ run'.ops = run.ops /\ run'.saved = run.saved
    /\ run'.next = run.next + 1
    /\ DOMAIN run'.results = 1 .. run.next
    /\ Len(run'.results) = run.next

\* A success counts the present operation in.
LEMMA OneMoreSuccess ==
    ASSUME RunTypeOK, Running, Tally, InLoop, Succeed, answer' = answer
    PROVE  /\ Kept /\ run'.reverted = run.reverted
           /\ run.next = Len(run.results) + 1 /\ run.next \in DOMAIN run.ops
           /\ Succeeded' = Succeeded \cup {run.next}
           /\ Tally'
<1>1. /\ run \in RunRecord
      /\ Len(run.results) \in Nat /\ DOMAIN run.results = 1 .. Len(run.results)
      /\ Len(run.ops) \in Nat /\ DOMAIN run.ops = 1 .. Len(run.ops)
      /\ Succeeded \in SUBSET (1 .. Len(run.results)) /\ IsFiniteSet(Succeeded)
      /\ Cardinality(Succeeded) \in Nat
  BY RunFields
<1>2. /\ run.next \in Nat /\ run.results \in Seq({"Success", "Failure"})
      /\ run.succeeded \in Nat /\ run.failed \in Nat
  BY <1>1 DEF RunRecord
<1>3. run.next = Len(run.results) + 1 /\ run.next \in DOMAIN run.ops
  BY <1>1, <1>2 DEF Tally, InLoop
<1> DEFINE rs == Append(run.results, "Success")
<1>4. /\ rs \in Seq({"Success", "Failure"}) /\ Len(rs) = run.next /\ DOMAIN rs = 1 .. run.next
      /\ rs[run.next] = "Success"
      /\ \A k \in 1 .. Len(run.results) : rs[k] = run.results[k]
  BY <1>1, <1>2, <1>3
<1> HIDE DEF rs
<1>5. /\ run' \in RunRecord
      /\ run'.kind = run.kind /\ run'.mode = run.mode /\ run'.payer = run.payer
      /\ run'.ops = run.ops /\ run'.saved = run.saved /\ run'.reverted = run.reverted
      /\ run'.next = run.next + 1 /\ run'.results = rs
      /\ run'.succeeded = run.succeeded + 1 /\ run'.failed = run.failed
  <2>1. run' = [run EXCEPT !.results = rs, !.succeeded = @ + 1, !.next = @ + 1]
    BY DEF Succeed, rs
  <2>2. run.next + 1 \in Nat \ {0} /\ run.succeeded + 1 \in Nat
    BY <1>2
  <2> QED BY <1>1, <1>4, <2>1, <2>2 DEF RunRecord
<1>6. Succeeded' = Succeeded \cup {run.next}
  <2>1. Succeeded' = {k \in 1 .. run.next : rs[k] = "Success"}
    BY <1>4, <1>5 DEF Succeeded
  <2>2. \A k \in 1 .. run.next : k = run.next \/ k \in 1 .. Len(run.results)
    BY <1>1, <1>3
  <2>3. \A k \in 1 .. Len(run.results) : k \in 1 .. run.next
    BY <1>1, <1>3
  <2>4. run.next \in 1 .. run.next
    BY <1>1, <1>3
  <2>5. Succeeded = {k \in 1 .. Len(run.results) : run.results[k] = "Success"}
    BY <1>1 DEF Succeeded
  <2> QED BY <1>4, <2>1, <2>2, <2>3, <2>4, <2>5
<1>7. Cardinality(Succeeded') = Cardinality(Succeeded) + 1
  <2>1. run.next \notin Succeeded
    BY <1>1, <1>3
  <2>2. Cardinality(Succeeded \cup {run.next}) = Cardinality(Succeeded) + 1
    BY ONLY <1>1, <2>1, FS_AddElement
  <2> QED BY <1>6, <2>2
<1>8. Tally'
  <2>1. /\ answer' = NoAnswer
        /\ run'.ops \in (IF run'.kind = "transfer" THEN Transfers ELSE Invocations)
        /\ Accepted(run'.ops, MaxOperations)
    BY <1>5 DEF Tally
  <2>2. Len(run'.results) = run'.next - 1 /\ Len(run'.results) <= Len(run'.ops)
    BY <1>1, <1>3, <1>4, <1>5
  <2>3. run'.succeeded = Cardinality(Succeeded')
    BY <1>5, <1>7 DEF Tally
  <2>4. run'.failed = Len(run'.results) - run'.succeeded
    <3>1. run.failed = Len(run.results) - run.succeeded
      BY DEF Tally
    <3>2. Len(run'.results) = Len(run.results) + 1
      BY <1>3, <1>4, <1>5
    <3> QED BY ONLY <1>1, <1>2, <1>5, <3>1, <3>2
  <2> QED BY <2>1, <2>2, <2>3, <2>4 DEF Tally, Accepted
<1> QED BY <1>3, <1>4, <1>5, <1>6, <1>8 DEF Kept

\* A failure counts it out, and ends the loop of an atomic batch.
LEMMA OneMoreFailure ==
    ASSUME RunTypeOK, Running, Tally, InLoop, RecordFailure, answer' = answer
    PROVE  /\ Kept /\ run'.reverted = (run.mode = "Atomic")
           /\ run.next = Len(run.results) + 1 /\ run.next \in DOMAIN run.ops
           /\ Succeeded' = Succeeded
           /\ Tally'
<1>1. /\ run \in RunRecord
      /\ Len(run.results) \in Nat /\ DOMAIN run.results = 1 .. Len(run.results)
      /\ Len(run.ops) \in Nat /\ DOMAIN run.ops = 1 .. Len(run.ops)
      /\ Cardinality(Succeeded) \in Nat
  BY RunFields
<1>2. /\ run.next \in Nat /\ run.results \in Seq({"Success", "Failure"})
      /\ run.succeeded \in Nat /\ run.failed \in Nat
  BY <1>1 DEF RunRecord
<1>3. run.next = Len(run.results) + 1 /\ run.next \in DOMAIN run.ops
  BY <1>1, <1>2 DEF Tally, InLoop
<1> DEFINE rs == Append(run.results, "Failure")
           stop == (run.mode = "Atomic")
<1>4. /\ rs \in Seq({"Success", "Failure"}) /\ Len(rs) = run.next /\ DOMAIN rs = 1 .. run.next
      /\ rs[run.next] # "Success"
      /\ \A k \in 1 .. Len(run.results) : rs[k] = run.results[k]
  BY <1>1, <1>2, <1>3
<1>0. stop \in BOOLEAN
  OBVIOUS
<1> HIDE DEF rs, stop
<1>5. /\ run' \in RunRecord
      /\ run'.kind = run.kind /\ run'.mode = run.mode /\ run'.payer = run.payer
      /\ run'.ops = run.ops /\ run'.saved = run.saved /\ run'.reverted = stop
      /\ run'.next = run.next + 1 /\ run'.results = rs
      /\ run'.succeeded = run.succeeded /\ run'.failed = run.failed + 1
  <2>1. run' = [run EXCEPT !.results = rs, !.failed = @ + 1, !.next = @ + 1,
                           !.reverted = stop]
    BY DEF RecordFailure, rs, stop
  <2>2. run.next + 1 \in Nat \ {0} /\ run.failed + 1 \in Nat
    BY <1>2
  <2> QED BY <1>0, <1>1, <1>4, <2>1, <2>2 DEF RunRecord
<1>6. Succeeded' = Succeeded
  <2>1. Succeeded' = {k \in 1 .. run.next : rs[k] = "Success"}
    BY <1>4, <1>5 DEF Succeeded
  <2>2. \A k \in 1 .. run.next : k = run.next \/ k \in 1 .. Len(run.results)
    BY <1>1, <1>3
  <2>3. \A k \in 1 .. Len(run.results) : k \in 1 .. run.next
    BY <1>1, <1>3
  <2>4. Succeeded = {k \in 1 .. Len(run.results) : run.results[k] = "Success"}
    BY <1>1 DEF Succeeded
  <2> QED BY <1>4, <2>1, <2>2, <2>3, <2>4
<1>7. Tally'
  <2>1. /\ answer' = NoAnswer
        /\ run'.ops \in (IF run'.kind = "transfer" THEN Transfers ELSE Invocations)
        /\ Accepted(run'.ops, MaxOperations)
    BY <1>5 DEF Tally
  <2>2. Len(run'.results) = run'.next - 1 /\ Len(run'.results) <= Len(run'.ops)
    BY <1>1, <1>3, <1>4, <1>5
  <2>3. run'.succeeded = Cardinality(Succeeded')
    BY <1>5, <1>6 DEF Tally
  <2>4. run'.failed = Len(run'.results) - run'.succeeded
    <3>1. run.failed = Len(run.results) - run.succeeded
      BY DEF Tally
    <3>2. Len(run'.results) = Len(run.results) + 1
      BY <1>3, <1>4, <1>5
    <3> QED BY ONLY <1>1, <1>2, <1>5, <3>1, <3>2
  <2> QED BY <2>1, <2>2, <2>3, <2>4 DEF Tally, Accepted
<1> QED BY <1>3, <1>4, <1>5, <1>6, <1>7 DEF Kept, stop
\* What a batch of transfers is made of.
LEMMA TransferFacts ==
    ASSUME RunInv, Running, run.kind = "transfer"
    PROVE  /\ run.payer \in Holders
           /\ \A k \in DOMAIN run.ops : run.ops[k].to \in Holders /\ run.ops[k].amount \in Int
           /\ \A k \in Succeeded : k \in DOMAIN run.ops /\ run.ops[k].amount \in Nat
           /\ balances \in [Holders -> Nat] /\ run.saved.balances \in [Holders -> Nat]
<1>1. RunTypeOK /\ Tally /\ TransfersMade
  BY DEF RunInv
<1>2. /\ run \in RunRecord /\ run.saved.balances \in [Holders -> Nat]
      /\ Len(run.results) \in Nat /\ DOMAIN run.results = 1 .. Len(run.results)
      /\ Len(run.ops) \in Nat /\ DOMAIN run.ops = 1 .. Len(run.ops)
      /\ Succeeded \in SUBSET (1 .. Len(run.results))
  BY <1>1, RunFields
<1>3. run.payer \in Holders
  BY <1>2, BatchAssumption DEF RunRecord
<1>4. run.ops \in Seq([to : Holders, amount : Int])
  BY <1>1, BatchAssumption DEF Tally
<1>5. \A k \in DOMAIN run.ops : run.ops[k].to \in Holders /\ run.ops[k].amount \in Int
  <2> DEFINE ops == run.ops
             T == [to : Holders, amount : Int]
  <2>1. ops \in Seq(T) /\ DOMAIN ops = 1 .. Len(ops)
    BY <1>2, <1>4
  <2> HIDE DEF ops, T
  <2>2. \A k \in DOMAIN ops : ops[k] \in T
    BY ONLY <2>1
  <2> QED BY <2>2 DEF ops, T
<1>6. Len(run.results) <= Len(run.ops)
  BY <1>1 DEF Tally
<1>7. \A k \in Succeeded : k \in DOMAIN run.ops /\ k \in DOMAIN run.results
  BY <1>2, <1>6
<1>8. \A k \in Succeeded : run.ops[k].amount > 0
  BY <1>1, <1>7 DEF TransfersMade, ValidTransfer
<1>9. balances \in [Holders -> Nat]
  BY <1>1 DEF RunTypeOK
<1> QED BY <1>2, <1>3, <1>5, <1>7, <1>8, <1>9

\* The next transfer finds what the successful ones before it left.
LEMMA NextTransfer ==
    ASSUME RunInv, InLoop, run.kind = "transfer", Op.amount \in Nat
    PROVE  LET saved == run.saved.balances
               more == Only(run.ops, Succeeded \cup {run.next})
           IN  /\ CanPayAll(saved, run.payer, more) <=> CanTransfer(balances, run.payer, Op.amount)
               /\ PayAll(saved, run.payer, more) = Transfer(balances, run.payer, Op.to, Op.amount)
<1>0. Running /\ RunTypeOK /\ Tally /\ TransfersMade
  BY DEF RunInv, InLoop
<1>1. /\ run \in RunRecord /\ Len(run.results) \in Nat
      /\ Len(run.ops) \in Nat /\ DOMAIN run.ops = 1 .. Len(run.ops)
      /\ Succeeded \in SUBSET (1 .. Len(run.results)) /\ IsFiniteSet(Succeeded)
  BY <1>0, RunFields
<1>2. run.next \in Nat /\ run.next = Len(run.results) + 1 /\ run.next \in DOMAIN run.ops
  BY <1>0, <1>1 DEF RunRecord, Tally, InLoop
<1>3. Succeeded \in SUBSET Int /\ run.next \in Int /\ \A j \in Succeeded : j < run.next
  BY <1>1, <1>2
<1> DEFINE saved == run.saved.balances
           pay == Only(run.ops, Succeeded)
           more == Only(run.ops, Succeeded \cup {run.next})
<1>4. /\ run.payer \in Holders /\ balances \in [Holders -> Nat] /\ saved \in [Holders -> Nat]
      /\ Op.to \in Holders
      /\ \A j \in Succeeded : run.ops[j].amount \in Nat
  BY <1>0, <1>2, TransferFacts DEF Op
<1>5. /\ DOMAIN pay = Succeeded /\ \A j \in Succeeded : pay[j].amount \in Nat
      /\ DOMAIN more = Succeeded \cup {run.next} /\ \A j \in Succeeded : more[j] = pay[j]
      /\ more[run.next].to = Op.to /\ more[run.next].amount = Op.amount
  BY <1>4 DEF Only, Op
<1>6. CanPayAll(saved, run.payer, pay) /\ balances = PayAll(saved, run.payer, pay)
  BY <1>0 DEF TransfersMade
<1> DEFINE payer == run.payer
           n == run.next
           S == Succeeded
<1>7. /\ saved \in [Holders -> Nat] /\ payer \in Holders
      /\ S \in SUBSET Int /\ IsFiniteSet(S) /\ n \in Int /\ \A j \in S : j < n
      /\ DOMAIN pay = S /\ \A j \in S : pay[j].amount \in Nat
      /\ DOMAIN more = S \cup {n} /\ \A j \in S : more[j] = pay[j]
      /\ more[n].to \in Holders /\ more[n].amount \in Nat
      /\ CanPayAll(saved, payer, pay) /\ PayAll(saved, payer, pay) \in [Holders -> Nat]
  BY <1>1, <1>3, <1>4, <1>5, <1>6
<1> HIDE DEF saved, pay, more, payer, n, S
<1>8. LET left == PayAll(saved, payer, pay)
      IN  /\ CanPayAll(saved, payer, more) <=> CanTransfer(left, payer, more[n].amount)
          /\ PayAll(saved, payer, more) = Transfer(left, payer, more[n].to, more[n].amount)
  BY ONLY <1>7, PayOneMore
<1>9. more[n].to = Op.to /\ more[n].amount = Op.amount
  BY <1>5 DEF n
<1> QED BY <1>6, <1>8, <1>9 DEF saved, more, payer, n

\* The answer, and what others see, is as before.
Unseen == answer' = answer /\ Seen' = Seen

\* A transfer that goes through is one more success.
LEMMA SuccessKeeps ==
    ASSUME RunInv, InLoop, run.kind = "transfer", ValidTransfer(Op),
           CanTransfer(balances, run.payer, Op.amount),
           balances' = Transfer(balances, run.payer, Op.to, Op.amount),
           Succeed, UNCHANGED <<flags, answer, guard>>
    PROVE  RunInv' /\ Unseen
<1>0. Running /\ RunTypeOK /\ Tally /\ TransfersMade /\ AtomicProgress /\ InvocationsMade
  BY DEF RunInv, InLoop
<1>1. /\ Kept /\ run'.reverted = run.reverted
      /\ run.next = Len(run.results) + 1 /\ run.next \in DOMAIN run.ops
      /\ Succeeded' = Succeeded \cup {run.next}
      /\ Tally'
  BY <1>0, OneMoreSuccess
<1>2. /\ Len(run.results) \in Nat /\ DOMAIN run.results = 1 .. Len(run.results)
      /\ Succeeded \in SUBSET (1 .. Len(run.results))
      /\ Seen = run.saved
  BY <1>0, RunFields
<1>3. Running' /\ Seen' = Seen
  <2>1. run' # NoRun
    BY <1>1 DEF Kept, RunRecord, NoRun
  <2> QED BY <1>1, <1>2, <2>1 DEF Running, Seen, Kept
<1>4. /\ run.payer \in Holders /\ balances \in [Holders -> Nat]
      /\ Op.to \in Holders /\ Op.amount \in Nat
  BY <1>0, <1>1, TransferFacts DEF Op, ValidTransfer
<1>5. RunTypeOK'
  <2>1. balances' \in [Holders -> Nat]
    BY <1>4, TransferBounds
  <2> QED BY <1>0, <1>1, <1>3, <2>1 DEF RunTypeOK, Kept
<1>6. LET saved == run.saved.balances
          more == Only(run.ops, Succeeded \cup {run.next})
      IN  /\ CanPayAll(saved, run.payer, more)
          /\ PayAll(saved, run.payer, more) = balances'
  BY <1>4, NextTransfer
<1>7. ASSUME NEW k \in 1 .. run.next
      PROVE  k \in Succeeded' <=>
                /\ ValidTransfer(run.ops[k])
                /\ CanPayAll(run.saved.balances, run.payer,
                             Only(run.ops, {j \in Succeeded' : j < k} \cup {k}))
  <2>1. CASE k = run.next
    <3>1. {j \in Succeeded' : j < k} = Succeeded
      BY <1>1, <1>2, <2>1
    <3> QED BY <1>1, <1>6, <2>1, <3>1 DEF Op
  <2>2. CASE k # run.next
    <3>1. k \in DOMAIN run.results
      BY <1>1, <1>2, <2>2
    <3>2. {j \in Succeeded' : j < k} = {j \in Succeeded : j < k}
      BY <1>1, <1>2, <3>1
    <3>3. k \in Succeeded' <=> k \in Succeeded
      BY <1>1, <2>2
    <3> QED BY <1>0, <3>1, <3>2, <3>3 DEF TransfersMade
  <2> QED BY <2>1, <2>2
<1>8. TransfersMade'
  <2>1. flags' = run'.saved.flags
    BY <1>0, <1>1 DEF TransfersMade, Kept
  <2>2. /\ CanPayAll(run'.saved.balances, run'.payer, Only(run'.ops, Succeeded'))
        /\ balances' = PayAll(run'.saved.balances, run'.payer, Only(run'.ops, Succeeded'))
    BY <1>1, <1>6 DEF Kept
  <2>3. \A k \in DOMAIN run'.results :
          k \in Succeeded' <=>
            /\ ValidTransfer(run'.ops[k])
            /\ CanPayAll(run'.saved.balances, run'.payer,
                         Only(run'.ops, {j \in Succeeded' : j < k} \cup {k}))
    BY <1>1, <1>7 DEF Kept
  <2> QED BY <2>1, <2>2, <2>3 DEF TransfersMade
<1>9. InvocationsMade'
  BY <1>1 DEF InvocationsMade, Kept
<1>10. AtomicProgress'
  <2>1. ~run'.reverted
    BY <1>1 DEF InLoop
  <2>2. run.mode = "Atomic" => Succeeded' = 1 .. run.next
    BY <1>0, <1>1, <1>2 DEF AtomicProgress, InLoop
  <2> QED BY <1>1, <2>1, <2>2 DEF AtomicProgress, Kept
<1> QED BY <1>1, <1>3, <1>5, <1>8, <1>9, <1>10 DEF RunInv, Unseen

\* A transfer that does not is one more failure.
LEMMA FailureKeeps ==
    ASSUME RunInv, InLoop, run.kind = "transfer",
           ValidTransfer(Op) => /\ run.mode = "NonAtomic"
                                /\ ~CanTransfer(balances, run.payer, Op.amount),
           RecordFailure, UNCHANGED <<outcomeVars, guard>>
    PROVE  RunInv' /\ Unseen
<1>0. /\ Running /\ RunTypeOK /\ Tally /\ TransfersMade /\ AtomicProgress /\ InvocationsMade
      /\ balances' = balances /\ flags' = flags /\ answer' = answer /\ guard' = guard
  BY DEF RunInv, InLoop, outcomeVars
<1>1. /\ Kept /\ run'.reverted = (run.mode = "Atomic")
      /\ run.next = Len(run.results) + 1 /\ run.next \in DOMAIN run.ops
      /\ Succeeded' = Succeeded
      /\ Tally'
  BY <1>0, OneMoreFailure
<1>2. /\ Len(run.results) \in Nat /\ DOMAIN run.results = 1 .. Len(run.results)
      /\ Succeeded \in SUBSET (1 .. Len(run.results))
      /\ Seen = run.saved
  BY <1>0, RunFields
<1>3. Running' /\ Seen' = Seen
  <2>1. run' # NoRun
    BY <1>1 DEF Kept, RunRecord, NoRun
  <2> QED BY <1>1, <1>2, <2>1 DEF Running, Seen, Kept
<1>4. Op.amount \in Int
  BY <1>0, <1>1, TransferFacts DEF Op
<1>5. RunTypeOK'
  BY <1>0, <1>1, <1>3 DEF RunTypeOK, Kept
<1>6. ~ /\ ValidTransfer(Op)
        /\ CanPayAll(run.saved.balances, run.payer, Only(run.ops, Succeeded \cup {run.next}))
  <2>1. SUFFICES ASSUME ValidTransfer(Op)
                 PROVE  ~CanPayAll(run.saved.balances, run.payer,
                                   Only(run.ops, Succeeded \cup {run.next}))
    OBVIOUS
  <2>2. Op.amount \in Nat
    BY <1>4, <2>1 DEF ValidTransfer
  <2> QED BY <2>1, <2>2, NextTransfer
<1>7. ASSUME NEW k \in 1 .. run.next
      PROVE  k \in Succeeded <=>
                /\ ValidTransfer(run.ops[k])
                /\ CanPayAll(run.saved.balances, run.payer,
                             Only(run.ops, {j \in Succeeded : j < k} \cup {k}))
  <2>1. CASE k = run.next
    <3>1. \A j \in Succeeded : j < k
      BY <1>1, <1>2, <2>1
    <3>2. k \notin Succeeded
      BY <1>1, <1>2, <2>1
    <3>3. {j \in Succeeded : j < k} = Succeeded
      BY <3>1
    <3> QED BY <1>6, <2>1, <3>2, <3>3 DEF Op
  <2>2. CASE k # run.next
    <3>1. k \in DOMAIN run.results
      BY <1>1, <1>2, <2>2
    <3> QED BY <1>0, <3>1 DEF TransfersMade
  <2> QED BY <2>1, <2>2
<1>8. TransfersMade'
  <2>1. flags' = run'.saved.flags
    BY <1>0, <1>1 DEF TransfersMade, Kept
  <2>2. /\ CanPayAll(run'.saved.balances, run'.payer, Only(run'.ops, Succeeded'))
        /\ balances' = PayAll(run'.saved.balances, run'.payer, Only(run'.ops, Succeeded'))
    BY <1>0, <1>1 DEF Kept, TransfersMade
  <2>3. \A k \in DOMAIN run'.results :
          k \in Succeeded' <=>
            /\ ValidTransfer(run'.ops[k])
            /\ CanPayAll(run'.saved.balances, run'.payer,
                         Only(run'.ops, {j \in Succeeded' : j < k} \cup {k}))
    BY <1>1, <1>7 DEF Kept
  <2> QED BY <2>1, <2>2, <2>3 DEF TransfersMade
<1>9. InvocationsMade'
  BY <1>1 DEF InvocationsMade, Kept
<1>10. AtomicProgress'
  <2>1. CASE run.mode = "Atomic"
    <3>1. ~ValidTransfer(Op) /\ Succeeded = 1 .. Len(run.results)
      BY <1>0, <2>1 DEF AtomicProgress, InLoop
    <3>2. Succeeded' = 1 .. run.next - 1 /\ run.next > 0
      BY <1>1, <1>2, <3>1
    <3>3. run'.reverted /\ Len(run'.results) = run.next /\ run'.ops = run.ops
      BY <1>1, <2>1 DEF Kept
    <3> QED BY <1>1, <2>1, <3>1, <3>2, <3>3 DEF AtomicProgress, Kept, Op
  <2>2. CASE run.mode # "Atomic"
    BY <1>1, <2>2 DEF AtomicProgress, Kept
  <2> QED BY <2>1, <2>2
<1> QED BY <1>0, <1>1, <1>3, <1>5, <1>8, <1>9, <1>10 DEF RunInv, Unseen
\* What a batch of invocations is made of, and what it has made so far.
LEMMA InvocationFacts ==
    ASSUME RunInv, Running, run.kind # "transfer"
    PROVE  /\ \A k \in DOMAIN run.ops : run.ops[k].target \in Targets /\ run.ops[k].flag \in BOOLEAN
           /\ flags = FlagsMade(run.saved.flags, run.ops, Succeeded)
<1>1. RunTypeOK /\ Tally /\ InvocationsMade
  BY DEF RunInv
<1>2. Seen = run.saved /\ DOMAIN run.ops = 1 .. Len(run.ops)
  BY <1>1, RunFields
<1> DEFINE ops == run.ops
           T == [target : Targets, flag : BOOLEAN]
<1>3. ops \in Seq(T) /\ DOMAIN ops = 1 .. Len(ops)
  BY <1>1, <1>2, BatchAssumption DEF Tally
<1>4. \A k \in DOMAIN ops : ops[k] \in T
  <2> HIDE DEF ops, T
  <2> QED BY ONLY <1>3
<1>5. flags = FlagsMade(run.saved.flags, run.ops, Succeeded)
  BY <1>1, <1>2, SameFlags DEF InvocationsMade
<1> QED BY <1>4, <1>5

\* An invocation that returns is one more success.
LEMMA InvokeKeeps ==
    ASSUME RunInv, InLoop, run.kind # "transfer",
           flags' = [flags EXCEPT ![Op.target] = Op.flag],
           Succeed, UNCHANGED <<balances, answer, guard>>
    PROVE  RunInv' /\ Unseen
<1>0. Running /\ RunTypeOK /\ Tally /\ AtomicProgress /\ InvocationsMade
  BY DEF RunInv, InLoop
<1>1. /\ Kept /\ run'.reverted = run.reverted
      /\ run.next = Len(run.results) + 1 /\ run.next \in DOMAIN run.ops
      /\ Succeeded' = Succeeded \cup {run.next}
      /\ Tally'
  BY <1>0, OneMoreSuccess
<1>2. /\ Len(run.results) \in Nat
      /\ Succeeded \in SUBSET (1 .. Len(run.results))
      /\ Seen = run.saved /\ run.saved.flags \in [Targets -> BOOLEAN]
  BY <1>0, RunFields
<1>3. Running' /\ Seen' = Seen
  <2>1. run' # NoRun
    BY <1>1 DEF Kept, RunRecord, NoRun
  <2> QED BY <1>1, <1>2, <2>1 DEF Running, Seen, Kept
<1>4. /\ Op.target \in Targets /\ Op.flag \in BOOLEAN
      /\ flags = FlagsMade(run.saved.flags, run.ops, Succeeded)
  BY <1>0, <1>1, InvocationFacts DEF Op
<1>5. RunTypeOK'
  <2>1. flags' \in [Targets -> BOOLEAN]
    BY <1>0, <1>4 DEF RunTypeOK
  <2> QED BY <1>0, <1>1, <1>3, <2>1 DEF RunTypeOK, Kept
<1>6. flags' = FlagsMade(run.saved.flags, run.ops, Succeeded \cup {run.next})
  <2>1. /\ Succeeded \in SUBSET Int /\ run.next \in Int
        /\ \A j \in Succeeded : j < run.next
    BY <1>1, <1>2
  <2> DEFINE f == run.saved.flags
             calls == run.ops
             n == run.next
             S == Succeeded
  <2>2. /\ f \in [Targets -> BOOLEAN] /\ S \in SUBSET Int /\ n \in Int
        /\ \A j \in S : j < n
        /\ calls[n].target \in Targets
    BY <1>2, <1>4, <2>1 DEF Op
  <2> HIDE DEF f, calls, n, S
  <2>3. FlagsMade(f, calls, S \cup {n})
             = [FlagsMade(f, calls, S) EXCEPT ![calls[n].target] = calls[n].flag]
    BY ONLY <2>2, OneMoreFlag
  <2> QED BY <1>4, <2>3 DEF f, calls, n, S, Op
<1>7. TransfersMade'
  BY <1>1 DEF TransfersMade, Kept
<1>8. InvocationsMade'
  <2>1. OneStep!FlagsAfter(run.ops, Succeeded)' = FlagsMade(Seen'.flags, run'.ops, Succeeded')
    BY DEF OneStep!FlagsAfter, FlagsMade
  <2>2. OneStep!FlagsAfter(run.ops, Succeeded)' = flags'
    BY <1>1, <1>2, <1>3, <1>6, <2>1 DEF Kept
  <2>3. balances' = run'.saved.balances
    BY <1>0, <1>1 DEF InvocationsMade, Kept
  <2> QED BY <2>2, <2>3 DEF InvocationsMade
<1>9. AtomicProgress'
  <2>1. ~run'.reverted
    BY <1>1 DEF InLoop
  <2>2. run.mode = "Atomic" => Succeeded' = 1 .. run.next
    BY <1>0, <1>1, <1>2 DEF AtomicProgress, InLoop
  <2> QED BY <1>1, <2>1, <2>2 DEF AtomicProgress, Kept
<1> QED BY <1>1, <1>3, <1>5, <1>7, <1>8, <1>9 DEF RunInv, Unseen

\* One that traps, where that is survived, is one more failure.
LEMMA TrapKeeps ==
    ASSUME RunInv, InLoop, run.kind # "transfer", run.mode = "NonAtomic",
           RecordFailure, UNCHANGED <<outcomeVars, guard>>
    PROVE  RunInv' /\ Unseen
<1>0. /\ Running /\ RunTypeOK /\ Tally /\ AtomicProgress /\ InvocationsMade
      /\ balances' = balances /\ flags' = flags /\ answer' = answer /\ guard' = guard
  BY DEF RunInv, InLoop, outcomeVars
<1>1. /\ Kept /\ run'.reverted = (run.mode = "Atomic")
      /\ Succeeded' = Succeeded
      /\ Tally'
  BY <1>0, OneMoreFailure
<1>2. Seen = run.saved
  BY <1>0, RunFields
<1>3. Running' /\ Seen' = Seen
  <2>1. run' # NoRun
    BY <1>1 DEF Kept, RunRecord, NoRun
  <2> QED BY <1>1, <1>2, <2>1 DEF Running, Seen, Kept
<1>4. RunTypeOK'
  BY <1>0, <1>1, <1>3 DEF RunTypeOK, Kept
<1>5. TransfersMade'
  BY <1>1 DEF TransfersMade, Kept
<1>6. InvocationsMade'
  <2>1. OneStep!FlagsAfter(run.ops, Succeeded)' = FlagsMade(Seen'.flags, run'.ops, Succeeded')
    BY DEF OneStep!FlagsAfter, FlagsMade
  <2>2. OneStep!FlagsAfter(run.ops, Succeeded)' = flags'
    BY <1>0, <1>1, <1>2, <1>3, <2>1, InvocationFacts DEF Kept
  <2>3. balances' = run'.saved.balances
    BY <1>0, <1>1 DEF InvocationsMade, Kept
  <2> QED BY <2>2, <2>3 DEF InvocationsMade
<1>7. AtomicProgress'
  BY <1>1 DEF AtomicProgress, Kept
<1> QED BY <1>0, <1>1, <1>3, <1>4, <1>5, <1>6, <1>7 DEF RunInv, Unseen

\* A trap of the whole transaction leaves what others saw all along.
LEMMA RollBackFails ==
    ASSUME RunInv, Running, RollBack
    PROVE  RunInv' /\ OneStep!OutcomeNext
<1>1. RunTypeOK /\ Tally
  BY DEF RunInv
<1>2. /\ Seen = run.saved
      /\ run.saved.balances \in [Holders -> Nat] /\ run.saved.flags \in [Targets -> BOOLEAN]
  BY <1>1, RunFields
<1>3. /\ ~Running' /\ run' = NoRun /\ guard' = FALSE
      /\ balances' = run.saved.balances /\ flags' = run.saved.flags /\ answer' = Trapped
  BY DEF RollBack, Running
<1>4. RunInv'
  <2>1. guard' = Running'
    BY <1>3 DEF Running
  <2>2. balances' \in [Holders -> Nat] /\ flags' \in [Targets -> BOOLEAN]
    BY <1>2, <1>3
  <2>3. RunTypeOK'
    BY <1>3, <2>1, <2>2 DEF RunTypeOK
  <2> QED BY <1>3, <2>3 DEF RunInv
<1>5. Seen'.balances = Seen.balances /\ Seen'.flags = Seen.flags
  BY <1>2, <1>3 DEF Seen
<1>6. OneStep!Fail
  BY <1>3, <1>5 DEF OneStep!Fail, OneStep!Trapped, Trapped
<1>7. answer = OneStep!NoAnswer
  BY <1>1 DEF Tally, OneStep!NoAnswer, NoAnswer
<1> QED BY <1>4, <1>6, <1>7 DEF OneStep!OutcomeNext
\* The result of a batch is the receipt of the operations that succeeded.
LEMMA ResultIsReceipt ==
    ASSUME RunTypeOK, Running, Tally
    PROVE  Result = OneStep!Receipt(run.kind, run.mode, run.payer, run.ops,
                                    Len(run.results), Succeeded, run.reverted)
<1>1. /\ run \in RunRecord
      /\ Len(run.results) \in Nat /\ DOMAIN run.results = 1 .. Len(run.results)
  BY RunFields
<1> DEFINE rs == run.results
           n == Len(run.results)
           T == [k \in 1 .. n |-> IF k \in Succeeded THEN "Success" ELSE "Failure"]
<1>2. rs \in Seq({"Success", "Failure"}) /\ DOMAIN rs = 1 .. n /\ n = Len(rs)
  BY <1>1 DEF RunRecord
<1>3. rs = T
  <2> HIDE DEF rs, n
  <2>1. \A k \in 1 .. n : rs[k] \in {"Success", "Failure"}
    BY ONLY <1>2
  <2>2. \A k \in 1 .. n : k \in Succeeded <=> rs[k] = "Success"
    BY <1>2 DEF Succeeded, rs
  <2>3. rs = [k \in 1 .. n |-> rs[k]]
    BY ONLY <1>2
  <2> QED BY <2>1, <2>2, <2>3
<1>4. run.succeeded = OneStep!Cardinality(Succeeded) /\ run.failed = n - OneStep!Cardinality(Succeeded)
  BY SameLedger DEF Tally
<1> HIDE DEF T
<1>5. OneStep!Receipt(run.kind, run.mode, run.payer, run.ops, n, Succeeded, run.reverted)
        = [status |-> "returned", call |-> <<run.kind, run.mode, run.payer, run.ops>>,
           total |-> Len(run.ops), results |-> T, succeeded |-> OneStep!Cardinality(Succeeded),
           failed |-> n - OneStep!Cardinality(Succeeded), reverted |-> run.reverted]
  BY DEF OneStep!Receipt, T
<1> QED BY <1>3, <1>4, <1>5 DEF Result

\* A batch whose loop was not left early has tried every operation.
LEMMA AllTried ==
    ASSUME RunInv, Running, ~InLoop, ~run.reverted
    PROVE  Len(run.results) = Len(run.ops)
<1>1. RunTypeOK /\ Tally
  BY DEF RunInv
<1>2. run \in RunRecord /\ Len(run.results) \in Nat /\ Len(run.ops) \in Nat
  BY <1>1, RunFields
<1>3. run.next \in Nat /\ Len(run.results) = run.next - 1 /\ Len(run.results) <= Len(run.ops)
  BY <1>1, <1>2 DEF RunRecord, Tally
<1>4. ~(run.next <= Len(run.ops))
  BY DEF InLoop
<1> QED BY <1>2, <1>3, <1>4

\* An atomic batch of transfers has made those before the first invalid one.
LEMMA AtomicEnd ==
    ASSUME RunInv, Running, ~InLoop, run.kind = "transfer", run.mode = "Atomic"
    PROVE  /\ DOMAIN Performed(run.ops) = Succeeded
           /\ Performed(run.ops) = Only(run.ops, Succeeded)
           /\ run.reverted = Reverted(run.ops)
           /\ Len(run.results) = Cardinality(Succeeded) + (IF Reverted(run.ops) THEN 1 ELSE 0)
<1>1. RunTypeOK /\ Tally /\ TransfersMade /\ AtomicProgress
  BY DEF RunInv
<1> DEFINE tried == Len(run.results)
           N == Len(run.ops)
           valid(k) == ValidTransfer(run.ops[k])
           first == {k \in 1 .. N : \A j \in 1 .. k : valid(j)}
<1>2. /\ run \in RunRecord /\ tried \in Nat /\ N \in Nat /\ tried <= N
      /\ DOMAIN run.results = 1 .. tried /\ DOMAIN run.ops = 1 .. N
      /\ Succeeded \in SUBSET (1 .. tried)
  BY <1>1, RunFields DEF Tally
<1>3. run.reverted \in BOOLEAN
  BY <1>2 DEF RunRecord
<1>4. \A k \in Succeeded : valid(k)
  BY <1>1, <1>2 DEF TransfersMade
<1>5. /\ DOMAIN Performed(run.ops) = first
      /\ Performed(run.ops) = [k \in first |-> run.ops[k]]
  BY <1>2 DEF Performed
<1>6. Reverted(run.ops) <=> \E k \in 1 .. N : ~valid(k)
  BY <1>2 DEF Reverted
<1>7. CASE run.reverted
  <2>1. tried > 0 /\ Succeeded = 1 .. tried - 1 /\ ~valid(tried)
    BY <1>1, <1>7 DEF AtomicProgress
  <2> HIDE DEF tried, N, valid
  <2>2. first = Succeeded
    <3>1. ASSUME NEW k \in first PROVE k \in Succeeded
      <4>1. k \in 1 .. N /\ \A j \in 1 .. k : valid(j)
        OBVIOUS
      <4>2. ~(tried <= k)
        BY <1>2, <2>1, <4>1
      <4> QED BY <1>2, <2>1, <4>1, <4>2
    <3>2. ASSUME NEW k \in Succeeded PROVE k \in first
      <4>1. k \in 1 .. tried - 1
        BY <2>1
      <4>2. \A j \in 1 .. k : j \in 1 .. tried - 1
        BY <1>2, <4>1
      <4> QED BY <1>2, <1>4, <2>1, <4>1, <4>2
    <3> HIDE DEF first
    <3> QED BY <3>1, <3>2
  <2>3. Reverted(run.ops)
    BY <1>2, <1>6, <2>1
  <2>4. Cardinality(Succeeded) = tried - 1
    <3>1. 1 \in Int /\ tried - 1 \in Int /\ tried - 1 >= 0
      BY <1>2, <2>1
    <3>2. Cardinality(1 .. tried - 1) = IF 1 > tried - 1 THEN 0 ELSE tried - 1 - 1 + 1
      BY ONLY <3>1, FS_Interval
    <3> QED BY <1>2, <2>1, <3>1, <3>2
  <2>5. Len(run.results) = Cardinality(Succeeded) + 1
    BY <1>2, <2>4 DEF tried
  <2>6. Performed(run.ops) = Only(run.ops, Succeeded)
    BY <1>5, <2>2 DEF Only
  <2> QED BY <1>3, <1>5, <1>7, <2>2, <2>3, <2>5, <2>6
<1>8. CASE ~run.reverted
  <2>1. Succeeded = 1 .. tried /\ tried = N
    BY <1>1, <1>8, AllTried DEF AtomicProgress
  <2> HIDE DEF tried, N, valid
  <2>2. \A k \in 1 .. N : valid(k)
    BY <1>4, <2>1
  <2>3. first = Succeeded
    <3>1. \A k \in 1 .. N : \A j \in 1 .. k : j \in 1 .. N
      BY <1>2
    <3>2. \A k \in 1 .. N : k \in first
      BY <2>2, <3>1
    <3>3. \A k \in first : k \in 1 .. N
      OBVIOUS
    <3> HIDE DEF first
    <3> QED BY <2>1, <3>2, <3>3
  <2>4. ~Reverted(run.ops)
    BY <1>6, <2>2
  <2>5. Cardinality(Succeeded) = tried
    <3>1. 1 \in Int /\ tried \in Int /\ tried >= 0
      BY <1>2
    <3>2. Cardinality(1 .. tried) = IF 1 > tried THEN 0 ELSE tried - 1 + 1
      BY ONLY <3>1, FS_Interval
    <3> QED BY <1>2, <2>1, <3>1, <3>2
  <2>6. Len(run.results) = Cardinality(Succeeded) + 0
    BY <1>2, <2>5 DEF tried
  <2>7. Performed(run.ops) = Only(run.ops, Succeeded)
    BY <1>5, <2>3 DEF Only
  <2>8. run.reverted = Reverted(run.ops)
    <3>1. run.reverted = FALSE
      BY <1>3, <1>8
    <3>2. Reverted(run.ops) = FALSE
      BY <2>4 DEF Reverted
    <3> QED BY <3>1, <3>2
  <2> QED BY <1>5, <2>3, <2>4, <2>6, <2>7, <2>8
<1> QED BY <1>7, <1>8

\* What a batch returns is the outcome of one step.
LEMMA ReturnTransacts ==
    ASSUME RunInv, Return
    PROVE  RunInv' /\ OneStep!OutcomeNext
<1>0. Running /\ ~InLoop /\ RunTypeOK /\ Tally /\ TransfersMade /\ InvocationsMade /\ AtomicProgress
  BY DEF RunInv, Return
<1>1. /\ run \in RunRecord /\ Seen = run.saved /\ DOMAIN run.ops = 1 .. Len(run.ops)
      /\ Succeeded \in SUBSET (1 .. Len(run.results))
      /\ Len(run.results) \in Nat /\ Len(run.ops) \in Nat
  BY <1>0, RunFields
<1>2. /\ run' = NoRun /\ ~Running' /\ guard' = FALSE
      /\ balances' = balances /\ flags' = flags /\ answer' = Result
  BY DEF Return, Running
<1>3. RunInv'
  <2>1. guard' = Running'
    BY <1>2 DEF Running
  <2>2. RunTypeOK'
    BY <1>0, <1>2, <2>1 DEF RunTypeOK
  <2> QED BY <1>2, <2>2 DEF RunInv
<1>4. Seen'.balances = balances /\ Seen'.flags = flags
  BY <1>2 DEF Seen
<1>5. answer' = OneStep!Receipt(run.kind, run.mode, run.payer, run.ops,
                                Len(run.results), Succeeded, run.reverted)
  BY <1>0, <1>2, ResultIsReceipt
<1>6. /\ run.payer \in Payers /\ run.mode \in Modes
      /\ run.kind \in {"transfer", "invoke", "no_args"} /\ run.reverted \in BOOLEAN
      /\ OneStep!Accepted(run.ops, MaxOperations)
  BY <1>0, <1>1, SameLedger DEF RunRecord, Tally
<1>7. CASE run.kind = "transfer"
  <2>1. /\ flags = run.saved.flags /\ run.ops \in Transfers
        /\ CanPayAll(run.saved.balances, run.payer, Only(run.ops, Succeeded))
        /\ balances = PayAll(run.saved.balances, run.payer, Only(run.ops, Succeeded))
    BY <1>0, <1>7 DEF TransfersMade, Tally
  <2>2. CASE run.mode = "Atomic"
    <3>1. /\ DOMAIN Performed(run.ops) = Succeeded
          /\ Performed(run.ops) = Only(run.ops, Succeeded)
          /\ run.reverted = Reverted(run.ops)
          /\ Len(run.results) = Cardinality(Succeeded) + (IF Reverted(run.ops) THEN 1 ELSE 0)
      BY <1>0, <1>7, <2>2, AtomicEnd
    <3>2. OneStep!Performed(run.ops) = Performed(run.ops)
      BY SameLedger
    <3>3. OneStep!Reverted(run.ops) = Reverted(run.ops)
      BY SameLedger DEF OneStep!Reverted, Reverted
    <3>4. OneStep!Cardinality(Succeeded) = Cardinality(Succeeded)
      BY SameLedger
    <3>5. answer' = OneStep!Receipt("transfer", "Atomic", run.payer, run.ops,
                      OneStep!Cardinality(DOMAIN OneStep!Performed(run.ops))
                        + (IF OneStep!Reverted(run.ops) THEN 1 ELSE 0),
                      DOMAIN OneStep!Performed(run.ops), OneStep!Reverted(run.ops))
      BY <1>5, <1>7, <2>2, <3>1, <3>2, <3>3, <3>4
    <3>6. /\ OneStep!CanPayAll(Seen.balances, run.payer, OneStep!Performed(run.ops))
          /\ Seen'.balances = OneStep!PayAll(Seen.balances, run.payer, OneStep!Performed(run.ops))
          /\ Seen'.flags = Seen.flags
      BY <1>1, <1>4, <2>1, <3>1, <3>2, SameLedger
    <3>7. OneStep!AtomicTransfers(run.payer, run.ops, OneStep!Performed(run.ops))
      BY <3>5, <3>6 DEF OneStep!AtomicTransfers
    <3>8. OneStep!KeepWhatPrecedes
      BY <1>6, <2>1, <3>7 DEF OneStep!KeepWhatPrecedes
    <3> QED BY <1>0, <1>3, <3>8 DEF OneStep!OutcomeNext, Tally, OneStep!NoAnswer, NoAnswer
  <2>3. CASE run.mode = "NonAtomic"
    <3>1. ~run.reverted
      BY <1>0, <2>3 DEF AtomicProgress
    <3>2. run.reverted = FALSE /\ Len(run.results) = Len(run.ops)
      BY <1>0, <1>6, <3>1, AllTried
    <3>3. Succeeded \in SUBSET DOMAIN run.ops
      BY <1>1, <3>2
    <3>4. \A k \in DOMAIN run.ops :
            k \in Succeeded <=>
              /\ OneStep!ValidTransfer(run.ops[k])
              /\ OneStep!CanPayAll(Seen.balances, run.payer,
                                   OneStep!Only(run.ops, {j \in Succeeded : j < k} \cup {k}))
      <4>1. DOMAIN run.ops = DOMAIN run.results
        BY <1>0, <1>1, <3>2, RunFields
      <4> QED BY <1>0, <1>1, <1>7, <4>1, SameLedger DEF TransfersMade
    <3>5. /\ Seen'.balances
                = OneStep!PayAll(Seen.balances, run.payer, OneStep!Only(run.ops, Succeeded))
          /\ Seen'.flags = Seen.flags
      BY <1>1, <1>4, <2>1, SameLedger
    <3>6. answer' = OneStep!Receipt("transfer", "NonAtomic", run.payer, run.ops,
                                    Len(run.ops), Succeeded, FALSE)
      BY <1>5, <1>7, <2>3, <3>2
    <3>7. OneStep!NonAtomicTransfers(run.payer, run.ops, Succeeded)
      BY <3>4, <3>5, <3>6 DEF OneStep!NonAtomicTransfers
    <3>8. OneStep!TransactNonAtomic
      BY <1>6, <2>1, <3>3, <3>7 DEF OneStep!TransactNonAtomic
    <3> QED BY <1>0, <1>3, <3>8 DEF OneStep!OutcomeNext, Tally, OneStep!NoAnswer, NoAnswer
  <2> QED BY <1>6, <2>2, <2>3 DEF Modes
<1>8. CASE run.kind # "transfer"
  <2>1. ~run.reverted
    BY <1>0, <1>8 DEF AtomicProgress
  <2>2. run.reverted = FALSE /\ Len(run.results) = Len(run.ops)
    BY <1>0, <1>6, <2>1, AllTried
  <2>3. Succeeded \in SUBSET DOMAIN run.ops
    BY <1>1, <2>2
  <2>4. run.mode = "Atomic" => Succeeded = DOMAIN run.ops
    BY <1>0, <1>1, <2>1, <2>2 DEF AtomicProgress
  <2>5. /\ Seen'.flags = OneStep!FlagsAfter(run.ops, Succeeded)
        /\ Seen'.balances = Seen.balances
        /\ run.ops \in Invocations
    BY <1>0, <1>1, <1>4, <1>8 DEF InvocationsMade, Tally
  <2>6. answer' = OneStep!Receipt(run.kind, run.mode, run.payer, run.ops,
                                  Len(run.ops), Succeeded, FALSE)
    BY <1>5, <2>2
  <2>7. OneStep!Invoke(run.kind, run.mode, run.payer, run.ops, Succeeded)
    BY <2>4, <2>5, <2>6 DEF OneStep!Invoke
  <2>8. run.kind \in {"invoke", "no_args"} /\ run.mode \in OneStep!Modes
    BY <1>6, <1>8 DEF OneStep!Modes, Modes
  <2>9. OneStep!TransactInvoke
    BY <1>6, <2>3, <2>5, <2>7, <2>8 DEF OneStep!TransactInvoke
  <2> QED BY <1>0, <1>3, <2>9 DEF OneStep!OutcomeNext, Tally, OneStep!NoAnswer, NoAnswer
<1> QED BY <1>7, <1>8

\* A batch begins with nothing done.
LEMMA BeginKeeps ==
    ASSUME RunInv, ~Running, answer = NoAnswer,
           NEW kind \in {"transfer", "invoke", "no_args"}, NEW mode \in Modes, NEW payer \in Payers,
           NEW ops, ops \in (IF kind = "transfer" THEN Transfers ELSE Invocations),
           Begin(kind, mode, payer, ops)
    PROVE  RunInv' /\ Unseen
<1>0. /\ balances' = balances /\ flags' = flags /\ answer' = answer
      /\ guard' = TRUE /\ Accepted(ops, MaxOperations)
      /\ run' = [kind |-> kind, mode |-> mode, payer |-> payer, ops |-> ops, next |-> 1,
                 results |-> << >>, succeeded |-> 0, failed |-> 0, reverted |-> FALSE,
                 saved |-> [balances |-> balances, flags |-> flags]]
  BY DEF Begin, outcomeVars
<1>1. balances \in [Holders -> Nat] /\ flags \in [Targets -> BOOLEAN]
  BY DEF RunInv, RunTypeOK
<1>2. run' # NoRun
  BY <1>0 DEF NoRun
<1>3. Running' /\ Seen' = Seen
  BY <1>0, <1>2 DEF Running, Seen
<1>4. RunTypeOK'
  <2>1. ops \in Transfers \cup Invocations
    OBVIOUS
  <2>2. << >> \in Seq({"Success", "Failure"})
    OBVIOUS
  <2>3. run' \in RunRecord
    BY <1>0, <1>1, <2>1, <2>2 DEF RunRecord
  <2>4. guard' = Running'
    BY <1>0, <1>2 DEF Running
  <2> QED BY <1>0, <1>1, <2>3, <2>4 DEF RunTypeOK
<1>5. Succeeded' = {} /\ DOMAIN run'.results = {} /\ Len(run'.results) = 0
  BY <1>0 DEF Succeeded
<1>6. Tally'
  <2>1. Cardinality({}) = 0
    BY FS_EmptySet
  <2>2. Len(ops) \in 1 .. MaxOperations
    BY <1>0 DEF Accepted
  <2>3. 0 <= Len(ops)
    BY <2>2, BatchAssumption
  <2>4. /\ run'.ops = ops /\ run'.kind = kind /\ run'.next = 1
        /\ run'.succeeded = 0 /\ run'.failed = 0
    BY <1>0
  <2> QED BY <1>0, <1>5, <2>1, <2>3, <2>4 DEF Tally, Accepted
<1>7. TransfersMade'
  <2>1. ASSUME kind = "transfer"
        PROVE  /\ CanPayAll(balances, payer, Only(ops, {}))
               /\ PayAll(balances, payer, Only(ops, {})) = balances
    <3>1. DOMAIN Only(ops, {}) = {}
      BY DEF Only
    <3>2. payer \in Holders
      BY BatchAssumption
    <3>3. PayAll(balances, payer, Only(ops, {})) = balances
      BY <1>1, <3>1, <3>2, PayNothing
    <3> QED BY <3>1, <3>3 DEF CanPayAll
  <2> QED BY <1>0, <1>5, <2>1 DEF TransfersMade
<1>8. InvocationsMade'
  <2>1. OneStep!FlagsAfter(run.ops, Succeeded)' = FlagsMade(Seen'.flags, run'.ops, Succeeded')
    BY DEF OneStep!FlagsAfter, FlagsMade
  <2>2. Seen'.flags = flags
    BY <1>3 DEF Seen
  <2>3. FlagsMade(flags, ops, {}) = flags
    BY <1>1, NoFlagMade
  <2> QED BY <1>0, <1>5, <2>1, <2>2, <2>3 DEF InvocationsMade
<1>9. AtomicProgress'
  <2>1. 1 .. 0 = {}
    OBVIOUS
  <2> QED BY <1>0, <1>5, <2>1 DEF AtomicProgress
<1> QED BY <1>0, <1>3, <1>4, <1>6, <1>7, <1>8, <1>9 DEF RunInv, Unseen

\* One step of the executor: what it has done so far stays accounted for, and to
\* everybody else it is a step of the outcome, or none.
LEMMA RunStep ==
    ASSUME RunInv, [RunNext]_runVars
    PROVE  RunInv' /\ [OneStep!OutcomeNext]_(OneStep!outcomeVars)
<1>0. ASSUME Unseen PROVE UNCHANGED OneStep!outcomeVars
  BY <1>0 DEF Unseen, OneStep!outcomeVars
<1>1. CASE TransferStep
  <2>1. InLoop /\ Running /\ run.kind = "transfer"
    BY <1>1 DEF TransferStep, InLoop
  <2>2. CASE ~ValidTransfer(Op) /\ RecordFailure /\ UNCHANGED <<outcomeVars, guard>>
    BY <1>0, <2>1, <2>2, FailureKeeps
  <2>3. CASE ValidTransfer(Op) /\ SingleTransfer
    <3>1. CASE /\ CanTransfer(balances, run.payer, Op.amount)
               /\ balances' = Transfer(balances, run.payer, Op.to, Op.amount)
               /\ Succeed /\ UNCHANGED <<flags, answer, guard>>
      BY <1>0, <2>1, <2>3, <3>1, SuccessKeeps
    <3>2. CASE /\ ~CanTransfer(balances, run.payer, Op.amount)
               /\ run.mode = "NonAtomic" /\ RecordFailure /\ UNCHANGED <<outcomeVars, guard>>
      BY <1>0, <2>1, <2>3, <3>2, FailureKeeps
    <3>3. CASE RollBack
      BY <2>1, <3>3, RollBackFails
    <3> QED BY <2>3, <3>1, <3>2, <3>3 DEF SingleTransfer, FailedTransfer
  <2> QED BY <1>1, <2>2, <2>3 DEF TransferStep
<1>2. CASE InvokeStep \/ NoArgsStep
  <2>1. InLoop /\ Running /\ run.kind # "transfer" /\ SingleInvoke
    BY <1>2 DEF InvokeStep, NoArgsStep, InLoop
  <2>2. CASE /\ flags' = [flags EXCEPT ![Op.target] = Op.flag]
             /\ Succeed /\ UNCHANGED <<balances, answer, guard>>
    BY <1>0, <2>1, <2>2, InvokeKeeps
  <2>3. CASE run.mode = "NonAtomic" /\ RecordFailure /\ UNCHANGED <<outcomeVars, guard>>
    BY <1>0, <2>1, <2>3, TrapKeeps
  <2>4. CASE RollBack
    BY <2>1, <2>4, RollBackFails
  <2> QED BY <2>1, <2>2, <2>3, <2>4 DEF SingleInvoke
<1>3. CASE RunOutOfBudget
  BY <1>3, RollBackFails DEF RunOutOfBudget
<1>4. CASE Return
  BY <1>4, ReturnTransacts
<1>5. CASE Call
  <2>1. ~Running /\ answer = NoAnswer
    BY <1>5 DEF Call
  <2>2. CASE \E payer \in Payers, ops \in Transfers :
               \/ \E mode \in Modes : ExecuteMultiTransfer(mode, payer, ops)
               \/ MultiTransferAll(payer, ops)
    <3>1. PICK payer \in Payers, ops \in Transfers, mode \in Modes :
                 Begin("transfer", mode, payer, ops)
      BY <2>2 DEF ExecuteMultiTransfer, MultiTransferAll, Modes
    <3> QED BY <1>0, <2>1, <3>1, BeginKeeps
  <2>3. CASE \E payer \in Payers, mode \in Modes, calls \in Invocations :
               ExecuteMultiInvoke(mode, payer, calls) \/ BatchInvokeNoArgs(mode, payer, calls)
    <3>1. PICK payer \in Payers, mode \in Modes, calls \in Invocations,
               kind \in {"invoke", "no_args"} : Begin(kind, mode, payer, calls)
      BY <2>3 DEF ExecuteMultiInvoke, BatchInvokeNoArgs
    <3> QED BY <1>0, <2>1, <3>1, BeginKeeps
  <2>4. CASE \E ops \in Transfers \cup Invocations : RefuseBatch(ops)
    <3>1. Refuse /\ UNCHANGED <<run, guard>>
      BY <2>4 DEF RefuseBatch
    <3>2. /\ balances' = balances /\ flags' = flags /\ run' = run /\ guard' = guard
          /\ answer' = Refused
      BY <3>1 DEF Refuse
    <3>3. RunInv'
      BY <2>1, <3>2 DEF RunInv, RunTypeOK, Running
    <3>4. Seen' = Seen
      BY <3>2 DEF Seen, Running
    <3>5. OneStep!Refuse
      BY <3>2, <3>4 DEF OneStep!Refuse, OneStep!Refused, Refused
    <3> QED BY <2>1, <3>3, <3>5 DEF OneStep!OutcomeNext, OneStep!NoAnswer, NoAnswer
  <2> QED BY <1>5, <2>2, <2>3, <2>4 DEF Call
<1>6. CASE ReadAnswer
  <2>1. /\ ~Running /\ answer # NoAnswer
        /\ balances' = balances /\ flags' = flags /\ run' = run /\ guard' = guard
        /\ answer' = NoAnswer
    BY <1>6 DEF ReadAnswer, Read
  <2>2. RunInv'
    BY <2>1 DEF RunInv, RunTypeOK, Running
  <2>3. Seen' = Seen
    BY <2>1 DEF Seen, Running
  <2>4. OneStep!Read
    BY <2>1, <2>3 DEF OneStep!Read, OneStep!NoAnswer, NoAnswer
  <2> QED BY <2>1, <2>2, <2>4 DEF OneStep!OutcomeNext, OneStep!NoAnswer, NoAnswer
<1>7. CASE UNCHANGED runVars
  <2>1. /\ balances' = balances /\ flags' = flags /\ answer' = answer
        /\ run' = run /\ guard' = guard
    BY <1>7 DEF runVars, outcomeVars
  <2>2. Unseen
    BY <2>1 DEF Unseen, Seen, Running
  <2>3. RunInv'
    <3>1. RunTypeOK' /\ (Running' <=> Running)
      BY <2>1 DEF RunInv, RunTypeOK, Running
    <3>2. Succeeded' = Succeeded
      BY <2>1 DEF Succeeded
    <3>3. Running => Tally' /\ TransfersMade' /\ AtomicProgress'
      BY <2>1, <3>2 DEF RunInv, Tally, TransfersMade, AtomicProgress
    <3>4. Running => InvocationsMade'
      <4>1. OneStep!FlagsAfter(run.ops, Succeeded)' = FlagsMade(Seen'.flags, run'.ops, Succeeded')
        BY DEF OneStep!FlagsAfter, FlagsMade
      <4>2. OneStep!FlagsAfter(run.ops, Succeeded) = FlagsMade(Seen.flags, run.ops, Succeeded)
        BY SameFlags
      <4> QED BY <2>1, <2>2, <3>2, <4>1, <4>2 DEF RunInv, InvocationsMade, Unseen
    <3> QED BY <3>1, <3>3, <3>4 DEF RunInv
  <2> QED BY <1>0, <2>2, <2>3
<1> QED BY <1>1, <1>2, <1>3, <1>4, <1>5, <1>6, <1>7 DEF RunNext, Work

LEMMA RunStart ==
    ASSUME RunInit
    PROVE  RunInv /\ OneStep!OutcomeInit
<1>1. /\ balances = Holdings /\ flags = [t \in Targets |-> FALSE] /\ answer = NoAnswer
      /\ run = NoRun /\ guard = FALSE /\ ~Running
  BY DEF RunInit, OutcomeInit, Running
<1>2. RunInv
  <2>1. guard = Running
    BY <1>1 DEF Running
  <2>2. balances \in [Holders -> Nat] /\ flags \in [Targets -> BOOLEAN]
    BY <1>1, BatchAssumption
  <2>3. RunTypeOK
    BY <1>1, <2>1, <2>2 DEF RunTypeOK
  <2> QED BY <1>1, <2>3 DEF RunInv
<1>3. OneStep!OutcomeInit
  BY <1>1 DEF Seen, OneStep!OutcomeInit, OneStep!NoAnswer, NoAnswer
<1> QED BY <1>2, <1>3

\* A batch is one step for everybody else: execute_multi_transfer, multi_transfer_all,
\* execute_multi_invoke and batch_invoke_no_args, which work operation by
\* operation, are refused, fail leaving nothing, or have exactly the effect of
\* the operations their receipts call successful, whatever the holdings, the
\* batches and their length.
THEOREM BatchesAreOneStep == RunSpec => BatchIsOneStep
<1>1. RunInit => RunInv /\ OneStep!OutcomeInit
  BY RunStart
<1>2. RunInv /\ [RunNext]_runVars => RunInv' /\ [OneStep!OutcomeNext]_(OneStep!outcomeVars)
  BY RunStep
<1> QED BY <1>1, <1>2, PTL DEF RunSpec, BatchIsOneStep, OneStep!OutcomeSpec

\* Amounts that are not positive are all that stands between batch.rs and its
\* promise: where the callers check them before (as multi_transfer_all and
\* batch_payout do not), an atomic batch of any length makes all its transfers
\* or none, whatever the holdings and wherever the host fails it.
THEOREM PromiseNeedsValidAmounts ==
    (\A ops \in Transfers : ~Reverted(ops)) /\ RunSpec => BatchKeepsItsPromise
<1> SUFFICES ASSUME \A ops \in Transfers : ~Reverted(ops)
             PROVE  RunSpec => BatchKeepsItsPromise
  OBVIOUS
<1>1. OneStep!KeepWhatPrecedes => OneStep!AllOrNothing
  BY SameLedger DEF OneStep!KeepWhatPrecedes, OneStep!AllOrNothing
<1>2. [OneStep!OutcomeNext]_(OneStep!outcomeVars) => [OneStep!PromisedNext]_(OneStep!outcomeVars)
  BY <1>1 DEF OneStep!OutcomeNext, OneStep!PromisedNext
<1> QED BY <1>2, BatchesAreOneStep, PTL
        DEF BatchIsOneStep, OneStep!OutcomeSpec, BatchKeepsItsPromise, OneStep!PromisedSpec

\* How many steps a running batch has before it, besides the one that returns.
Remaining == Len(run.ops) + 1 - run.next

\* A step of a running batch: one operation less of the same call, or the end,
\* with the guard removed.
MovesOn ==
    Running =>
        \/ /\ Running' /\ run'.ops = run.ops /\ run'.saved = run.saved
           /\ Remaining' \in Nat /\ Remaining' < Remaining
        \/ ~Running' /\ ~guard'

\* The safety half of BatchEnds: nothing but the next operation, the return and
\* the roll-back happens to a batch that runs, so it takes at most one step per
\* operation and one more, and no end leaves the guard set, neither that after an
\* invalid operation nor that in the middle of the loop.
THEOREM BatchesMoveOn == RunSpec => [][MovesOn]_runVars
<1>1. RunInv /\ [RunNext]_runVars => [MovesOn]_runVars
  <2> SUFFICES ASSUME RunInv, RunNext, Running PROVE MovesOn
    BY DEF MovesOn
  <2>1. /\ run \in RunRecord /\ Len(run.ops) \in Nat /\ run.next \in Nat
    BY RunFields DEF RunInv, RunRecord
  <2>2. ASSUME InLoop, Succeed \/ RecordFailure PROVE MovesOn
    <3>1. /\ run'.ops = run.ops /\ run'.saved = run.saved /\ run'.next = run.next + 1
          /\ run'.kind = run.kind
      BY <2>1, <2>2 DEF Succeed, RecordFailure, RunRecord
    <3>2. Running'
      BY <2>1, <3>1 DEF Running, NoRun, RunRecord
    <3>3. run.next <= Len(run.ops)
      BY <2>2 DEF InLoop
    <3> QED BY <2>1, <3>1, <3>2, <3>3 DEF MovesOn, Remaining
  <2>3. ASSUME RollBack \/ Return PROVE MovesOn
    BY <2>3 DEF RollBack, Return, Running, MovesOn
  <2>4. ASSUME TransferStep \/ InvokeStep \/ NoArgsStep
        PROVE  \/ InLoop /\ (Succeed \/ RecordFailure)
               \/ RollBack
    BY <2>4 DEF TransferStep, InvokeStep, NoArgsStep, SingleTransfer, FailedTransfer, SingleInvoke
  <2>5. ~Call /\ ~ReadAnswer
    BY DEF Call, ReadAnswer
  <2> QED BY <2>2, <2>3, <2>4, <2>5 DEF RunNext, Work, RunOutOfBudget
<1> QED BY <1>1, RunStart, RunStep, PTL DEF RunSpec
=============================================================================
