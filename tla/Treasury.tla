------------------------------ MODULE Treasury ------------------------------
(***************************************************************************)
(* contracts/treasury-contract: managers book amounts in and out of        *)
(* categories, and one registered contract may have rewards booked out of  *)
(* the category "rewards".  The treasury keeps books only: no call of it   *)
(* moves tokens, so the recipient of a withdrawal leaves no trace here.    *)
(*                                                                         *)
(* emergency_withdraw is no action: it needs the pause flag, and the       *)
(* treasury has no call that sets it.                                      *)
(*                                                                         *)
(* Bound: MaxPool (per category).                                          *)
(***************************************************************************)
EXTENDS Integers

CONSTANTS
    Accounts,           \* the addresses that sign calls
    NoAddress,          \* not set
    Admins,             \* admins a caller may install
    Categories,
    REWARDS_CATEGORY,
    Limits,             \* withdrawal limits a caller may pass
    Amounts,            \* amounts a manager may pass
    ReferralContracts,  \* contracts the admin may register
    MaxPool

VARIABLES
    admin,
    managers,           \* who holds Role::TreasuryManager
    limit,              \* the most one withdrawal may take
    referral_contract,  \* who may have rewards paid
    pool                \* category -> balance

vars == <<admin, managers, limit, referral_contract, pool>>

TypeOK ==
    /\ admin \in Accounts \cup {NoAddress}
    /\ managers \subseteq Accounts
    /\ limit \in Nat
    /\ referral_contract \in ReferralContracts \cup {NoAddress}
    /\ pool \in [Categories -> 0 .. MaxPool]

Init ==
    /\ admin = NoAddress
    /\ managers = {}
    /\ limit = 0
    /\ referral_contract = NoAddress
    /\ pool = [c \in Categories |-> 0]

-----------------------------------------------------------------------------
(* Administration.                                                         *)

\* Unguarded; the managers an earlier admin appointed stay.
Initialize(new_admin, new_limit) ==
    /\ new_limit > 0
    /\ admin' = new_admin
    /\ managers' = managers \cup {new_admin}
    /\ limit' = new_limit
    /\ UNCHANGED <<referral_contract, pool>>

AddTreasuryManager(caller, who) ==
    /\ caller = admin
    /\ managers' = managers \cup {who}
    /\ UNCHANGED <<admin, limit, referral_contract, pool>>

RemoveTreasuryManager(caller, who) ==
    /\ caller = admin
    /\ managers' = managers \ {who}
    /\ UNCHANGED <<admin, limit, referral_contract, pool>>

SetWithdrawalLimit(caller, new_limit) ==
    /\ caller = admin
    /\ new_limit > 0
    /\ limit' = new_limit
    /\ UNCHANGED <<admin, managers, referral_contract, pool>>

SetReferralContract(caller, contract) ==
    /\ caller = admin
    /\ referral_contract' = contract
    /\ UNCHANGED <<admin, managers, limit, pool>>

-----------------------------------------------------------------------------
(* The books.                                                              *)

Book(category, amount) ==
    /\ pool' = [pool EXCEPT ![category] = @ + amount]
    /\ UNCHANGED <<admin, managers, limit, referral_contract>>

Deposit(caller, category, amount) ==
    /\ amount > 0
    /\ caller \in managers
    /\ pool[category] + amount <= MaxPool
    /\ Book(category, amount)

\* Mutant: the limit is not checked.
Covered(category, amount) == amount <= pool[category]

Withdrawable(category, amount) == amount <= limit /\ amount <= pool[category]

Withdraw(caller, category, amount) ==
    /\ amount > 0
    /\ Withdrawable(category, amount)
    /\ caller \in managers
    /\ Book(category, -amount)

\* The withdrawal limit does not bind rewards.
DistributeReward(caller, amount) ==
    /\ amount > 0
    /\ amount <= pool[REWARDS_CATEGORY]
    /\ caller = referral_contract
    /\ Book(REWARDS_CATEGORY, -amount)

-----------------------------------------------------------------------------

AdminStep ==
    \/ \E new_admin \in Admins, new_limit \in Limits : Initialize(new_admin, new_limit)
    \/ \E caller \in Accounts :
        \/ \E who \in Accounts : AddTreasuryManager(caller, who) \/ RemoveTreasuryManager(caller, who)
        \/ \E new_limit \in Limits : SetWithdrawalLimit(caller, new_limit)
        \/ \E contract \in ReferralContracts : SetReferralContract(caller, contract)

ManagerStep ==
    \E caller \in Accounts, category \in Categories, amount \in Amounts :
        Deposit(caller, category, amount) \/ Withdraw(caller, category, amount)
=============================================================================
