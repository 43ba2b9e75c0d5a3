------------------------------ MODULE Rewards ------------------------------
(***************************************************************************)
(* A claim of referral rewards as it crosses three contracts: the referral *)
(* contract asks the registry, if it was given one, where the treasury is, *)
(* falls back on the address it was given itself, and has that contract    *)
(* pay.  If the payment fails, so does the claim, and both books stay.     *)
(*                                                                         *)
(* What the registry or the admin names may also be some other contract:   *)
(* it pays out of sight of the treasury's books, or refuses.               *)
(***************************************************************************)
EXTENDS Referral

CONSTANTS
    ReferralAddress,     \* the address of the referral contract
    TreasuryAddress,     \* the address of the treasury
    RegistryAddress,     \* the address of the registry
    Elsewhere,           \* any other contract
    TreasuryName,        \* "treasury", as the registry knows it
    Categories,
    REWARDS_CATEGORY,
    Limits,
    Amounts,
    MaxPool,
    Versions,
    Documents

ASSUME RewardsAssumption ==
    /\ NoAddress \notin {ReferralAddress, TreasuryAddress, RegistryAddress, Elsewhere}
    /\ Elsewhere \notin {ReferralAddress, TreasuryAddress, RegistryAddress}
    /\ REWARDS_CATEGORY \in Categories
    /\ Limits \cup Amounts \subseteq Int
    /\ MaxPool \in Nat
    /\ Versions \subseteq Nat

VARIABLES
    treasury,            \* DataKey::Treasury of the referral contract
    registry,            \* DataKey::Registry of the referral contract
    treasury_admin, managers, limit, referral_contract, pool,
    registry_admin, contracts, metadata, history

T == INSTANCE Treasury WITH
        admin <- treasury_admin, Accounts <- Wallets,
        ReferralContracts <- {ReferralAddress, Elsewhere}

R == INSTANCE Registry WITH
        admin <- registry_admin, Accounts <- Wallets, Names <- {TreasuryName},
        Addresses <- {TreasuryAddress, Elsewhere}

links == <<treasury, registry>>
books == <<treasury_admin, managers, limit, referral_contract, pool>>
names == <<registry_admin, contracts, metadata, history>>
all == <<vars, links, books, names>>

RewardsTypeOK ==
    /\ TypeOK
    /\ treasury \in {NoAddress, TreasuryAddress, Elsewhere}
    /\ registry \in {NoAddress, RegistryAddress, Elsewhere}
    /\ T!TypeOK
    /\ R!TypeOK

RewardsInit ==
    /\ Init
    /\ treasury = NoAddress
    /\ registry = NoAddress
    /\ T!Init
    /\ R!Init

-----------------------------------------------------------------------------

SetTreasury(caller, address) ==
    /\ caller = admin
    /\ treasury' = address
    /\ UNCHANGED <<vars, registry, books, names>>

SetRegistry(caller, address) ==
    /\ caller = admin
    /\ registry' = address
    /\ UNCHANGED <<vars, treasury, books, names>>

\* The registry was set and knows the treasury.
RegistryKnows == registry = RegistryAddress /\ contracts[TreasuryName] # R!Unregistered

\* read_treasury: a registry that cannot be asked, or does not know, is passed
\* over; another contract in its place may answer what it likes.
ResolvesTo(address) ==
    \/ RegistryKnows /\ address = contracts[TreasuryName].address
    \/ ~RegistryKnows /\ address = treasury
    \/ registry = Elsewhere

\* Mutant: the treasury's refusal is not passed on.
ReportedAsPaid(who) == T!DistributeReward(ReferralAddress, accrued[who]) \/ UNCHANGED books

PaidByTreasury(who) == T!DistributeReward(ReferralAddress, accrued[who])

Claim(who) ==
    /\ ResolvesTo(TreasuryAddress)
    /\ ClaimRewards(who)
    /\ PaidByTreasury(who)
    /\ UNCHANGED <<links, names>>

ClaimElsewhere(who) ==
    /\ ResolvesTo(Elsewhere)
    /\ ClaimRewards(who)
    /\ UNCHANGED <<links, books, names>>

\* Another contract the treasury's admin registered has a reward paid.
ForeignReward(amount) ==
    /\ T!DistributeReward(Elsewhere, amount)
    /\ UNCHANGED <<vars, links, names>>

-----------------------------------------------------------------------------

ReferralStep == (AdminStep \/ OpenStep) /\ UNCHANGED <<links, books, names>>

LinkStep ==
    \E caller \in Wallets :
        \/ \E address \in {TreasuryAddress, Elsewhere} : SetTreasury(caller, address)
        \/ \E address \in {RegistryAddress, Elsewhere} : SetRegistry(caller, address)

TreasuryStep == (T!AdminStep \/ T!ManagerStep) /\ UNCHANGED <<vars, links, names>>

RegistryStep == R!Step /\ UNCHANGED <<vars, links, books>>

ClaimStep ==
    \/ \E who \in Wallets : Claim(who) \/ ClaimElsewhere(who)
    \/ \E amount \in Amounts : ForeignReward(amount)

RewardsNext == ReferralStep \/ LinkStep \/ TreasuryStep \/ RegistryStep \/ ClaimStep

RewardsSpec == RewardsInit /\ [][RewardsNext]_all

-----------------------------------------------------------------------------

\* The category of rewards shrinks in one call by a manager's withdrawal, which
\* keeps to the limit, or by all that some referrer had accrued and by then has
\* been paid, or for another contract its admin registered in place of this one.
RewardsLeaveOnlyAsEarned ==
    [][LET taken == pool[REWARDS_CATEGORY] - pool'[REWARDS_CATEGORY]
       IN  taken > 0 =>
            \/ taken <= limit /\ UNCHANGED vars
            \/ \E who \in Wallets :
                /\ taken = accrued[who]
                /\ pool' = [pool EXCEPT ![REWARDS_CATEGORY] = @ - taken]
                /\ accrued' = [accrued EXCEPT ![who] = 0]
                /\ paid' = [paid EXCEPT ![who] = @ + taken]
            \/ referral_contract = Elsewhere /\ UNCHANGED vars]_all

\* A referrer's claim succeeds without a payment only where the referral
\* contract was pointed at another contract than the treasury.
NoEmptyClaim ==
    [][\A who \in Wallets :
        accrued'[who] < accrued[who] /\ pool' = pool => ResolvesTo(Elsewhere)]_all

\* The registry's history of a name has each version it ever had once, and
\* what is deployed is one of them, also when an older version returns.
HistoryIsComplete == R!HistoryIsComplete

\* Metadata set as immutable stays as it is, also after another call of the
\* registry's initialize, and a name never loses its full entry.
ImmutableIsForGood == R!ImmutableIsForGood
=============================================================================
