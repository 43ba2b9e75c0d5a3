------------------------------ MODULE Referral ------------------------------
(***************************************************************************)
(* contracts/referral-contract: every wallet may have one referrer; the    *)
(* admin accrues commissions to the wallets above a buyer, tier by tier,   *)
(* and a referrer claims what has accrued to it.                           *)
(*                                                                         *)
(* What the treasury does with a claim is in Rewards.  Here it pays or     *)
(* refuses as it likes, and a refused claim changes nothing.               *)
(*                                                                         *)
(* MAX_SUPPORTED_TIERS is ten in the code.  ReferralRecord is left out: it *)
(* is written once, by register, and no call reads it.                     *)
(***************************************************************************)
EXTENDS Ledger, Functions, Sequences

CONSTANTS
    Wallets,
    NoAddress,      \* no admin, no referrer
    Admins,         \* admins a caller may install
    BaseAmounts,    \* amounts the admin may accrue on
    TierConfigs,    \* what the admin may pass to set_tier_config
    MAX_SUPPORTED_TIERS,
    MAX_REWARD_CAP

BPS_DENOM == 10000

ASSUME ReferralAssumption ==
    /\ IsFiniteSet(Wallets)
    /\ NoAddress \notin Wallets
    /\ Admins \subseteq Wallets
    /\ BaseAmounts \subseteq Int
    /\ TierConfigs \subseteq [tier_bps : Seq(Int), max_tiers : Nat, reward_cap : Int]
    /\ MAX_SUPPORTED_TIERS \in Nat \ {0}
    /\ MAX_REWARD_CAP \in Nat

VARIABLES
    admin,
    tier_bps,    \* tier -> share in basis points
    reward_cap,  \* what a referrer may earn in all
    referrer,    \* wallet -> the wallet that referred it
    accrued,     \* referrer -> what it may claim
    lifetime,    \* referrer -> what it has ever earned
    paid         \* referrer -> what the events say was paid to it

vars == <<admin, tier_bps, reward_cap, referrer, accrued, lifetime, paid>>

TypeOK ==
    /\ admin \in Wallets \cup {NoAddress}
    /\ tier_bps \in Seq(0 .. BPS_DENOM)
    /\ Len(tier_bps) <= MAX_SUPPORTED_TIERS
    /\ reward_cap \in 0 .. MAX_REWARD_CAP
    /\ referrer \in [Wallets -> Wallets \cup {NoAddress}]
    /\ accrued \in [Wallets -> Nat]
    /\ lifetime \in [Wallets -> 0 .. MAX_REWARD_CAP]
    /\ paid \in [Wallets -> Nat]

Init ==
    /\ admin = NoAddress
    /\ tier_bps = << >>
    /\ reward_cap = 0
    /\ referrer = [w \in Wallets |-> NoAddress]
    /\ accrued = [w \in Wallets |-> 0]
    /\ lifetime = [w \in Wallets |-> 0]
    /\ paid = [w \in Wallets |-> 0]
-----------------------------------------------------------------------------
(* Configuration.                                                          *)

\* Unguarded and unsigned: anybody, at any time.
Initialize(new_admin) ==
    /\ admin' = new_admin
    /\ tier_bps' = <<0>>
    /\ reward_cap' = 0
    /\ UNCHANGED <<referrer, accrued, lifetime, paid>>

ValidTierConfig(config) ==
    /\ config.max_tiers \in 1 .. MAX_SUPPORTED_TIERS
    /\ Len(config.tier_bps) = config.max_tiers
    /\ config.reward_cap \in 0 .. MAX_REWARD_CAP
    /\ \A t \in DOMAIN config.tier_bps : config.tier_bps[t] \in 0 .. BPS_DENOM
    /\ FoldFunction(+, 0, config.tier_bps) <= BPS_DENOM

SetTierConfig(caller, config) ==
    /\ caller = admin
    /\ ValidTierConfig(config)
    /\ tier_bps' = config.tier_bps
    /\ reward_cap' = config.reward_cap
    /\ UNCHANGED <<admin, referrer, accrued, lifetime, paid>>

-----------------------------------------------------------------------------
(* The referral graph.                                                     *)

\* Every wallet of the path but the first refers the one before it.
Climbs(path, n) == \A k \in 1 .. n : path[k] = referrer[path[k - 1]]

\* Mutant: the search stops one wallet early.
WouldCreateShortCycle(wallet, upper) ==
    \E n \in 0 .. MAX_SUPPORTED_TIERS - 2 : \E path \in [0 .. n -> Wallets] :
        path[0] = upper /\ path[n] = wallet /\ Climbs(path, n)

\* The search upwards from the new referrer looks at MAX_SUPPORTED_TIERS wallets.
WouldCreateCycle(wallet, upper) ==
    \E n \in 0 .. MAX_SUPPORTED_TIERS - 1 : \E path \in [0 .. n -> Wallets] :
        path[0] = upper /\ path[n] = wallet /\ Climbs(path, n)

Link(wallet, upper) ==
    /\ wallet # upper
    /\ ~WouldCreateCycle(wallet, upper)
    /\ referrer' = [referrer EXCEPT ![wallet] = upper]
    /\ UNCHANGED <<admin, tier_bps, reward_cap, accrued, lifetime, paid>>

\* The admin may also replace a referrer.
SetReferrer(caller, wallet, upper) == caller = admin /\ Link(wallet, upper)

Register(wallet, upper) ==
    /\ referrer[wallet] = NoAddress
    /\ referrer[upper] # NoAddress
    /\ Link(wallet, upper)

-----------------------------------------------------------------------------
(* Rewards.                                                                *)

\* apply_bps: the quotient and the remainder of the amount apart, so that no
\* product overflows; the result is the share, rounded down.
BpsOf(amount, bps) ==
    (amount \div BPS_DENOM) * bps + ((amount % BPS_DENOM) * bps) \div BPS_DENOM

\* Tier -> who earns it on a purchase by wallet; nobody above the first gap.
Uplines(wallet) ==
    LET up[t \in 0 .. Len(tier_bps)] ==
            IF t = 0 THEN wallet
            ELSE IF up[t - 1] = NoAddress THEN NoAddress
            ELSE referrer[up[t - 1]]
    IN  up

\* Mutant: the last tier may exceed the cap.
Uncapped(who, commission) == IF lifetime[who] < reward_cap THEN commission ELSE 0

\* Tier by tier each credit is cut to what the cap leaves, which is the cut of their sum.
Capped(who, commission) ==
    LET left == IF lifetime[who] < reward_cap THEN reward_cap - lifetime[who] ELSE 0
    IN  IF commission > left THEN left ELSE commission

Credit(wallet, base, who) ==
    LET up == Uplines(wallet)
        commission == [t \in DOMAIN tier_bps |-> BpsOf(base, tier_bps[t])]
    IN  Capped(who, SumOver({t \in DOMAIN tier_bps : up[t] = who}, commission))

Accrue(caller, wallet, base) ==
    /\ caller = admin
    /\ base > 0
    /\ accrued' = [w \in Wallets |-> accrued[w] + Credit(wallet, base, w)]
    /\ lifetime' = [w \in Wallets |-> lifetime[w] + Credit(wallet, base, w)]
    /\ UNCHANGED <<admin, tier_bps, reward_cap, referrer, paid>>

\* Mutant: what was paid may be claimed again.
ClaimRewardsAgain(who) ==
    /\ accrued[who] > 0
    /\ paid' = [paid EXCEPT ![who] = @ + accrued[who]]
    /\ UNCHANGED <<admin, tier_bps, reward_cap, referrer, accrued, lifetime>>

\* With nothing accrued the call returns zero and changes nothing.
ClaimRewards(who) ==
    /\ accrued[who] > 0
    /\ accrued' = [accrued EXCEPT ![who] = 0]
    /\ paid' = [paid EXCEPT ![who] = @ + accrued[who]]
    /\ UNCHANGED <<admin, tier_bps, reward_cap, referrer, lifetime>>

-----------------------------------------------------------------------------

AdminStep ==
    \/ \E new_admin \in Admins : Initialize(new_admin)
    \/ \E caller \in Wallets :
        \/ \E config \in TierConfigs : SetTierConfig(caller, config)
        \/ \E wallet, upper \in Wallets : SetReferrer(caller, wallet, upper)
        \/ \E wallet \in Wallets, base \in BaseAmounts : Accrue(caller, wallet, base)

OpenStep ==
    \/ \E wallet, upper \in Wallets : Register(wallet, upper)

Next == AdminStep \/ OpenStep \/ \E who \in Wallets : ClaimRewards(who)

Spec == Init /\ [][Next]_vars

-----------------------------------------------------------------------------

\* Nobody is its own referrer over as many tiers as can ever be rewarded,
\* whatever the admin and the wallets link and relink (set_referrer,
\* register).  Longer cycles do arise: the search does not see that far.
NoShortCycle ==
    \A n \in 1 .. MAX_SUPPORTED_TIERS : \A path \in [0 .. n -> Wallets] :
        Climbs(path, n) => path[n] # path[0]

Earned(w) == lifetime'[w] - lifetime[w]

\* accrue credits no commission to the buyer itself, nobody for more than one
\* tier, nothing beyond the cap in force, and in all no more than the amount.
AccrualIsFair ==
    [][\A wallet \in Wallets, base \in BaseAmounts :
        lifetime' # lifetime /\ Accrue(admin, wallet, base) =>
            /\ Earned(wallet) = 0
            /\ \A w \in Wallets : Earned(w) > 0 =>
                /\ lifetime'[w] <= reward_cap
                /\ \E t \in DOMAIN tier_bps : Earned(w) <= BpsOf(base, tier_bps[t])
            /\ SumOver(Wallets, [w \in Wallets |-> Earned(w)]) <= base]_vars

\* What accrue ever credited to a referrer, by which the cap is enforced, is
\* what claims reported as paid and what it may still claim: a refused claim
\* loses nothing and an accepted one cannot be repeated.
BooksBalance == \A w \in Wallets : lifetime[w] = accrued[w] + paid[w]
=============================================================================
