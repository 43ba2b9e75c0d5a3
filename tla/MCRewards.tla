----------------------------- MODULE MCRewards -----------------------------
(***************************************************************************)
(* Values for the constants of Rewards: ann administers all three          *)
(* contracts; three wallets, searches of two wallets (so that a cycle of   *)
(* three gets through), two schedules of commissions, and three that the   *)
(* contract must refuse.                                                   *)
(*                                                                         *)
(* The run looks at two parts of the state space, which MCFocus bounds:    *)
(* the whole referral graph while the other contracts are idle, and the    *)
(* three contracts together while ben's referrals of ann are the only ones *)
(* that pay, so that a reward of two units accrues to him, more than one   *)
(* withdrawal may take.                                                    *)
(***************************************************************************)
EXTENDS Rewards

CONSTANTS ann, ben, cat

Schedule(bps, cap) == [tier_bps |-> bps, max_tiers |-> Len(bps), reward_cap |-> cap]

MCTierConfigs ==
    {Schedule(<<5000, 5000>>, 3), Schedule(<<10000>>, 2),
     Schedule(<<10000, 10000>>, 3), Schedule(<<0, 0, 0>>, 3), Schedule(<<5000>>, 4)}

\* A document, and one whose hash has the wrong length.
MCDocuments == {[hash_len |-> 32, uri_len |-> 1], [hash_len |-> 31, uri_len |-> 1]}

\* No treasury to pay from and no registry to ask: every link and accrual.
GraphAlone ==
    /\ treasury_admin = NoAddress /\ registry_admin = NoAddress
    /\ treasury # TreasuryAddress /\ registry = NoAddress

\* One referrer and a bounded reward: every claim, payment and address.
OneReferrer ==
    /\ \A w \in Wallets \ {ann} : referrer[w] = NoAddress
    /\ referrer[ann] \in {ben, NoAddress}
    /\ cat \notin managers /\ lifetime[cat] = 0
    /\ reward_cap < MAX_REWARD_CAP

MCFocus == GraphAlone \/ OneReferrer
=============================================================================
