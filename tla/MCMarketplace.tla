---------------------------- MODULE MCMarketplace ----------------------------
(***************************************************************************)
(* Values for the constants of Marketplace: an admin who is also the       *)
(* creator, a seller and a bidder; one payment token; one collection.      *)
(***************************************************************************)
EXTENDS Marketplace

CONSTANTS admin, seller, bidder, coin, art

MCUsers == {admin, seller, bidder}
MCCurrencies == {coin}
MCCollections == {art}

\* A purse for the seller and the bidder, the NFTs with the seller.
MCInitialBalance ==
    [t \in {coin, art} |->
        [a \in MCUsers \cup {Market} |->
            CASE t = coin /\ a # Market -> 20
              [] t = art /\ a = seller -> 1
              [] OTHER -> 0]]

\* No royalty, and one tenth to the creator.
MCRoyaltyConfigs == {<<>>, <<[address |-> admin, share_bps |-> 1000]>>}

MCNoRoyalties == {<<>>}

\* Ten recipients of a tenth each: every share, and the number of recipients,
\* is one that register_collection accepts.
MCGreedyRoyalties == {[k \in 1 .. 10 |-> [address |-> admin, share_bps |-> 1000]]}
=============================================================================
