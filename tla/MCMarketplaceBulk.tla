-------------------------- MODULE MCMarketplaceBulk --------------------------
(***************************************************************************)
(* The batches of items callers pass to the bulk entry points, with the    *)
(* other constants as in MCMarketplace.                                    *)
(***************************************************************************)
EXTENDS MCMarketplace, MarketplaceBulk

\* The bidder has one purse, the seller NFTs for two records.
MCBulkBalance ==
    [t \in {coin, art} |->
        [a \in {seller, bidder, Market} |->
            CASE t = coin /\ a = bidder -> 10
              [] t = art /\ a = seller -> 2
              [] OTHER -> 0]]

\* One NFT of art for ten coins, for nothing (which fails), and more of them
\* than the seller has.
Item(price, amount) ==
    [collection |-> art, amount |-> amount, price |-> price, currency |-> coin]

MCListingBatches ==
    {<<Item(10, 1), Item(0, 1), Item(10, 1)>>,
     <<Item(10, 1), Item(10, 99)>>}

AuctionOf(type, floor, duration) ==
    [auction_type |-> type, collection |-> art, amount |-> 1, start_price |-> 10,
     floor_price |-> floor, currency |-> coin, duration_seconds |-> duration]

\* A Dutch auction whose price is nothing halfway and less at its end, behind
\* one without duration; an English one with a floor above its start, behind a
\* Dutch one with such a floor.
MCAuctionBatches ==
    {<<AuctionOf("Dutch", 5, 0), AuctionOf("Dutch", -20, 2)>>,
     <<AuctionOf("Dutch", 12, 1), AuctionOf("English", 12, 1)>>}
=============================================================================
