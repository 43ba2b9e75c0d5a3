--------------------------- MODULE MarketplaceBulk ---------------------------
(***************************************************************************)
(* contracts/nft-marketplace, the two bulk entry points: bulk_list and     *)
(* bulk_create_auctions go through their items one after the other, skip   *)
(* and count the ones that fail a check, and escrow and store the others.  *)
(* A transfer that traps, or identifiers that have run out, fail the whole *)
(* call.  The other calls are those of Marketplace.                        *)
(***************************************************************************)
EXTENDS Marketplace

CONSTANTS
    ListingBatches,  \* items callers may pass to bulk_list
    AuctionBatches   \* items callers may pass to bulk_create_auctions

ASSUME BulkAssumption ==
    /\ ListingBatches \subseteq
        Seq([collection : Collections, amount : Nat, price : Int, currency : Currencies])
    /\ AuctionBatches \subseteq
        Seq([auction_type : {"English", "Dutch"}, collection : Collections, amount : Nat,
             start_price : Int, floor_price : Int, currency : Currencies,
             duration_seconds : Nat])

NoResult == [succeeded |-> 0, failed |-> 0, ids |-> << >>]

MAX_BULK_SIZE == 50

-----------------------------------------------------------------------------
(* The loop.  Its state is what a call has done so far: the identifiers    *)
(* it took from the sequence, the records, the collections, the balances,  *)
(* its counts, and whether it is still going to return.                    *)

Begun(seq, records_) ==
    [seq |-> seq, records |-> records_, collections |-> collections, balance |-> balance,
     result |-> NoResult, returns |-> TRUE]

\* Mutant: the item is pulled before it is checked.
SkipAfterPull(run, seller, item) ==
    [run EXCEPT !.balance[item.collection] = Transfer(@, seller, Market, item.amount),
                !.result.failed = @ + 1]

Skip(run, seller, item) == [run EXCEPT !.result.failed = @ + 1]

\* An accepted item: identifier, transfer, record, counter, result.
Take(run, seller, item, ids, record, listing_delta, auction_delta) ==
    LET id == run.seq + 1
        coll == item.collection
    IN  IF id \in ids /\ CanTransfer(run.balance[coll], seller, item.amount)
        THEN [run EXCEPT
                !.seq = id,
                !.records[id] = record,
                !.collections[coll].active_listings = Bump(@, listing_delta),
                !.collections[coll].active_auctions = Bump(@, auction_delta),
                !.balance[coll] = Transfer(@, seller, Market, item.amount),
                !.result.succeeded = @ + 1,
                !.result.ids = Append(@, id)]
        ELSE [run EXCEPT !.returns = FALSE]

ListableItem(item) ==
    /\ item.price > 0
    /\ item.currency \in currencies
    /\ item.collection \in DOMAIN collections

ListItem(run, seller, item) ==
    IF ~run.returns THEN run
    ELSE IF ~ListableItem(item) THEN Skip(run, seller, item)
    ELSE Take(run, seller, item, ListingIds,
              [seller |-> seller, collection |-> item.collection, amount |-> item.amount,
               price |-> item.price, currency |-> item.currency, status |-> "Active"],
              1, 0)

\* Neither the currency nor the sign of a floor is looked at, and an English
\* auction may have any floor.
AuctionableItem(item) ==
    /\ item.duration_seconds \in 1 .. MAX_DURATION
    /\ item.start_price > 0
    /\ item.auction_type = "Dutch" => item.floor_price < item.start_price
    /\ item.collection \in DOMAIN collections

AuctionItem(run, seller, item) ==
    IF ~run.returns THEN run
    ELSE IF ~AuctionableItem(item) THEN Skip(run, seller, item)
    ELSE Take(run, seller, item, AuctionIds,
              [auction_type |-> item.auction_type, seller |-> seller,
               collection |-> item.collection, amount |-> item.amount,
               currency |-> item.currency, start_price |-> item.start_price,
               floor_price |-> item.floor_price, current_bid |-> 0,
               current_bidder |-> Market, status |-> "Active", start_time |-> now,
               end_time |-> now + item.duration_seconds,
               auto_extension_window |->
                    IF item.auction_type = "English" THEN config.auto_ext ELSE 0],
              0, 1)

-----------------------------------------------------------------------------

\* The loops over all items; the result of a call is that of its loop.
ListRun(seller, items) ==
    LET run[k \in 0 .. Len(items)] ==
          IF k = 0 THEN Begun(listing_seq, listings) ELSE ListItem(run[k - 1], seller, items[k])
    IN  run[Len(items)]

AuctionRun(seller, items) ==
    LET run[k \in 0 .. Len(items)] ==
          IF k = 0 THEN Begun(auction_seq, auctions) ELSE AuctionItem(run[k - 1], seller, items[k])
    IN  run[Len(items)]

BulkList(seller, items) ==
    LET run == ListRun(seller, items)
    IN  /\ Len(items) \in 1 .. MAX_BULK_SIZE
        /\ run.returns
        /\ listing_seq' = run.seq
        /\ listings' = run.records
        /\ collections' = run.collections
        /\ balance' = run.balance
        /\ UNCHANGED <<now, settings, auction_seq, auctions, offer_seq, offers>>

BulkCreateAuctions(seller, items) ==
    LET run == AuctionRun(seller, items)
    IN  /\ Len(items) \in 1 .. MAX_BULK_SIZE
        /\ run.returns
        /\ auction_seq' = run.seq
        /\ auctions' = run.records
        /\ collections' = run.collections
        /\ balance' = run.balance
        /\ UNCHANGED <<now, settings, listing_seq, listings, offer_seq, offers>>

BulkStep ==
    \E seller \in Users :
        \/ \E items \in ListingBatches : BulkList(seller, items)
        \/ \E items \in AuctionBatches : BulkCreateAuctions(seller, items)

BulkNext == Next \/ BulkStep

BulkSpec == Init /\ [][BulkNext]_vars

-----------------------------------------------------------------------------

\* The records a step opens: those between the old and the new sequence number.
Opened(ids, before, after) == {i \in ids : before < i /\ i <= after}

EscrowedFor(opened, records_, c) ==
    SumOver({i \in opened : records_[i].collection = c}, [i \in opened |-> records_[i].amount])

\* A step opened the records that the result names, and no others, and moved
\* their NFTs into escrow.
IsTruthful(result, opened, opened_records) ==
    /\ {result.ids[k] : k \in DOMAIN result.ids} = opened
    /\ Cardinality(opened) = result.succeeded
    /\ \A i \in opened : opened_records[i].status = "Active"
    /\ \A c \in Collections :
          balance'[c][Market] - balance[c][Market] = EscrowedFor(opened, opened_records, c)

\* Whatever items of a bulk call fail, and wherever they stand among the ones
\* it takes: the identifiers it returns are exactly the records it opened, one
\* for each success, and in every collection exactly the NFTs of these records
\* have moved into escrow, and nothing else (bulk_list, bulk_create_auctions).
BulkTakesWhatItReports ==
    [][\A seller \in Users :
        /\ listing_seq' > listing_seq => \A items \in ListingBatches : BulkList(seller, items) =>
              IsTruthful(ListRun(seller, items).result,
                         Opened(ListingIds, listing_seq, listing_seq'), listings')
        /\ auction_seq' > auction_seq => \A items \in AuctionBatches : BulkCreateAuctions(seller, items) =>
              IsTruthful(AuctionRun(seller, items).result,
                         Opened(AuctionIds, auction_seq, auction_seq'), auctions')]_vars
=============================================================================
