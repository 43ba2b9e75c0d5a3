----------------------------- MODULE Marketplace -----------------------------
(***************************************************************************)
(* contracts/nft-marketplace: fixed-price listings, English and Dutch      *)
(* auctions and escrowed offers, with the platform fee and the royalties   *)
(* taken from every sale.                                                  *)
(*                                                                         *)
(* A contract call is one transaction: a handler that returns Err or traps *)
(* leaves no trace, so an action is a call that succeeds and its guard is  *)
(* the conjunction of the checks the handler makes.  That includes the     *)
(* writes a handler makes just before it returns Err (place_bid's Ended,   *)
(* accept_offer's Expired): the host discards them.                        *)
(*                                                                         *)
(* The identifiers of records, the clock and the number of initialize      *)
(* calls are bounded by MaxListings, MaxAuctions, MaxOffers, MaxTime and   *)
(* MaxInits; MaxI128 stands for the largest i128 in checked_mul.           *)
(***************************************************************************)
EXTENDS Ledger, Sequences

CONSTANTS
    Users,           \* the addresses that sign calls
    Admins,          \* the ones initialize may be given as the admin
    Market,          \* the address of the marketplace contract itself
    NoAddress,       \* no admin yet
    Currencies,      \* payment tokens
    Collections,     \* NFT collections, transferred as tokens too
    InitialBalance,  \* token -> account -> amount before the first call
    Prices,          \* prices, bids and offer amounts callers may pass
    NftAmounts,      \* amounts of a collection callers may pass
    RoyaltyConfigs,  \* royalty recipient lists a collection admin may pass
    FeeRates,        \* platform_fee_bps the admin may pass
    FeeRecipients,   \* fee recipients the admin may pass
    BidIncrements,   \* bid_increment_bps the admin may pass
    Windows,         \* auto-extension windows the admin may pass
    Durations,       \* auction and offer durations callers may pass
    MaxI128, MaxTime, MaxListings, MaxAuctions, MaxOffers, MaxInits

Accounts   == Users \cup {Market}
Tokens     == Currencies \cup Collections
ListingIds == 1 .. MaxListings
AuctionIds == 1 .. MaxAuctions
OfferIds   == 1 .. MaxOffers

BPS_DENOM              == 10000
MAX_ROYALTY_BPS        == 1000
MAX_FEE_BPS            == 1000
MAX_BID_INCREMENT_BPS  == 5000
MAX_ROYALTY_RECIPIENTS == 10
MAX_WINDOW             == 3600
MAX_DURATION           == 604800

ASSUME MarketAssumption ==
    /\ Market \notin Users
    /\ NoAddress \notin Users
    /\ Admins \subseteq Users
    /\ InitialBalance \in [Tokens -> [Accounts -> Nat]]
    /\ Prices \subseteq Int
    /\ NftAmounts \subseteq Nat
    /\ FeeRates \subseteq Int
    /\ FeeRecipients \subseteq Accounts
    /\ BidIncrements \subseteq Int
    /\ Windows \subseteq Nat
    /\ Durations \subseteq Nat
    /\ RoyaltyConfigs \subseteq Seq([address : Accounts, share_bps : Int])
    /\ {MaxI128, MaxTime, MaxListings, MaxAuctions, MaxOffers, MaxInits} \subseteq Nat

VARIABLES
    now,          \* env.ledger().timestamp()
    inits,        \* how often initialize has returned (bounds the model only)
    config,       \* the admin's settings in instance storage
    currencies,   \* the whitelisted payment tokens
    collections,  \* collection -> CollectionInfo, for the registered ones
    listing_seq, listings,
    auction_seq, auctions,
    offer_seq, offers,
    balance       \* token -> account -> amount, kept by the token contracts

settings == <<inits, config, currencies>>
vars == <<now, settings, collections, listing_seq, listings,
          auction_seq, auctions, offer_seq, offers, balance>>

NoRecord == [status |-> "None"]

ListingRecord ==
    [seller : Users, collection : Collections, amount : Nat, price : Nat \ {0},
     currency : Currencies, status : {"Active", "Sold", "Cancelled"}]

AuctionRecord ==
    [auction_type : {"English", "Dutch"}, seller : Users,
     collection : Collections, amount : Nat, currency : Currencies,
     start_price : Nat \ {0}, floor_price : Int,
     current_bid : Nat, current_bidder : Accounts,
     status : {"Active", "Settled", "Cancelled"},
     start_time : Nat, end_time : Nat, auto_extension_window : Nat]

OfferRecord ==
    [offerer : Users, recipient : Users, collection : Collections,
     amount : Nat, offer_amount : Nat \ {0}, currency : Currencies,
     status : {"Pending", "Accepted", "Cancelled"}, expires_at : Nat]

ConfigRecord ==
    [admin : Users \cup {NoAddress}, platform_fee_bps : 0 .. MAX_FEE_BPS,
     fee_recipient : Accounts, bid_increment_bps : 0 .. MAX_BID_INCREMENT_BPS,
     auto_ext : Nat]

CollectionInfo ==
    [admin : Users, royalties : RoyaltyConfigs,
     active_listings : Nat, active_auctions : Nat]

\* Royalty shares between nothing and a tenth.
SharesAllowed(rc) == \A k \in DOMAIN rc : rc[k].share_bps \in 0 .. MAX_ROYALTY_BPS

\* What creation checked of an auction and of a collection's royalties.
AuctionTerms ==
    \A i \in AuctionIds :
        auctions[i].status # "None" => auctions[i].start_time < auctions[i].end_time

RoyaltiesChecked == \A c \in DOMAIN collections : SharesAllowed(collections[c].royalties)

\* The values of the stored records, for place_bid and settlement to compute with.
WellFormed ==
    /\ now \in Nat
    /\ inits \in Nat
    /\ config \in ConfigRecord
    /\ currencies \subseteq Currencies
    /\ DOMAIN collections \subseteq Collections
    /\ collections \in [DOMAIN collections -> CollectionInfo]
    /\ listing_seq \in 0 .. MaxListings
    /\ auction_seq \in 0 .. MaxAuctions
    /\ offer_seq \in 0 .. MaxOffers
    /\ listings \in [ListingIds -> ListingRecord \cup {NoRecord}]
    /\ auctions \in [AuctionIds -> AuctionRecord \cup {NoRecord}]
    /\ offers \in [OfferIds -> OfferRecord \cup {NoRecord}]
    /\ balance \in [Tokens -> [Accounts -> Nat]]
    /\ AuctionTerms
    /\ RoyaltiesChecked

\* A floor lies below the start and is never negative (bulk_create_auctions,
\* which is not in this module, does not see to that).
FloorsChecked ==
    \A i \in AuctionIds : auctions[i].status # "None" =>
        auctions[i].floor_price \in 0 .. (auctions[i].start_price - 1)

\* The same, with floors for the price of a Dutch auction to fall to.
TypeOK == WellFormed /\ FloorsChecked

Init ==
    /\ now = 0
    /\ inits = 0
    /\ config = [admin |-> NoAddress, platform_fee_bps |-> 0, fee_recipient |-> Market,
                 bid_increment_bps |-> 0, auto_ext |-> 0]
    /\ currencies = {}
    /\ collections = [c \in {} |-> NoRecord]
    /\ listing_seq = 0 /\ auction_seq = 0 /\ offer_seq = 0
    /\ listings = [i \in ListingIds |-> NoRecord]
    /\ auctions = [i \in AuctionIds |-> NoRecord]
    /\ offers = [i \in OfferIds |-> NoRecord]
    /\ balance = InitialBalance

-----------------------------------------------------------------------------
(* Arithmetic on prices.                                                   *)

\* A checked_mul by a rate returns Some.
Fits(price, bps) == price * bps <= MaxI128

\* The price of a Dutch auction is negative when only a negative floor is left
\* of it; then there is no fee.
PlatformFee(price) ==
    LET fee == (price * config.platform_fee_bps) \div BPS_DENOM
    IN  IF fee > 0 THEN fee ELSE 0

\* One recipient's royalty: a product that overflows counts as no royalty.
RoyaltyAmount(price, bps) ==
    IF Fits(price, bps) THEN (price * bps) \div BPS_DENOM ELSE 0

RoyaltyAmounts(price, rc) ==
    [k \in DOMAIN rc |-> RoyaltyAmount(price, rc[k].share_bps)]

Royalties(coll) ==
    IF coll \in DOMAIN collections THEN collections[coll].royalties ELSE <<>>

RoyaltyTotal(price, coll) ==
    SumOver(DOMAIN Royalties(coll), RoyaltyAmounts(price, Royalties(coll)))

\* Mutant: the royalties are charged on top of the price.
ProceedsBeforeRoyalties(price, coll) == price - PlatformFee(price)

\* What is left of the price for the seller; checked_sub lets it be negative.
Proceeds(price, coll) == price - PlatformFee(price) - RoyaltyTotal(price, coll)

(***************************************************************************)
(* The transfers of a sale, in order: fee, one per royalty recipient, and  *)
(* what is left, if it is positive, to the seller.                         *)
(***************************************************************************)
SalePayments(price, coll, seller) ==
    LET rc == Royalties(coll)
        proceeds == Proceeds(price, coll)
    IN  [k \in 0 .. Len(rc) + 1 |->
            IF k = 0 THEN [to |-> config.fee_recipient, amount |-> PlatformFee(price)]
            ELSE IF k \in DOMAIN rc
            THEN [to |-> rc[k].address, amount |-> RoyaltyAmount(price, rc[k].share_bps)]
            ELSE [to |-> seller, amount |-> IF proceeds > 0 THEN proceeds ELSE 0]]

\* The decay of Dutch auction a since it started.
DutchDecay(a) ==
    ((a.start_price - a.floor_price) * (now - a.start_time)) \div (a.end_time - a.start_time)

\* Mutant: the price keeps falling past the end.
DutchPriceUnclamped(a) ==
    IF now <= a.start_time THEN a.start_price ELSE a.start_price - DutchDecay(a)

\* The price of Dutch auction a at the present time: never negative before
\* the end, and the floor, whatever it is, from the end on.
DutchPrice(a) ==
    LET price == a.start_price - DutchDecay(a)
    IN  IF now >= a.end_time THEN a.floor_price
        ELSE IF now <= a.start_time THEN a.start_price
        ELSE IF price > 0 THEN price ELSE 0

DutchPriceFits(a) ==
    a.start_time < now /\ now < a.end_time
        => Fits(a.start_price - a.floor_price, now - a.start_time)

\* The smallest bid place_bid takes on auction a.
MinBid(a) ==
    LET increment == (a.current_bid * config.bid_increment_bps) \div BPS_DENOM
    IN  IF a.current_bid = 0 THEN a.start_price
        ELSE a.current_bid + (IF increment > 1 THEN increment ELSE 1)

\* Mutant: closing a record leaves the counter alone.
BumpUpOnly(n, delta) == IF delta < 0 THEN n ELSE n + delta

\* A counter of CollectionInfo moved by delta, never below zero.
Bump(n, delta) == IF delta < 0 /\ n = 0 THEN n ELSE n + delta

\* update_collection_stats: nothing for a collection that is not registered.
UpdateStats(coll, listing_delta, auction_delta) ==
    IF coll \in DOMAIN collections
    THEN [collections EXCEPT
            ![coll].active_listings = Bump(@, listing_delta),
            ![coll].active_auctions = Bump(@, auction_delta)]
    ELSE collections

-----------------------------------------------------------------------------
(* Moving tokens.  Every operator below fixes balance'.                    *)

Pull(token, from, amount) ==
    /\ CanTransfer(balance[token], from, amount)
    /\ balance' = [balance EXCEPT ![token] = Transfer(@, from, Market, amount)]

Push(token, to, amount) ==
    /\ CanTransfer(balance[token], Market, amount)
    /\ balance' = [balance EXCEPT ![token] = Transfer(@, Market, to, amount)]

\* The payer pays pay in currency, then `from' hands `to' the NFTs.
Trade(currency, payer, pay, coll, from, to, amount) ==
    LET paid == [balance EXCEPT ![currency] = PayAll(@, payer, pay)]
    IN  /\ CanPayAll(balance[currency], payer, pay)
        /\ CanTransfer(paid[coll], from, amount)
        /\ balance' = [paid EXCEPT ![coll] = Transfer(@, from, to, amount)]

-----------------------------------------------------------------------------
(* Configuration.                                                          *)

\* No signature is asked for and nothing refuses a second call, which forgets
\* the currencies, the collections and the sequences but not the records.
Initialize(admin, fee, recipient, increment, window) ==
    /\ inits < MaxInits
    /\ fee \in 0 .. MAX_FEE_BPS
    /\ increment \in 0 .. MAX_BID_INCREMENT_BPS
    /\ inits' = inits + 1
    /\ config' = [admin |-> admin, platform_fee_bps |-> fee, fee_recipient |-> recipient,
                  bid_increment_bps |-> increment, auto_ext |-> window]
    /\ currencies' = {}
    /\ collections' = [c \in {} |-> NoRecord]
    /\ listing_seq' = 0 /\ auction_seq' = 0 /\ offer_seq' = 0
    /\ UNCHANGED <<now, listings, auctions, offers, balance>>

records == <<listing_seq, listings, auction_seq, auctions, offer_seq, offers>>

SetPlatformFee(caller, fee) ==
    /\ caller = config.admin
    /\ fee \in 0 .. MAX_FEE_BPS
    /\ config' = [config EXCEPT !.platform_fee_bps = fee]
    /\ UNCHANGED <<now, inits, currencies, collections, records, balance>>

SetFeeRecipient(caller, recipient) ==
    /\ caller = config.admin
    /\ config' = [config EXCEPT !.fee_recipient = recipient]
    /\ UNCHANGED <<now, inits, currencies, collections, records, balance>>

SetBidIncrement(caller, increment) ==
    /\ caller = config.admin
    /\ increment \in 0 .. MAX_BID_INCREMENT_BPS
    /\ config' = [config EXCEPT !.bid_increment_bps = increment]
    /\ UNCHANGED <<now, inits, currencies, collections, records, balance>>

SetAutoExtension(caller, window) ==
    /\ caller = config.admin
    /\ window <= MAX_WINDOW
    /\ config' = [config EXCEPT !.auto_ext = window]
    /\ UNCHANGED <<now, inits, currencies, collections, records, balance>>

SetCurrency(caller, currency, whitelisted) ==
    /\ caller = config.admin
    /\ currencies' = IF whitelisted THEN currencies \cup {currency}
                                    ELSE currencies \ {currency}
    /\ UNCHANGED <<now, inits, config, collections, records, balance>>

RegisterCollection(caller, coll, rc) ==
    /\ caller = config.admin
    /\ coll \notin DOMAIN collections
    /\ SharesAllowed(rc)
    /\ Len(rc) <= MAX_ROYALTY_RECIPIENTS
    /\ collections' = [c \in DOMAIN collections \cup {coll} |->
            IF c = coll THEN [admin |-> caller, royalties |-> rc,
                              active_listings |-> 0, active_auctions |-> 0]
            ELSE collections[c]]
    /\ UNCHANGED <<now, settings, records, balance>>

\* No bound on the number of recipients here.
SetCollectionRoyalties(caller, coll, rc) ==
    /\ coll \in DOMAIN collections
    /\ caller = collections[coll].admin
    /\ SharesAllowed(rc)
    /\ collections' = [collections EXCEPT ![coll].royalties = rc]
    /\ UNCHANGED <<now, settings, records, balance>>

-----------------------------------------------------------------------------
(* Fixed-price listings.                                                   *)

ListNft(seller, coll, amount, price, currency) ==
    LET id == listing_seq + 1
    IN  /\ id \in ListingIds
        /\ price > 0
        /\ currency \in currencies
        /\ coll \in DOMAIN collections
        /\ Pull(coll, seller, amount)
        /\ listing_seq' = id
        /\ listings' = [listings EXCEPT ![id] =
                [seller |-> seller, collection |-> coll, amount |-> amount,
                 price |-> price, currency |-> currency, status |-> "Active"]]
        /\ collections' = UpdateStats(coll, 1, 0)
        /\ UNCHANGED <<now, settings, auction_seq, auctions, offer_seq, offers>>

BuyNft(buyer, id) ==
    LET l == listings[id]
    IN  /\ l.status = "Active"
        /\ Fits(l.price, config.platform_fee_bps)
        /\ Trade(l.currency, buyer, SalePayments(l.price, l.collection, l.seller),
                 l.collection, Market, buyer, l.amount)
        /\ listings' = [listings EXCEPT ![id].status = "Sold"]
        /\ collections' = UpdateStats(l.collection, -1, 0)
        /\ UNCHANGED <<now, settings, listing_seq, auction_seq, auctions, offer_seq, offers>>

CancelListing(caller, id) ==
    LET l == listings[id]
    IN  /\ l.status = "Active"
        /\ l.seller = caller
        /\ Push(l.collection, l.seller, l.amount)
        /\ listings' = [listings EXCEPT ![id].status = "Cancelled"]
        /\ collections' = UpdateStats(l.collection, -1, 0)
        /\ UNCHANGED <<now, settings, listing_seq, auction_seq, auctions, offer_seq, offers>>

-----------------------------------------------------------------------------
(* Auctions.                                                               *)

CreateAuction(type, seller, coll, amount, start, floor, currency, duration, window) ==
    LET id == auction_seq + 1
    IN  /\ id \in AuctionIds
        /\ start > 0
        /\ currency \in currencies
        /\ coll \in DOMAIN collections
        /\ duration \in 1 .. MAX_DURATION
        /\ Pull(coll, seller, amount)
        /\ auction_seq' = id
        /\ auctions' = [auctions EXCEPT ![id] =
                [auction_type |-> type, seller |-> seller, collection |-> coll,
                 amount |-> amount, currency |-> currency,
                 start_price |-> start, floor_price |-> floor,
                 current_bid |-> 0, current_bidder |-> Market, status |-> "Active",
                 start_time |-> now, end_time |-> now + duration,
                 auto_extension_window |-> window]]
        /\ collections' = UpdateStats(coll, 0, 1)
        /\ UNCHANGED <<now, settings, listing_seq, listings, offer_seq, offers>>

CreateEnglishAuction(seller, coll, amount, start, currency, duration) ==
    CreateAuction("English", seller, coll, amount, start, 0, currency, duration,
                  config.auto_ext)

CreateDutchAuction(seller, coll, amount, start, floor, currency, duration) ==
    /\ floor > 0
    /\ floor < start
    /\ CreateAuction("Dutch", seller, coll, amount, start, floor, currency, duration, 0)

\* Mutant: the outbid bidder is forgotten.
NotRefunded(a) == balance

\* The balances after the previous bidder of a has been paid back.
Refunded(a) ==
    IF a.current_bid > 0
    THEN [balance EXCEPT ![a.currency] =
            Transfer(@, Market, a.current_bidder, a.current_bid)]
    ELSE balance

PlaceBid(bidder, id, bid) ==
    LET a == auctions[id]
        refunded == Refunded(a)
        extended == IF a.end_time - now <= a.auto_extension_window
                    THEN now + a.auto_extension_window ELSE a.end_time
    IN  /\ a.status = "Active"
        /\ a.auction_type = "English"
        /\ now < a.end_time
        /\ bid > 0
        /\ a.current_bid > 0 => Fits(a.current_bid, config.bid_increment_bps)
        /\ bid >= MinBid(a)
        /\ ~(a.current_bid > 0 /\ a.current_bidder = bidder)
        /\ CanTransfer(balance[a.currency], Market, a.current_bid)
        /\ CanTransfer(refunded[a.currency], bidder, bid)
        /\ balance' = [refunded EXCEPT ![a.currency] = Transfer(@, bidder, Market, bid)]
        /\ auctions' = [auctions EXCEPT ![id].current_bid = bid,
                                        ![id].current_bidder = bidder,
                                        ![id].end_time = extended]
        /\ UNCHANGED <<now, settings, collections, listing_seq, listings,
                       auction_seq, offer_seq, offers>>

\* Mutant: the status of the auction is not looked at.
SettleableAgain(a) == a.status # "None" /\ now >= a.end_time

\* Anyone may settle, and auction_type is not looked at: a Dutch auction past
\* its end goes back to its seller.
Settleable(a) == a.status = "Active" /\ now >= a.end_time

Settle(id) ==
    LET a == auctions[id]
    IN  /\ Settleable(a)
        /\ auctions' = [auctions EXCEPT ![id].status = "Settled"]
        /\ collections' = UpdateStats(a.collection, 0, -1)
        /\ UNCHANGED <<now, settings, listing_seq, listings, auction_seq, offer_seq, offers>>

SettleWithoutBid(id) ==
    LET a == auctions[id]
    IN  /\ Settle(id)
        /\ a.current_bid = 0
        /\ Push(a.collection, a.seller, a.amount)

SettleWithWinner(id) ==
    LET a == auctions[id]
    IN  /\ Settle(id)
        /\ a.current_bid # 0
        /\ Fits(a.current_bid, config.platform_fee_bps)
        /\ Trade(a.currency, Market, SalePayments(a.current_bid, a.collection, a.seller),
                 a.collection, Market, a.current_bidder, a.amount)

BuyDutchAuction(buyer, id) ==
    LET a == auctions[id]
        price == DutchPrice(a)
    IN  /\ a.status = "Active"
        /\ a.auction_type = "Dutch"
        /\ DutchPriceFits(a)
        /\ price # 0
        /\ Fits(price, config.platform_fee_bps)
        /\ Trade(a.currency, buyer, SalePayments(price, a.collection, a.seller),
                 a.collection, Market, buyer, a.amount)
        /\ auctions' = [auctions EXCEPT ![id].status = "Settled"]
        /\ collections' = UpdateStats(a.collection, 0, -1)
        /\ UNCHANGED <<now, settings, listing_seq, listings, auction_seq, offer_seq, offers>>

CancelDutchAuction(caller, id) ==
    LET a == auctions[id]
    IN  /\ a.status = "Active"
        /\ a.auction_type = "Dutch"
        /\ a.seller = caller
        /\ Push(a.collection, a.seller, a.amount)
        /\ auctions' = [auctions EXCEPT ![id].status = "Cancelled"]
        /\ collections' = UpdateStats(a.collection, 0, -1)
        /\ UNCHANGED <<now, settings, listing_seq, listings, auction_seq, offer_seq, offers>>

-----------------------------------------------------------------------------
(* Offers: the payment is escrowed, the NFT stays with the recipient.      *)

\* Neither the collection nor the recipient is checked.
MakeOffer(offerer, recipient, coll, amount, payment, currency, duration) ==
    LET id == offer_seq + 1
    IN  /\ id \in OfferIds
        /\ payment > 0
        /\ currency \in currencies
        /\ duration \in 1 .. MAX_DURATION
        /\ Pull(currency, offerer, payment)
        /\ offer_seq' = id
        /\ offers' = [offers EXCEPT ![id] =
                [offerer |-> offerer, recipient |-> recipient, collection |-> coll,
                 amount |-> amount, offer_amount |-> payment, currency |-> currency,
                 status |-> "Pending", expires_at |-> now + duration]]
        /\ UNCHANGED <<now, settings, collections, listing_seq, listings,
                       auction_seq, auctions>>

\* Mutant: the seller gets the whole offer, the fee comes on top.
OfferPaymentsWithFeeOnTop(o) ==
    << [to |-> config.fee_recipient, amount |-> PlatformFee(o.offer_amount)],
       [to |-> o.recipient, amount |-> o.offer_amount] >>

\* accept_offer takes the platform fee and no royalty.
OfferPayments(o) ==
    << [to |-> config.fee_recipient, amount |-> PlatformFee(o.offer_amount)],
       [to |-> o.recipient, amount |-> o.offer_amount - PlatformFee(o.offer_amount)] >>

AcceptOffer(caller, id) ==
    LET o == offers[id]
    IN  /\ o.status = "Pending"
        /\ o.recipient = caller
        /\ now <= o.expires_at
        /\ Fits(o.offer_amount, config.platform_fee_bps)
        /\ Trade(o.currency, Market, OfferPayments(o),
                 o.collection, caller, o.offerer, o.amount)
        /\ offers' = [offers EXCEPT ![id].status = "Accepted"]
        /\ UNCHANGED <<now, settings, collections, listing_seq, listings,
                       auction_seq, auctions, offer_seq>>

\* Mutants: an accepted offer can be cancelled; an expired one cannot.
CancellableAlways(caller, o) == o.status # "None" /\ o.offerer = caller
CancellableInTime(caller, o) ==
    o.status = "Pending" /\ o.offerer = caller /\ now <= o.expires_at

Cancellable(caller, o) == o.status = "Pending" /\ o.offerer = caller

CancelOffer(caller, id) ==
    LET o == offers[id]
    IN  /\ Cancellable(caller, o)
        /\ Push(o.currency, o.offerer, o.offer_amount)
        /\ offers' = [offers EXCEPT ![id].status = "Cancelled"]
        /\ UNCHANGED <<now, settings, collections, listing_seq, listings,
                       auction_seq, auctions, offer_seq>>

-----------------------------------------------------------------------------

\* Ledgers close one after the other.
Tick ==
    /\ now < MaxTime
    /\ now' = now + 1
    /\ UNCHANGED <<settings, collections, records, balance>>

AdminStep ==
    \/ \E admin \in Admins, fee \in FeeRates, recipient \in FeeRecipients,
          increment \in BidIncrements, window \in Windows :
            Initialize(admin, fee, recipient, increment, window)
    \/ \E caller \in Users :
        \/ \E fee \in FeeRates : SetPlatformFee(caller, fee)
        \/ \E recipient \in FeeRecipients : SetFeeRecipient(caller, recipient)
        \/ \E increment \in BidIncrements : SetBidIncrement(caller, increment)
        \/ \E window \in Windows : SetAutoExtension(caller, window)
        \/ \E currency \in Currencies, whitelisted \in BOOLEAN :
                SetCurrency(caller, currency, whitelisted)
        \/ \E coll \in Collections, rc \in RoyaltyConfigs :
            \/ RegisterCollection(caller, coll, rc)
            \/ SetCollectionRoyalties(caller, coll, rc)

ListingStep ==
    \E u \in Users :
        \/ \E coll \in Collections, amount \in NftAmounts,
              price \in Prices, currency \in Currencies :
                ListNft(u, coll, amount, price, currency)
        \/ \E id \in ListingIds : BuyNft(u, id) \/ CancelListing(u, id)

AuctionStep ==
    \/ \E u \in Users :
        \/ \E coll \in Collections, amount \in NftAmounts, start \in Prices,
              currency \in Currencies, duration \in Durations :
            \/ CreateEnglishAuction(u, coll, amount, start, currency, duration)
            \/ \E floor \in Prices :
                CreateDutchAuction(u, coll, amount, start, floor, currency, duration)
        \/ \E id \in AuctionIds :
            \/ \E bid \in Prices : PlaceBid(u, id, bid)
            \/ BuyDutchAuction(u, id)
            \/ CancelDutchAuction(u, id)
    \/ \E id \in AuctionIds : SettleWithoutBid(id) \/ SettleWithWinner(id)

OfferStep ==
    \E u \in Users :
        \/ \E recipient \in Users, coll \in Collections, amount \in NftAmounts,
              payment \in Prices, currency \in Currencies, duration \in Durations :
                MakeOffer(u, recipient, coll, amount, payment, currency, duration)
        \/ \E id \in OfferIds : AcceptOffer(u, id) \/ CancelOffer(u, id)

Next == Tick \/ AdminStep \/ ListingStep \/ AuctionStep \/ OfferStep

Spec == Init /\ [][Next]_vars

-----------------------------------------------------------------------------
(* What the marketplace owes, token by token, to the parties of its open   *)
(* records.                                                                *)

ListingDebt(l, t) ==
    IF l.status = "Active" /\ l.collection = t THEN l.amount ELSE 0

AuctionDebt(a, t) ==
    IF a.status = "Active"
    THEN (IF a.collection = t THEN a.amount ELSE 0)
         + (IF a.currency = t THEN a.current_bid ELSE 0)
    ELSE 0

OfferDebt(o, t) ==
    IF o.status = "Pending" /\ o.currency = t THEN o.offer_amount ELSE 0

OwedToSellers(t)  == SumOver(ListingIds, [i \in ListingIds |-> ListingDebt(listings[i], t)])
OwedToAuctions(t) == SumOver(AuctionIds, [i \in AuctionIds |-> AuctionDebt(auctions[i], t)])
OwedToOfferers(t) == SumOver(OfferIds, [i \in OfferIds |-> OfferDebt(offers[i], t)])

Owed(t) == OwedToSellers(t) + OwedToAuctions(t) + OwedToOfferers(t)

\* In every token the contract holds at least what it owes: every listed or
\* auctioned NFT, every standing bid and every pending offer, whatever was
\* bid, outbid, settled, accepted or cancelled around it.  (place_bid,
\* settle_english_auction, accept_offer, cancel_offer: all pay from one pot.)
Custody == \A t \in Tokens : balance[t][Market] >= Owed(t)

\* While initialize was called once, the counters of a registered collection
\* are the numbers of its open records, through every path that opens or
\* closes one (update_collection_stats is called from nine handlers).  A second
\* call forgets the collections and leaves their records open.
CountersMatch ==
    inits <= 1 => \A c \in DOMAIN collections :
        /\ collections[c].active_listings = Cardinality({i \in ListingIds :
                listings[i].status = "Active" /\ listings[i].collection = c})
        /\ collections[c].active_auctions = Cardinality({i \in AuctionIds :
                auctions[i].status = "Active" /\ auctions[i].collection = c})

\* Nothing is ever stuck in the contract: the seller can take back a listing
\* or a Dutch auction, anyone can settle an auction that is over, and an
\* offerer can take back a pending offer, even an expired one.
NothingStuck ==
    /\ \A i \in ListingIds : listings[i].status = "Active"
            => ENABLED CancelListing(listings[i].seller, i)
    /\ \A i \in AuctionIds :
        /\ auctions[i].status = "Active" /\ now >= auctions[i].end_time
            => ENABLED (SettleWithoutBid(i) \/ SettleWithWinner(i))
        /\ auctions[i].status = "Active" /\ auctions[i].auction_type = "Dutch"
            => ENABLED CancelDutchAuction(auctions[i].seller, i)
    /\ \A i \in OfferIds : offers[i].status = "Pending"
            => ENABLED CancelOffer(offers[i].offerer, i)

\* A new record takes the identifier of an old one, which happens when
\* initialize has restarted the sequence.
ListingReissued(i) == listing_seq' = i /\ listing_seq = i - 1
AuctionReissued(i) == auction_seq' = i /\ auction_seq = i - 1
OfferReissued(i)   == offer_seq' = i /\ offer_seq = i - 1

\* The price a record changes hands at, in the step that closes it.
SoldNow(i)    == listings[i].status = "Active" /\ listings'[i].status = "Sold"
SettledNow(i) == auctions[i].status = "Active" /\ auctions'[i].status = "Settled"
HammerPrice(a) == IF a.auction_type = "Dutch" THEN DutchPrice(a) ELSE a.current_bid

\* Fee, royalties and proceeds are cut out of the price and never added to
\* it: in the step of a sale no account, be it the buyer of a listing or the
\* contract that pays out an English auction, parts with more than the price.
\* Two tokens keep the price apart from what is sold.
SaleCostsThePrice ==
    [][ /\ \A i \in ListingIds : SoldNow(i) /\ listings[i].collection # listings[i].currency =>
            \A x \in Accounts : balance[listings[i].currency][x] - listings[i].price
                                    <= balance'[listings[i].currency][x]
        /\ \A i \in AuctionIds : SettledNow(i) /\ auctions[i].collection # auctions[i].currency =>
            \A x \in Accounts : balance[auctions[i].currency][x] - HammerPrice(auctions[i])
                                    <= balance'[auctions[i].currency][x]
      ]_vars

\* A bid that stands until it is outbid comes back whole in the very step
\* that outbids it, and outbidding never shortens the auction: the bid goes
\* up, the end does not come nearer, the contract keeps the difference.
OutbidIsMadeWhole ==
    [][ \A i \in AuctionIds :
          LET a == auctions[i]  b == auctions'[i]
          IN  /\ a.status = "Active" /\ b.status = "Active" /\ a.current_bid # b.current_bid
              /\ ~AuctionReissued(i)
              => /\ b.current_bid > a.current_bid
                 /\ b.end_time >= a.end_time
                 /\ balance'[a.currency][Market] - balance[a.currency][Market]
                        = b.current_bid - a.current_bid
                 /\ a.current_bid > 0 =>
                        balance'[a.currency][a.current_bidder]
                            = balance[a.currency][a.current_bidder] + a.current_bid
      ]_vars

\* The price of an open Dutch auction moves one way, from start_price down to
\* floor_price, also when an odd time or duration makes the division inexact.
DutchPriceOnlyFalls ==
    [][ \A i \in AuctionIds :
          LET a == auctions[i]  b == auctions'[i]
          IN  /\ a.status = "Active" /\ b.status = "Active" /\ a.auction_type = "Dutch"
              /\ ~AuctionReissued(i)
              => /\ DutchPrice(auctions[i])' <= DutchPrice(a)
                 /\ a.floor_price <= DutchPrice(a)
                 /\ DutchPrice(a) <= a.start_price
      ]_vars

\* A closed listing, auction or offer stays as it was closed: no second sale,
\* payout or refund of it.  Only a new record may take its identifier.
ClosedStaysClosed ==
    [][ /\ \A i \in ListingIds : listings[i].status \in {"Sold", "Cancelled"}
            => listings'[i] = listings[i] \/ ListingReissued(i)
        /\ \A i \in AuctionIds : auctions[i].status \in {"Settled", "Cancelled"}
            => auctions'[i] = auctions[i] \/ AuctionReissued(i)
        /\ \A i \in OfferIds : offers[i].status \in {"Accepted", "Cancelled"}
            => offers'[i] = offers[i] \/ OfferReissued(i)
      ]_vars

\* Accepting an offer swaps: in that one step the NFTs reach the offerer, the
\* recipient gives them up, and the escrow gives up exactly the offer, split
\* between fee recipient and seller (what the contract itself is owed as fee
\* recipient stays).  Two addresses and two tokens keep the legs apart.
OfferIsASwap ==
    [][ \A i \in OfferIds :
          LET o == offers[i]
              kept == IF config.fee_recipient = Market THEN PlatformFee(o.offer_amount) ELSE 0
          IN  /\ o.status = "Pending" /\ offers'[i].status = "Accepted"
              /\ o.offerer # o.recipient /\ o.collection # o.currency
              => /\ balance'[o.collection][o.offerer]
                        = balance[o.collection][o.offerer] + o.amount
                 /\ balance'[o.collection][o.recipient]
                        = balance[o.collection][o.recipient] - o.amount
                 /\ balance'[o.currency][Market]
                        = balance[o.currency][Market] - o.offer_amount + kept
      ]_vars

\* The royalty lists that leave room for the highest fee in every price.
RoyaltiesLeaveRoom ==
    \A rc \in RoyaltyConfigs :
        SharesAllowed(rc) =>
            SumOver(DOMAIN rc, [k \in DOMAIN rc |-> rc[k].share_bps]) + MAX_FEE_BPS <= BPS_DENOM

=============================================================================
