\* Bulk calls, offers and the other calls when initialize may be called again
\* over open records.
SPECIFICATION BulkSpec
CONSTANTS
  admin = admin
  seller = seller
  bidder = bidder
  coin = coin
  art = art
  Market = Market
  NoAddress = NoAddress
  Users = {seller, bidder}
  Admins = {bidder}
  Currencies <- MCCurrencies
  Collections <- MCCollections
  InitialBalance <- MCBulkBalance
  RoyaltyConfigs <- MCNoRoyalties
  Prices = {10}
  NftAmounts = {1}
  FeeRates = {1000}
  FeeRecipients = {Market}
  BidIncrements = {0}
  Windows = {0}
  Durations = {1}
  MaxI128 = 1000000
  MaxTime = 2
  MaxListings = 2
  MaxAuctions = 1
  MaxOffers = 1
  MaxInits = 2
  ListingBatches <- MCListingBatches
  AuctionBatches <- MCAuctionBatches
INVARIANT Custody
INVARIANT NothingStuck
PROPERTY OfferIsASwap
PROPERTY BulkTakesWhatItReports
