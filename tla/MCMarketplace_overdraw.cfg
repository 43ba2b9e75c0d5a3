\* One auction and one offer when the royalties of the collection and the fee
\* come to more than the price.
SPECIFICATION Spec
CONSTANTS
  admin = admin
  seller = seller
  bidder = bidder
  coin = coin
  art = art
  Market = Market
  NoAddress = NoAddress
  Users <- MCUsers
  Admins = {admin}
  Currencies <- MCCurrencies
  Collections <- MCCollections
  InitialBalance <- MCInitialBalance
  RoyaltyConfigs <- MCGreedyRoyalties
  Prices = {10}
  NftAmounts = {1}
  FeeRates = {1000}
  FeeRecipients = {admin}
  BidIncrements = {2000}
  Windows = {2}
  Durations = {1}
  MaxI128 = 1000000
  MaxTime = 2
  MaxListings = 0
  MaxAuctions = 1
  MaxOffers = 1
  MaxInits = 1
INVARIANT Custody
