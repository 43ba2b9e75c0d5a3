\* Listings and auctions of one NFT by three users, initialize called once.
SPECIFICATION Spec
CONSTANTS
  admin = admin
  seller = seller
  bidder = bidder
  coin = coin
  art = art
  Market = Market
  NoAddress = NoAddress
  Users <- MCUsers
  Admins = {admin}
  Currencies <- MCCurrencies
  Collections <- MCCollections
  InitialBalance <- MCInitialBalance
  RoyaltyConfigs <- MCRoyaltyConfigs
  Prices = {10, 13, 20}
  NftAmounts = {1}
  FeeRates = {0, 900, 1001}
  FeeRecipients = {admin}
  BidIncrements = {1900}
  Windows = {2}
  Durations = {3}
  MaxI128 = 19999
  MaxTime = 4
  MaxListings = 1
  MaxAuctions = 1
  MaxOffers = 0
  MaxInits = 1
INVARIANT Custody
INVARIANT CountersMatch
INVARIANT NothingStuck
PROPERTY SaleCostsThePrice
PROPERTY OutbidIsMadeWhole
PROPERTY DutchPriceOnlyFalls
PROPERTY ClosedStaysClosed
