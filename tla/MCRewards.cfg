\* The referral graph, and claims across the referral contract, the registry
\* and the treasury.
SPECIFICATION RewardsSpec
CONSTANTS
  ann = ann
  ben = ben
  cat = cat
  NoAddress = NoAddress
  Wallets = {ann, ben, cat}
  Admins = {ann}
  BaseAmounts = {0, 1, 3}
  TierConfigs <- MCTierConfigs
  MAX_SUPPORTED_TIERS = 2
  MAX_REWARD_CAP = 3
  ReferralAddress = ReferralAddress
  TreasuryAddress = TreasuryAddress
  RegistryAddress = RegistryAddress
  Elsewhere = Elsewhere
  TreasuryName = TreasuryName
  REWARDS_CATEGORY = rewards
  Categories = {rewards}
  Limits = {0, 1}
  Amounts = {1, 2}
  MaxPool = 2
  Versions = {1, 2}
  Documents <- MCDocuments
CONSTRAINT MCFocus
INVARIANT NoShortCycle
INVARIANT BooksBalance
INVARIANT HistoryIsComplete
PROPERTY AccrualIsFair
PROPERTY RewardsLeaveOnlyAsEarned
PROPERTY NoEmptyClaim
PROPERTY ImmutableIsForGood
