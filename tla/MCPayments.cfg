\* Two users, two escrow entries, payouts, and a second initialize that may
\* change the token, the fee and its recipient.
SPECIFICATION Spec
CONSTANTS
  ann = ann
  ben = ben
  gold = gold
  tin = tin
  Users = {ann, ben}
  Contract = Contract
  NoAddress = NoAddress
  Tokens = {gold, tin}
  InitialBalance <- MCInitialBalance
  Admins = {ann}
  Beneficiaries = {Contract, ben}
  FeeRecipients = {ann}
  FeeRates = {5000, 7000, 10001}
  Amounts = {0, 2}
  Expiries = {1}
  Payouts <- MCPayouts
  MaxI128 = 12000
  MaxInits = 2
  MaxSequence = 2
  MaxEscrows = 2
  MaxDeposited = 4
INVARIANT ActiveListIsExact
INVARIANT TotalIsTheSum
INVARIANT CoveredMeansPayable
PROPERTY OnlyPayoutsEatIntoCustody
PROPERTY ImplementsEscrow
