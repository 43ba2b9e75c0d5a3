\* Two users, three aids with early and late expiry, pauses, and a client
\* that pages through the records meanwhile.
SPECIFICATION Spec
CONSTANTS
  ann = ann
  ben = ben
  Users = {ann, ben}
  Contract = Contract
  NoAddress = NoAddress
  AnyDonor = AnyDonor
  InitialBalance <- MCInitialBalance
  Treasuries = {Contract}
  DefaultExpiries = {1}
  Amounts = {0, 1, 2}
  Expiries = {1, 2}
  Limits = {0, 1, 2}
  MaxSequence = 2
  MaxAids = 3
SYMMETRY MCSymmetry
INVARIANT PotIsPending
INVARIANT OneWayOut
INVARIANT WalkMissesNothing
PROPERTY ImplementsEscrow
