\* Batches of transfers and of invocations, atomic and not.
SPECIFICATION RunSpec
CONSTANTS
  ann = ann
  ben = ben
  aid = aid
  treasury = treasury
  Payers = {ann}
  Transfers <- MCTransfers
  Invocations <- MCInvocations
  MaxOperations = 3
  Holdings <- MCHoldings
  Targets = {aid, treasury}
PROPERTY BatchIsOneStep
PROPERTY BatchEnds
