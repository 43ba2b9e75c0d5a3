\* The same batches against what the documentation says of the atomic mode.
SPECIFICATION RunSpec
CONSTANTS
  ann = ann
  ben = ben
  aid = aid
  treasury = treasury
  Payers = {ann}
  Transfers <- MCTransfers
  Invocations <- MCInvocations
  MaxOperations = 3
  Holdings <- MCHoldings
  Targets = {aid, treasury}
PROPERTY BatchKeepsItsPromise
