\* Registration, proposals, execution and cancellation for two contracts.
SPECIFICATION Spec
CONSTANTS
  ann = ann
  ben = ben
  aid = aid
  treasury = treasury
  aid_name = aid_name
  treasury_name = treasury_name
  old_wasm = old_wasm
  new_wasm = new_wasm
  NoContract = NoContract
  hook = hook
  NoHook = NoHook
  Accounts = {ann, ben}
  Contracts = {aid, treasury}
  Names = {aid_name, treasury_name}
  Hashes = {old_wasm, new_wasm}
  Hooks = {hook}
  Versions = {0, 1, 2, 3}
  MaxProposals = 3
INVARIANT CopiesAgree
INVARIANT ExecutedIsRefused
INVARIANT HistoryTellsTheVersion
INVARIANT AnswersAgree
