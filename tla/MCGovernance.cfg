\* Proposals of two admins while roles, thresholds and admin sets change.
SPECIFICATION Spec
CONSTANTS
  ann = ann
  ben = ben
  cat = cat
  expiry = expiry
  tier = tier
  nonsense = nonsense
  Accounts = {ann, ben, cat}
  NoAddress = NoAddress
  FirstAdmins = {ann}
  Roles = {Admin}
  Admin = Admin
  Keys = {expiry, tier, nonsense}
  Bounds <- MCBounds
  Defaults <- MCDefaults
  Values = {0, 1}
  Actions <- MCActions
  AdminSets <- MCAdminSets
  Thresholds = {0, 1, 2, 3}
  MaxProposals = 2
INVARIANT TypeOK
INVARIANT VotesAreCounted
PROPERTY DecisionsAreBacked
