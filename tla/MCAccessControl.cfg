\* Roles, their hierarchy and the admins, initialize called again included.
SPECIFICATION Spec
CONSTANTS
  ann = ann
  ben = ben
  minter = minter
  pauser = pauser
  SuperRole = super
  NoAddress = NoAddress
  Accounts = {ann, ben}
  Roles = {super, minter, pauser}
  MaxListed = 4
INVARIANT NoRoleCycle
INVARIANT QueriesAgree
PROPERTY RightsFollowTheirCause
