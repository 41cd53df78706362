\* One POL trade.
SPECIFICATION Spec
CONSTANTS
  u = u
  v = v
  ofU = ofU
  ofV = ofV
  Accounts = {ofU, ofV}
  Users = {u, v}
  UserOf <- UserOfAccount
  EffectiveUser <- VaultOfUser
  NoAccount = NoAccount
  NoPair = NoPair
  MaxActions = 2
  MaxTransactions = 1
INVARIANTS
  AccountsMatchWallets
CHECK_DEADLOCK FALSE
