\* Five actions in up to five transactions: two pairs back to back and one more action,
\* with events that are no action before, between and after them.
SPECIFICATION Spec
CONSTANTS
  u = u
  v = v
  ofU = ofU
  ofV = ofV
  Accounts = {ofU, ofV}
  Users = {u, v}
  UserOf <- UserOfAccount
  EffectiveUser <- VaultOfUser
  NoAccount = NoAccount
  NoPair = NoPair
  MaxActions = 5
  MaxTransactions = 5
INVARIANTS
  NeverHalts
  PairsBecomeTrades
  CreditsMatchWallets
  TransactionsCounted
CHECK_DEADLOCK FALSE
