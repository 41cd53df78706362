\* One borrow position and one token: enough for a balance to change sign directly.
SPECIFICATION Spec
CONSTANTS
  u1 = u1
  u2 = u2
  a1 = a1
  a2 = a2
  Owners = {u1}
  Accounts = {a1}
  OwnerOf <- OneAccount
  BorrowAccounts = {a1}
  Tokens = {t1}
  Times = {}
  NoTime = NoTime
  Vaults = {}
  MaxPar = 1
  MaxList = 2
INVARIANTS
  PositionListsTrackSigns
