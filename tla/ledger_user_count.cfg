\* A trade whose taker or maker is new; the row it saves was loaded before.
SPECIFICATION Spec
CONSTANTS
  u1 = u1
  u2 = u2
  a1 = a1
  a2 = a2
  Owners = {u1, u2}
  Accounts = {a1, a2}
  OwnerOf <- OneEach
  BorrowAccounts = {}
  Tokens = {t1, t2}
  Times = {}
  NoTime = NoTime
  Vaults = {}
  MaxPar = 1
  MaxList = 1
INVARIANTS
  UserCountExact
