\* Two owners with an account each, one of which may hold a borrow position and is
\* watched as an account book; two tokens.
SPECIFICATION VaultlessSpec
CONSTANTS
  u1 = u1
  u2 = u2
  a1 = a1
  a2 = a2
  Owners = {u1, u2}
  Accounts = {a1, a2}
  OwnerOf <- OneEach
  BorrowAccounts = {a2}
  Watched = a2
  Tokens = {t1, t2}
  Times = {}
  NoTime = NoTime
  Vaults = {}
  MaxPar = 1
  MaxList = 1
SYMMETRY TokenSymmetry
INVARIANTS
  TypeOK
  AccountListsTrackBalances
  TotalParIsSum
  PositionListsAmounts
  AmountsMirrorBalances
  HeldTokensAreListed
  UserParIsSum
  NoDeadRows
  StatusTracksAmounts
  UsersCountedAtMostOnce
PROPERTIES
  ImplementsBook
