\* An isolation-mode vault u1 of the user u2, an account each, one token, which is
\* also the pair token of a vesting position; expirations are set and cleared.
SPECIFICATION VestingSpec
CONSTANTS
  u1 = u1
  u2 = u2
  a1 = a1
  a2 = a2
  Owners = {u1, u2}
  Accounts = {a1, a2}
  OwnerOf <- OneEach
  BorrowAccounts = {a1}
  Tokens = {t1}
  PairToken = t1
  Nfts = {n1}
  Times = {100}
  NoTime = NoTime
  Vaults = {u1}
  MaxPar = 1
  MaxList = 2
INVARIANTS
  PositionCountsExact
  EffectiveUsersResolve
  ExpirationsListed
  LockedParConserved
  UserParWithVesting
