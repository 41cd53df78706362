\* A vault and its user; two withdrawals and a deposit in two markets.
SPECIFICATION Spec
CONSTANTS
  o1 = o1
  o2 = o2
  Owners = {o1, o2}
  Effective <- VaultOfTwo
  Amounts = {0, 1, 2}
  DepositKeys = {d1}
  WithdrawalKeys = {w1, w2}
  Markets = {m1, m2}
  None = None
  MaxEvents = 6
SYMMETRY Symmetric
INVARIANTS
  SettledIsFinal
  LiquidationsMarked
  StopsOnlyOnNothing
  ZapTotalsAreSums
PROPERTIES
  ZapsFindTheirTransfers
CHECK_DEADLOCK FALSE
