\* Two pairs with a token in common, two providers, one of whom gets the fees.
SPECIFICATION Spec
CONSTANTS
  p = p
  q = q
  t1 = t1
  t2 = t2
  t3 = t3
  u1 = u1
  u2 = u2
  Pairs = {p, q}
  Tokens = {t1, t2, t3}
  Token0 <- FirstTokens
  Token1 <- SecondTokens
  Users = {u1, u2}
  FeeTo = u2
  Zero = Zero
  None = None
  Mints = {2}
  Sends = {1, 2}
  Prices = {1, 2}
  MaxCalls = 4
  MaxLag = 1
INVARIANTS
  RowsMatchCalls
  HaltsOnlyWithoutSend
  PairRowsSettle
  LiquidityIsSum
PROPERTIES
  BalancesSettle
CHECK_DEADLOCK FALSE
