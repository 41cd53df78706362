\* Two market ids and two tokens, one of them POL; ids are recycled and tokens come
\* back.  An override is set and never cleared.
SPECIFICATION Spec
CONSTANTS
  Tokens = {t1, p1}
  PolTokens = {p1}
  MarketIds = {0, 1}
  None = None
  Indexes = {1, 2}
  Prices = {1}
  EarningsRates = {1, 2}
  Overrides = {1}
  TotalPars <- FewPars
  MaxListings = 3
INVARIANTS
  TotalsAreSums
  LiquidityIsPar
  FirstListingResolves
  RatesFollowEarnings
PROPERTY
  BorrowValueCatchesUp
CHECK_DEADLOCK FALSE
