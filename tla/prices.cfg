\* An indexer that is catching up, with a flaky RPC endpoint.
SPECIFICATION Spec
CONSTANTS
  Prices = {p1, p2, p3}
  ZeroPrice = ZeroPrice
  NoPrice = NoPrice
  NoRow = NoRow
  AtHead = FALSE
  RpcFails = TRUE
  MaxBlock = 3
SYMMETRY PriceSymmetry
INVARIANTS
  ReportedPricePrevails
PROPERTIES
  PriceFollowsBlocks
