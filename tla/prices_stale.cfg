\* An indexer at the head of the chain, whose RPC endpoint always answers.
SPECIFICATION Spec
CONSTANTS
  Prices = {p1, p2}
  ZeroPrice = ZeroPrice
  NoPrice = NoPrice
  NoRow = NoRow
  AtHead = TRUE
  RpcFails = FALSE
  MaxBlock = 2
INVARIANTS
  RowIsOfItsBlock
