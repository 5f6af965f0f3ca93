\* The hop of a node is a distance (expected violation).
CONSTANTS
  r = r  a = a  b = b  c = c  x = x  trx = trx  usdt = usdt
  Wallet = {r, a, b, c, x}
  Asset = {trx, usdt}
  Root = r
  Graphs <- Subgraphs
  Requests <- AllRequests
  None = none
SPECIFICATION Spec
INVARIANT NodeHopsAreReal
CHECK_DEADLOCK FALSE
