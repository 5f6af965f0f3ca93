\* Every graph within Chain, traced with every request and under every limit.
CONSTANTS
  r = r  a = a  b = b  c = c  x = x  trx = trx  usdt = usdt
  Wallet = {r, a, b, c, x}
  Asset = {trx, usdt}
  Root = r
  Graphs <- Subgraphs
  Requests <- AllRequests
  None = none
SPECIFICATION FairSpec
INVARIANTS TypeOK EdgeHopsAreReal SilenceMeansAll ChainIsComplete NearestToRoot
PROPERTIES TraceEnds
CHECK_DEADLOCK FALSE
