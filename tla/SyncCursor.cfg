\* The cursor of a completed sync (expected violation).
CONSTANTS
  w1 = w1  w2 = w2  wa = wa  wb = wb  eth = eth  usdt = usdt  m1 = m1  m2 = m2
  t1 = t1  t2 = t2  t3 = t3  h1 = h1  h2 = h2  h3 = h3  none = none
  Worker = {w1, w2}
  Wallet = {wa, wb}
  Transfer = {t1, t2, t3}
  Contract = {eth, usdt}
  Native = eth
  Month = {m1, m2}
  None = none
  WalletOf <- BatchWallet
  ContractOf <- BatchContract
  MonthOf <- BatchMonth
  HashOf <- BatchHash
  BlockOf <- BatchBlock
  IsError <- BatchError
  ForceArgs = {FALSE, TRUE}
  Faults = {}
  Overlap = FALSE
SPECIFICATION Spec
INVARIANT CursorCoversHistory
