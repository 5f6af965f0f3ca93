\* Overlapping calls of sync_wallet for one wallet, forced or not, with every
\* kind of fault.
CONSTANTS
  w1 = w1  w2 = w2  wa = wa  wb = wb  eth = eth  usdt = usdt  m1 = m1  m2 = m2
  t1 = t1  t2 = t2  t3 = t3  h1 = h1  h2 = h2  h3 = h3  none = none
  Worker = {w1, w2}
  Wallet = {wa}
  Transfer = {t1, t2}
  Contract = {eth, usdt}
  Native = eth
  Month = {m1}
  None = none
  WalletOf <- SoloWallet
  ContractOf <- SoloContract
  MonthOf <- SoloMonth
  HashOf <- SoloHash
  BlockOf <- SoloBlock
  IsError <- SoloError
  ForceArgs = {FALSE, TRUE}
  Faults = {"provider", "database", "crash"}
  Overlap = TRUE
SPECIFICATION FairSpec
INVARIANTS CompletedMeansStored AggregatesExplained RunningIsAttended
PROPERTY RunningIsReleased
