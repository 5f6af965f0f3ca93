\* Reports of a wallet of up to three transfers, with pages of one or two.
SPECIFICATION FairSpec
CONSTANTS
  c1 = c1
  c2 = c2
  noOffset = noOffset
  Caller = {c1, c2}
  Interval = 1
  Attempts = 2
  Network = {"tron", "ethereum", "bitcoin"}
  Limits = {2, 3, 6}
  MaxItems = 4
  PageLimit <- MCPageLimit
  MaxTx = 3
  MaxPool = 4
  Empty = {2}
  NoOffset = noOffset
INVARIANTS
  TypeOK
  QuietIsExact
  UnmarkedIsWhole
PROPERTIES
  Spaced
  ReportEnds
