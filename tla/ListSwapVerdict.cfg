\* A replacement of the list during a screening.
CONSTANTS
  i1 = i1  i2 = i2  i3 = i3
  a1 = a1  a2 = a2  b1 = b1
  ua = ua  ub = ub
  c1 = c1  c2 = c2
  Import = {i1, i2}
  Screening = {s1}
  Record = {a1, a2, b1}
  UniqueId = {ua, ub}
  Uid <- TwoUid
  File <- TwoFiles
  Agrees <- Person
  Child = {c1, c2}
  Found <- PersonFound
  Limit = 3
  None = none
SPECIFICATION Spec
INVARIANTS ListedIsReported
