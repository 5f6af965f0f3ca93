\* Three requests for one address, of any kind, with fairness.
CONSTANTS
  Session = {s1, s2, s3}
  Key = {k1}
  Response = {r1, r2}
  None = none
SPECIFICATION FairSpec
INVARIANTS TypeOK ExposuresOfOneSave
PROPERTIES RequestsFinish
