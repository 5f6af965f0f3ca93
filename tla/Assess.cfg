\* Assessments beside the editing of a tag, an import and the provider cache.
SPECIFICATION Spec
CONSTANTS
  me = me
  peer = peer
  far = far
  src = src
  mixer = mixer
  plain = plain
  l1 = l1
  e1 = e1
  a1 = a1
  a2 = a2
  atSource = atSource
  ada = ada
  bob = bob
  None = None
  NoPoints = NoPoints
  Editor = {e1}
  TagKey = {atSource}
  Label = {l1}
  Addr = {me, peer, far, src}
  Root = me
  Tag = {mixer, plain}
  TagPoints <- MCTagPoints
  TagRules <- MCTagRules
  Assessor = {a1, a2}
  Requests <- MCRequests
  KytAnswers <- MCKytAnswers
  Subject = {ada, bob}
  KeyAddr <- MCKeyAddr
  KeyTag <- MCKeyTag
  Here = {atSource}
  Counterparty = {peer}
  Unlisted = {far}
  Nodes <- MCNodes
  Edges <- MCEdges
  ChainMonthly = 20
SYMMETRY MCSymmetry
CHECK_DEADLOCK FALSE
INVARIANTS
  AssessTypeOK
  OverrideHasGrounds
  RedHasCause
  EvidenceNeverLowers
  SkipIsTold

  
