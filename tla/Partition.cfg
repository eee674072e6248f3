SPECIFICATION MCSpec
CONSTANTS
  Families = {"partition"}
  Size = 4
  BlockSize = 3
  OpenThreads = 2
  MinParallel = 2
  IntBits = 8
  Elements = {"yes", "no", "bad"}
  root = root
  inner = inner
  other = other
  t1 = t1
  t2 = t2
  t3 = t3
  t4 = t4
  t5 = t5
  Conts = {root, inner, other}
  Root = root
  Tasks = {t1, t2, t3, t4, t5}
  Cases <- OneFlat
  Lambda = {}
  Remote = {}
  Throws = {}
  Fails = {}
  Creator = creator
  None = None
INVARIANT PartitionCorrect
PROPERTY PartitionAnswers
CHECK_DEADLOCK FALSE
