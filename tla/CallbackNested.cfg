SPECIFICATION MCSpec
CONSTANTS
  Families = {"continuation"}
  Size = 1
  BlockSize = 1
  OpenThreads = 1
  MinParallel = 1
  IntBits = 8
  Elements = {"yes"}
  root = root
  inner = inner
  other = other
  t1 = t1
  t2 = t2
  t3 = t3
  t4 = t4
  t5 = t5
  Conts = {root, inner, other}
  Root = root
  Tasks = {t1, t2, t3, t4, t5}
  Cases <- AllCases
  Lambda = {t1}
  Remote = {t3}
  Throws = {t1, t2, t3}
  Fails = {}
  Creator = creator
  None = None
INVARIANTS
  CalledOnce
  CalledWithAllResults
PROPERTIES
  CallbackCalled
