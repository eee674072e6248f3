SPECIFICATION FairSpec
CONSTANTS
  Jobs = {j1,j2}
  Stealable = {j2}
  Clients = {k1}
  Conns = {n1,n2}
  MaxCrashes = 1
  None = None
  NoJob = NoJob
INVARIANT
  JobInOnePlace
PROPERTY EveryoneAnswered
