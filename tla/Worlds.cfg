SPECIFICATION FairSpec
CONSTANTS
  void0 = void0
  future0 = future0
  future1 = future1
  more1 = more1
  void1 = void1
  callback1 = callback1
  deleter1 = deleter1
  NumberOfWorkers = 2
  MaxNumberOfClients = 2
  Jobs = {void0, future0, callback1, deleter1}
  Kind <- KindOf
  OffsetId <- ServantOf
  None = None
INVARIANTS
  OneThreadPerWorld
  WorldsServeInOrder
PROPERTY EverythingEnds
