SPECIFICATION Spec
CONSTANTS
  void0 = void0
  future0 = future0
  future1 = future1
  more1 = more1
  void1 = void1
  callback1 = callback1
  deleter1 = deleter1
  NumberOfWorkers = 2
  MaxNumberOfClients = 3
  Jobs = {void1, future1, callback1, deleter1}
  Kind <- KindOf
  OffsetId <- ServantOf
  None = None
INVARIANTS
  OneThreadPerServant
  CallbackSeesServant
