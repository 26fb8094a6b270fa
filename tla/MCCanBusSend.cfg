SPECIFICATION SafetySpec
CONSTANTS
  a1 = a1
  a2 = a2
  c1 = c1
  c2 = c2
  Actuators = {a1, a2}
  Clients = {c1, c2}
  Loop = Loop
  Free = Free
  OneShotOps = {"write", "save", "reject"}
  MaxStamp = 2
  TxQueueSize = 2
SYMMETRY Symmetry
INVARIANTS
  TypeOK
  NoTornFrame
  LoopNeverRebroadcasts
  ProgramOrder
PROPERTIES
  SetpointsInOrder
