SPECIFICATION Spec
CONSTANTS
  d1 = d1
  d2 = d2
  r1 = r1
  r2 = r2
  Devices = {d1, d2}
  NBuses = 2
  Realtime = {r1, r2}
  MaxActuators = 1
  MaxSetpoints = 1
INVARIANTS
  TypeOK
  StoppedIsQuiet
  LoopsAgreeOnRealtime
PROPERTIES
  AttachedWhileQuiet
  StopsWithinCycle
  StopReturns
  SetpointsServed
