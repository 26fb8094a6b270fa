SPECIFICATION Spec
CONSTANTS
  d1 = d1
  d2 = d2
  x = x
  y = y
  can0 = can0
  can1 = can1
  Nothing = Nothing
  Devices = {d1, d2}
  Names = {x, y}
  Interfaces = {can0, can1}
  BusIdx = {0, 1}
  Layouts <- SomeLayouts
  CanIds = {1, 2}
  MaxActuatorsPerBus = 2
  MaxFrames = 1
SYMMETRY Symmetry
INVARIANTS
  DedicatedCallback
