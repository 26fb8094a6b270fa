SPECIFICATION Spec
CONSTANTS
  d1 = d1
  d2 = d2
  x = x
  y = y
  can0 = can0
  can1 = can1
  Nothing = Nothing
  Devices = {d1, d2}
  Names = {x, y}
  Interfaces = {can0, can1}
  BusIdx = {0, 1}
  Layouts <- SomeLayouts
  CanIds = {0, 1, 2, 3}
  MaxActuatorsPerBus = 2
  MaxFrames = 3
SYMMETRY Symmetry
INVARIANTS
  TypeOK
  NamesResolve
  FeedbackWhole
  FeedbackIsOwn
  SoleListener
PROPERTIES
  ImplementsService
