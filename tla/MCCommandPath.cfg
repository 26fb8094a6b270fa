CONSTANTS
  Actuators = {a1}
  Clients = {c1, c2}
  TxQueueSize = 2
  Modes = {MIT, Velocity}
  DefaultMode = MIT
  BadMode = Bad
  MaxCommands = 3
SPECIFICATION Spec
INVARIANTS
  TypeOK
  LastCallWins
  ModeIsTracked
  SetModeAnswers
  NoOldSetpointMoves
PROPERTIES
  LastCallTakesEffect
