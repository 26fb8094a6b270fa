SPECIFICATION SafetySpec
CONSTANTS
  a1 = a1
  a2 = a2
  c1 = c1
  c2 = c2
  Actuators = {a1, a2}
  Clients = {c1, c2}
  MaxPolls = 1
  Mishaps = {"loss", "fault"}
  MaxCalls = 2
  MaxInFlight = 1
SYMMETRY Symmetry
INVARIANTS
  TypeOK
  AnswersAreTrue
