SPECIFICATION Spec
CONSTANTS
  a1 = a1
  c1 = c1
  Actuators = {a1}
  Clients = {c1}
  MaxPolls = 2
  Mishaps = {}
  MaxCalls = 3
  MaxInFlight = 2
INVARIANTS
  SettledAnswersAreTrue
PROPERTIES
  AnswersBecomeTrue
