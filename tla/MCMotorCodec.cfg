CONSTANTS
  Motors = {1, 2, 4}
  TypeOf <- MCTypeOf
  MitArgs <- MCMitArgs
  Setpoints <- MCSetpoints
  Modes = {0, 1, 2, 3, 4, 5}
  MitParams = {880}
  Reports <- MCReports
SPECIFICATION Spec
CONSTRAINT MCHeardFrom
INVARIANTS
  TypeOK
  CommandUnderstood
  FeedbackUnderstood
