SPECIFICATION Spec
CONSTANTS
  Workers = {w1, w2}
  Sent <- Plain
  Ranged <- InParts
  New <- NotThere
  Programs = {"counts", "to_eof"}
  BodySize = 1
  OutputSize = 1
  PipeSize = 1
  FaultBudget = 2
  Size = 12
  MaxVars = 4
  Strings <- SomeStrings
  MaxAdded = 5
  PortLists <- SomePorts
  AclLists <- SomeAcls
  Bits = 2
  Ports = 4
  MaxOptions = 2
  Users = {"a", "b"}
  Passwords = {"p", "q"}
  Originals <- SomeFiles
  MaxCalls = 2
  Names = {1, 2, 3, 4}
  Dirs = {3}
  Hidden = {4}
  Numbers = {0, 1}
  Queries <- SomeQueries
  ArraySize = 1
  Pieces = {2, 3, 4}
  StreamSize = 3
  MaxLines = 1
SYMMETRY Symmetry
INVARIANTS
  FailuresLeaveNothing
  AnswersAreTrue
CHECK_DEADLOCK FALSE
