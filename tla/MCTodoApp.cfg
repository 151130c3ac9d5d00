SPECIFICATION Spec
CONSTANTS
  Calls = {c1, c2}
  Titles = {x}
  MaxTodos = 2
  MaxTokens = 3
  MaxClicks = 2
  MaxFaults = 1
  User = u
  None = None
  NoTodo = NoTodo
INVARIANTS
  TypeOK
  QuietCacheIsTrue
  TokensTellTheTruth
PROPERTIES
  DeletedForGood
CHECK_DEADLOCK FALSE
SYMMETRY Symmetry
