SPECIFICATION Spec
CONSTANTS
  Users = {u1}
  Passwords = {a, b}
  Names = {n, m}
  Requests = {p1, p2}
  MaxTokens = 3
  MaxFaults = 1
  NoRow = NoRow
  NoUser = NoUser
SYMMETRY Symmetry
INVARIANTS
  TypeOK
  RegisterOnce
  RefreshRotates
PROPERTIES
  GrantsSpent
  SessionsEndForAReason
  PasswordKept
