SPECIFICATION Spec
CONSTANTS
  Users = {u1}
  Passwords = {a, b}
  Names = {n, m}
  Requests = {p1, p2}
  MaxTokens = 1
  MaxFaults = 0
  NoRow = NoRow
  NoUser = NoUser
PROPERTIES
  ProfileKeepsPassword
