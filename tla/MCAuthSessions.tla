--------------------------- MODULE MCAuthSessions ---------------------------
(* AuthSessions with interchangeable passwords and names. *)
EXTENDS AuthSessions, TLC

Symmetry == Permutations(Passwords) \cup Permutations(Names) \cup Permutations(Requests)
=============================================================================
