---- MODULE MCSignalingHub ----
(***************************************************************************)
(* SignalingHub with small sets of interchangeable model values.           *)
(***************************************************************************)
EXTENDS SignalingHub, TLC

Symmetry == Permutations(Conns) \cup Permutations(Users) \cup Permutations(Rooms)
====
