------------------------------- MODULE MCTodoApp -------------------------------
(* TodoApp for TLC: its slots for calls are interchangeable. *)
EXTENDS TodoApp, TLC

Symmetry == Permutations(Calls)
================================================================================
