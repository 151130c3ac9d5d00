------------------------------- MODULE TodoTable -------------------------------
(***************************************************************************)
(* The table todos and the requests for changes to it, as the server       *)
(* (Todos) and the page (TodoApp) know them.                               *)
(***************************************************************************)
EXTENDS Integers

CONSTANTS
  Titles,
  MaxTodos,   \* bound on the todos created
  MaxFaults,  \* bound on failed statements
  NoTodo      \* the row of an ID that has none

ASSUME TodoBounds == MaxTodos \in Nat /\ MaxFaults \in Nat

Todo == [title: Titles, completed: BOOLEAN]

ASSUME NoTodoAssumption == NoTodo \notin Todo

Ids   == 1..MaxTodos
Table == [Ids -> Todo \cup {NoTodo}]
Empty == [i \in Ids |-> NoTodo]

(* The fields a PUT names; its other fields are nil. *)
Titled(t)    == [field |-> "title", value |-> t]
Completed(b) == [field |-> "completed", value |-> b]
Changes      == {Titled(t) : t \in Titles} \cup {Completed(b) : b \in BOOLEAN}

(* The row with the field that a PUT names. *)
Changed(row, change) ==
  IF change.field = "title" THEN [row EXCEPT !.title = change.value]
                            ELSE [row EXCEPT !.completed = change.value]
================================================================================
