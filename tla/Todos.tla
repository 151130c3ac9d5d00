--------------------------------- MODULE Todos ---------------------------------
(***************************************************************************)
(* The todos of one user: the table and the handlers list, create, update  *)
(* and delete.  Each action is one MySQL statement with the code up to the *)
(* next one; statements of concurrent requests interleave.  The handlers   *)
(* find a todo by its ID and the user, so another user's todos are as if    *)
(* they did not exist, and are left out.  So are inputs rejected for their  *)
(* form, and the description, which is handled as the title is.            *)
(***************************************************************************)
EXTENDS TodoTable

CONSTANT Requests   \* slots for concurrent HTTP requests

VARIABLES
  todos,   \* the table: the row of every ID
  last,    \* the last ID that AUTO_INCREMENT gave
  work,    \* the handlers
  faults   \* failed statements so far

vars == <<todos, last, work, faults>>

(* row: the struct to be written.  found: the rows a list answered. *)
Work == [pc: {"idle", "save", "stamp", "delete", "done"}, id: Ids \cup {0},
         row: Todo \cup {NoTodo}, found: Table, ans: {"none", "ok", "missing", "error"}]

Idle == [pc |-> "idle", id |-> 0, row |-> NoTodo, found |-> Empty, ans |-> "none"]

(* Types; rows only under IDs that were given; a handler that writes a row   *)
(* has it and names an ID that was given.                                  *)
TypeOK ==
  /\ todos \in Table
  /\ last \in 0..MaxTodos
  /\ \A i \in Ids : i > last => todos[i] = NoTodo
  /\ work \in [Requests -> Work]
  /\ \A c \in Requests :
       /\ work[c].pc = "save" => work[c].row \in Todo
       /\ work[c].pc \in {"save", "stamp", "delete"} => work[c].id \in 1..last
  /\ faults \in 0..MaxFaults

Init ==
  /\ todos = Empty
  /\ last = 0
  /\ work = [c \in Requests |-> Idle]
  /\ faults = 0

Works == faults' = faults
Fails == faults < MaxFaults /\ faults' = faults + 1

At(c, l) == work[c].pc = l

(* The handler goes on with w, or answers. *)
Goto(c, w)   == work' = [work EXCEPT ![c] = w]
Answer(c, a) == Goto(c, [Idle EXCEPT !.pc = "done", !.ans = a])

--------------------------------------------------------------------------------
(* GET /api/todos *)
ListTodos(c) ==
  /\ At(c, "idle")
  /\ \/ Works /\ Goto(c, [Idle EXCEPT !.pc = "done", !.ans = "ok", !.found = todos])
     \/ Fails /\ Answer(c, "error")
  /\ UNCHANGED <<todos, last>>

(* POST /api/todos: Save of a todo with ID 0. *)
CreateTodo(c, title) ==
  LET row == [title |-> title, completed |-> FALSE]
      i   == last + 1
      inserted == todos' = [todos EXCEPT ![i] = row] /\ last' = i
  IN  /\ At(c, "idle")
      /\ i \in Ids
      /\ \/ Works /\ inserted /\ Goto(c, [Idle EXCEPT !.pc = "stamp", !.id = i])
         \/ Fails /\ (inserted \/ UNCHANGED <<todos, last>>) /\ Answer(c, "error")

(* PUT /api/todos/{id}: FindByIDAndUserID, and the named field in its struct. *)
UpdateFindTodo(c, i, change) ==
  LET row == Changed(todos[i], change)
  IN  /\ At(c, "idle")
      /\ \/ /\ Works /\ todos[i] # NoTodo
            /\ Goto(c, [Idle EXCEPT !.pc = "save", !.id = i, !.row = row])
         \/ Works /\ todos[i] = NoTodo /\ Answer(c, "missing")
         \/ Fails /\ Answer(c, "error")
      /\ UNCHANGED <<todos, last>>

(* Mutant: INSERT ... ON DUPLICATE KEY UPDATE. *)
Upserted(c) == [todos EXCEPT ![work[c].id] = work[c].row]

(* UPDATE todos SET every column WHERE id = ? *)
Updated(c) ==
  IF todos[work[c].id] = NoTodo THEN todos
  ELSE [todos EXCEPT ![work[c].id] = work[c].row]

(* No row is affected when there is none, or when it has these values. *)
UpdateSaveTodo(c) ==
  /\ At(c, "save")
  /\ \/ /\ Works /\ todos' = Updated(c)
        /\ IF todos' = todos THEN Answer(c, "missing")
           ELSE Goto(c, [Idle EXCEPT !.pc = "stamp", !.id = work[c].id])
     \/ Fails /\ todos' \in {todos, Updated(c)} /\ Answer(c, "error")
  /\ UNCHANGED last

(* Create and update read the timestamps of the row they wrote. *)
ReadStamp(c) ==
  /\ At(c, "stamp")
  /\ \/ Works /\ Answer(c, IF todos[work[c].id] # NoTodo THEN "ok" ELSE "error")
     \/ Fails /\ Answer(c, "error")
  /\ UNCHANGED <<todos, last>>

(* DELETE /api/todos/{id} *)
DeleteFindTodo(c, i) ==
  /\ At(c, "idle")
  /\ \/ Works /\ todos[i] # NoTodo /\ Goto(c, [Idle EXCEPT !.pc = "delete", !.id = i])
     \/ Works /\ todos[i] = NoTodo /\ Answer(c, "missing")
     \/ Fails /\ Answer(c, "error")
  /\ UNCHANGED <<todos, last>>

DeleteTodo(c) ==
  LET i == work[c].id
      deleted == [todos EXCEPT ![i] = NoTodo]
  IN  /\ At(c, "delete")
      /\ \/ Works /\ todos' = deleted /\ Answer(c, IF todos[i] = NoTodo THEN "missing" ELSE "ok")
         \/ Fails /\ todos' \in {todos, deleted} /\ Answer(c, "error")
      /\ UNCHANGED last

(* The answer is taken, and the slot is free again. *)
Taken(c) ==
  /\ At(c, "done")
  /\ work' = [work EXCEPT ![c] = Idle]

Begin(c) ==
  \/ ListTodos(c)
  \/ \E t \in Titles : CreateTodo(c, t)
  \/ \E i \in Ids : DeleteFindTodo(c, i) \/ \E change \in Changes : UpdateFindTodo(c, i, change)

Continue(c) == UpdateSaveTodo(c) \/ ReadStamp(c) \/ DeleteTodo(c)

Next ==
  \E c \in Requests :
    \/ Begin(c) \/ Continue(c)
    \/ Taken(c) /\ UNCHANGED <<todos, last, faults>>

Spec == Init /\ [][Next]_vars

--------------------------------------------------------------------------------
(***************************************************************************)
(* A deleted todo stays deleted: no update that found it before, and no     *)
(* todo created later, brings its ID back.                                 *)
(***************************************************************************)
DeletedForGood ==
  [][\A i \in Ids : i <= last /\ todos[i] = NoTodo => todos'[i] = NoTodo]_vars
================================================================================
