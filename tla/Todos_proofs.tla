----------------------------- MODULE Todos_proofs -----------------------------
(***************************************************************************)
(* Proofs about Todos, for any titles, requests and number of todos.       *)
(***************************************************************************)
EXTENDS Todos, TLAPS

(* A PUT gives a todo whichever field it names. *)
LEMMA ChangeGivesTodo ==
  ASSUME NEW row \in Todo, NEW change \in Changes PROVE Changed(row, change) \in Todo
<1>1. ASSUME NEW t \in Titles, change = Titled(t) PROVE Changed(row, change) \in Todo
  BY <1>1 DEF Titled, Changed, Todo
<1>2. ASSUME NEW b \in BOOLEAN, change = Completed(b) PROVE Changed(row, change) \in Todo
  BY <1>2 DEF Completed, Changed, Todo
<1> QED
  BY <1>1, <1>2 DEF Changes

(* The empty table. *)
LEMMA EmptyTable == Empty \in Table
BY DEF Empty, Table

(* The counter of faults keeps its type. *)
LEMMA FaultsStep ==
  ASSUME faults \in 0..MaxFaults, Works \/ Fails PROVE faults' \in 0..MaxFaults
BY TodoBounds DEF Works, Fails

(***************************************************************************)
(* The part of TypeOK about the table, and the part about the handlers.     *)
(***************************************************************************)
TableOK ==
  /\ todos \in Table
  /\ last \in 0..MaxTodos
  /\ \A i \in Ids : i > last => todos[i] = NoTodo

WorkOK(w, n) ==
  /\ w \in Work
  /\ w.pc = "save" => w.row \in Todo
  /\ w.pc \in {"save", "stamp", "delete"} => w.id \in 1..n

(* TypeOK is these parts. *)
LEMMA TypeParts ==
  TypeOK <=> /\ TableOK
             /\ faults \in 0..MaxFaults
             /\ work = [c \in Requests |-> work[c]]
             /\ \A c \in Requests : WorkOK(work[c], last)
<1>1. ASSUME work = [c \in Requests |-> work[c]], \A c \in Requests : work[c] \in Work
      PROVE  work \in [Requests -> Work]
  BY <1>1
<1>2. ASSUME work \in [Requests -> Work]
      PROVE  work = [c \in Requests |-> work[c]] /\ \A c \in Requests : work[c] \in Work
  BY <1>2
<1> QED
  BY <1>1, <1>2 DEF TypeOK, TableOK, WorkOK

(* A row is written under an ID that was given. *)
LEMMA TableWrite ==
  ASSUME TableOK, NEW i \in 1..last, NEW row \in Todo \cup {NoTodo},
         todos' = [todos EXCEPT ![i] = row], last' = last
  PROVE  TableOK'
BY TodoBounds DEF TableOK, Table, Ids

(* AUTO_INCREMENT gives the next ID. *)
LEMMA TableInsert ==
  ASSUME TableOK, last + 1 \in Ids, NEW row \in Todo,
         todos' = [todos EXCEPT ![last + 1] = row], last' = last + 1
  PROVE  TableOK'
BY TodoBounds DEF TableOK, Table, Ids

(* A handler goes on with w; the others keep their part when IDs are given. *)
LEMMA WorkStep ==
  ASSUME TypeOK, TableOK', last' >= last, faults' \in 0..MaxFaults,
         NEW c \in Requests, NEW w, Goto(c, w), WorkOK(w, last')
  PROVE  TypeOK'
<1>1. last \in Nat /\ last' \in Nat
  BY TodoBounds DEF TypeOK, TableOK
<1>2. work' = [work EXCEPT ![c] = w] /\ work \in [Requests -> Work]
  BY DEF Goto, TypeOK
<1>3. \A d \in Requests : WorkOK(work'[d], last')
  BY <1>1, <1>2 DEF WorkOK, TypeOK
<1>4. work' \in [Requests -> Work]
  BY <1>2 DEF WorkOK
<1> QED
  BY <1>3, <1>4 DEF TypeOK, TableOK, WorkOK

(* A handler that waits. *)
LEMMA IdleIsWork == Idle \in Work
BY EmptyTable DEF Idle, Work

(* What a handler goes on with: an answer. *)
LEMMA WorkAnswers ==
  ASSUME NEW a \in {"ok", "missing", "error"}, NEW n
  PROVE  WorkOK([Idle EXCEPT !.pc = "done", !.ans = a], n)
BY IdleIsWork DEF WorkOK, Work

(* The list. *)
LEMMA WorkLists ==
  ASSUME NEW t \in Table, NEW n
  PROVE  WorkOK([Idle EXCEPT !.pc = "done", !.ans = "ok", !.found = t], n)
BY IdleIsWork DEF WorkOK, Work

(* The ID of a todo that it has found, or written. *)
LEMMA WorkAt ==
  ASSUME NEW n \in Nat, NEW i \in Ids, i <= n, NEW l \in {"stamp", "delete"}
  PROVE  WorkOK([Idle EXCEPT !.pc = l, !.id = i], n)
<1>1. i \in 1..n
  BY TodoBounds DEF Ids
<1> QED
  BY <1>1, IdleIsWork DEF WorkOK, Work

(* A row that it is about to write. *)
LEMMA WorkSaves ==
  ASSUME NEW n \in Nat, NEW i \in Ids, i <= n, NEW row \in Todo
  PROVE  WorkOK([Idle EXCEPT !.pc = "save", !.id = i, !.row = row], n)
<1>1. i \in 1..n
  BY TodoBounds DEF Ids
<1> QED
  BY <1>1, IdleIsWork DEF WorkOK, Work

(* An answer that leaves the table as it is, or well typed. *)
LEMMA AnswerKeeps ==
  ASSUME TypeOK, TableOK', last' >= last, Works \/ Fails, NEW c \in Requests,
         NEW a \in {"ok", "missing", "error"}, Answer(c, a)
  PROVE  TypeOK'
<1>1. faults' \in 0..MaxFaults
  BY FaultsStep DEF TypeOK
<1> QED
  BY <1>1, WorkAnswers, WorkStep DEF Answer

--------------------------------------------------------------------------------
(* Nothing has been created at first. *)
LEMMA TypeInit == Init => TypeOK
<1> SUFFICES ASSUME Init PROVE TypeOK
  OBVIOUS
<1>1. todos \in Table /\ \A i \in Ids : todos[i] = NoTodo
  BY EmptyTable DEF Init, Empty
<1>2. work \in [Requests -> Work] /\ \A c \in Requests : work[c].pc = "idle"
  BY IdleIsWork DEF Init, Idle
<1> QED
  BY <1>1, <1>2, TodoBounds DEF Init, TypeOK

(* Statements that only read. *)
LEMMA TypeRead ==
  ASSUME TypeOK, NEW c \in Requests, UNCHANGED <<todos, last>>,
         \/ ListTodos(c)
         \/ \E i \in Ids : DeleteFindTodo(c, i)
         \/ \E i \in Ids, change \in Changes : UpdateFindTodo(c, i, change)
         \/ ReadStamp(c)
  PROVE  TypeOK'
<1>t. TableOK' /\ last' >= last /\ last' = last /\ last \in Nat /\ todos \in Table
  BY TypeParts, TodoBounds DEF TableOK, TypeOK
<1>f. ASSUME Works \/ Fails PROVE faults' \in 0..MaxFaults
  BY <1>f, FaultsStep DEF TypeOK
<1>l. ASSUME NEW i \in Ids, todos[i] # NoTodo PROVE i <= last /\ todos[i] \in Todo
  BY <1>l, TodoBounds DEF TypeOK, Table, Ids
<1>1. ASSUME ListTodos(c) PROVE TypeOK'
  <2>1. CASE Works /\ Goto(c, [Idle EXCEPT !.pc = "done", !.ans = "ok", !.found = todos])
    BY <2>1, <1>t, <1>f, WorkLists, WorkStep
  <2>2. CASE Fails /\ Answer(c, "error")
    BY <2>2, <1>t, AnswerKeeps
  <2> QED
    BY <1>1, <2>1, <2>2 DEF ListTodos
<1>2. ASSUME NEW i \in Ids, DeleteFindTodo(c, i) PROVE TypeOK'
  <2>1. CASE Works /\ todos[i] # NoTodo /\ Goto(c, [Idle EXCEPT !.pc = "delete", !.id = i])
    BY <2>1, <1>t, <1>f, <1>l, WorkAt, WorkStep
  <2>2. CASE \E a \in {"missing", "error"} : (Works \/ Fails) /\ Answer(c, a)
    BY <2>2, <1>t, AnswerKeeps
  <2> QED
    BY <1>2, <2>1, <2>2 DEF DeleteFindTodo
<1>3. ASSUME NEW i \in Ids, NEW change \in Changes, UpdateFindTodo(c, i, change) PROVE TypeOK'
  <2>1. CASE /\ Works /\ todos[i] # NoTodo
             /\ Goto(c, [Idle EXCEPT !.pc = "save", !.id = i, !.row = Changed(todos[i], change)])
    <3>1. Changed(todos[i], change) \in Todo
      BY <2>1, <1>l, ChangeGivesTodo
    <3> QED
      BY <2>1, <3>1, <1>t, <1>f, <1>l, WorkSaves, WorkStep
  <2>2. CASE \E a \in {"missing", "error"} : (Works \/ Fails) /\ Answer(c, a)
    BY <2>2, <1>t, AnswerKeeps
  <2> QED
    BY <1>3, <2>1, <2>2 DEF UpdateFindTodo
<1>4. ASSUME ReadStamp(c) PROVE TypeOK'
  <2>1. PICK a \in {"ok", "error"} : (Works \/ Fails) /\ Answer(c, a)
    BY <1>4 DEF ReadStamp
  <2> QED
    BY <2>1, <1>t, AnswerKeeps
<1> QED
  BY <1>1, <1>2, <1>3, <1>4

(* The statements that write. *)
LEMMA TypeCreate ==
  ASSUME TypeOK, NEW c \in Requests, NEW title \in Titles, CreateTodo(c, title)
  PROVE  TypeOK'
<1> DEFINE row == [title |-> title, completed |-> FALSE]
           inserted == todos' = [todos EXCEPT ![last + 1] = row] /\ last' = last + 1
<1>1. row \in Todo /\ last + 1 \in Ids /\ TableOK /\ last \in Nat
  BY TypeParts, TodoBounds DEF CreateTodo, Todo, TableOK
<1>2. ASSUME inserted PROVE TableOK' /\ last' >= last /\ last' \in Nat
  <2>1. TableOK'
    BY <1>1, <1>2, TableInsert
  <2>2. last' = last + 1
    BY <1>2
  <2> HIDE DEF row, inserted
  <2> QED
    BY <1>1, <2>1, <2>2
<1>3. ASSUME UNCHANGED <<todos, last>> PROVE TableOK' /\ last' >= last
  BY <1>1, <1>3 DEF TableOK
<1>4. CASE Works /\ inserted /\ Goto(c, [Idle EXCEPT !.pc = "stamp", !.id = last + 1])
  <2>1. faults' \in 0..MaxFaults
    BY <1>4, FaultsStep DEF TypeOK
  <2>2. WorkOK([Idle EXCEPT !.pc = "stamp", !.id = last + 1], last')
    <3>1. last' \in Nat /\ last + 1 \in Ids /\ last + 1 <= last'
      BY <1>1, <1>2, <1>4
    <3> HIDE DEF inserted, row
    <3> QED
      BY <3>1, WorkAt
  <2> QED
    BY <1>2, <1>4, <2>1, <2>2, WorkStep
<1>5. CASE Fails /\ (inserted \/ UNCHANGED <<todos, last>>) /\ Answer(c, "error")
  BY <1>2, <1>3, <1>5, AnswerKeeps
<1> QED
  BY <1>4, <1>5 DEF CreateTodo

(* Update and delete write the row of an ID that was given. *)
LEMMA TypeWrite ==
  ASSUME TypeOK, NEW c \in Requests, UpdateSaveTodo(c) \/ DeleteTodo(c) PROVE TypeOK'
<1> DEFINE i == work[c].id
<1>w. WorkOK(work[c], last) /\ TableOK /\ last \in Nat
  BY TypeParts, TodoBounds DEF TableOK
<1>k. ASSUME NEW row \in Todo \cup {NoTodo}, i \in 1..last, UNCHANGED last,
             todos' \in {todos, [todos EXCEPT ![i] = row]}
      PROVE  TableOK' /\ last' >= last
  <2>1. CASE todos' = todos
    BY <2>1, <1>w, <1>k DEF TableOK
  <2>2. CASE todos' = [todos EXCEPT ![i] = row]
    <3>1. TableOK'
      BY <2>2, <1>w, <1>k, TableWrite
    <3>2. last' = last
      BY <1>k
    <3> QED
      BY <3>1, <3>2, <1>w
  <2> QED
    BY <1>k, <2>1, <2>2
<1>1. CASE UpdateSaveTodo(c)
  <2>1. i \in 1..last /\ work[c].row \in Todo /\ UNCHANGED last
    BY <1>1, <1>w DEF UpdateSaveTodo, At, WorkOK
  <2>2. todos' \in {todos, [todos EXCEPT ![i] = work[c].row]}
    BY <1>1 DEF UpdateSaveTodo, Updated
  <2>3. TableOK' /\ last' >= last
    BY <2>1, <2>2, <1>k
  <2>4. CASE \E a \in {"missing", "error"} : (Works \/ Fails) /\ Answer(c, a)
    BY <2>3, <2>4, AnswerKeeps
  <2>5. CASE Works /\ Goto(c, [Idle EXCEPT !.pc = "stamp", !.id = i])
    <3>1. faults' \in 0..MaxFaults
      BY <2>5, FaultsStep DEF TypeOK
    <3>2. i \in Ids /\ i <= last
      BY <2>1, <1>w, TodoBounds DEF TableOK, Ids
    <3>3. WorkOK([Idle EXCEPT !.pc = "stamp", !.id = i], last')
      BY <1>w, <2>1, <3>2, WorkAt
    <3> QED
      BY <2>3, <2>5, <3>1, <3>3, WorkStep
  <2> QED
    BY <1>1, <2>4, <2>5 DEF UpdateSaveTodo
<1>2. CASE DeleteTodo(c)
  <2>1. i \in 1..last /\ UNCHANGED last
    BY <1>2, <1>w DEF DeleteTodo, At, WorkOK
  <2>2. todos' \in {todos, [todos EXCEPT ![i] = NoTodo]}
    BY <1>2 DEF DeleteTodo
  <2>3. TableOK' /\ last' >= last
    BY <2>1, <2>2, <1>k
  <2>4. PICK a \in {"ok", "missing", "error"} : (Works \/ Fails) /\ Answer(c, a)
    BY <1>2 DEF DeleteTodo
  <2> QED
    BY <2>3, <2>4, AnswerKeeps
<1> QED
  BY <1>1, <1>2

(* An answer is taken. *)
LEMMA TypeTaken ==
  ASSUME TypeOK, NEW c \in Requests, Taken(c), UNCHANGED <<todos, last, faults>> PROVE TypeOK'
<1>1. TableOK' /\ last' >= last /\ faults' \in 0..MaxFaults
  BY TodoBounds DEF TypeOK, TableOK
<1>2. WorkOK(Idle, last') /\ Goto(c, Idle)
  BY IdleIsWork DEF WorkOK, Taken, Goto, Idle
<1> QED
  BY <1>1, <1>2, WorkStep

(* A step of the server keeps the types. *)
LEMMA TypeStep == TypeOK /\ [Next]_vars => TypeOK'
<1> SUFFICES ASSUME TypeOK, [Next]_vars PROVE TypeOK'
  OBVIOUS
<1>1. ASSUME NEW c \in Requests, Begin(c) PROVE TypeOK'
  BY <1>1, TypeRead, TypeCreate DEF Begin, ListTodos, DeleteFindTodo, UpdateFindTodo
<1>2. ASSUME NEW c \in Requests, Continue(c) PROVE TypeOK'
  BY <1>2, TypeRead, TypeWrite DEF Continue, ReadStamp
<1>3. CASE UNCHANGED vars
  BY <1>3 DEF vars, TypeOK
<1> QED
  BY <1>1, <1>2, <1>3, TypeTaken DEF Next

(* The table and the handlers' variables keep their types: what is written   *)
(* has an ID that was given.                                               *)
THEOREM TodosTypeCorrect == Spec => []TypeOK
BY TypeInit, TypeStep, PTL DEF Spec

(***************************************************************************)
(* A deleted todo stays deleted, whatever requests found it before: an     *)
(* update writes only where there is a row, and no ID is given twice.       *)
(***************************************************************************)
LEMMA DeletedStep ==
  TypeOK /\ [Next]_vars =>
    \A i \in Ids : i <= last /\ todos[i] = NoTodo => todos'[i] = NoTodo
<1> SUFFICES ASSUME TypeOK, [Next]_vars, NEW i \in Ids, i <= last, todos[i] = NoTodo
             PROVE  todos'[i] = NoTodo
  OBVIOUS
<1>t. todos \in Table /\ last \in Nat /\ i \in Nat
  BY TodoBounds DEF TypeOK, Ids
<1>1. ASSUME NEW c \in Requests, NEW title \in Titles, CreateTodo(c, title)
      PROVE  todos'[i] = NoTodo
  <2>1. \/ todos' = todos
        \/ \E row : todos' = [todos EXCEPT ![last + 1] = row]
    BY <1>1 DEF CreateTodo
  <2> QED
    BY <1>t, <2>1 DEF Table
<1>2. ASSUME NEW c \in Requests, UpdateSaveTodo(c) PROVE todos'[i] = NoTodo
  <2>1. todos' \in {todos, Updated(c)}
    BY <1>2 DEF UpdateSaveTodo
  <2> QED
    BY <1>t, <2>1 DEF Updated, Table
<1>3. ASSUME NEW c \in Requests, DeleteTodo(c) PROVE todos'[i] = NoTodo
  <2>1. todos' \in {todos, [todos EXCEPT ![work[c].id] = NoTodo]}
    BY <1>3 DEF DeleteTodo
  <2> QED
    BY <1>t, <2>1 DEF Table
<1>4. CASE UNCHANGED todos
  BY <1>4
<1> QED
  BY <1>1, <1>2, <1>3, <1>4 DEF Next, Begin, Continue, ListTodos, UpdateFindTodo, DeleteFindTodo,
                                ReadStamp, vars

(* No update that found a todo before it was deleted, and no creation, brings *)
(* its ID back.                                                            *)
THEOREM DeletedStaysDeleted == Spec => DeletedForGood
<1>1. TypeOK /\ [Next]_vars =>
        [\A i \in Ids : i <= last /\ todos[i] = NoTodo => todos'[i] = NoTodo]_vars
  BY DeletedStep
<1> QED
  BY <1>1, TodosTypeCorrect, PTL DEF Spec, DeletedForGood
================================================================================
