----------------------------- MODULE TodoApp_proofs -----------------------------
(***************************************************************************)
(* Proofs about TodoApp, for any calls, titles, todos, tokens, clicks and   *)
(* faults.  What the handlers do is taken from the proofs about Todos and   *)
(* AuthSessions, instantiated as TodoApp instantiates the two modules.      *)
(***************************************************************************)
EXTENDS TodoApp, TLAPS

TP == INSTANCE Todos_proofs WITH Requests <- Calls
AP == INSTANCE AuthSessions_proofs WITH Users <- {User}, Passwords <- {"password"}, Names <- {"name"},
        Requests <- Calls, NoRow <- None, NoUser <- None

--------------------------------------------------------------------------------
(* The server. *)

(* The two instances of Todos are the same. *)
LEMMA SameTodos ==
  /\ T!TypeOK <=> TP!TypeOK
  /\ T!TypeOK' <=> TP!TypeOK'
  /\ T!vars = TP!vars /\ T!Idle = TP!Idle
<1> USE DEF T!Work, TP!Work, T!Table, TP!Table, T!Todo, TP!Todo, T!Ids, TP!Ids
<1>1. T!TypeOK <=> TP!TypeOK
  BY DEF T!TypeOK, TP!TypeOK
<1>2. T!TypeOK' <=> TP!TypeOK'
  BY DEF T!TypeOK, TP!TypeOK
<1> QED
  BY <1>1, <1>2 DEF T!vars, TP!vars, T!Idle, TP!Idle, T!Empty, TP!Empty

LEMMA SameHandlers ==
  ASSUME NEW c \in Calls
  PROVE  /\ T!Begin(c) <=> TP!Begin(c)
         /\ T!Continue(c) <=> TP!Continue(c)
         /\ T!Taken(c) <=> TP!Taken(c)
<1> USE DEF T!Idle, TP!Idle, T!At, TP!At, T!Goto, TP!Goto, T!Answer, TP!Answer, T!Works, TP!Works, T!Fails, TP!Fails,
         T!Ids, TP!Ids, T!Empty, TP!Empty, T!Changed, TP!Changed
<1>1. T!ListTodos(c) <=> TP!ListTodos(c)
  BY DEF T!ListTodos, TP!ListTodos
<1>2. \A t \in Titles : T!CreateTodo(c, t) <=> TP!CreateTodo(c, t)
  BY DEF T!CreateTodo, TP!CreateTodo
<1>3. \A i \in T!Ids : T!DeleteFindTodo(c, i) <=> TP!DeleteFindTodo(c, i)
  BY DEF T!DeleteFindTodo, TP!DeleteFindTodo
<1>4. \A i \in T!Ids, change \in T!Changes : T!UpdateFindTodo(c, i, change) <=> TP!UpdateFindTodo(c, i, change)
  BY DEF T!UpdateFindTodo, TP!UpdateFindTodo
<1>5. T!Changes = TP!Changes
  BY DEF T!Changes, TP!Changes, T!Titled, TP!Titled, T!Completed, TP!Completed
<1>6. T!Begin(c) <=> TP!Begin(c)
  BY <1>1, <1>2, <1>3, <1>4, <1>5 DEF T!Begin, TP!Begin
<1>7. T!Continue(c) <=> TP!Continue(c)
  BY DEF T!Continue, TP!Continue, T!UpdateSaveTodo, TP!UpdateSaveTodo, T!Updated, TP!Updated, T!ReadStamp, TP!ReadStamp,
         T!DeleteTodo, TP!DeleteTodo
<1>8. T!Taken(c) <=> TP!Taken(c)
  BY DEF T!Taken, TP!Taken
<1> QED
  BY <1>6, <1>7, <1>8

(* A step of a handler of todos. *)
Handles(c) ==
  \/ T!Begin(c) \/ T!Continue(c)
  \/ T!Taken(c) /\ UNCHANGED <<todos, last, faults>>

LEMMA TodosStep ==
  ASSUME T!TypeOK, NEW c \in Calls, Handles(c)
  PROVE  /\ T!TypeOK'
         /\ \A i \in Ids : i <= last /\ todos[i] = NoTodo => todos'[i] = NoTodo
<1>1. TP!TypeOK /\ TP!Next
  BY SameTodos, SameHandlers DEF Handles, TP!Next
<1>2. TP!TypeOK'
  BY <1>1, TP!TypeStep, TodoBounds, NoTodoAssumption DEF TP!Todo, Todo
<1>3. \A i \in TP!Ids : i <= last /\ todos[i] = NoTodo => todos'[i] = NoTodo
  BY <1>1, TP!DeletedStep, TodoBounds, NoTodoAssumption DEF TP!Todo, Todo
<1> QED
  BY <1>2, <1>3, SameTodos DEF TP!Ids, Ids

(* The instances of AuthSessions, likewise. *)
LEMMA SameSessions ==
  ASSUME NEW c \in Calls
  PROVE  /\ \A t \in A!Tokens : A!RefreshGetToken(c, t) <=> AP!RefreshGetToken(c, t)
         /\ A!Logout(c, User) <=> AP!Logout(c, User)
         /\ A!RefreshFindUser(c) <=> AP!RefreshFindUser(c)
         /\ A!RefreshDeleteTokens(c) <=> AP!RefreshDeleteTokens(c)
         /\ A!SaveRefreshToken(c) <=> AP!SaveRefreshToken(c)
<1> USE DEF A!At, AP!At, A!Free, AP!Free, A!Goto, AP!Goto, A!Answer, AP!Answer, A!Reply, AP!Reply, A!Works, AP!Works, A!Fails, AP!Fails,
         A!Revoked, AP!Revoked, A!Sessions, AP!Sessions, A!Purged, AP!Purged, A!Tokens, AP!Tokens,
         A!tables, AP!tables, A!Arrive, AP!Arrive, A!Valid, AP!Valid
<1>1. \A t \in A!Tokens : A!RefreshGetToken(c, t) <=> AP!RefreshGetToken(c, t)
  BY DEF A!RefreshGetToken, AP!RefreshGetToken
<1>2. A!Logout(c, User) <=> AP!Logout(c, User)
  BY DEF A!Logout, AP!Logout
<1>3. A!RefreshFindUser(c) <=> AP!RefreshFindUser(c)
  BY DEF A!RefreshFindUser, AP!RefreshFindUser
<1>4. A!RefreshDeleteTokens(c) <=> AP!RefreshDeleteTokens(c)
  BY DEF A!RefreshDeleteTokens, AP!RefreshDeleteTokens
<1>5. A!SaveRefreshToken(c) <=> AP!SaveRefreshToken(c)
  BY DEF A!SaveRefreshToken, AP!SaveRefreshToken
<1> QED
  BY <1>1, <1>2, <1>3, <1>4, <1>5

(* A step of a handler of sessions. *)
Manages(c) ==
  \/ \E t \in A!Tokens : A!RefreshGetToken(c, t)
  \/ A!Logout(c, User)
  \/ A!RefreshFindUser(c) \/ A!RefreshDeleteTokens(c) \/ A!SaveRefreshToken(c)

LEMMA SessionsStep ==
  ASSUME AP!TypeInv, NEW c \in Calls, Manages(c)
  PROVE  AP!TypeInv'
<1>1. AP!Next
  <2>1. AP!Begin(c) \/ AP!Continue(c)
    BY SameSessions DEF Manages, AP!Begin, AP!Continue, AP!Tokens, A!Tokens
  <2> QED
    BY <2>1 DEF AP!Next
<1> QED
  BY <1>1, AP!TypeStep, TodoBounds, AppBounds, NoneAssumption DEF AP!Row

LEMMA SessionTypes == AP!TypeInv => A!TypeOK
<1>1. AP!TypeInv => AP!TypeOK
  BY AP!TypeInvTypes, TodoBounds, AppBounds, NoneAssumption DEF AP!Row
<1>2. AP!TypeOK <=> A!TypeOK
  BY DEF AP!TypeOK, A!TypeOK, AP!Row, A!Row, AP!Tokens, A!Tokens, AP!Request, A!Request
<1> QED
  BY <1>1, <1>2

(* What the server keeps, with the invariants of its two modules. *)
ServerOK == T!TypeOK /\ AP!TypeInv

(* A step of the app does a statement of one handler, or none. *)
Moves ==
  \/ \E c \in Calls : Handles(c) /\ UNCHANGED session
  \/ \E c \in Calls : Manages(c) /\ UNCHANGED table
  \/ UNCHANGED <<table, session, faults>>

(* What every step of the server keeps. *)
Kept ==
  /\ handed \subseteq handed' /\ issued <= issued' /\ faults <= faults' /\ expired' = expired
  /\ \A i \in Ids : i <= last /\ todos[i] = NoTodo => todos'[i] = NoTodo

(* A handler of todos fails, or not; so does one of sessions. *)
LEMMA TodosFaults ==
  ASSUME NEW c \in Calls, Handles(c), faults \in Nat PROVE faults <= faults' /\ faults' \in Nat
<1>1. faults' = faults \/ faults' = faults + 1
  BY DEF Handles, T!Begin, T!Continue, T!ListTodos, T!CreateTodo, T!UpdateFindTodo, T!DeleteFindTodo,
         T!UpdateSaveTodo, T!ReadStamp, T!DeleteTodo, T!Works, T!Fails
<1> QED
  BY <1>1

LEMMA SessionsFaults ==
  ASSUME NEW c \in Calls, Manages(c), faults \in 0..MaxFaults
  PROVE  faults <= faults' /\ faults' \in 0..MaxFaults
<1>1. faults' = faults \/ (faults < MaxFaults /\ faults' = faults + 1)
  BY DEF Manages, A!RefreshGetToken, A!Logout, A!RefreshFindUser, A!RefreshDeleteTokens, A!SaveRefreshToken,
         A!Works, A!Fails
<1> QED
  BY <1>1, TodoBounds

(* Tokens handed out stay so, and none expires during the visit. *)
LEMMA SessionsGrow ==
  ASSUME AP!TypeInv, NEW c \in Calls, Manages(c)
  PROVE  handed \subseteq handed' /\ issued <= issued' /\ expired' = expired
<1>1. issued \in Nat
  BY TodoBounds, AppBounds DEF AP!TypeInv, AP!TablesOK
<1> QED
  BY <1>1 DEF Manages, A!RefreshGetToken, A!Logout, A!RefreshFindUser, A!RefreshDeleteTokens, A!SaveRefreshToken,
         A!tables

LEMMA ServerStep == ASSUME ServerOK, Moves PROVE ServerOK' /\ Kept
<1>t. faults \in 0..MaxFaults /\ faults \in Nat /\ issued \in Nat
  BY TodoBounds, AppBounds DEF ServerOK, T!TypeOK, AP!TypeInv, AP!TablesOK
<1>1. ASSUME NEW c \in Calls, Handles(c), UNCHANGED session PROVE ServerOK' /\ Kept
  <2>1. T!TypeOK' /\ \A i \in Ids : i <= last /\ todos[i] = NoTodo => todos'[i] = NoTodo
    BY <1>1, TodosStep DEF ServerOK
  <2>2. faults <= faults' /\ faults' \in Nat
    BY <1>1, <1>t, TodosFaults
  <2>3. AP!TypeInv'
    BY <1>1, <2>2 DEF ServerOK, AP!TypeInv, AP!TablesOK, AP!ReqsOK, session
  <2> QED
    BY <1>1, <1>t, <2>1, <2>2, <2>3 DEF ServerOK, Kept, session
<1>2. ASSUME NEW c \in Calls, Manages(c), UNCHANGED table PROVE ServerOK' /\ Kept
  <2>1. AP!TypeInv' /\ handed \subseteq handed' /\ issued <= issued' /\ expired' = expired
    BY <1>2, SessionsStep, SessionsGrow DEF ServerOK
  <2>2. faults <= faults' /\ faults' \in 0..MaxFaults
    BY <1>2, <1>t, SessionsFaults
  <2>3. T!TypeOK'
    BY <1>2, <2>2 DEF ServerOK, T!TypeOK, table
  <2> QED
    BY <1>2, <2>1, <2>2, <2>3 DEF ServerOK, Kept, table
<1>3. ASSUME UNCHANGED <<table, session, faults>> PROVE ServerOK' /\ Kept
  <2>1. T!TypeOK'
    BY <1>3 DEF ServerOK, T!TypeOK, table
  <2>2. AP!TypeInv'
    BY <1>3 DEF ServerOK, AP!TypeInv, AP!TablesOK, AP!ReqsOK, session
  <2> QED
    BY <1>3, <1>t, <2>1, <2>2 DEF ServerOK, Kept, table, session
<1> QED
  BY <1>1, <1>2, <1>3 DEF Moves

--------------------------------------------------------------------------------
(***************************************************************************)
(* The types of the page.  To the types of a call CallOK adds what it asks  *)
(* for, which the handler that it reaches needs.                           *)
(***************************************************************************)
CallOK(k, h) ==
  /\ k \in Call
  /\ k.tok \in h \cup {0}
  /\ k.op = "create" => \E t \in Titles : k.change = Titled(t)
  /\ k.op \in {"update", "toggle"} => k.change \in Changes
  /\ k.op \in {"update", "toggle", "delete"} => k.id \in Ids
  /\ k.pc # "idle" => k.op # "none"

PageOK ==
  /\ store \in handed \cup {0}
  /\ old \subseteq 1..issued
  /\ call \in [Calls -> Call]
  /\ \A c \in Calls : CallOK(call[c], handed)
  /\ cache \in Cache
  /\ page \in {"todos", "leaving", "login"}
  /\ clicks \in 0..MaxClicks
  /\ raced \in BOOLEAN

(* The fetch that the cache waits for is under way. *)
FetchOK ==
  page = "todos" /\ cache.fetch # None =>
    call[cache.fetch].op = "list" /\ call[cache.fetch].pc # "idle"

TypeInv == ServerOK /\ PageOK /\ FetchOK

LEMMA TypeInvTypes == TypeInv => TypeOK
BY SessionTypes DEF TypeInv, ServerOK, PageOK, FetchOK, CallOK, TypeOK

(* The handler that a call reaches. *)
LEMMA HandledMoves ==
  ASSUME NEW c \in Calls, CallOK(call[c], handed), Handled(c)
  PROVE  \/ T!Begin(c) /\ UNCHANGED session
         \/ A!Logout(c, User) /\ UNCHANGED table
<1>1. T!Ids = Ids /\ T!Changes = Changes
  BY DEF T!Ids, Ids, T!Changes, Changes, T!Titled, Titled, T!Completed, Completed
<1>2. ASSUME call[c].op = "create", T!CreateTodo(c, call[c].change.value) PROVE T!Begin(c)
  <2>1. PICK t \in Titles : call[c].change = Titled(t)
    BY <1>2 DEF CallOK
  <2>2. call[c].change.value = t
    BY <2>1 DEF Titled
  <2> QED
    BY <1>2, <2>2 DEF T!Begin
<1>3. ASSUME call[c].op \in {"update", "toggle"}, T!UpdateFindTodo(c, call[c].id, call[c].change) PROVE T!Begin(c)
  BY <1>1, <1>3 DEF CallOK, T!Begin
<1>4. ASSUME call[c].op = "delete", T!DeleteFindTodo(c, call[c].id) PROVE T!Begin(c)
  BY <1>1, <1>4 DEF CallOK, T!Begin
<1> QED
  BY <1>2, <1>3, <1>4 DEF Handled, T!Begin

(* Every step moves the server, or leaves it alone. *)
LEMMA StepMoves == ASSUME TypeInv, [Next]_vars PROVE Moves
<1> USE DEF Moves
<1>1. ASSUME UNCHANGED <<table, session, faults>> PROVE Moves
  BY <1>1
<1>2. ASSUME NEW c \in Calls, Step(c) PROVE Moves
  <2>1. CASE Fetch(c) \/ Edit(c) \/ (\E i \in Ids : Toggle(c, i)) \/ Logout(c) \/ Refuse(c) \/ GiveUp(c) \/ Refreshed(c)
    BY <1>1, <2>1 DEF Fetch, Edit, Toggle, Logout, Refuse, GiveUp, Refreshed, Click
  <2>2. CASE Arrive(c)
    BY <2>2, HandledMoves DEF TypeInv, PageOK, Arrive, Handles, Manages
  <2>3. CASE Serve(c)
    BY <2>3 DEF Serve, Handles
  <2>4. CASE ServeRefresh(c)
    BY <2>4 DEF ServeRefresh, Manages
  <2>5. CASE Answered(c)
    <3>1. CASE T!Taken(c)
      BY <2>5, <3>1 DEF Answered, Handles
    <3>2. CASE UNCHANGED work
      BY <2>5, <3>2 DEF Answered, table
    <3> QED
      BY <2>5, <3>1, <3>2 DEF Answered
  <2>6. CASE Refresh(c)
    <3>1. store \in A!Tokens
      BY <2>6, TodoBounds, AppBounds DEF Refresh, TypeInv, ServerOK, PageOK, AP!TypeInv, AP!TablesOK, A!Tokens
    <3> QED
      BY <2>6, <3>1 DEF Refresh, Manages
  <2> QED
    BY <1>2, <2>1, <2>2, <2>3, <2>4, <2>5, <2>6 DEF Step
<1>3. ASSUME NEW t \in A!Tokens, ExpireAccess(t) PROVE Moves
  BY <1>1, <1>3 DEF ExpireAccess
<1>4. ASSUME Unload PROVE Moves
  BY <1>1, <1>4 DEF Unload
<1>5. ASSUME UNCHANGED vars PROVE Moves
  BY <1>1, <1>5 DEF vars
<1> QED
  BY <1>2, <1>3, <1>4, <1>5 DEF Next

--------------------------------------------------------------------------------
(* The visit starts with an account, a session and a todo. *)
LEMMA TypeInit == Init => TypeInv
<1> SUFFICES ASSUME Init PROVE TypeInv
  OBVIOUS
<1>1. T!TypeOK
  <2>1. PICK t \in Titles : TRUE
    BY TitlesAssumption
  <2>2. [title |-> t, completed |-> FALSE] \in Todo /\ ~[title |-> t, completed |-> FALSE].completed
    BY DEF Todo
  <2>3. PICK row \in Todo : todos = [Empty EXCEPT ![1] = row]
    BY <2>2 DEF Init
  <2>4. 1 \in Ids /\ Empty \in T!Table
    BY AppBounds, TodoBounds DEF Ids, Empty, T!Table, T!Ids
  <2>5. todos \in T!Table /\ last = 1 /\ last \in 0..MaxTodos /\ \A i \in T!Ids : i > last => todos[i] = NoTodo
    BY <2>3, <2>4, AppBounds, TodoBounds DEF Init, T!Table, T!Todo, Todo, T!Ids, Ids, Empty
  <2>6. T!Idle \in T!Work /\ T!Idle.pc = "idle"
    BY DEF T!Idle, T!Work, T!Empty, T!Table
  <2>7. work \in [Calls -> T!Work] /\ \A c \in Calls : work[c].pc = "idle"
    BY <2>6 DEF Init
  <2> QED
    BY <2>5, <2>7, TodoBounds DEF T!TypeOK, Init
<1>2. AP!TypeInv
  <2>1. users \in [{User} -> AP!Row] /\ issued = 1 /\ 1 \in 0..MaxTokens /\ 1 \in A!Tokens
    BY AppBounds DEF Init, AP!Row, A!Tokens
  <2>2. owner \in [AP!Tokens -> {User} \cup {None}] /\ owner[1] = User
    BY <2>1 DEF Init, AP!Tokens, A!Tokens
  <2>3. AP!TablesOK
    BY <2>1, <2>2 DEF AP!TablesOK, AP!HasAccount, Init
  <2>4. AP!ReqOK(AP!Idle, users, 1, owner)
    BY AP!IdleOK, AppBounds, TodoBounds, NoneAssumption DEF AP!Row
  <2>5. \A c \in Calls : req[c] = AP!Idle
    BY DEF Init, A!Idle, AP!Idle
  <2>6. req = [c \in Calls |-> AP!Idle]
    BY DEF Init, A!Idle, AP!Idle
  <2>7. req \in [Calls -> AP!Request] /\ \A c \in Calls : AP!ReqOK(req[c], users, issued, owner)
    BY <2>1, <2>4, <2>5, <2>6 DEF AP!ReqOK
  <2> QED
    BY <2>3, <2>7 DEF AP!TypeInv, AP!ReqsOK, Init
<1>3. PageOK
  <2>1. CallOK(NoCall, handed)
    BY AppBounds DEF CallOK, NoCall, Call
  <2>2. call \in [Calls -> Call] /\ \A c \in Calls : CallOK(call[c], handed)
    BY <2>1 DEF Init, CallOK
  <2>3. cache \in Cache
    BY DEF Init, NoCache, Cache
  <2>4. store \in handed \cup {0} /\ old \subseteq 1..issued /\ clicks \in 0..MaxClicks
    BY AppBounds DEF Init
  <2>5. page \in {"todos", "leaving", "login"} /\ raced \in BOOLEAN
    BY DEF Init
  <2> QED
    BY <2>2, <2>3, <2>4, <2>5 DEF PageOK
<1>4. FetchOK
  BY DEF Init, FetchOK, NoCache
<1> QED
  BY <1>1, <1>2, <1>3, <1>4 DEF TypeInv, ServerOK

--------------------------------------------------------------------------------
(* What the page sends, and what becomes of it. *)

LEMMA TokensInRange == ASSUME TypeInv PROVE handed \subseteq 0..MaxTokens /\ store \in 0..MaxTokens
BY TodoBounds, AppBounds DEF TypeInv, ServerOK, PageOK, AP!TypeInv, AP!TablesOK

LEMMA SentOK ==
  ASSUME TypeInv, NEW op \in {"list", "create", "update", "toggle", "delete", "logout"},
         NEW i \in Ids \cup {0}, NEW change \in Changes \cup {None},
         op = "create" => \E t \in Titles : change = Titled(t),
         op \in {"update", "toggle"} => change \in Changes,
         op \in {"update", "toggle", "delete"} => i \in Ids
  PROVE  CallOK(Sent(op, i, change), handed) /\ Sent(op, i, change).op = op /\ Sent(op, i, change).pc = "sent"
<1>1. NoCall \in Call
  BY AppBounds DEF NoCall, Call
<1>2. store \in 0..MaxTokens /\ store \in handed \cup {0}
  BY TokensInRange DEF TypeInv, PageOK
<1>3. Sent(op, i, change) \in Call
  BY <1>1, <1>2 DEF Sent, Call
<1>4. /\ Sent(op, i, change).op = op /\ Sent(op, i, change).pc = "sent" /\ Sent(op, i, change).id = i
      /\ Sent(op, i, change).change = change /\ Sent(op, i, change).tok = store
  BY <1>1 DEF Sent, Call
<1> QED
  BY <1>2, <1>3, <1>4 DEF CallOK

LEMMA ListSentOK ==
  ASSUME TypeInv
  PROVE  /\ CallOK(Sent("list", 0, None), handed)
         /\ Sent("list", 0, None).op = "list" /\ Sent("list", 0, None).pc = "sent"
BY SentOK

LEMMA NoCallOK == ASSUME NEW h PROVE CallOK(NoCall, h) /\ NoCall.op = "none" /\ NoCall.pc = "idle"
BY AppBounds DEF CallOK, Call, NoCall

(* A call moves on. *)
LEMMA CallMoves ==
  ASSUME NEW h, NEW k, CallOK(k, h), k.op # "none",
         NEW l \in {"sent", "served", "refused", "refresh"}
  PROVE  CallOK([k EXCEPT !.pc = l], h)
BY DEF CallOK, Call

LEMMA CallRetried ==
  ASSUME NEW h, NEW k, CallOK(k, h), k.op # "none"
  PROVE  CallOK([k EXCEPT !.pc = "refresh", !.retried = TRUE], h)
BY DEF CallOK, Call

LEMMA CallRenewed ==
  ASSUME NEW h, NEW k, CallOK(k, h), NEW t \in 0..MaxTokens, t \in h
  PROVE  CallOK([k EXCEPT !.tok = t], h)
BY DEF CallOK, Call

(* One call changes, and perhaps the rest of the page. *)
LEMMA PageStep ==
  ASSUME PageOK, Kept, issued \in Nat, issued' \in Nat, NEW c \in Calls, NEW k,
         call' = [call EXCEPT ![c] = k], CallOK(k, handed'), store' \in handed' \cup {0},
         old' = old, cache' \in Cache, page' \in {"todos", "leaving", "login"},
         clicks' \in 0..MaxClicks, raced' \in BOOLEAN
  PROVE  PageOK'
<1>1. call' \in [Calls -> Call]
  BY DEF PageOK, CallOK
<1>2. \A d \in Calls : CallOK(call[d], handed')
  BY DEF PageOK, CallOK, Kept
<1>3. \A d \in Calls : CallOK(call'[d], handed')
  BY <1>2 DEF PageOK
<1>4. old' \subseteq 1..issued'
  BY DEF PageOK, Kept
<1> QED
  BY <1>1, <1>3, <1>4 DEF PageOK

(* The cache goes on to wait for its fetch, or not, or for the call changed. *)
LEMMA FetchStep ==
  ASSUME PageOK, FetchOK, page' = "todos" => page = "todos", NEW c \in Calls, NEW k,
         call' = [call EXCEPT ![c] = k], cache'.fetch \in {cache.fetch, None, c},
         page' = "todos" /\ cache'.fetch = c => k.op = "list" /\ k.pc # "idle"
  PROVE  FetchOK'
BY DEF PageOK, FetchOK, Cache

(***************************************************************************)
(* The types of the page, action by action.  Kept says what the server has  *)
(* kept meanwhile.                                                         *)
(***************************************************************************)
LEMMA TypeSend ==
  ASSUME TypeInv, Kept, issued' \in Nat, NEW c \in Calls,
         Fetch(c) \/ Edit(c) \/ (\E i \in Ids : Toggle(c, i)) \/ Logout(c)
  PROVE  PageOK' /\ FetchOK'
<1>t. issued \in Nat /\ c # None /\ PageOK /\ FetchOK /\ raced' \in BOOLEAN
  <2>1. raced' \in BOOLEAN
    BY DEF TypeInv, PageOK, Fetch, Edit, Toggle, Logout
  <2> QED
    BY <2>1, TodoBounds, AppBounds, NoneAssumption DEF TypeInv, ServerOK, AP!TypeInv, AP!TablesOK
<1>h. ASSUME NEW k, CallOK(k, handed), UNCHANGED <<session, store>>
      PROVE  CallOK(k, handed') /\ store' \in handed' \cup {0} /\ issued' = issued
  BY <1>h DEF session, TypeInv, PageOK
<1>c. ASSUME NEW k, CallOK(k, handed), Click(c, k), cache' \in Cache, cache'.fetch \in {cache.fetch, None},
             cache.fetch = c /\ cache'.fetch = c => k.op = "list" /\ k.pc # "idle"
      PROVE  PageOK' /\ FetchOK'
  <2>1. /\ call' = [call EXCEPT ![c] = k] /\ UNCHANGED <<session, store, old, page>>
        /\ clicks' = clicks + 1 /\ clicks < MaxClicks
    BY <1>c DEF Click
  <2>2. clicks' \in 0..MaxClicks
    BY <1>t, <2>1, AppBounds DEF PageOK
  <2>3. PageOK'
    BY <1>t, <1>h, <1>c, <2>1, <2>2, PageStep DEF PageOK
  <2> QED
    BY <1>t, <1>c, <2>1, <2>3, FetchStep
<1>f. page = "todos" /\ Idle(c) => cache.fetch # c
  BY <1>t DEF FetchOK, Idle
<1>1. CASE Fetch(c)
  <2>1. /\ call' = [call EXCEPT ![c] = Sent("list", 0, None)]
        /\ UNCHANGED <<session, store, old, page, clicks>>
    BY <1>1 DEF Fetch
  <2>2. cache' \in Cache /\ cache'.fetch = c
    BY <1>1, <1>t DEF Fetch, PageOK, Cache
  <2>3. PageOK'
    BY <1>1, <1>t, <1>h, <2>1, <2>2, ListSentOK, PageStep DEF PageOK, Fetch
  <2>4. PICK k : k = Sent("list", 0, None)
    OBVIOUS
  <2>5. call' = [call EXCEPT ![c] = k] /\ k.op = "list" /\ k.pc = "sent"
    BY <2>1, <2>4, ListSentOK
  <2>6. FetchOK'
    BY <1>t, <2>1, <2>2, <2>5, FetchStep
  <2> QED
    BY <2>3, <2>6
<1>2. CASE Edit(c)
  <2>1. PICK op \in {"create", "update", "delete"}, i \in Ids \cup {0}, change \in Changes \cup {None} :
          /\ Click(c, Sent(op, i, change))
          /\ op = "create" => \E t \in Titles : change = Titled(t)
          /\ op = "update" => change \in Changes
          /\ op \in {"update", "delete"} => i \in Ids
    <3>1. CASE \E t \in Titles : Click(c, Sent("create", 0, Titled(t)))
      BY <3>1 DEF Changes
    <3>2. CASE \E i \in Ids : Click(c, Sent("delete", i, None))
      BY <3>2
    <3>3. CASE \E i \in Ids, t \in Titles : Click(c, Sent("update", i, Titled(t)))
      BY <3>3 DEF Changes
    <3> QED
      BY <1>2, <3>1, <3>2, <3>3 DEF Edit
  <2>2. CallOK(Sent(op, i, change), handed)
    BY <2>1, SentOK
  <2>3. cache' = cache /\ cache \in Cache /\ page = "todos" /\ Idle(c)
    BY <1>2, <1>t, <2>1 DEF Edit, PageOK, Click
  <2> QED
    BY <1>c, <1>f, <2>1, <2>2, <2>3
<1>3. CASE \E i \in Ids : Toggle(c, i)
  <2>1. PICK i \in Ids : Toggle(c, i)
    BY <1>3
  <2>2. PICK b \in BOOLEAN :
          /\ Click(c, [Sent("toggle", i, Completed(b)) EXCEPT !.before = cache.data])
          /\ cache' = [cache EXCEPT !.data[i].completed = b, !.stale = FALSE, !.fetch = None]
    BY <2>1 DEF Toggle
  <2>3. cache.data \in Table /\ cache.data[i] \in Todo /\ cache \in Cache
    BY <1>t, <2>1 DEF Toggle, Listed, PageOK, Cache, Table
  <2>4. CallOK(Sent("toggle", i, Completed(b)), handed)
    BY SentOK DEF Changes
  <2>5. CallOK([Sent("toggle", i, Completed(b)) EXCEPT !.before = cache.data], handed)
    BY <2>3, <2>4 DEF CallOK, Call
  <2>6. [cache.data EXCEPT ![i].completed = b] \in Table
    BY <2>3 DEF Table, Todo
  <2>7. cache' \in Cache /\ cache'.fetch = None
    BY <2>2, <2>3, <2>6 DEF Cache
  <2> QED
    <3> DEFINE k == [Sent("toggle", i, Completed(b)) EXCEPT !.before = cache.data]
    <3>1. CallOK(k, handed) /\ Click(c, k)
      BY <2>2, <2>5
    <3> HIDE DEF k
    <3> QED
      BY <1>c, <1>t, <2>7, <3>1
<1>4. CASE Logout(c)
  <2>1. Click(c, Sent("logout", 0, None)) /\ cache' = cache /\ cache \in Cache /\ page = "todos" /\ Idle(c)
    BY <1>4, <1>t DEF Logout, PageOK, Click
  <2>2. CallOK(Sent("logout", 0, None), handed)
    BY SentOK
  <2> QED
    BY <1>c, <1>f, <2>1, <2>2
<1> QED
  BY <1>1, <1>2, <1>3, <1>4

(* A call moves on, and the cache and the page stay. *)
LEMMA TypeMoves ==
  ASSUME TypeInv, Kept, issued' \in Nat, NEW c \in Calls, NEW k, call' = [call EXCEPT ![c] = k],
         CallOK(k, handed'), k.op = call[c].op, k.pc # "idle", store' \in handed' \cup {0},
         UNCHANGED <<old, cache, page, clicks>>, raced' \in BOOLEAN
  PROVE  PageOK' /\ FetchOK'
<1>t. /\ issued \in Nat /\ c # None /\ PageOK /\ FetchOK
      /\ cache' \in Cache /\ page' \in {"todos", "leaving", "login"} /\ clicks' \in 0..MaxClicks
  BY TodoBounds, AppBounds, NoneAssumption DEF TypeInv, ServerOK, PageOK, AP!TypeInv, AP!TablesOK
<1>1. PageOK'
  BY <1>t, PageStep
<1>2. page' = "todos" /\ cache'.fetch = c => k.op = "list" /\ k.pc # "idle"
  BY <1>t DEF FetchOK
<1> QED
  BY <1>t, <1>1, <1>2, FetchStep

LEMMA TypeServer ==
  ASSUME TypeInv, Kept, issued' \in 0..MaxTokens, handed' \subseteq 1..issued', NEW c \in Calls,
         Arrive(c) \/ Refuse(c) \/ Serve(c) \/ ServeRefresh(c)
  PROVE  PageOK' /\ FetchOK'
<1>t. /\ issued' \in Nat /\ PageOK /\ CallOK(call[c], handed) /\ CallOK(call[c], handed')
      /\ raced \in BOOLEAN /\ store \in handed' \cup {0}
  <2>1. PageOK /\ CallOK(call[c], handed) /\ handed \subseteq handed'
    BY DEF TypeInv, PageOK, Kept
  <2>2. CallOK(call[c], handed')
    BY <2>1 DEF CallOK
  <2>3. raced \in BOOLEAN /\ store \in handed' \cup {0}
    BY <2>1 DEF PageOK
  <2>4. issued' \in Nat
    BY AppBounds
  <2> QED
    BY <2>1, <2>2, <2>3, <2>4
<1>1. CASE Arrive(c) \/ Refuse(c)
  <2>1. PICK l \in {"served", "refused"} : call' = [call EXCEPT ![c] = [call[c] EXCEPT !.pc = l]]
    BY <1>1 DEF Arrive, Refuse
  <2>2. call[c].op # "none" /\ call[c] \in Call
    BY <1>1, <1>t DEF CallOK, Arrive, Refuse
  <2>3. PICK k : k = [call[c] EXCEPT !.pc = l]
    OBVIOUS
  <2>4. CallOK(k, handed') /\ k.op = call[c].op /\ k.pc # "idle"
    BY <1>t, <2>2, <2>3, CallMoves DEF Call
  <2>5. UNCHANGED <<store, old, cache, page, clicks, raced>>
    BY <1>1 DEF Arrive, Refuse
  <2> QED
    BY <1>t, <2>1, <2>3, <2>4, <2>5, TypeMoves
<1>2. ASSUME call' = call, UNCHANGED <<store, old, cache, page, clicks, raced>> PROVE PageOK' /\ FetchOK'
  <2>1. \A d \in Calls : CallOK(call'[d], handed')
    BY <1>2 DEF PageOK, TypeInv, CallOK, Kept
  <2>2. old' \subseteq 1..issued'
    BY <1>2, TodoBounds, AppBounds DEF TypeInv, ServerOK, PageOK, Kept, AP!TypeInv, AP!TablesOK
  <2> QED
    BY <1>t, <1>2, <2>1, <2>2 DEF PageOK, FetchOK, TypeInv
<1>3. CASE Serve(c)
  BY <1>2, <1>3 DEF Serve, browser
<1>4. CASE ServeRefresh(c)
  <2>0. UNCHANGED <<store, old, cache, page, clicks, raced>>
    BY <1>4 DEF ServeRefresh
  <2>1. CASE UNCHANGED call
    BY <1>2, <2>0, <2>1
  <2>2. CASE A!SaveRefreshToken(c) /\ Refreshing(c) /\ handed' # handed /\ call' = [call EXCEPT ![c].tok = issued']
    <3>1. issued' \in handed'
      BY <2>2 DEF A!SaveRefreshToken
    <3>2. PICK k : k = [call[c] EXCEPT !.tok = issued']
      OBVIOUS
    <3>3. call' = [call EXCEPT ![c] = k]
      BY <2>2, <3>2
    <3>4. k.op = call[c].op /\ k.pc = call[c].pc /\ k.pc # "idle"
      BY <1>t, <2>2, <3>2 DEF CallOK, Call, Refreshing
    <3>5. CallOK(k, handed')
      BY <1>t, <3>1, <3>2, AppBounds, CallRenewed
    <3> QED
      BY <1>t, <2>0, <3>3, <3>4, <3>5, TypeMoves
  <2>3. CASE A!SaveRefreshToken(c) /\ ~(Refreshing(c) /\ handed' # handed)
               /\ call' = [call EXCEPT ![c].tok = @]
    <3>1. call' = call
      BY <2>3, <1>t DEF PageOK, Call
    <3> QED
      BY <1>2, <2>0, <3>1
  <2> QED
    BY <1>4, <2>1, <2>2, <2>3 DEF ServeRefresh
<1> QED
  BY <1>1, <1>3, <1>4

(* The outcome of a call ends it, or has the list fetched, or fetched again. *)
Ended(k)    == k = NoCall
Fetching(k) == CallOK(k, handed) /\ k.op = "list" /\ k.pc = "sent"

LEMMA EndedOK == ASSUME NEW k, Ended(k) \/ Fetching(k), NEW h, handed \subseteq h PROVE CallOK(k, h)
BY NoCallOK DEF Ended, Fetching, CallOK

LEMMA Ends ==
  ASSUME TypeInv, NEW c \in Calls, NEW x \in Cache, Done(c, x)
  PROVE  \E k : call' = [call EXCEPT ![c] = k] /\ Ended(k) /\ cache' = x
BY DEF Done, Ended

(* The list is to be fetched, on the page that shows it; or it is on its way *)
(* for the first time.                                                      *)
LEMMA Invalidates ==
  ASSUME TypeInv, NEW c \in Calls, NEW x \in Cache, Invalidate(c, x)
  PROVE  \E k :
           /\ call' = [call EXCEPT ![c] = k] /\ cache' \in Cache
           /\ \/ page # "todos" /\ Ended(k) /\ cache' = x
              \/ /\ page = "todos" /\ cache'.stale /\ cache'.data = x.data
                 /\ \/ Fetching(k) /\ cache'.fetch = c
                    \/ Ended(k) /\ cache'.fetch = x.fetch /\ cache'.missed
<1>1. CASE page # "todos" /\ Done(c, x)
  BY <1>1, Ends
<1>2. CASE page = "todos" /\ Done(c, [x EXCEPT !.stale = TRUE, !.missed = TRUE])
  <2>1. PICK y : y = [x EXCEPT !.stale = TRUE, !.missed = TRUE] /\ Done(c, y)
    BY <1>2
  <2>2. y \in Cache /\ y.stale /\ y.missed /\ y.data = x.data /\ y.fetch = x.fetch
    BY <2>1 DEF Cache
  <2> QED
    BY <1>2, <2>1, <2>2, Ends
<1>3. CASE /\ page = "todos"
           /\ call' = [call EXCEPT ![c] = Sent("list", 0, None)]
           /\ cache' = [x EXCEPT !.stale = TRUE, !.fetch = c, !.missed = FALSE]
  <2>1. PICK k : k = Sent("list", 0, None)
    OBVIOUS
  <2>2. Fetching(k)
    BY <2>1, ListSentOK DEF Fetching
  <2>3. cache' \in Cache /\ cache'.fetch = c /\ cache'.stale /\ cache'.data = x.data
    BY <1>3 DEF Cache
  <2> QED
    BY <1>3, <2>1, <2>2, <2>3
<1> QED
  BY <1>1, <1>2, <1>3 DEF Invalidate

(* What the outcome of a call other than a logout leaves. *)
Outcome(c, k) ==
  /\ call' = [call EXCEPT ![c] = k]
  /\ Ended(k) \/ Fetching(k)
  /\ cache' \in Cache
  /\ cache'.fetch \in {cache.fetch, None, c}
  /\ page = "todos" /\ cache'.fetch = c => Fetching(k)

LEMMA SettledTypes ==
  ASSUME TypeInv, NEW c \in Calls, NEW ok \in BOOLEAN, Settled(c, ok)
  PROVE  \E k : Outcome(c, k)
<1>t. cache \in Cache /\ FetchOK /\ call[c] \in Call /\ work[c].found \in Table /\ c # None
  <2>1. work[c].found \in Table
    BY DEF TypeInv, ServerOK, T!TypeOK, T!Work, T!Table, Table, T!Ids, Ids, T!Todo, Todo
  <2> QED
    BY <2>1, NoneAssumption DEF TypeInv, PageOK
<1>r. [cache EXCEPT !.data = call[c].before, !.stale = FALSE] \in Cache
  BY <1>t DEF Cache, Call
<1>1. CASE call[c].op = "list" /\ ok /\ ListOk(c)
  <2>1. PICK x : /\ x = IF cache.fetch = c
                        THEN [cache EXCEPT !.data = work[c].found, !.stale = FALSE, !.fetch = None, !.doubt = cache.missed]
                        ELSE cache
                 /\ Done(c, x)
    BY <1>1 DEF ListOk
  <2>2. x \in Cache /\ x.fetch \in {cache.fetch, None} /\ x.fetch # c
    BY <1>t, <2>1 DEF Cache
  <2> QED
    BY <2>1, <2>2, Ends DEF Outcome
<1>2. CASE call[c].op = "list" /\ ListFailed(c)
  <2>1. CASE cache.fetch = c /\ call[c].tries = 0
    <3>1. PICK k : k = [Sent("list", 0, None) EXCEPT !.tries = 1]
      OBVIOUS
    <3>2. Fetching(k)
      BY <3>1, ListSentOK DEF Fetching, CallOK, Call
    <3>3. call' = [call EXCEPT ![c] = k] /\ cache' = [cache EXCEPT !.missed = FALSE]
      BY <1>2, <2>1, <3>1 DEF ListFailed
    <3>4. cache' \in Cache /\ cache'.fetch = cache.fetch
      BY <1>t, <3>3 DEF Cache
    <3> QED
      BY <3>2, <3>3, <3>4 DEF Outcome
  <2>2. CASE ~(cache.fetch = c /\ call[c].tries = 0)
    <3>1. PICK x : x = (IF cache.fetch = c THEN [cache EXCEPT !.fetch = None] ELSE cache) /\ Done(c, x)
      BY <1>2, <2>2 DEF ListFailed
    <3>2. x \in Cache /\ x.fetch \in {cache.fetch, None} /\ x.fetch # c
      BY <1>t, <3>1 DEF Cache
    <3> QED
      BY <3>1, <3>2, Ends DEF Outcome
  <2> QED
    BY <2>1, <2>2
<1>3. CASE call[c].op = "toggle" /\ ToggleSettled(c, ok)
  <2>1. PICK x : /\ x = IF ok \/ page # "todos" THEN cache
                        ELSE [cache EXCEPT !.data = call[c].before, !.stale = FALSE]
                 /\ Invalidate(c, x)
    BY <1>3 DEF ToggleSettled
  <2>2. x \in Cache /\ x.fetch = cache.fetch
    BY <1>t, <1>r, <2>1 DEF Cache
  <2>3. page = "todos" => cache.fetch # c
    BY <1>t, <1>3 DEF FetchOK
  <2> QED
    BY <2>1, <2>2, <2>3, Invalidates DEF Outcome
<1>4. CASE call[c].op \in {"create", "update", "delete"} /\ ok /\ Invalidate(c, cache)
  <2>1. page = "todos" => cache.fetch # c
    BY <1>t, <1>4 DEF FetchOK
  <2> QED
    BY <1>t, <1>4, <2>1, Invalidates DEF Outcome
<1>5. CASE call[c].op \in {"create", "update", "delete"} /\ Done(c, [cache EXCEPT !.doubt = TRUE, !.missed = TRUE])
  <2>1. PICK x : x = [cache EXCEPT !.doubt = TRUE, !.missed = TRUE] /\ Done(c, x)
    BY <1>5
  <2>2. x \in Cache /\ x.fetch = cache.fetch /\ (page = "todos" => x.fetch # c)
    BY <1>t, <1>5, <2>1 DEF Cache, FetchOK
  <2> QED
    BY <2>1, <2>2, Ends DEF Outcome
<1> QED
  BY <1>1, <1>2, <1>3, <1>4, <1>5 DEF Settled

(* A call ends with an outcome, or signs the user out. *)
LEMMA TypeEnds ==
  ASSUME TypeInv, Kept, issued' \in Nat, NEW c \in Calls, NEW k, call' = [call EXCEPT ![c] = k],
         Ended(k) \/ Fetching(k), cache' \in Cache, store' \in {store, 0},
         page' \in {page, "login", "leaving"}, page' = "todos" => page = "todos" /\ Outcome(c, k),
         UNCHANGED <<old, clicks>>, raced' \in BOOLEAN
  PROVE  PageOK' /\ FetchOK'
<1>t. /\ issued \in Nat /\ PageOK /\ FetchOK /\ page' \in {"todos", "leaving", "login"}
      /\ clicks' \in 0..MaxClicks /\ store' \in handed' \cup {0}
  BY TodoBounds, AppBounds DEF TypeInv, ServerOK, PageOK, AP!TypeInv, AP!TablesOK, Kept
<1>1. CallOK(k, handed')
  BY EndedOK DEF Kept
<1>2. PageOK'
  BY <1>t, <1>1, PageStep
<1>3. CASE page' = "todos"
  <2>1. page' = "todos" /\ cache'.fetch = c => k.op = "list" /\ k.pc # "idle"
    BY <1>3 DEF Outcome, Fetching
  <2>2. cache'.fetch \in {cache.fetch, None, c}
    BY <1>3 DEF Outcome
  <2> QED
    BY <1>t, <1>2, <1>3, <2>1, <2>2, FetchStep
<1>4. CASE page' # "todos"
  BY <1>2, <1>4 DEF FetchOK
<1> QED
  BY <1>2, <1>3, <1>4

LEMMA TypeSignsOut ==
  ASSUME TypeInv, Kept, issued' \in Nat, NEW c \in Calls, UNCHANGED <<old, clicks>>, raced' \in BOOLEAN,
         LoggedOut(c) \/ SignOut(c)
  PROVE  PageOK' /\ FetchOK'
<1>1. PICK x \in Cache : Done(c, x)
  BY DEF LoggedOut, SignOut, TypeInv, PageOK, NoCache, Cache
<1>2. PICK k : call' = [call EXCEPT ![c] = k] /\ Ended(k) /\ cache' = x
  BY <1>1, Ends
<1>3. store' \in {store, 0} /\ page' \in {page, "login", "leaving"} /\ page' # "todos"
  BY DEF LoggedOut, SignOut
<1> QED
  BY <1>1, <1>2, <1>3, TypeEnds

LEMMA TypeSettled ==
  ASSUME TypeInv, Kept, issued' \in Nat, NEW c \in Calls, NEW ok \in BOOLEAN, Settled(c, ok),
         UNCHANGED <<store, old, page, clicks>>, raced' \in BOOLEAN
  PROVE  PageOK' /\ FetchOK'
<1>1. PICK k : Outcome(c, k)
  BY SettledTypes
<1> QED
  BY <1>1, TypeEnds DEF Outcome

LEMMA TypePage ==
  ASSUME TypeInv, Kept, issued' \in Nat, NEW c \in Calls, Answered(c) \/ GiveUp(c) \/ Refresh(c) \/ Refreshed(c)
  PROVE  PageOK' /\ FetchOK'
<1>t. /\ PageOK /\ raced \in BOOLEAN /\ CallOK(call[c], handed) /\ call[c] \in Call
  BY DEF TypeInv, PageOK, CallOK
<1>h. CallOK(call[c], handed')
  BY <1>t DEF CallOK, Kept
<1>1. CASE Answered(c)
  BY <1>1, <1>t, TypeSettled, TypeSignsOut DEF Answered
<1>2. CASE GiveUp(c)
  BY <1>2, <1>t, TypeSettled, TypeSignsOut DEF GiveUp, Rejected
<1>3. CASE Refresh(c)
  <2>1. PICK k : k = [call[c] EXCEPT !.pc = "refresh", !.retried = TRUE]
    OBVIOUS
  <2>2. call' = [call EXCEPT ![c] = k] /\ UNCHANGED <<store, old, cache, page, clicks>> /\ raced' \in BOOLEAN
    BY <1>3, <2>1, <1>t DEF Refresh
  <2>3. CallOK(k, handed') /\ k.op = call[c].op /\ k.pc # "idle"
    BY <1>3, <1>t, <1>h, <2>1, CallRetried DEF Refresh, CallOK, Call
  <2>4. store' \in handed' \cup {0}
    BY <1>t, <2>2 DEF PageOK, Kept
  <2> QED
    BY <2>2, <2>3, <2>4, TypeMoves
<1>4. CASE Refreshed(c)
  <2>1. CASE /\ req[c].ans = "ok" /\ store' = call[c].tok
             /\ call' = [call EXCEPT ![c].pc = "sent"] /\ UNCHANGED <<cache, page>>
    <3>1. PICK k : k = [call[c] EXCEPT !.pc = "sent"]
      OBVIOUS
    <3>2. call' = [call EXCEPT ![c] = k] /\ UNCHANGED <<old, cache, page, clicks, raced>>
      BY <1>4, <2>1, <3>1 DEF Refreshed
    <3>3. CallOK(k, handed') /\ k.op = call[c].op /\ k.pc # "idle"
      BY <1>4, <1>t, <1>h, <3>1, CallMoves DEF Refreshed, Refreshing, CallOK, Call
    <3>4. store' \in handed' \cup {0}
      BY <1>h, <2>1 DEF CallOK
    <3> QED
      BY <1>t, <3>2, <3>3, <3>4, TypeMoves
  <2>2. CASE SignOut(c)
    BY <1>4, <2>2, <1>t, TypeSignsOut DEF Refreshed
  <2> QED
    BY <1>4, <2>1, <2>2 DEF Refreshed
<1> QED
  BY <1>1, <1>2, <1>3, <1>4

(* No other step has a call of its own. *)
LEMMA TypeRest ==
  ASSUME TypeInv, Kept, issued' \in Nat,
         (\E t \in A!Tokens : ExpireAccess(t)) \/ Unload \/ UNCHANGED vars
  PROVE  PageOK' /\ FetchOK'
<1>t. issued \in Nat /\ PageOK /\ FetchOK /\ old \subseteq 1..issued
  BY TodoBounds, AppBounds DEF TypeInv, ServerOK, PageOK, AP!TypeInv, AP!TablesOK
<1>1. ASSUME NEW t \in A!Tokens, ExpireAccess(t) PROVE PageOK' /\ FetchOK'
  <2>1. UNCHANGED <<session, store, call, cache, page, clicks, raced>>
    BY <1>1 DEF ExpireAccess
  <2>2. old' \subseteq 1..issued' /\ handed' = handed
    BY <1>1, <1>t DEF ExpireAccess, session
  <2> QED
    BY <1>t, <2>1, <2>2 DEF PageOK, FetchOK
<1>2. CASE Unload
  <2>1. call' \in [Calls -> Call] /\ \A c \in Calls : CallOK(call'[c], handed')
    BY <1>2, NoCallOK DEF Unload, CallOK
  <2>2. cache' \in Cache /\ cache'.fetch = None
    BY <1>2 DEF Unload, NoCache, Cache
  <2>3. /\ page' = "login" /\ UNCHANGED <<session, store, old, clicks, raced>>
    BY <1>2 DEF Unload
  <2> QED
    BY <1>t, <2>1, <2>2, <2>3 DEF PageOK, FetchOK, session
<1>3. CASE UNCHANGED vars
  <2>1. UNCHANGED <<store, old, call, cache, page, clicks, raced, handed, issued>>
    BY <1>3 DEF vars, browser, session
  <2> QED
    BY <1>t, <2>1 DEF PageOK, FetchOK
<1> QED
  BY <1>1, <1>2, <1>3

LEMMA TypeStep == TypeInv /\ [Next]_vars => TypeInv' /\ Kept
<1> SUFFICES ASSUME TypeInv, [Next]_vars PROVE TypeInv' /\ Kept
  OBVIOUS
<1>1. ServerOK' /\ Kept
  BY StepMoves, ServerStep DEF TypeInv
<1>2. issued' \in 0..MaxTokens /\ issued' \in Nat /\ handed' \subseteq 1..issued'
  BY <1>1, TodoBounds, AppBounds DEF ServerOK, AP!TypeInv, AP!TablesOK
<1>3. PageOK' /\ FetchOK'
  BY <1>1, <1>2, TypeSend, TypeServer, TypePage, TypeRest DEF Next, Step
<1> QED
  BY <1>1, <1>3 DEF TypeInv

(***************************************************************************)
(* Whatever calls of the page are under way, sent again or given up, the    *)
(* table, the handlers, the tokens, the calls and the cached list keep      *)
(* their types, and what the page keeps or sends is a token handed out.     *)
(***************************************************************************)
THEOREM AppTypeCorrect == Spec => []TypeOK
BY TypeInit, TypeStep, TypeInvTypes, PTL DEF Spec

(***************************************************************************)
(* A deleted todo stays deleted, although the page sends the calls that a   *)
(* refusal held back again after the refresh, when the todo may be gone.    *)
(***************************************************************************)
THEOREM AppDeletedForGood == Spec => DeletedForGood
<1>1. TypeInv /\ [Next]_vars => [\A i \in Ids : i <= last /\ todos[i] = NoTodo => todos'[i] = NoTodo]_vars
  BY TypeStep DEF Kept
<1> QED
  BY <1>1, TypeInit, TypeStep, PTL DEF Spec, DeletedForGood

--------------------------------------------------------------------------------
(***************************************************************************)
(* QuietCacheIsTrue speaks of quiet pages; the invariant says what is known *)
(* of the list while calls are under way.  The list is what the table holds *)
(* or there is a reason: it is due to be fetched, an edit was rejected      *)
(* since it was fetched, or one is under way.  And so are the rows that a   *)
(* handler has read for the fetch that the cache waits for.                 *)
(***************************************************************************)
Edits == {"create", "update", "toggle", "delete"}

Edit1(k) == k.pc # "idle" /\ k.op \in Edits
Editing  == \E c \in Calls : Edit1(call[c])

(* A handler works for a call of the page that waits for it. *)
Serves(w, k) ==
  /\ w.pc # "idle" => k.pc = "served" /\ k.op # "logout"
  /\ w.pc \in {"save", "stamp", "delete"} => k.op \in Edits

Reads(c, w) ==
  w.pc = "done" /\ w.ans = "ok" /\ cache.fetch = c => w.found = todos \/ cache.missed \/ Editing

WorkInv == \A c \in Calls : Serves(work[c], call[c]) /\ Reads(c, work[c])

DataInv ==
  cache.data # None => cache.data = todos \/ cache.stale \/ cache.doubt \/ Editing

TrueInv == page = "todos" => WorkInv /\ DataInv

LEMMA TrueInit == Init => TrueInv
<1> SUFFICES ASSUME Init PROVE TrueInv
  OBVIOUS
<1>1. \A c \in Calls : work[c].pc = "idle"
  BY DEF Init, T!Idle
<1>2. cache.data = None
  BY DEF Init, NoCache
<1> QED
  BY <1>1, <1>2 DEF TrueInv, WorkInv, DataInv, Serves, Reads

LEMMA TrueGives == TrueInv => QuietCacheIsTrue
BY DEF TrueInv, DataInv, QuietCacheIsTrue, Quiet, Idle, Editing, Edit1

(* An edit stays under way, unless it is the call that changes. *)
LEMMA EditingStays ==
  ASSUME PageOK, NEW c \in Calls, NEW k, call' = [call EXCEPT ![c] = k],
         Edit1(call[c]) => Edit1(k), Editing
  PROVE  Editing'
<1>1. PICK d \in Calls : Edit1(call[d])
  BY DEF Editing
<1>2. Edit1(call'[d])
  BY <1>1 DEF PageOK
<1> QED
  BY <1>2 DEF Editing

LEMMA EditingStarts ==
  ASSUME PageOK, NEW c \in Calls, NEW k, call' = [call EXCEPT ![c] = k], Edit1(k) PROVE Editing'
<1>1. Edit1(call'[c])
  BY DEF PageOK
<1> QED
  BY <1>1 DEF Editing

(* What is known of the fetch of another call stays known. *)
FetchKnown(c) ==
  \/ cache'.fetch \in {c, None} \/ cache'.missed \/ Editing'
  \/ UNCHANGED <<todos, cache>> /\ ~Editing

(* One call changes, and perhaps its handler. *)
LEMMA WorkStep ==
  ASSUME TypeInv, WorkInv, NEW c \in Calls, NEW k, NEW w,
         call' = [call EXCEPT ![c] = k], work' = [work EXCEPT ![c] = w],
         Serves(w, k), FetchKnown(c),
         w.pc = "done" /\ w.ans = "ok" /\ cache'.fetch = c =>
           w.found = todos' \/ cache'.missed \/ Editing'
  PROVE  WorkInv'
<1>1. call \in [Calls -> Call] /\ work'[c] = w /\ call'[c] = k /\ None \notin Calls
  BY NoneAssumption DEF TypeInv, ServerOK, PageOK, T!TypeOK
<1>2. ASSUME NEW d \in Calls \ {c} PROVE Serves(work'[d], call'[d]) /\ Reads(d, work[d])'
  <2>1. work'[d] = work[d] /\ call'[d] = call[d]
    BY <1>1, <1>2
  <2>2. Serves(work[d], call[d]) /\ Reads(d, work[d])
    BY DEF WorkInv
  <2>3. Reads(d, work[d])'
    BY <1>1, <1>2, <2>1, <2>2 DEF FetchKnown, Reads
  <2> QED
    BY <2>1, <2>2, <2>3
<1>3. Serves(work'[c], call'[c]) /\ Reads(c, work[c])'
  BY <1>1 DEF Reads
<1> QED
  BY <1>2, <1>3 DEF WorkInv

(* What the first statement of the handler of a call does. *)
LEMMA HandledWork ==
  ASSUME TypeInv, NEW c \in Calls, Handled(c), call[c].op # "logout"
  PROVE  \E w : /\ work' = [work EXCEPT ![c] = w]
                /\ call[c].op \notin Edits => todos' = todos /\ w.pc = "done" /\ (w.ans = "ok" => w.found = todos)
<1> USE DEF T!Goto, T!Answer
<1>i. T!Idle = [pc |-> "idle", id |-> 0, row |-> NoTodo, found |-> T!Empty, ans |-> "none"]
  BY DEF T!Idle
<1>1. CASE call[c].op = "list" /\ T!ListTodos(c)
  <2>1. CASE T!Goto(c, [T!Idle EXCEPT !.pc = "done", !.ans = "ok", !.found = todos])
    <3>1. PICK w : w = [T!Idle EXCEPT !.pc = "done", !.ans = "ok", !.found = todos]
      OBVIOUS
    <3>2. w.pc = "done" /\ w.found = todos
      BY <1>i, <3>1
    <3> QED
      BY <1>1, <2>1, <3>1, <3>2 DEF T!ListTodos
  <2>2. CASE T!Answer(c, "error")
    <3>1. PICK w : w = [T!Idle EXCEPT !.pc = "done", !.ans = "error"]
      OBVIOUS
    <3>2. w.pc = "done" /\ w.ans = "error"
      BY <1>i, <3>1
    <3> QED
      BY <1>1, <2>2, <3>1, <3>2 DEF T!ListTodos
  <2> QED
    BY <1>1, <2>1, <2>2 DEF T!ListTodos
<1>2. CASE call[c].op = "create" /\ T!CreateTodo(c, call[c].change.value)
  BY <1>2 DEF T!CreateTodo, Edits
<1>3. CASE call[c].op \in {"update", "toggle"} /\ T!UpdateFindTodo(c, call[c].id, call[c].change)
  BY <1>3 DEF T!UpdateFindTodo, Edits
<1>4. CASE call[c].op = "delete" /\ T!DeleteFindTodo(c, call[c].id)
  BY <1>4 DEF T!DeleteFindTodo, Edits
<1> QED
  BY <1>1, <1>2, <1>3, <1>4 DEF Handled

(* Handlers that go on are those of edits. *)
LEMMA ContinueWork ==
  ASSUME NEW c \in Calls, T!Continue(c)
  PROVE  work[c].pc \in {"save", "stamp", "delete"} /\ \E w : work' = [work EXCEPT ![c] = w]
BY DEF T!Continue, T!UpdateSaveTodo, T!ReadStamp, T!DeleteTodo, T!At, T!Goto, T!Answer

(* A call moves on while its handler does nothing, and the page stays. *)
LEMMA TrueMoves ==
  ASSUME TypeInv, WorkInv, DataInv, NEW c \in Calls, NEW k, call' = [call EXCEPT ![c] = k],
         work[c].pc = "idle", Edit1(call[c]) => Edit1(k), UNCHANGED <<todos, work, cache>>
  PROVE  WorkInv' /\ DataInv'
<1>1. Editing => Editing'
  BY EditingStays DEF TypeInv
<1>2. work' = [work EXCEPT ![c] = work[c]]
  BY DEF TypeInv, ServerOK, T!TypeOK
<1>3. Serves(work[c], k)
  BY DEF Serves
<1>4. FetchKnown(c)
  BY <1>1 DEF FetchKnown
<1>5. WorkInv'
  BY <1>2, <1>3, <1>4, WorkStep
<1> QED
  BY <1>1, <1>5 DEF DataInv

(* The page sends a call. *)
LEMMA TrueSend ==
  ASSUME TypeInv, WorkInv, DataInv, NEW c \in Calls,
         Fetch(c) \/ Edit(c) \/ (\E i \in Ids : Toggle(c, i)) \/ Logout(c)
  PROVE  WorkInv' /\ DataInv'
<1>1. /\ Idle(c) /\ work[c].pc = "idle" /\ ~Edit1(call[c]) /\ UNCHANGED <<todos, work>>
      /\ work' = [work EXCEPT ![c] = work[c]]
  <2>1. Idle(c) /\ UNCHANGED <<todos, work>>
    BY DEF Fetch, Edit, Toggle, Logout, Click, table
  <2> QED
    BY <2>1 DEF WorkInv, Serves, Idle, Edit1, TypeInv, ServerOK, T!TypeOK
<1>2. CASE Fetch(c)
  <2>1. PICK k : k = Sent("list", 0, None)
    OBVIOUS
  <2>2. call' = [call EXCEPT ![c] = k] /\ cache' = [cache EXCEPT !.fetch = c, !.missed = FALSE] /\ cache \in Cache
    BY <1>2, <2>1 DEF Fetch, TypeInv, PageOK
  <2>3. /\ cache'.fetch = c /\ cache'.data = cache.data /\ cache'.stale = cache.stale /\ cache'.doubt = cache.doubt
    BY <2>2 DEF Cache
  <2>4. Editing => Editing'
    BY <1>1, <2>2, EditingStays DEF TypeInv
  <2>5. WorkInv'
    BY <1>1, <2>2, <2>3, WorkStep DEF Serves, FetchKnown
  <2> QED
    BY <1>1, <2>3, <2>4, <2>5 DEF DataInv
<1>3. ASSUME NEW k, call' = [call EXCEPT ![c] = k], Edit1(k) PROVE WorkInv' /\ DataInv'
  <2>1. Editing'
    BY <1>3, EditingStarts DEF TypeInv
  <2>2. WorkInv'
    BY <1>1, <1>3, <2>1, WorkStep DEF Serves, FetchKnown
  <2> QED
    BY <2>1, <2>2 DEF DataInv
<1>4. CASE Edit(c)
  <2>1. PICK op, i, change : op \in {"create", "update", "delete"} /\ Click(c, Sent(op, i, change))
    BY <1>4 DEF Edit
  <2>2. PICK k : k = Sent(op, i, change)
    OBVIOUS
  <2>3. Edit1(k)
    BY <2>1, <2>2 DEF Edit1, Edits, Sent, NoCall
  <2> QED
    BY <1>3, <2>1, <2>2, <2>3 DEF Click
<1>5. CASE \E i \in Ids : Toggle(c, i)
  <2>1. PICK i, b : Click(c, [Sent("toggle", i, Completed(b)) EXCEPT !.before = cache.data])
    BY <1>5 DEF Toggle
  <2>2. PICK k : k = [Sent("toggle", i, Completed(b)) EXCEPT !.before = cache.data]
    OBVIOUS
  <2>3. Edit1(k)
    BY <2>2 DEF Edit1, Edits, Sent, NoCall
  <2> QED
    BY <1>3, <2>1, <2>2, <2>3 DEF Click
<1>6. CASE Logout(c)
  <2>1. PICK k : call' = [call EXCEPT ![c] = k] /\ cache' = cache
    BY <1>6 DEF Logout, Click
  <2> QED
    BY <1>1, <2>1, TrueMoves
<1> QED
  BY <1>2, <1>4, <1>5, <1>6

(* The server. *)
LEMMA TrueServer ==
  ASSUME TypeInv, WorkInv, DataInv, NEW c \in Calls,
         Arrive(c) \/ Refuse(c) \/ Serve(c) \/ ServeRefresh(c)
  PROVE  WorkInv' /\ DataInv'
<1>t. /\ call[c] \in Call /\ (call[c].pc # "idle" => call[c].op # "none")
      /\ (call[c].pc # "served" => work[c].pc = "idle")
      /\ work \in [Calls -> T!Work] /\ call \in [Calls -> Call]
  BY DEF TypeInv, PageOK, CallOK, WorkInv, Serves, ServerOK, T!TypeOK
<1>1. CASE Arrive(c)
  <2>1. PICK k : k = [call[c] EXCEPT !.pc = "served"]
    OBVIOUS
  <2>2. call' = [call EXCEPT ![c] = k] /\ k.op = call[c].op /\ k.pc = "served" /\ cache' = cache
    BY <1>1, <1>t, <2>1 DEF Arrive, Call
  <2>3. CASE call[c].op = "logout"
    <3>1. UNCHANGED <<todos, work>>
      BY <1>1, <2>3 DEF Arrive, Handled, table
    <3> QED
      BY <1>1, <1>t, <2>2, <2>3, <3>1, TrueMoves DEF Arrive, Edit1, Edits
  <2>4. CASE call[c].op # "logout"
    <3>1. PICK w : /\ work' = [work EXCEPT ![c] = w]
                   /\ call[c].op \notin Edits => todos' = todos /\ w.pc = "done" /\ (w.ans = "ok" => w.found = todos)
      BY <1>1, <2>4, HandledWork DEF Arrive
    <3>2. call[c].op \in Edits => Editing'
      BY <2>2, EditingStarts DEF TypeInv, Edit1
    <3>3. Editing => Editing'
      BY <2>2, EditingStays DEF TypeInv, Edit1
    <3>4. Serves(w, k)
      BY <2>2, <2>4, <3>1 DEF Serves
    <3>5. FetchKnown(c)
      BY <2>2, <3>1, <3>2, <3>3 DEF FetchKnown
    <3>6. WorkInv'
      BY <2>2, <3>1, <3>2, <3>4, <3>5, WorkStep
    <3> QED
      BY <2>2, <3>1, <3>2, <3>3, <3>6 DEF DataInv
  <2> QED
    BY <2>3, <2>4
<1>2. CASE Refuse(c)
  <2>1. PICK k : k = [call[c] EXCEPT !.pc = "refused"]
    OBVIOUS
  <2>2. call' = [call EXCEPT ![c] = k] /\ k.op = call[c].op /\ k.pc = "refused" /\ UNCHANGED <<todos, work, cache>>
    BY <1>2, <1>t, <2>1 DEF Refuse, Call, table
  <2> QED
    BY <1>2, <1>t, <2>2, TrueMoves DEF Refuse, Edit1
<1>3. CASE Serve(c)
  <2>1. /\ UNCHANGED <<call, cache>> /\ work[c].pc \in {"save", "stamp", "delete"}
        /\ \E w : work' = [work EXCEPT ![c] = w]
    BY <1>3, ContinueWork DEF Serve, browser
  <2>2. Serves(work[c], call[c]) /\ Edit1(call[c]) /\ call[c].pc = "served" /\ call[c].op # "logout"
    BY <2>1 DEF WorkInv, Serves, Edit1
  <2>3. call' = [call EXCEPT ![c] = call[c]] /\ Editing'
    BY <1>t, <2>1, <2>2 DEF Editing
  <2>4. PICK w : work' = [work EXCEPT ![c] = w]
    BY <2>1
  <2>5. Serves(w, call[c]) /\ FetchKnown(c)
    BY <2>2, <2>3 DEF Serves, Edit1, FetchKnown
  <2>6. WorkInv'
    BY <2>3, <2>4, <2>5, WorkStep
  <2> QED
    BY <2>3, <2>6 DEF DataInv
<1>4. CASE ServeRefresh(c)
  <2>1. UNCHANGED <<todos, work, cache>>
    BY <1>4 DEF ServeRefresh, table
  <2>2. CASE call' = call
    BY <2>1, <2>2 DEF WorkInv, DataInv, Serves, Reads, Editing
  <2>3. CASE call' # call
    <3>1. Refreshing(c) /\ call' = [call EXCEPT ![c].tok = issued']
      BY <1>4, <1>t, <2>3 DEF ServeRefresh, Call
    <3>2. PICK k : k = [call[c] EXCEPT !.tok = issued']
      OBVIOUS
    <3>3. call' = [call EXCEPT ![c] = k] /\ k.op = call[c].op /\ k.pc = call[c].pc
      BY <1>t, <3>1, <3>2 DEF Call
    <3> QED
      BY <1>t, <2>1, <3>1, <3>3, TrueMoves DEF Refreshing, Edit1
  <2> QED
    BY <2>2, <2>3
<1> QED
  BY <1>1, <1>2, <1>3, <1>4

(* The outcome of a call: why the list is what the table holds, or not. *)
LEMMA TrueSettled ==
  ASSUME TypeInv, page = "todos", WorkInv, DataInv, NEW c \in Calls, NEW ok \in BOOLEAN, Settled(c, ok),
         NEW w, work' = [work EXCEPT ![c] = w], w.pc = "idle", todos' = todos,
         ok => work[c].pc = "done" /\ work[c].ans = "ok"
  PROVE  WorkInv' /\ DataInv'
<1>t. cache \in Cache /\ c # None
  BY NoneAssumption DEF TypeInv, PageOK
<1>e. ASSUME ~Edit1(call[c]), NEW k, call' = [call EXCEPT ![c] = k] PROVE Editing => Editing'
  BY <1>e, EditingStays DEF TypeInv
<1>w. ASSUME NEW k, call' = [call EXCEPT ![c] = k], FetchKnown(c) PROVE WorkInv'
  <2>1. Serves(w, k)
    BY DEF Serves
  <2> QED
    BY <1>w, <2>1, WorkStep
<1>1. CASE call[c].op = "list" /\ ok /\ ListOk(c)
  <2>1. call' = [call EXCEPT ![c] = NoCall] /\ ~Edit1(call[c])
    BY <1>1 DEF ListOk, Done, Edit1, Edits
  <2>2. Editing => Editing'
    BY <1>e, <2>1
  <2>3. CASE cache.fetch = c
    <3>1. cache' = [cache EXCEPT !.data = work[c].found, !.stale = FALSE, !.fetch = None, !.doubt = cache.missed]
      BY <1>1, <2>3 DEF ListOk, Done
    <3>2. cache'.fetch = None /\ cache'.data = work[c].found /\ cache'.doubt = cache.missed
      BY <1>t, <3>1 DEF Cache
    <3>3. WorkInv'
      BY <1>w, <2>1, <3>2 DEF FetchKnown
    <3>4. work[c].found = todos \/ cache.missed \/ Editing
      BY <1>1, <2>3 DEF WorkInv, Reads
    <3> QED
      BY <2>2, <3>2, <3>3, <3>4 DEF DataInv
  <2>4. CASE cache.fetch # c
    <3>1. cache' = cache
      BY <1>1, <2>4 DEF ListOk, Done
    <3> QED
      BY <1>w, <2>1, <2>2, <3>1 DEF FetchKnown, DataInv
  <2> QED
    BY <2>3, <2>4
<1>2. CASE call[c].op = "list" /\ ListFailed(c)
  <2>1. PICK k : call' = [call EXCEPT ![c] = k]
    BY <1>2 DEF ListFailed, Done
  <2>2. Editing => Editing'
    BY <1>2, <1>e, <2>1 DEF Edit1, Edits
  <2>3. \/ cache' = cache \/ cache' = [cache EXCEPT !.fetch = None]
        \/ cache.fetch = c /\ cache' = [cache EXCEPT !.missed = FALSE]
    BY <1>2 DEF ListFailed, Done
  <2>4. /\ cache' = cache \/ cache'.fetch \in {c, None}
        /\ cache'.data = cache.data /\ cache'.stale = cache.stale /\ cache'.doubt = cache.doubt
    BY <1>t, <2>3 DEF Cache
  <2>5. WorkInv'
    BY <1>w, <2>1, <2>2, <2>4 DEF FetchKnown
  <2> QED
    BY <2>2, <2>4, <2>5 DEF DataInv
<1>3. ASSUME NEW x \in Cache, Invalidate(c, x) PROVE WorkInv' /\ DataInv'
  <2>1. PICK k : /\ call' = [call EXCEPT ![c] = k] /\ cache'.stale
                 /\ cache'.fetch = c \/ cache'.missed
    BY <1>3, Invalidates
  <2> QED
    BY <1>w, <2>1 DEF FetchKnown, DataInv
<1>4. CASE call[c].op = "toggle" /\ ToggleSettled(c, ok)
  <2>1. [cache EXCEPT !.data = call[c].before, !.stale = FALSE] \in Cache
    BY <1>t DEF TypeInv, PageOK, Call, Cache
  <2> QED
    BY <1>3, <1>4, <1>t, <2>1 DEF ToggleSettled
<1>5. CASE ok /\ Invalidate(c, cache)
  BY <1>3, <1>5, <1>t
<1>6. CASE Done(c, [cache EXCEPT !.doubt = TRUE, !.missed = TRUE])
  <2>1. call' = [call EXCEPT ![c] = NoCall] /\ cache'.doubt /\ cache'.missed
    BY <1>6, <1>t DEF Done, Cache
  <2> QED
    BY <1>w, <2>1 DEF FetchKnown, DataInv
<1> QED
  BY <1>1, <1>2, <1>4, <1>5, <1>6 DEF Settled

LEMMA TruePage ==
  ASSUME TypeInv, page = "todos", page' = "todos", WorkInv, DataInv, NEW c \in Calls,
         Answered(c) \/ GiveUp(c) \/ Refresh(c) \/ Refreshed(c)
  PROVE  WorkInv' /\ DataInv'
<1>t. /\ call[c] \in Call /\ (call[c].pc # "served" => work[c].pc = "idle")
      /\ work = [work EXCEPT ![c] = work[c]]
  BY DEF TypeInv, PageOK, WorkInv, Serves, ServerOK, T!TypeOK
<1>o. ~LoggedOut(c) /\ ~SignOut(c)
  BY DEF LoggedOut, SignOut
<1>1. CASE Answered(c)
  <2>1. T!Taken(c) /\ Settled(c, work[c].ans = "ok") /\ todos' = todos
    BY <1>1, <1>o DEF Answered
  <2>2. work' = [work EXCEPT ![c] = T!Idle] /\ T!Idle.pc = "idle" /\ work[c].pc = "done"
    BY <2>1 DEF T!Taken, T!Idle, T!At
  <2> QED
    BY <2>1, <2>2, TrueSettled
<1>2. CASE GiveUp(c)
  <2>1. Settled(c, FALSE) /\ UNCHANGED <<todos, work>> /\ work[c].pc = "idle"
    BY <1>2, <1>o, <1>t DEF GiveUp, Rejected, table
  <2> QED
    BY <1>t, <2>1, TrueSettled
<1>3. CASE Refresh(c)
  <2>1. PICK k : k = [call[c] EXCEPT !.pc = "refresh", !.retried = TRUE]
    OBVIOUS
  <2>2. /\ call' = [call EXCEPT ![c] = k] /\ k.op = call[c].op /\ k.pc = "refresh" /\ UNCHANGED <<todos, work, cache>>
        /\ work[c].pc = "idle"
    BY <1>3, <1>t, <2>1 DEF Refresh, Call, table
  <2> QED
    BY <1>3, <2>2, TrueMoves DEF Refresh, Edit1
<1>4. CASE Refreshed(c)
  <2>1. PICK k : k = [call[c] EXCEPT !.pc = "sent"]
    OBVIOUS
  <2>2. /\ call' = [call EXCEPT ![c] = k] /\ k.op = call[c].op /\ k.pc = "sent" /\ UNCHANGED <<todos, work, cache>>
        /\ work[c].pc = "idle"
    BY <1>4, <1>o, <1>t, <2>1 DEF Refreshed, Refreshing, Call, table
  <2> QED
    BY <1>4, <2>2, TrueMoves DEF Refreshed, Refreshing, Edit1
<1> QED
  BY <1>1, <1>2, <1>3, <1>4

(* The page is left for good. *)
LEMMA PageLeft == ASSUME TypeInv, [Next]_vars, page' = "todos" PROVE page = "todos" /\ ~Unload
BY DEF Next, Step, Fetch, Edit, Toggle, Logout, Click, Arrive, Refuse, Serve, ServeRefresh, Answered, GiveUp,
       Refresh, Refreshed, ExpireAccess, Unload, Rejected, LoggedOut, SignOut, vars, browser

LEMMA TrueStep == TypeInv /\ TrueInv /\ [Next]_vars => TrueInv'
<1> SUFFICES ASSUME TypeInv, TrueInv, [Next]_vars, page' = "todos" PROVE WorkInv' /\ DataInv'
  BY DEF TrueInv
<1>1. page = "todos" /\ ~Unload /\ WorkInv /\ DataInv
  BY PageLeft DEF TrueInv
<1>2. CASE \E c \in Calls : Step(c)
  BY <1>1, <1>2, TrueSend, TrueServer, TruePage DEF Step
<1>3. CASE (\E t \in A!Tokens : ExpireAccess(t)) \/ UNCHANGED vars
  <2>1. UNCHANGED <<todos, work, call, cache>>
    BY <1>3 DEF ExpireAccess, table, vars, browser
  <2> QED
    BY <1>1, <2>1 DEF WorkInv, DataInv, Serves, Reads, Editing
<1> QED
  BY <1>1, <1>2, <1>3 DEF Next

(***************************************************************************)
(* When no call is under way, the list of the page is what the table holds, *)
(* or it is due to be fetched, or an edit was rejected since it was: no     *)
(* order of toggles, rollbacks, edits and fetches leaves another.           *)
(***************************************************************************)
THEOREM AppQuietCacheIsTrue == Spec => []QuietCacheIsTrue
BY TypeInit, TypeStep, TrueInit, TrueStep, TrueGives, PTL DEF Spec

--------------------------------------------------------------------------------
(***************************************************************************)
(* TokensTellTheTruth, likewise, with calls under way.  As long as no       *)
(* refresh has overlapped another or a logout, and nothing failed: a        *)
(* handler that grants a token does so for a refresh of the page; there is  *)
(* one of them at most, no logout beside it, and it has, will have, or had  *)
(* a token that can be refreshed.  A page that is not refreshing has one in *)
(* store, unless a logout has been served: then the server has none.        *)
(***************************************************************************)
Grants(c) == req[c].pc \in {"find", "delete", "save"}

Served == \E d \in Calls : LogsOut(d) /\ call[d].pc = "served"

Alone(c) ==
  /\ store # 0 /\ page = "todos"
  /\ \A d \in Calls \ {c} : ~Refreshing(d) /\ ~LogsOut(d)
  /\ \/ req[c].pc \in {"find", "delete"} /\ store \in stored
     \/ req[c].pc = "save"
     \/ req[c].pc = "done" /\ req[c].ans = "ok" /\ call[c].tok \in stored

Calm ==
  /\ \A c \in Calls : Grants(c) => Refreshing(c)
  /\ \A c \in Calls : Refreshing(c) => Alone(c)
  /\ page # "todos" \/ Served => stored = {}
  /\ page # "todos" => store = 0
  /\ page = "todos" => Served \/ (\E c \in Calls : Refreshing(c)) \/ store \in stored

TokenInv == expired = {} /\ (~raced /\ faults = 0 => Calm)

LEMMA TokenInit == Init => TokenInv
<1> SUFFICES ASSUME Init PROVE TokenInv
  OBVIOUS
<1>1. \A c \in Calls : req[c].pc = "idle" /\ call[c].pc = "idle"
  BY DEF Init, A!Idle, NoCall
<1> QED
  BY <1>1 DEF Init, TokenInv, Calm, Grants, Refreshing, Served

LEMMA TokenGives == TokenInv => TokensTellTheTruth
BY DEF TokenInv, Calm, TokensTellTheTruth, Quiet, Idle, Served, Refreshing

LEMMA TokenTypes ==
  ASSUME TypeInv
  PROVE  /\ call \in [Calls -> Call] /\ req \in [Calls -> AP!Request] /\ issued \in Nat /\ faults \in Nat
         /\ stored \subseteq 1..issued /\ handed \subseteq 1..issued /\ \A t \in stored : owner[t] = User
         /\ \A c \in Calls : Grants(c) => req[c].user = User
BY TodoBounds, AppBounds
   DEF TypeInv, ServerOK, PageOK, AP!TypeInv, AP!TablesOK, AP!ReqsOK, AP!ReqOK, AP!Request, Grants

(* A call changes that neither refreshes nor becomes a logout. *)
LEMMA CalmCall ==
  ASSUME TypeInv, Calm, NEW c \in Calls, NEW k, call' = [call EXCEPT ![c] = k],
         UNCHANGED <<req, stored, store, page>>, call[c].pc # "refresh", k.pc # "refresh",
         k.op # "logout" \/ LogsOut(c) \/ \A d \in Calls : ~Refreshing(d),
         LogsOut(c) /\ call[c].pc = "served" <=> k.op = "logout" /\ k.pc = "served"
  PROVE  Calm'
<1>1. call'[c] = k /\ \A d \in Calls \ {c} : call'[d] = call[d]
  BY TokenTypes
<1>2. \A d \in Calls : Refreshing(d)' <=> Refreshing(d)
  BY <1>1 DEF Refreshing
<1>3. Served' <=> Served
  BY <1>1 DEF Served, LogsOut
<1>4. ASSUME NEW d \in Calls, Refreshing(d)' PROVE Alone(d)'
  <2>1. Refreshing(d) /\ Alone(d) /\ d # c
    BY <1>2, <1>4 DEF Calm, Refreshing
  <2>2. k.op # "logout"
    BY <2>1 DEF Alone
  <2> QED
    BY <1>1, <1>2, <2>1, <2>2 DEF Alone, LogsOut
<1> QED
  BY <1>2, <1>3, <1>4 DEF Calm, Grants

LEMMA CalmSend ==
  ASSUME TypeInv, Calm, ~raced', NEW c \in Calls,
         Fetch(c) \/ Edit(c) \/ (\E i \in Ids : Toggle(c, i)) \/ Logout(c)
  PROVE  Calm'
<1>1. Idle(c) /\ UNCHANGED <<req, stored, store, page>>
  BY DEF Fetch, Edit, Toggle, Logout, Click, session
<1>2. PICK k : /\ call' = [call EXCEPT ![c] = k] /\ k.pc = "sent"
               /\ k.op # "logout" \/ \A d \in Calls : ~Refreshing(d)
  <2>1. ASSUME NEW op, NEW i, NEW change
        PROVE  Sent(op, i, change).op = op /\ Sent(op, i, change).pc = "sent"
    BY DEF Sent, NoCall
  <2>2. CASE Fetch(c)
    BY <2>1, <2>2 DEF Fetch
  <2>3. CASE Edit(c)
    BY <2>1, <2>3 DEF Edit, Click
  <2>4. CASE \E i \in Ids : Toggle(c, i)
    <3>1. PICK i, b : call' = [call EXCEPT ![c] = [Sent("toggle", i, Completed(b)) EXCEPT !.before = cache.data]]
      BY <2>4 DEF Toggle, Click
    <3>2. PICK k : k = [Sent("toggle", i, Completed(b)) EXCEPT !.before = cache.data]
      OBVIOUS
    <3>3. k.op = "toggle" /\ k.pc = "sent"
      BY <3>2 DEF Sent, NoCall
    <3> QED
      BY <3>1, <3>2, <3>3
  <2>5. CASE Logout(c)
    <3>1. PICK k : k = Sent("logout", 0, None)
      OBVIOUS
    <3>2. call' = [call EXCEPT ![c] = k] /\ k.pc = "sent"
      BY <2>1, <2>5, <3>1 DEF Logout, Click
    <3>3. \A d \in Calls : ~Refreshing(d)
      BY <2>5 DEF Logout
    <3> QED
      BY <3>2, <3>3
  <2> QED
    BY <2>2, <2>3, <2>4, <2>5
<1> QED
  BY <1>1, <1>2, CalmCall DEF Idle

(* The server: a logout leaves no token, a refresh one that the page gets. *)
LEMMA CalmServer ==
  ASSUME TypeInv, Calm, expired = {}, faults = 0, faults' = 0, NEW c \in Calls,
         Arrive(c) \/ Refuse(c) \/ Serve(c) \/ ServeRefresh(c)
  PROVE  Calm'
<1>f. ~A!Fails
  BY DEF A!Fails
<1>t. call[c] \in Call /\ req[c] \in AP!Request
  BY TokenTypes
<1>1. ASSUME NEW l \in {"served", "refused"}, call' = [call EXCEPT ![c].pc = l], UNCHANGED <<req, stored, store, page>>,
             call[c].pc = "sent", l = "served" => ~LogsOut(c)
      PROVE  Calm'
  <2>1. PICK k : k = [call[c] EXCEPT !.pc = l]
    OBVIOUS
  <2>2. k.op = call[c].op /\ k.pc = l /\ call' = [call EXCEPT ![c] = k]
    BY <1>1, <1>t, <2>1 DEF Call
  <2> QED
    BY <1>1, <2>2, CalmCall DEF LogsOut
<1>2. CASE Refuse(c)
  BY <1>1, <1>2 DEF Refuse, session
<1>3. CASE Arrive(c) /\ ~LogsOut(c)
  BY <1>1, <1>3 DEF Arrive, Handled, session, LogsOut
<1>4. CASE Arrive(c) /\ LogsOut(c)
  <2>1. A!Logout(c, User) /\ call[c].pc = "sent" /\ call' = [call EXCEPT ![c].pc = "served"] /\ UNCHANGED <<store, page>>
    BY <1>4 DEF Arrive, Handled, LogsOut
  <2>2. stored' = {}
    BY <1>f, <2>1, TokenTypes DEF A!Logout, A!Revoked, A!Sessions
  <2>3. PICK x : req' = [req EXCEPT ![c] = x] /\ x.pc = "done"
    <3>1. PICK a : A!Reply(c, "logout", User, 0, a)
      BY <2>1 DEF A!Logout
    <3>2. PICK r : r = [op |-> "logout", pc |-> "done", user |-> User, row |-> None, token |-> 0, ans |-> a]
      OBVIOUS
    <3>3. req' = [req EXCEPT ![c] = r] /\ r.pc = "done"
      BY <3>1, <3>2 DEF A!Reply
    <3> QED
      BY <3>3
  <2>4. \A d \in Calls : Grants(d)' => Grants(d)
    BY <2>3, TokenTypes DEF Grants
  <2>5. PICK k : k = [call[c] EXCEPT !.pc = "served"]
    OBVIOUS
  <2>6. k.op = "logout" /\ k.pc = "served" /\ call' = [call EXCEPT ![c] = k]
    BY <1>4, <1>t, <2>1, <2>5 DEF Call, LogsOut
  <2>7. \A d \in Calls : ~Refreshing(d)
    BY <1>4, <2>1 DEF Calm, Alone, Refreshing
  <2>8. Served' /\ \A d \in Calls : ~Refreshing(d)'
    BY <2>6, <2>7, TokenTypes DEF Served, LogsOut, Refreshing
  <2> QED
    BY <2>1, <2>2, <2>4, <2>7, <2>8 DEF Calm
<1>5. CASE Serve(c)
  BY <1>5 DEF Serve, session, browser, Calm, Grants, Refreshing, Served, Alone, LogsOut
<1>6. ASSUME NEW x, NEW k, call' = [call EXCEPT ![c] = k], req' = [req EXCEPT ![c] = x], Refreshing(c),
             UNCHANGED <<store, page>>, k.pc = "refresh", k.op = call[c].op,
             \/ x.pc = "delete" /\ store \in stored'
             \/ x.pc = "save"
             \/ x.pc = "done" /\ x.ans = "ok" /\ k.tok \in stored'
      PROVE  Calm'
  <2>1. /\ call'[c] = k /\ \A d \in Calls \ {c} : call'[d] = call[d]
        /\ req'[c] = x /\ \A d \in Calls \ {c} : req'[d] = req[d]
    BY <1>6, TokenTypes
  <2>2. \A d \in Calls : Refreshing(d)' <=> Refreshing(d)
    BY <1>6, <2>1 DEF Refreshing
  <2>3. \A d \in Calls : LogsOut(d)' <=> LogsOut(d)
    BY <1>6, <2>1 DEF LogsOut
  <2>4. Alone(c)
    BY <1>6 DEF Calm
  <2>5. Alone(c)'
    BY <1>6, <2>1, <2>2, <2>3, <2>4 DEF Alone
  <2>6. \A d \in Calls : Refreshing(d) => d = c
    BY <2>4 DEF Alone
  <2>7. ~Served'
    BY <1>6, <2>1, <2>3, <2>4 DEF Served, Alone
  <2>8. \A d \in Calls : Grants(d)' => Refreshing(d)'
    BY <1>6, <2>1, <2>2 DEF Calm, Grants
  <2> QED
    BY <1>6, <2>2, <2>4, <2>5, <2>6, <2>7, <2>8 DEF Calm, Alone
<1>7. CASE ServeRefresh(c)
  <2>0. UNCHANGED <<store, page>> /\ call = [call EXCEPT ![c] = call[c]]
    BY <1>7, TokenTypes DEF ServeRefresh
  <2>1. CASE A!RefreshFindUser(c) /\ UNCHANGED call
    <3>1. req[c].pc = "find" /\ stored' = stored /\ req' = [req EXCEPT ![c].pc = "delete"]
      BY <1>f, <2>1 DEF A!RefreshFindUser, A!At, A!Goto
    <3>2. Refreshing(c) /\ store \in stored'
      BY <3>1 DEF Calm, Grants, Alone
    <3>3. PICK x : x = [req[c] EXCEPT !.pc = "delete"]
      OBVIOUS
    <3>4. req' = [req EXCEPT ![c] = x] /\ x.pc = "delete"
      BY <1>t, <3>1, <3>3 DEF AP!Request
    <3> QED
      BY <1>6, <2>0, <2>1, <3>2, <3>4 DEF Refreshing
  <2>2. CASE A!RefreshDeleteTokens(c) /\ UNCHANGED call
    <3>1. req[c].pc = "delete" /\ req' = [req EXCEPT ![c].pc = "save"]
      BY <2>2 DEF A!RefreshDeleteTokens, A!At, A!Goto
    <3>2. Refreshing(c)
      BY <3>1 DEF Calm, Grants
    <3>3. PICK x : x = [req[c] EXCEPT !.pc = "save"]
      OBVIOUS
    <3>4. req' = [req EXCEPT ![c] = x] /\ x.pc = "save"
      BY <1>t, <3>1, <3>3 DEF AP!Request
    <3> QED
      BY <1>6, <2>0, <2>2, <3>2, <3>4 DEF Refreshing
  <2>3. CASE A!SaveRefreshToken(c)
    <3>1. /\ req[c].pc = "save" /\ issued' = issued + 1 /\ stored' = stored \cup {issued'} /\ handed' = handed \cup {issued'}
          /\ req' = [req EXCEPT ![c].pc = "done", ![c].row = None, ![c].ans = "ok"]
      BY <1>f, <2>3 DEF A!SaveRefreshToken, A!At, A!Answer
    <3>2. Refreshing(c) /\ handed' # handed
      BY <3>1, TokenTypes DEF Calm, Grants
    <3>3. PICK x : x = [req[c] EXCEPT !.pc = "done", !.row = None, !.ans = "ok"]
      OBVIOUS
    <3>4. req' = [req EXCEPT ![c] = x] /\ x.pc = "done" /\ x.ans = "ok"
      BY <1>t, <3>1, <3>3 DEF AP!Request
    <3>5. PICK k : k = [call[c] EXCEPT !.tok = issued']
      OBVIOUS
    <3>6. call' = [call EXCEPT ![c].tok = issued']
      BY <1>7, <2>3, <3>1, <3>2 DEF ServeRefresh, A!RefreshFindUser, A!RefreshDeleteTokens, A!At
    <3>7. call' = [call EXCEPT ![c] = k] /\ k.pc = "refresh" /\ k.op = call[c].op /\ k.tok = issued'
      BY <1>t, <3>2, <3>5, <3>6 DEF Refreshing, Call
    <3> QED
      BY <1>6, <2>0, <3>1, <3>2, <3>4, <3>7
  <2> QED
    BY <1>7, <2>1, <2>2, <2>3 DEF ServeRefresh
<1> QED
  BY <1>2, <1>3, <1>4, <1>5, <1>7

(* The page: a logout, or a refresh that fails, leaves no token in store. *)
LEMMA CalmPage ==
  ASSUME TypeInv, Calm, expired = {}, faults = 0, faults' = 0, ~raced', NEW c \in Calls,
         Answered(c) \/ GiveUp(c) \/ Refresh(c) \/ Refreshed(c)
  PROVE  Calm'
<1>f. ~A!Fails
  BY DEF A!Fails
<1>t. /\ call[c] \in Call /\ req[c] \in AP!Request /\ call \in [Calls -> Call]
      /\ 0 \notin stored
  BY TokenTypes
<1>1. ASSUME NEW ok \in BOOLEAN, Settled(c, ok), UNCHANGED <<req, stored, store, page>>,
             call[c].pc # "refresh", ~LogsOut(c)
      PROVE  Calm'
  <2>1. PICK k : Outcome(c, k)
    BY <1>1, SettledTypes
  <2>2. call' = [call EXCEPT ![c] = k] /\ k.pc # "refresh" /\ k.op # "logout"
    BY <2>1, NoCallOK DEF Outcome, Ended, Fetching
  <2> QED
    BY <1>1, <2>2, CalmCall
<1>2. ASSUME store' = 0, page' # "todos", UNCHANGED <<req, stored>>, stored = {},
             \A d \in Calls : ~Refreshing(d), call' = [call EXCEPT ![c] = NoCall]
      PROVE  Calm'
  <2>1. \A d \in Calls : ~Refreshing(d)'
    BY <1>2, <1>t, NoCallOK DEF Refreshing
  <2> QED
    BY <1>2, <2>1 DEF Calm, Grants
<1>3. CASE Answered(c)
  <2>0. UNCHANGED <<req, stored>> /\ call[c].pc = "served"
    BY <1>3 DEF Answered, session
  <2>1. CASE ~LogsOut(c) /\ Settled(c, work[c].ans = "ok") /\ UNCHANGED <<store, page>>
    BY <1>1, <2>0, <2>1
  <2>2. CASE LoggedOut(c)
    <3>1. Served /\ store' = 0 /\ page' # "todos" /\ call' = [call EXCEPT ![c] = NoCall] /\ LogsOut(c)
      BY <2>0, <2>2 DEF LoggedOut, Done, Served
    <3>2. \A d \in Calls : ~Refreshing(d)
      BY <2>0, <3>1 DEF Calm, Alone, Refreshing
    <3>3. stored = {}
      BY <3>1 DEF Calm
    <3> QED
      BY <1>2, <2>0, <3>1, <3>2, <3>3
  <2> QED
    BY <1>3, <2>1, <2>2 DEF Answered
<1>4. CASE GiveUp(c)
  <2>1. store = 0 /\ SignOut(c) /\ UNCHANGED <<req, stored>>
    BY <1>4 DEF GiveUp, session
  <2>2. \A d \in Calls : ~Refreshing(d)
    BY <2>1 DEF Calm, Alone
  <2>3. stored = {}
    BY <1>t, <2>1, <2>2 DEF Calm
  <2> QED
    BY <1>2, <2>1, <2>2, <2>3 DEF SignOut, Done
<1>5. CASE Refresh(c)
  <2>1. /\ call[c].pc = "refused" /\ store # 0 /\ A!RefreshGetToken(c, store) /\ UNCHANGED <<store, page, stored>>
        /\ call' = [call EXCEPT ![c].pc = "refresh", ![c].retried = TRUE]
    BY <1>5 DEF Refresh, A!RefreshGetToken, A!tables
  <2>2. \A d \in Calls \ {c} : ~Refreshing(d) /\ ~LogsOut(d)
    BY <1>5 DEF Refresh
  <2>3. page = "todos" /\ store \in stored
    BY <2>1, <2>2 DEF Calm, Served, Refreshing
  <2>4. PICK u : A!Arrive(c, "refresh", u, "find", None, store)
    BY <1>f, <2>1, <2>3 DEF A!RefreshGetToken, A!Valid
  <2>5. PICK r : r = [op |-> "refresh", pc |-> "find", user |-> u, row |-> None, token |-> store, ans |-> "none"]
    OBVIOUS
  <2>6. req' = [req EXCEPT ![c] = r] /\ r.pc = "find"
    BY <2>4, <2>5 DEF A!Arrive
  <2>7. PICK k : k = [call[c] EXCEPT !.pc = "refresh", !.retried = TRUE]
    OBVIOUS
  <2>8. call' = [call EXCEPT ![c] = k] /\ k.pc = "refresh"
    BY <1>t, <2>1, <2>7 DEF Call
  <2>9. /\ req'[c].pc = "find" /\ call'[c].pc = "refresh"
        /\ \A d \in Calls \ {c} : req'[d] = req[d] /\ call'[d] = call[d]
    BY <2>6, <2>8, TokenTypes
  <2>10. \A d \in Calls \ {c} : ~Refreshing(d)' /\ ~LogsOut(d)' /\ ~Grants(d)'
    BY <2>2, <2>9 DEF Refreshing, LogsOut, Grants, Calm
  <2>11. Alone(c)' /\ Refreshing(c)'
    BY <2>1, <2>3, <2>9, <2>10 DEF Alone, Refreshing
  <2>12. ~Served'
    BY <2>9, <2>10 DEF Served
  <2> QED
    BY <2>1, <2>3, <2>10, <2>11, <2>12 DEF Calm
<1>6. CASE Refreshed(c)
  <2>1. Refreshing(c) /\ req[c].pc = "done" /\ UNCHANGED <<req, stored>>
    BY <1>6 DEF Refreshed, A!At, session
  <2>2. Alone(c)
    BY <2>1 DEF Calm
  <2>3. req[c].ans = "ok" /\ call[c].tok \in stored
    BY <2>1, <2>2 DEF Alone
  <2>4. store' \in stored' /\ call' = [call EXCEPT ![c].pc = "sent"] /\ page' = "todos"
    BY <1>6, <2>1, <2>2, <2>3 DEF Refreshed, Alone
  <2>5. PICK k : k = [call[c] EXCEPT !.pc = "sent"]
    OBVIOUS
  <2>6. call' = [call EXCEPT ![c] = k] /\ k.pc = "sent"
    BY <1>t, <2>4, <2>5 DEF Call
  <2>7. call'[c].pc = "sent" /\ \A d \in Calls \ {c} : call'[d] = call[d]
    BY <1>t, <2>6
  <2>8. \A d \in Calls : ~Refreshing(d)' /\ ~Grants(d)'
    BY <2>1, <2>2, <2>7 DEF Alone, Refreshing, Grants, Calm
  <2>9. ~Served'
    BY <2>2, <2>7 DEF Served, Alone, LogsOut
  <2> QED
    BY <2>4, <2>8, <2>9 DEF Calm
<1> QED
  BY <1>3, <1>4, <1>5, <1>6

LEMMA CalmRest ==
  ASSUME TypeInv, Calm, (\E t \in A!Tokens : ExpireAccess(t)) \/ Unload \/ UNCHANGED vars
  PROVE  Calm'
<1>1. ASSUME UNCHANGED <<call, req, stored, store, page>> PROVE Calm'
  BY <1>1 DEF Calm, Grants, Refreshing, Served, LogsOut, Alone
<1>2. CASE \E t \in A!Tokens : ExpireAccess(t)
  BY <1>1, <1>2 DEF ExpireAccess, session
<1>3. CASE UNCHANGED vars
  BY <1>1, <1>3 DEF vars, session, browser
<1>4. CASE Unload
  <2>1. page = "leaving" /\ page' = "login" /\ UNCHANGED <<req, stored, store>> /\ \A d \in Calls : ~Refreshing(d)'
    BY <1>4, NoCallOK DEF Unload, session, Refreshing
  <2>2. \A d \in Calls : ~Refreshing(d)
    BY <2>1 DEF Calm, Alone
  <2> QED
    BY <2>1, <2>2 DEF Calm, Grants
<1> QED
  BY <1>2, <1>3, <1>4

(* What has raced has raced. *)
LEMMA RacedStays == ASSUME TypeInv, [Next]_vars, ~raced' PROVE ~raced
BY DEF Next, Step, Fetch, Edit, Toggle, Logout, Click, Arrive, Refuse, Serve, ServeRefresh, Answered, GiveUp,
       Refresh, Refreshed, ExpireAccess, Unload, vars, browser

LEMMA TokenStep == TypeInv /\ TokenInv /\ [Next]_vars => TokenInv'
<1> SUFFICES ASSUME TypeInv, TokenInv, [Next]_vars PROVE TokenInv'
  OBVIOUS
<1>1. Kept /\ expired = {} /\ expired' = {}
  BY TypeStep DEF Kept, TokenInv
<1>2. ASSUME ~raced', faults' = 0 PROVE Calm'
  <2>1. ~raced /\ faults = 0 /\ Calm
    BY <1>1, <1>2, RacedStays, TokenTypes DEF TokenInv, Kept
  <2> QED
    BY <1>1, <1>2, <2>1, CalmSend, CalmServer, CalmPage, CalmRest DEF Next, Step
<1> QED
  BY <1>1, <1>2 DEF TokenInv

(***************************************************************************)
(* When no call is under way and no refresh has overlapped another or a     *)
(* logout: the page has a pair that can be refreshed, or it has signed out  *)
(* and the server has none of its user.                                    *)
(***************************************************************************)
THEOREM AppTokensTellTheTruth == Spec => []TokensTellTheTruth
BY TypeInit, TypeStep, TokenInit, TokenStep, TokenGives, PTL DEF Spec
================================================================================
