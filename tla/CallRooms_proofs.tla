---------------------------- MODULE CallRooms_proofs ----------------------------
(***************************************************************************)
(* Theorems about CallRooms, for any number of users, rooms, concurrent    *)
(* requests, failures and restarts.                                        *)
(***************************************************************************)
EXTENDS CallRooms, SequenceTheorems, TLAPS

--------------------------------------------------------------------------------
(* Types. *)

(* The row of a room that does not exist is a row. *)
LEMMA AbsentType == Absent \in RoomRow
BY DEF Absent, RoomRow, Status

(* A slot without a request is a request record. *)
LEMMA IdleType == Idle \in Request
BY AbsentType, InhabitedAssumption DEF Idle, Request

(* Answering a request keeps it a request record. *)
LEMMA AnsweredType ==
  ASSUME NEW q \in Request, NEW a \in {"none", "ok", "error", "lost"}
  PROVE  Answered(q, a) \in Request
BY AbsentType DEF Answered, Request

(* Each way a handler's step writes its request keeps all requests typed:   *)
(* going on, answering, arriving, replying at once, joining, finding a row. *)
LEMMA GotoType ==
  ASSUME TypeOK, NEW p \in Requests, Goto(p, "insert")
  PROVE  req' \in [Requests -> Request]
<1>1. [req[p] EXCEPT !.pc = "insert"] \in Request
  BY DEF TypeOK, Request
<1>2. QED BY <1>1 DEF Goto, TypeOK

(* A handler that answers. *)
LEMMA AnswerType ==
  ASSUME TypeOK, NEW p \in Requests, NEW a \in {"ok", "error"}, Answer(p, a)
  PROVE  req' \in [Requests -> Request]
<1>1. Answered(req[p], a) \in Request
  BY AnsweredType DEF TypeOK
<1>2. QED BY <1>1 DEF Answer, TypeOK

(* A handler that begins. *)
LEMMA ArriveType ==
  ASSUME TypeOK, NEW p \in Requests, NEW u \in Users, NEW r \in Rooms,
         NEW op \in {"join", "leave", "delete"}, NEW l \in {"find", "end"},
         Arrive(p, op, u, r, l)
  PROVE  req' \in [Requests -> Request]
<1> DEFINE q == [op |-> op, pc |-> l, user |-> u, room |-> r,
                 snap |-> room[r], row |-> 0, ans |-> "none"]
<1>1. q \in Request
  <2>1. room[r] \in RoomRow
    BY DEF TypeOK
  <2>2. QED BY <2>1 DEF Request
<1>2. req' = [req EXCEPT ![p] = q]
  BY DEF Arrive
<1> HIDE DEF q
<1>3. QED BY <1>1, <1>2 DEF TypeOK

(* A handler that answers at once. *)
LEMMA ReplyType ==
  ASSUME TypeOK, NEW p \in Requests, NEW u \in Users, NEW r \in Rooms,
         NEW op \in {"create", "join", "leave", "delete"}, NEW a \in {"ok", "error"},
         Reply(p, op, u, r, a)
  PROVE  req' \in [Requests -> Request]
<1> DEFINE q == [op |-> op, pc |-> "done", user |-> u, room |-> r,
                 snap |-> Absent, row |-> 0, ans |-> a]
<1>1. q \in Request
  BY AbsentType DEF Request
<1>2. req' = [req EXCEPT ![p] = q]
  BY DEF Reply
<1> HIDE DEF q
<1>3. QED BY <1>1, <1>2 DEF TypeOK

(* A join that found or inserted its row. *)
LEMMA JoinedType ==
  ASSUME TypeOK, NEW p \in Requests, NEW k \in Nat, Joined(p, k)
  PROVE  req' \in [Requests -> Request]
<1> DEFINE q == [req[p] EXCEPT !.row = k]
<1>1. q \in Request /\ [q EXCEPT !.pc = "activate"] \in Request
  BY DEF TypeOK, Request
<1>2. Answered(q, "ok") \in Request
  BY <1>1, AnsweredType
<1>3. QED BY <1>1, <1>2 DEF Joined, TypeOK

(* A leave that found its row. *)
LEMMA FoundType ==
  ASSUME TypeOK, NEW p \in Requests, NEW k \in Nat,
         req' = [req EXCEPT ![p].pc = "leave", ![p].row = k]
  PROVE  req' \in [Requests -> Request]
<1>1. [req[p] EXCEPT !.pc = "leave", !.row = k] \in Request
  BY DEF TypeOK, Request
<1>2. QED BY <1>1 DEF TypeOK

(* Rows written to call_rooms are rows. *)
LEMMA WriteRoomType ==
  ASSUME TypeOK, NEW r \in Rooms, NEW s \in RoomRow, WriteRoom(r, s)
  PROVE  room' \in [Rooms -> RoomRow]
<1>1. Overwritten(room[r], s) \in RoomRow
  BY DEF TypeOK, Overwritten, RoomRow
<1>2. QED BY <1>1 DEF WriteRoom, TypeOK

(* So are the structs the handlers fill in to open or to end a room. *)
LEMMA StructType ==
  ASSUME NEW s \in RoomRow
  PROVE  Opened(s) \in RoomRow /\ Over(s) \in RoomRow
BY DEF Opened, Over, RoomRow, Status

(* Rows written to call_participants are Booleans. *)
LEMMA InsertedType ==
  ASSUME TypeOK, NEW r \in Rooms, NEW u \in Users
  PROVE  Inserted(r, u) \in [Rooms -> [Users -> Seq(BOOLEAN)]]
BY DEF TypeOK, Inserted

(* The same for a departure. *)
LEMMA DepartedType ==
  ASSUME TypeOK, NEW r \in Rooms, NEW u \in Users, NEW k \in Nat
  PROVE  Departed(r, u, k) \in [Rooms -> [Users -> Seq(BOOLEAN)]]
<1>1. rows[r][u] \in Seq(BOOLEAN)
  BY DEF TypeOK
<1>2. [rows[r][u] EXCEPT ![k] = FALSE] \in Seq(BOOLEAN)
  <2>1. /\ Len(rows[r][u]) \in Nat
        /\ rows[r][u] \in [1..Len(rows[r][u]) -> BOOLEAN]
    BY <1>1, LenProperties
  <2>2. [rows[r][u] EXCEPT ![k] = FALSE] \in [1..Len(rows[r][u]) -> BOOLEAN]
    BY <2>1
  <2>3. QED BY <2>1, <2>2
<1>3. QED BY <1>2 DEF TypeOK, Departed

(* Counting failures keeps the count a number. *)
LEMMA FaultType ==
  ASSUME TypeOK, Works \/ Fails
  PROVE  faults' \in Nat
BY DEF TypeOK, Works, Fails

(* TypeOK is inductive. *)
LEMMA TypeInit == Init => TypeOK
BY AbsentType, IdleType DEF Init, TypeOK

(* Every statement of every handler keeps the types. *)
LEMMA TypeStep == TypeOK /\ [Next]_vars => TypeOK'
<1> SUFFICES ASSUME TypeOK, [Next]_vars PROVE TypeOK'
  OBVIOUS
<1>1. CASE UNCHANGED vars
  BY <1>1 DEF vars, TypeOK
<1>2. ASSUME NEW p \in Requests, NEW u \in Users, NEW r \in Rooms, NEW want \in Capacities,
             CreateRoom(p, u, r, want)
      PROVE  TypeOK'
  <2>1. NewRoom(u, want) \in RoomRow
    <3>1. Capacity(want) \in Nat
      BY CapacitiesAssumption DEF Capacity
    <3>2. QED BY <3>1 DEF NewRoom, RoomRow, Status
  <2>2. room' \in [Rooms -> RoomRow]
    BY <1>2, <2>1 DEF CreateRoom, TypeOK
  <2>3. req' \in [Requests -> Request]
    BY <1>2, ReplyType DEF CreateRoom
  <2>4. QED BY <1>2, <2>2, <2>3, FaultType DEF CreateRoom, TypeOK
<1>3. ASSUME NEW p \in Requests, NEW u \in Users, NEW r \in Rooms, JoinReadRoom(p, u, r)
      PROVE  TypeOK'
  BY <1>3, ArriveType, ReplyType, FaultType DEF JoinReadRoom, TypeOK
<1>4. ASSUME NEW p \in Requests, NEW u \in Users, NEW r \in Rooms, LeaveReadRoom(p, u, r)
      PROVE  TypeOK'
  BY <1>4, ArriveType, ReplyType, FaultType DEF LeaveReadRoom, TypeOK
<1>5. ASSUME NEW p \in Requests, NEW u \in Users, NEW r \in Rooms, DeleteReadRoom(p, u, r)
      PROVE  TypeOK'
  BY <1>5, ArriveType, ReplyType, FaultType DEF DeleteReadRoom, TypeOK
<1>6. ASSUME NEW p \in Requests, JoinFindParticipant(p) PROVE TypeOK'
  BY <1>6, JoinedType, GotoType, FaultType DEF JoinFindParticipant, TypeOK
<1>7. ASSUME NEW p \in Requests, JoinCreateParticipant(p) PROVE TypeOK'
  <2>1. req[p].room \in Rooms /\ req[p].user \in Users
    BY DEF TypeOK, Request
  <2>2. rows' \in [Rooms -> [Users -> Seq(BOOLEAN)]]
    BY <1>7, <2>1, InsertedType DEF JoinCreateParticipant, TypeOK
  <2>3. Len(rows[req[p].room][req[p].user]) + 1 \in Nat
    BY <2>1 DEF TypeOK
  <2>4. req' \in [Requests -> Request]
    BY <1>7, <2>3, JoinedType, AnswerType DEF JoinCreateParticipant
  <2>5. QED BY <1>7, <2>2, <2>4, FaultType DEF JoinCreateParticipant, TypeOK
<1>8. ASSUME NEW p \in Requests, JoinActivateRoom(p) PROVE TypeOK'
  <2>1. req[p].room \in Rooms /\ Opened(req[p].snap) \in RoomRow
    <3>1. req[p].room \in Rooms /\ req[p].snap \in RoomRow
      BY DEF TypeOK, Request
    <3>2. QED BY <3>1, StructType
  <2>2. room' \in [Rooms -> RoomRow]
    BY <1>8, <2>1, WriteRoomType DEF JoinActivateRoom, TypeOK
  <2>3. QED BY <1>8, <2>2, AnswerType, FaultType DEF JoinActivateRoom, TypeOK
<1>9. ASSUME NEW p \in Requests, LeaveFindParticipant(p) PROVE TypeOK'
  <2>1. req[p].room \in Rooms /\ req[p].user \in Users
    BY DEF TypeOK, Request
  <2>2. Found(req[p].room, req[p].user) \subseteq Nat
    BY <2>1 DEF TypeOK, Found, ActiveRows
  <2>3. QED BY <1>9, <2>2, FoundType, AnswerType, FaultType DEF LeaveFindParticipant, TypeOK
<1>10. ASSUME NEW p \in Requests, LeaveUpdateParticipant(p) PROVE TypeOK'
  <2>1. req[p].room \in Rooms /\ req[p].user \in Users /\ req[p].row \in Nat
    BY DEF TypeOK, Request
  <2>2. rows' \in [Rooms -> [Users -> Seq(BOOLEAN)]]
    <3>1. rows' = rows \/ rows' = Departed(req[p].room, req[p].user, req[p].row)
      BY <1>10 DEF LeaveUpdateParticipant
    <3>2. Departed(req[p].room, req[p].user, req[p].row) \in [Rooms -> [Users -> Seq(BOOLEAN)]]
      BY <2>1, DepartedType
    <3>3. QED BY <3>1, <3>2 DEF TypeOK
  <2>3. QED BY <1>10, <2>2, AnswerType, FaultType DEF LeaveUpdateParticipant, TypeOK
<1>11. ASSUME NEW p \in Requests, DeleteUpdateRoom(p) PROVE TypeOK'
  <2>1. req[p].room \in Rooms /\ Over(req[p].snap) \in RoomRow
    <3>1. req[p].room \in Rooms /\ req[p].snap \in RoomRow
      BY DEF TypeOK, Request
    <3>2. QED BY <3>1, StructType
  <2>2. room' \in [Rooms -> RoomRow]
    BY <1>11, <2>1, WriteRoomType DEF DeleteUpdateRoom, TypeOK
  <2>3. QED BY <1>11, <2>2, AnswerType, FaultType DEF DeleteUpdateRoom, TypeOK
<1>12. ASSUME Restart PROVE TypeOK'
  BY <1>12, AnsweredType, FaultType DEF Restart, TypeOK
<1>13. QED
  BY <1>1, <1>2, <1>3, <1>4, <1>5, <1>6, <1>7, <1>8, <1>9, <1>10, <1>11, <1>12
     DEF Next, Begin, Continue

(* TypeOK of CallRooms: the tables and the handlers' variables keep their   *)
(* types in every reachable state.                                          *)
THEOREM TypeCorrect == Spec => []TypeOK
BY TypeInit, TypeStep, PTL DEF Spec

--------------------------------------------------------------------------------
(* The participants table. *)

(* The invariant behind RowHistory: the row a leave is about to write is   *)
(* one of the user's rows, since no row ever disappears.                   *)
LeaveTarget(p) == req[p].row \in DOMAIN rows[req[p].room][req[p].user]

RowInv == RowHistory /\ \A p \in Requests : At(p, "leave") => LeaveTarget(p)

(* A statement of a leave, let through by the unique key. *)
Departure(p) ==
  /\ At(p, "leave")
  /\ DepartAllowed(req[p].room, req[p].user, req[p].row)
  /\ rows' = Departed(req[p].room, req[p].user, req[p].row)

(* An insert, let through by the unique key. *)
Admission(p) ==
  /\ At(p, "insert")
  /\ InsertAllowed(req[p].room, req[p].user)
  /\ rows' = Inserted(req[p].room, req[p].user)

(* The participants table changes by departures and admissions only. *)
LEMMA RowsStep ==
  ASSUME TypeOK, [Next]_vars
  PROVE  rows' = rows \/ \E p \in Requests : Departure(p) \/ Admission(p)
<1>1. CASE UNCHANGED vars
  BY <1>1 DEF vars
<1>2. ASSUME NEW p \in Requests, Begin(p) PROVE rows' = rows
  BY <1>2 DEF Begin, CreateRoom, JoinReadRoom, LeaveReadRoom, DeleteReadRoom
<1>3. ASSUME NEW p \in Requests, Continue(p)
      PROVE  rows' = rows \/ Departure(p) \/ Admission(p)
  <2>1. CASE JoinCreateParticipant(p)
    BY <2>1 DEF JoinCreateParticipant, Admission
  <2>2. CASE LeaveUpdateParticipant(p)
    BY <2>2 DEF LeaveUpdateParticipant, Departure
  <2>3. CASE \/ JoinFindParticipant(p) \/ JoinActivateRoom(p)
             \/ LeaveFindParticipant(p) \/ DeleteUpdateRoom(p)
    BY <2>3 DEF JoinFindParticipant, JoinActivateRoom, LeaveFindParticipant, DeleteUpdateRoom
  <2>4. QED BY <1>3, <2>1, <2>2, <2>3 DEF Continue
<1>4. CASE Restart
  BY <1>4 DEF Restart
<1>5. QED BY <1>1, <1>2, <1>3, <1>4 DEF Next

(* A request that is about to depart a row either was already, or found    *)
(* that row active in this step.                                           *)
LEMMA LeaveStep ==
  ASSUME TypeOK, [Next]_vars, NEW p \in Requests, At(p, "leave")'
  PROVE  /\ req'[p].room = req[p].room /\ req'[p].user = req[p].user
         /\ \/ At(p, "leave") /\ req'[p].row = req[p].row
            \/ rows' = rows /\ req'[p].row \in Found(req[p].room, req[p].user)
<1>1. CASE UNCHANGED vars
  BY <1>1 DEF vars, At
<1>2. ASSUME NEW q \in Requests, Begin(q) PROVE q # p /\ req'[p] = req[p]
  BY <1>2 DEF Begin, CreateRoom, JoinReadRoom, LeaveReadRoom, DeleteReadRoom,
              Arrive, Reply, TypeOK, At
<1>3. ASSUME NEW q \in Requests, Continue(q), q # p PROVE req'[p] = req[p]
  BY <1>3 DEF Continue, JoinFindParticipant, JoinCreateParticipant, JoinActivateRoom,
              LeaveFindParticipant, LeaveUpdateParticipant, DeleteUpdateRoom,
              Joined, Goto, Answer, TypeOK
<1>4. ASSUME Continue(p) PROVE LeaveFindParticipant(p)
  <2>1. ASSUME NEW a, Answer(p, a) PROVE FALSE
    BY <2>1 DEF Answer, Answered, At, TypeOK, Request
  <2>2. ASSUME NEW k, Joined(p, k) PROVE FALSE
    BY <2>2 DEF Joined, Answered, At, TypeOK, Request
  <2>3. ASSUME Goto(p, "insert") PROVE FALSE
    BY <2>3 DEF Goto, At, TypeOK, Request
  <2>4. QED
    BY <1>4, <2>1, <2>2, <2>3
       DEF Continue, JoinFindParticipant, JoinCreateParticipant, JoinActivateRoom,
           LeaveUpdateParticipant, DeleteUpdateRoom
<1>5. ASSUME LeaveFindParticipant(p)
      PROVE  /\ req'[p].room = req[p].room /\ req'[p].user = req[p].user
             /\ rows' = rows /\ req'[p].row \in Found(req[p].room, req[p].user)
  <2>1. ~Answer(p, "error")
    BY DEF Answer, Answered, At, TypeOK, Request
  <2>2. PICK k \in Found(req[p].room, req[p].user) :
          req' = [req EXCEPT ![p].pc = "leave", ![p].row = k]
    BY <1>5, <2>1 DEF LeaveFindParticipant
  <2>3. req'[p] = [req[p] EXCEPT !.pc = "leave", !.row = k]
    BY <2>2 DEF TypeOK
  <2>4. req[p] \in Request
    BY DEF TypeOK
  <2>5. req'[p].room = req[p].room /\ req'[p].user = req[p].user /\ req'[p].row = k
    BY <2>3, <2>4 DEF Request
  <2>6. QED BY <1>5, <2>2, <2>5 DEF LeaveFindParticipant
<1>6. CASE Restart
  <2>1. Answered(req[p], "lost").pc = "done"
    BY DEF Answered, TypeOK, Request
  <2>2. Free(p) /\ req'[p] = req[p]
    BY <1>6, <2>1 DEF Restart, At
  <2>3. QED BY <2>2 DEF At, Free
<1>7. QED BY <1>1, <1>2, <1>3, <1>4, <1>5, <1>6 DEF Next, At

(* The four histories of a user in a room, and what the two kinds of write *)
(* do to one of them.                                                      *)
Histories == {<<>>, <<TRUE>>, <<FALSE>>, <<FALSE, TRUE>>}

(* The three histories with rows, as sequences. *)
LEMMA HistoryType ==
  /\ <<TRUE>> \in Seq(BOOLEAN) /\ Len(<<TRUE>>) = 1 /\ <<TRUE>>[1]
  /\ <<FALSE>> \in Seq(BOOLEAN) /\ Len(<<FALSE>>) = 1 /\ ~<<FALSE>>[1]
  /\ <<FALSE, TRUE>> \in Seq(BOOLEAN) /\ Len(<<FALSE, TRUE>>) = 2
  /\ ~<<FALSE, TRUE>>[1] /\ <<FALSE, TRUE>>[2]
OBVIOUS

(* A history of one departed row. *)
LEMMA DepartedSingle ==
  ASSUME NEW s \in Seq(BOOLEAN), Len(s) = 1, ~s[1]
  PROVE  s = <<FALSE>>
<1>1. s[1] = FALSE
  <2>1. s[1] \in BOOLEAN
    BY ElementOfSeq
  <2>2. QED BY <2>1
<1> DEFINE t == <<FALSE>>
<1>2. t \in Seq(BOOLEAN) /\ Len(t) = 1 /\ t[1] = FALSE
  OBVIOUS
<1> HIDE DEF t
<1>3. s = t
  BY <1>1, <1>2, SeqEqual
<1>4. QED BY <1>3 DEF t

(* A history of a departed row and an active one. *)
LEMMA Returned ==
  ASSUME NEW s \in Seq(BOOLEAN), Len(s) = 2, ~s[1], s[2]
  PROVE  s = <<FALSE, TRUE>>
<1>1. s[1] = FALSE /\ s[2] = TRUE
  <2>1. s[1] \in BOOLEAN /\ s[2] \in BOOLEAN
    BY ElementOfSeq
  <2>2. QED BY <2>1
<1> DEFINE t == <<FALSE, TRUE>>
<1>2. t \in Seq(BOOLEAN) /\ Len(t) = 2 /\ t[1] = FALSE /\ t[2] = TRUE
  OBVIOUS
<1> HIDE DEF t
<1>3. s = t
  BY <1>1, <1>2, SeqEqual
<1>4. QED BY <1>3 DEF t

(* Appending keeps the elements and their positions... *)
LEMMA AppendKeepsElements ==
  ASSUME NEW S, NEW h \in Seq(S), NEW e \in S
  PROVE  \A i \in 1..Len(h) : Append(h, e)[i] = h[i]
BY AppendProperties, SMTT(30)

(* ...adds one to the length... *)
LEMMA AppendLength ==
  ASSUME NEW S, NEW h \in Seq(S), NEW e \in S
  PROVE  Append(h, e) \in Seq(S) /\ Len(Append(h, e)) = Len(h) + 1
BY AppendProperties, Zenon

(* ...and puts the new element last. *)
LEMMA AppendLast ==
  ASSUME NEW S, NEW h \in Seq(S), NEW e \in S
  PROVE  Append(h, e)[Len(h) + 1] = e
BY AppendProperties, Zenon

(* Appending to a sequence of one. *)
LEMMA AppendToOne ==
  ASSUME NEW S, NEW h \in Seq(S), NEW e \in S, Len(h) = 1
  PROVE  LET s == Append(h, e)
         IN  s \in Seq(S) /\ Len(s) = 2 /\ s[1] = h[1] /\ s[2] = e
<1>1. Append(h, e) \in Seq(S) /\ Len(Append(h, e)) = Len(h) + 1
  BY AppendLength, Zenon
<1>2. \A i \in 1..Len(h) : Append(h, e)[i] = h[i]
  BY AppendKeepsElements, Zenon
<1>3. Append(h, e)[Len(h) + 1] = e
  BY AppendLast, Zenon
<1>4. Len(h) + 1 = 2 /\ 1 \in 1..Len(h)
  OBVIOUS
<1>5. QED BY <1>1, <1>2, <1>3, <1>4

(* What an insert that the unique key admits makes of a history. *)
LEMMA HistoryAfterInsert ==
  ASSUME NEW h \in Histories, \A k \in DOMAIN h : ~h[k]
  PROVE  \/ h = <<>> /\ Append(h, TRUE) = <<TRUE>>
         \/ h = <<FALSE>> /\ Append(h, TRUE) = <<FALSE, TRUE>>
<1>1. h = <<>> \/ h = <<FALSE>>
  <2>1. CASE h = <<TRUE>>
    <3>1. 1 \in DOMAIN h /\ h[1]
      BY <2>1
    <3>2. QED BY <3>1
  <2>2. CASE h = <<FALSE, TRUE>>
    <3>1. 2 \in DOMAIN h /\ h[2]
      BY <2>2
    <3>2. QED BY <3>1
  <2>3. QED BY <2>1, <2>2 DEF Histories
<1>2. CASE h = <<>>
  BY <1>2
<1>3. CASE h = <<FALSE>>
  <2> DEFINE s == Append(h, TRUE)
  <2>1. h \in Seq(BOOLEAN) /\ Len(h) = 1 /\ ~h[1]
    BY <1>3, HistoryType
  <2>2. s \in Seq(BOOLEAN) /\ Len(s) = 2 /\ s[1] = h[1] /\ s[2] = TRUE
    BY <2>1, AppendToOne, TRUE \in BOOLEAN
  <2> HIDE DEF s
  <2>3. s = <<FALSE, TRUE>>
    BY <2>1, <2>2, Returned
  <2>4. QED BY <1>3, <2>3 DEF s
<1>4. QED BY <1>1, <1>2, <1>3

(* What a departure that the unique key admits makes of a history. *)
LEMMA HistoryAfterDeparture ==
  ASSUME NEW h \in Histories, NEW k \in DOMAIN h, {j \in DOMAIN h : ~h[j]} \subseteq {k}
  PROVE  \/ h = <<TRUE>> /\ [h EXCEPT ![k] = FALSE] = <<FALSE>>
         \/ [h EXCEPT ![k] = FALSE] = h
<1> DEFINE s == [h EXCEPT ![k] = FALSE]
<1>1. CASE h = <<>>
  BY <1>1
<1>2. CASE h = <<TRUE>> \/ h = <<FALSE>>
  <2>1. h \in Seq(BOOLEAN) /\ Len(h) = 1 /\ k = 1
    <3>1. h \in Seq(BOOLEAN) /\ Len(h) = 1
      BY <1>2, HistoryType
    <3>2. QED BY <3>1, LenProperties
  <2>2. s \in Seq(BOOLEAN) /\ Len(s) = 1 /\ ~s[1]
    BY <2>1, ExceptSeq
  <2> HIDE DEF s
  <2>3. s = <<FALSE>>
    BY <2>2, DepartedSingle
  <2>4. QED BY <1>2, <2>3 DEF s
<1>3. CASE h = <<FALSE, TRUE>>
  <2>1. h \in Seq(BOOLEAN) /\ Len(h) = 2 /\ ~h[1] /\ h[2]
    BY <1>3, HistoryType
  <2>2. k = 1
    BY <2>1
  <2>3. s \in Seq(BOOLEAN) /\ Len(s) = 2 /\ ~s[1] /\ s[2]
    BY <2>1, <2>2, ExceptSeq
  <2> HIDE DEF s
  <2>4. s = <<FALSE, TRUE>>
    BY <2>3, Returned
  <2>5. QED BY <1>3, <2>4 DEF s
<1>4. QED BY <1>1, <1>2, <1>3 DEF Histories

(* How an admitted insert, and a departure, move one history. *)
LEMMA AdmissionMoves ==
  ASSUME TypeOK, RowInv, NEW p \in Requests, Admission(p)
  PROVE  \E r \in Rooms, u \in Users : \E h \in Histories :
           /\ rows' = [rows EXCEPT ![r][u] = h]
           /\ \/ rows[r][u] = <<>> /\ h = <<TRUE>>
              \/ rows[r][u] = <<FALSE>> /\ h = <<FALSE, TRUE>>
<1> DEFINE r == req[p].room
           u == req[p].user
           h == Append(rows[r][u], TRUE)
<1>1. r \in Rooms /\ u \in Users
  BY DEF TypeOK, Request
<1>2. rows[r][u] \in Histories /\ \A k \in DOMAIN rows[r][u] : ~rows[r][u][k]
  BY <1>1 DEF Admission, InsertAllowed, Present, ActiveRows, RowInv, RowHistory, Histories
<1>3. \/ rows[r][u] = <<>> /\ h = <<TRUE>>
      \/ rows[r][u] = <<FALSE>> /\ h = <<FALSE, TRUE>>
  BY <1>2, HistoryAfterInsert
<1>4. rows' = [rows EXCEPT ![r][u] = h]
  BY DEF Admission, Inserted
<1> HIDE DEF r, u, h
<1>5. QED BY <1>1, <1>3, <1>4 DEF Histories

(* How an admitted departure moves one history. *)
LEMMA DepartureMoves ==
  ASSUME TypeOK, RowInv, NEW p \in Requests, Departure(p)
  PROVE  \E r \in Rooms, u \in Users : \E h \in Histories :
           /\ rows' = [rows EXCEPT ![r][u] = h]
           /\ \/ rows[r][u] = <<TRUE>> /\ h = <<FALSE>>
              \/ rows[r][u] = h
<1> DEFINE r == req[p].room
           u == req[p].user
           k == req[p].row
           h == [rows[r][u] EXCEPT ![k] = FALSE]
<1>1. r \in Rooms /\ u \in Users
  BY DEF TypeOK, Request
<1>2. /\ rows[r][u] \in Histories /\ k \in DOMAIN rows[r][u]
      /\ {j \in DOMAIN rows[r][u] : ~rows[r][u][j]} \subseteq {k}
  BY <1>1 DEF Departure, DepartAllowed, LeftRows, LeaveTarget, RowInv, RowHistory, Histories
<1>3. \/ rows[r][u] = <<TRUE>> /\ h = <<FALSE>>
      \/ rows[r][u] = h
  BY <1>2, HistoryAfterDeparture
<1>4. rows' = [rows EXCEPT ![r][u] = h]
  BY <1>1 DEF Departure, Departed, TypeOK
<1> HIDE DEF r, u, k, h
<1>5. QED BY <1>1, <1>2, <1>3, <1>4 DEF Histories

(* The empty table has only empty histories. *)
LEMMA RowInit == Init => RowInv
BY DEF Init, RowInv, RowHistory, Idle, At

(* RowInv is preserved by every statement. *)
LEMMA RowStep == TypeOK /\ RowInv /\ [Next]_vars => RowInv'
<1> SUFFICES ASSUME TypeOK, RowInv, [Next]_vars PROVE RowInv'
  OBVIOUS
<1>1. RowHistory'
  <2>1. ASSUME NEW r \in Rooms, NEW u \in Users, NEW h \in Histories,
               rows' = [rows EXCEPT ![r][u] = h]
        PROVE  RowHistory'
    BY <2>1 DEF RowInv, RowHistory, Histories, TypeOK
  <2>2. ASSUME NEW p \in Requests, Departure(p) \/ Admission(p) PROVE RowHistory'
    BY <2>1, <2>2, AdmissionMoves, DepartureMoves
  <2>3. CASE rows' = rows
    BY <2>3 DEF RowInv, RowHistory
  <2>4. QED BY <2>2, <2>3, RowsStep
<1>2. ASSUME NEW r \in Rooms, NEW u \in Users
      PROVE  DOMAIN rows[r][u] \subseteq DOMAIN rows'[r][u]
  <2>1. ASSUME NEW p \in Requests, Admission(p)
        PROVE  DOMAIN rows[r][u] \subseteq DOMAIN rows'[r][u]
    BY <2>1, AppendProperties DEF Admission, Inserted, TypeOK
  <2>2. ASSUME NEW p \in Requests, Departure(p)
        PROVE  DOMAIN rows[r][u] \subseteq DOMAIN rows'[r][u]
    BY <2>2 DEF Departure, Departed, TypeOK
  <2>3. QED BY <2>1, <2>2, RowsStep
<1>3. ASSUME NEW p \in Requests, At(p, "leave")' PROVE LeaveTarget(p)'
  <2>1. req[p].room \in Rooms /\ req[p].user \in Users
    BY DEF TypeOK, Request
  <2>2. req'[p].row \in DOMAIN rows[req[p].room][req[p].user]
    BY <1>3, <2>1, LeaveStep DEF RowInv, LeaveTarget, Found, ActiveRows
  <2>3. req'[p].room = req[p].room /\ req'[p].user = req[p].user
    BY <1>3, LeaveStep
  <2>4. QED BY <2>1, <2>2, <2>3, <1>2 DEF LeaveTarget
<1>4. QED BY <1>1, <1>3 DEF RowInv

(* RowHistory: whatever the interleaving of joins and leaves, the table     *)
(* holds at most one active and at most one departed row of a user in a     *)
(* room, the departed one first.                                            *)
THEOREM RowHistoryHolds == Spec => []RowHistory
<1>1. RowInv => RowHistory
  BY DEF RowInv
<1>2. QED BY <1>1, TypeInit, TypeStep, RowInit, RowStep, PTL DEF Spec

--------------------------------------------------------------------------------
(* Membership. *)

LEMMA StageOfHistory ==
  /\ StageOf(<<>>) = "never"
  /\ StageOf(<<TRUE>>) = "present"
  /\ StageOf(<<FALSE>>) = "gone"
  /\ StageOf(<<FALSE, TRUE>>) = "back"
<1>1. <<TRUE>> # <<>> /\ <<FALSE>> # <<>> /\ <<FALSE, TRUE>> # <<>>
  OBVIOUS
<1>2. <<FALSE>> # <<TRUE>> /\ <<FALSE, TRUE>> # <<TRUE>>
  BY HistoryType
<1>3. QED BY <1>1, <1>2, HistoryType DEF StageOf

(* The abstract state, and how writing one history moves it. *)
Stages == [r \in Rooms |-> [u \in Users |-> StageOf(rows[r][u])]]

(* Writing one history moves one abstract stage. *)
LEMMA MoveOne ==
  ASSUME TypeOK, NEW r \in Rooms, NEW u \in Users, NEW h, rows' = [rows EXCEPT ![r][u] = h]
  PROVE  Stages' = [Stages EXCEPT ![r][u] = StageOf(h)]
<1>1. \A s \in Rooms, v \in Users :
        rows'[s][v] = IF s = r /\ v = u THEN h ELSE rows[s][v]
  BY DEF TypeOK
<1>2. Stages' = [s \in Rooms |-> [v \in Users |-> StageOf(rows'[s][v])]]
  BY DEF Stages
<1>3. Stages' = [s \in Rooms |-> [v \in Users |->
                   IF s = r /\ v = u THEN StageOf(h) ELSE StageOf(rows[s][v])]]
  BY <1>1, <1>2
<1>4. [Stages EXCEPT ![r][u] = StageOf(h)]
        = [s \in Rooms |-> [v \in Users |->
             IF s = r /\ v = u THEN StageOf(h) ELSE StageOf(rows[s][v])]]
  BY DEF Stages
<1>5. QED BY <1>3, <1>4

(* ImplementsMembership: seen through the rows, the handlers do nothing    *)
(* but let users enter, leave once, and return for good.                   *)
THEOREM RefinesMembership == Spec => ImplementsMembership
<1>1. Init => M!Init
  BY StageOfHistory DEF Init, M!Init
<1>2. TypeOK /\ RowInv /\ [Next]_vars => [M!Next]_Stages
  <2> SUFFICES ASSUME TypeOK, RowInv, [Next]_vars PROVE [M!Next]_Stages
    OBVIOUS
  <2>1. ASSUME NEW p \in Requests, Admission(p) PROVE M!Next
    <3>1. PICK r \in Rooms, u \in Users, h \in Histories :
             /\ rows' = [rows EXCEPT ![r][u] = h]
             /\ \/ rows[r][u] = <<>> /\ h = <<TRUE>>
                \/ rows[r][u] = <<FALSE>> /\ h = <<FALSE, TRUE>>
      BY <2>1, AdmissionMoves
    <3>2. Stages[r][u] = StageOf(rows[r][u])
      BY DEF Stages
    <3>3. Stages' = [Stages EXCEPT ![r][u] = StageOf(h)]
      BY <3>1, MoveOne
    <3>4. \/ Stages[r][u] = "never" /\ Stages' = [Stages EXCEPT ![r][u] = "present"]
          \/ Stages[r][u] = "gone" /\ Stages' = [Stages EXCEPT ![r][u] = "back"]
      BY <3>1, <3>2, <3>3, StageOfHistory
    <3>5. QED BY <3>4 DEF M!Next, M!Enter, M!Return, M!Move, Stages
  <2>2. ASSUME NEW p \in Requests, Departure(p) PROVE M!Next \/ Stages' = Stages
    <3>1. PICK r \in Rooms, u \in Users, h \in Histories :
             /\ rows' = [rows EXCEPT ![r][u] = h]
             /\ \/ rows[r][u] = <<TRUE>> /\ h = <<FALSE>>
                \/ rows[r][u] = h
      BY <2>2, DepartureMoves
    <3>2. Stages[r][u] = StageOf(rows[r][u])
      BY DEF Stages
    <3>3. Stages' = [Stages EXCEPT ![r][u] = StageOf(h)]
      BY <3>1, MoveOne
    <3>4. \/ Stages[r][u] = "present" /\ Stages' = [Stages EXCEPT ![r][u] = "gone"]
          \/ Stages' = [Stages EXCEPT ![r][u] = Stages[r][u]]
      BY <3>1, <3>2, <3>3, StageOfHistory
    <3>5. [Stages EXCEPT ![r][u] = Stages[r][u]] = Stages
      BY DEF Stages
    <3>6. QED BY <3>4, <3>5 DEF M!Next, M!Leave, M!Move, Stages
  <2>3. CASE rows' = rows
    BY <2>3 DEF Stages
  <2>4. QED BY <2>1, <2>2, <2>3, RowsStep
<1>3. QED
  BY <1>1, <1>2, TypeInit, TypeStep, RowInit, RowStep, PTL
     DEF Spec, ImplementsMembership, M!Spec, Stages

--------------------------------------------------------------------------------
(* The log of participation. *)

(* Appending to a sequence keeps its positions and their elements. *)
LEMMA AppendKeeps ==
  ASSUME NEW S, NEW h \in Seq(S), NEW e \in S
  PROVE  /\ DOMAIN h \subseteq DOMAIN Append(h, e)
         /\ \A k \in DOMAIN h : Append(h, e)[k] = h[k]
<1>1. Append(h, e) \in Seq(S) /\ Len(Append(h, e)) = Len(h) + 1
  BY AppendLength, Zenon
<1>2. \A i \in 1..Len(h) : Append(h, e)[i] = h[i]
  BY AppendKeepsElements, Zenon
<1>3. Len(h) \in Nat /\ DOMAIN h = 1..Len(h)
  OBVIOUS
<1>4. DOMAIN Append(h, e) = 1..Len(Append(h, e))
  BY <1>1
<1>5. QED BY <1>1, <1>2, <1>3, <1>4

(* A step keeps the rows of a user, and those that have departed. *)
LEMMA LogStep ==
  ASSUME TypeOK, [Next]_vars, NEW r \in Rooms, NEW u \in Users
  PROVE  /\ DOMAIN rows[r][u] \subseteq DOMAIN rows'[r][u]
         /\ LeftRows(r, u) \subseteq LeftRows(r, u)'
<1>1. ASSUME NEW p \in Requests, Admission(p)
      PROVE  /\ DOMAIN rows[r][u] \subseteq DOMAIN rows'[r][u]
             /\ \A k \in DOMAIN rows[r][u] : rows'[r][u][k] = rows[r][u][k]
  <2>1. rows[r][u] \in Seq(BOOLEAN) /\ req[p].room \in Rooms /\ req[p].user \in Users
    BY DEF TypeOK, Request
  <2>2. \/ rows'[r][u] = rows[r][u]
        \/ rows'[r][u] = Append(rows[r][u], TRUE)
    BY <1>1, <2>1 DEF Admission, Inserted, TypeOK
  <2>3. CASE rows'[r][u] = Append(rows[r][u], TRUE)
    <3>1. /\ DOMAIN rows[r][u] \subseteq DOMAIN Append(rows[r][u], TRUE)
          /\ \A k \in DOMAIN rows[r][u] : Append(rows[r][u], TRUE)[k] = rows[r][u][k]
      BY <2>1, AppendKeeps, TRUE \in BOOLEAN
    <3>2. QED BY <2>3, <3>1, Zenon
  <2>4. QED BY <2>2, <2>3
<1>2. ASSUME NEW p \in Requests, Departure(p)
      PROVE  /\ DOMAIN rows[r][u] = DOMAIN rows'[r][u]
             /\ \A k \in DOMAIN rows[r][u] : rows'[r][u][k] => rows[r][u][k]
  BY <1>2 DEF Departure, Departed, TypeOK
<1>3. CASE rows' = rows
  BY <1>3 DEF LeftRows
<1>4. QED BY <1>1, <1>2, <1>3, RowsStep DEF LeftRows

(* RowsAreALog: rows are only ever appended, and a departed row stays so. *)
THEOREM RowsLogHolds == Spec => RowsAreALog
<1>1. TypeOK /\ [Next]_vars =>
        [\A r \in Rooms, u \in Users :
           /\ DOMAIN rows[r][u] \subseteq DOMAIN rows'[r][u]
           /\ LeftRows(r, u) \subseteq LeftRows(r, u)']_vars
  BY LogStep
<1>2. QED BY <1>1, TypeInit, TypeStep, PTL DEF Spec, RowsAreALog

--------------------------------------------------------------------------------
(* Rooms and the structs read from them. *)

(* The invariant behind StatusTimestamps: what a handler read, however long *)
(* ago, was consistent, and only a room read as waiting is opened.          *)
SnapInv ==
  /\ StatusTimestamps
  /\ \A p \in Requests : Consistent(req[p].snap)
  /\ \A p \in Requests : At(p, "activate") => req[p].snap.status = "waiting"

(* Reading or filling in a struct keeps it consistent. *)
LEMMA StructConsistent ==
  ASSUME NEW s \in RoomRow, NEW cur \in RoomRow, Consistent(s)
  PROVE  /\ Consistent(Absent)
         /\ s.status = "waiting" => Consistent(Overwritten(cur, Opened(s)))
         /\ Consistent(Overwritten(cur, Over(s)))
BY DEF Consistent, Absent, Overwritten, Opened, Over, RoomRow, Status

(* A statement writes call_rooms with a struct that its handler read. *)
LEMMA RoomStep ==
  ASSUME TypeOK, SnapInv, [Next]_vars
  PROVE  StatusTimestamps'
<1> SUFFICES ASSUME NEW r \in Rooms PROVE Consistent(room'[r])
  BY DEF StatusTimestamps
<1>1. CASE room' = room
  BY <1>1 DEF SnapInv, StatusTimestamps
<1>2. ASSUME NEW p \in Requests, NEW s,
             \/ s = Opened(req[p].snap) /\ At(p, "activate")
             \/ s = Over(req[p].snap),
             WriteRoom(req[p].room, s)
      PROVE  Consistent(room'[r])
  <2>1. req[p].snap \in RoomRow /\ req[p].room \in Rooms /\ room[req[p].room] \in RoomRow
    BY DEF TypeOK, Request
  <2>2. Consistent(Overwritten(room[req[p].room], s))
    BY <1>2, <2>1, StructConsistent DEF SnapInv
  <2>3. room'[r] = IF r = req[p].room THEN Overwritten(room[r], s) ELSE room[r]
    BY <1>2, <2>1 DEF WriteRoom, TypeOK
  <2>4. QED BY <2>2, <2>3 DEF SnapInv, StatusTimestamps
<1>3. ASSUME NEW p \in Requests, NEW u \in Users, NEW q \in Rooms, NEW want \in Capacities,
             CreateRoom(p, u, q, want)
      PROVE  Consistent(room'[r])
  <2>1. Consistent(NewRoom(u, want))
    BY DEF Consistent, NewRoom
  <2>2. CASE room' = [room EXCEPT ![q] = NewRoom(u, want)]
    BY <2>1, <2>2 DEF SnapInv, StatusTimestamps, TypeOK
  <2>3. QED BY <1>1, <1>3, <2>2 DEF CreateRoom
<1>4. ASSUME NEW p \in Requests, Continue(p) PROVE Consistent(room'[r])
  <2>1. CASE JoinActivateRoom(p)
    BY <1>1, <1>2, <2>1 DEF JoinActivateRoom
  <2>2. CASE DeleteUpdateRoom(p)
    BY <1>1, <1>2, <2>2 DEF DeleteUpdateRoom
  <2>3. CASE \/ JoinFindParticipant(p) \/ JoinCreateParticipant(p)
             \/ LeaveFindParticipant(p) \/ LeaveUpdateParticipant(p)
    BY <1>1, <2>3 DEF JoinFindParticipant, JoinCreateParticipant,
                      LeaveFindParticipant, LeaveUpdateParticipant
  <2>4. QED BY <1>4, <2>1, <2>2, <2>3 DEF Continue
<1>5. CASE UNCHANGED vars
  BY <1>1, <1>5 DEF vars
<1>6. CASE Restart
  BY <1>1, <1>6 DEF Restart
<1>7. ASSUME NEW p \in Requests, Begin(p) PROVE Consistent(room'[r])
  BY <1>1, <1>3, <1>7 DEF Begin, JoinReadRoom, LeaveReadRoom, DeleteReadRoom
<1>8. QED BY <1>4, <1>5, <1>6, <1>7 DEF Next

(* A step leaves a handler the struct it had, or gives it the row its room  *)
(* has now, or an empty struct; a handler goes on to open only a room it    *)
(* had read as waiting.                                                     *)
SnapKept(p) ==
  \/ req'[p].snap = Absent /\ ~At(p, "activate")'
  \/ /\ \E r \in Rooms : req'[p].snap = room[r]
     /\ ~At(p, "activate")'
  \/ /\ req'[p].snap = req[p].snap
     /\ At(p, "activate")' => At(p, "activate") \/ req[p].snap.status = "waiting"

(* Every step keeps, drops or freshly reads the struct of a request. *)
LEMMA SnapStep ==
  ASSUME TypeOK, [Next]_vars, NEW p \in Requests
  PROVE  SnapKept(p)
<1>1. CASE req'[p] = req[p]
  BY <1>1 DEF SnapKept, At
<1>2. ASSUME NEW a, req'[p] = Answered(req[p], a) PROVE SnapKept(p)
  <2>1. Answered(req[p], a).snap = Absent /\ Answered(req[p], a).pc = "done"
    BY DEF Answered, TypeOK, Request
  <2>2. QED BY <1>2, <2>1 DEF SnapKept, At
<1>3. ASSUME NEW k, req'[p] = [[req[p] EXCEPT !.row = k] EXCEPT !.pc = "activate"],
             req[p].snap.status = "waiting"
      PROVE  SnapKept(p)
  <2>1. req'[p].snap = req[p].snap
    BY <1>3 DEF TypeOK, Request
  <2>2. QED BY <1>3, <2>1 DEF SnapKept
<1>4. ASSUME NEW k, req'[p] = Answered([req[p] EXCEPT !.row = k], "ok") PROVE SnapKept(p)
  <2>1. req'[p].snap = Absent /\ req'[p].pc = "done"
    BY <1>4 DEF Answered, TypeOK, Request
  <2>2. QED BY <2>1 DEF SnapKept, At
<1>5. ASSUME NEW k, Joined(p, k) PROVE SnapKept(p)
  <2>1. req[p].snap = [req[p] EXCEPT !.row = k].snap
    BY DEF TypeOK, Request
  <2>2. QED BY <1>3, <1>4, <1>5, <2>1 DEF Joined, TypeOK
<1>6. ASSUME NEW l \in {"insert", "leave"}, NEW k,
             \/ req'[p] = [req[p] EXCEPT !.pc = l]
             \/ req'[p] = [req[p] EXCEPT !.pc = l, !.row = k]
      PROVE  SnapKept(p)
  <2>1. req'[p].snap = req[p].snap /\ req'[p].pc = l
    BY <1>6 DEF TypeOK, Request
  <2>2. QED BY <2>1 DEF SnapKept, At
<1>7. ASSUME NEW q \in Requests, Begin(q), q # p PROVE req'[p] = req[p]
  BY <1>7 DEF Begin, CreateRoom, JoinReadRoom, LeaveReadRoom, DeleteReadRoom,
              Arrive, Reply, TypeOK
<1>8. ASSUME Begin(p) PROVE SnapKept(p)
  <2>1. ASSUME NEW u \in Users, NEW r \in Rooms, NEW op, NEW l \in {"find", "end"},
               Arrive(p, op, u, r, l)
        PROVE  SnapKept(p)
    <3>1. req'[p].snap = room[r] /\ req'[p].pc = l
      BY <2>1 DEF Arrive, TypeOK
    <3>2. QED BY <3>1 DEF SnapKept, At
  <2>2. ASSUME NEW u \in Users, NEW r \in Rooms, NEW op, NEW a, Reply(p, op, u, r, a)
        PROVE  SnapKept(p)
    <3>1. req'[p].snap = Absent /\ req'[p].pc = "done"
      BY <2>2 DEF Reply, TypeOK
    <3>2. QED BY <3>1 DEF SnapKept, At
  <2>3. QED
    BY <1>8, <2>1, <2>2 DEF Begin, CreateRoom, JoinReadRoom, LeaveReadRoom, DeleteReadRoom
<1>9. ASSUME NEW q \in Requests, Continue(q), q # p PROVE req'[p] = req[p]
  BY <1>9 DEF Continue, JoinFindParticipant, JoinCreateParticipant, JoinActivateRoom,
              LeaveFindParticipant, LeaveUpdateParticipant, DeleteUpdateRoom,
              Joined, Goto, Answer, TypeOK
<1>10. ASSUME Continue(p) PROVE SnapKept(p)
  <2>1. ASSUME NEW a, Answer(p, a) PROVE SnapKept(p)
    BY <1>2, <2>1 DEF Answer, TypeOK
  <2>2. ASSUME Goto(p, "insert") PROVE SnapKept(p)
    BY <1>6, <2>2 DEF Goto, TypeOK
  <2>3. ASSUME NEW k, req' = [req EXCEPT ![p].pc = "leave", ![p].row = k] PROVE SnapKept(p)
    <3>1. req'[p] = [req[p] EXCEPT !.pc = "leave", !.row = k]
      BY <2>3 DEF TypeOK
    <3>2. QED BY <1>6, <3>1
  <2>4. QED
    BY <1>5, <1>10, <2>1, <2>2, <2>3
       DEF Continue, JoinFindParticipant, JoinCreateParticipant, JoinActivateRoom,
           LeaveFindParticipant, LeaveUpdateParticipant, DeleteUpdateRoom
<1>11. CASE Restart
  BY <1>1, <1>2, <1>11 DEF Restart
<1>12. CASE UNCHANGED vars
  BY <1>1, <1>12 DEF vars
<1>13. QED BY <1>1, <1>7, <1>8, <1>9, <1>10, <1>11, <1>12 DEF Next

(* Rooms that do not exist are consistent. *)
LEMMA SnapInit == Init => SnapInv
<1>1. Consistent(Absent) /\ Idle.snap = Absent /\ Idle.pc = "idle"
  BY DEF Consistent, Absent, Idle
<1>2. QED BY <1>1 DEF Init, SnapInv, StatusTimestamps, At

(* SnapInv is preserved by every statement. *)
LEMMA SnapInvStep == TypeOK /\ SnapInv /\ [Next]_vars => SnapInv'
<1> SUFFICES ASSUME TypeOK, SnapInv, [Next]_vars PROVE SnapInv'
  OBVIOUS
<1>1. Consistent(Absent)
  BY DEF Consistent, Absent
<1>2. \A p \in Requests : SnapKept(p)
  BY SnapStep
<1>3. \A p \in Requests : Consistent(req'[p].snap)
  BY <1>1, <1>2 DEF SnapKept, SnapInv, StatusTimestamps
<1>4. \A p \in Requests : At(p, "activate")' => req'[p].snap.status = "waiting"
  BY <1>2 DEF SnapKept, SnapInv
<1>5. QED BY <1>3, <1>4, RoomStep DEF SnapInv

(* StatusTimestamps: blind writes of structs read at different times never  *)
(* let the status of a room and its timestamps drift apart.                 *)
THEOREM StatusTimestampsHold == Spec => []StatusTimestamps
<1>1. SnapInv => StatusTimestamps
  BY DEF SnapInv
<1>2. QED BY <1>1, TypeInit, TypeStep, SnapInit, SnapInvStep, PTL DEF Spec

--------------------------------------------------------------------------------
(* What each kind of step does to the request that takes it. *)

(* A step of one request leaves the others alone. *)
LEMMA Others ==
  ASSUME TypeOK, NEW p \in Requests, NEW q \in Requests, q # p, Begin(q) \/ Continue(q)
  PROVE  req'[p] = req[p]
BY DEF Begin, CreateRoom, JoinReadRoom, LeaveReadRoom, DeleteReadRoom, Arrive, Reply, TypeOK,
       Continue, JoinFindParticipant, JoinCreateParticipant, JoinActivateRoom,
       LeaveFindParticipant, LeaveUpdateParticipant, DeleteUpdateRoom, Joined, Goto, Answer

(* The request goes on, or answers, as what it was. *)
Same(p) ==
  req'[p].op = req[p].op /\ req'[p].room = req[p].room /\ req'[p].user = req[p].user

(* An answer. *)
LEMMA AnswerFields ==
  ASSUME TypeOK, NEW p \in Requests, NEW a, Answer(p, a)
  PROVE  /\ Same(p) /\ req'[p].pc = "done" /\ req'[p].ans = a
         /\ req'[p].row = req[p].row /\ req'[p].snap = Absent
<1>1. req[p] \in Request /\ req'[p] = Answered(req[p], a)
  BY DEF Answer, TypeOK
<1> QED
  BY <1>1 DEF Answered, Request, Same

(* A join that is in answers, or goes on to open the room. *)
LEMMA JoinedFields ==
  ASSUME TypeOK, NEW p \in Requests, NEW k, Joined(p, k)
  PROVE  /\ Same(p)
         /\ \/ req'[p].pc = "activate" /\ req'[p].ans = req[p].ans /\ req'[p].snap = req[p].snap
            \/ req'[p].pc = "done" /\ req'[p].ans = "ok" /\ req'[p].snap = Absent
<1> DEFINE q == [req[p] EXCEPT !.row = k]
<1>1. req[p] \in Request
  BY DEF TypeOK
<1>2. \/ req'[p] = [q EXCEPT !.pc = "activate"]
      \/ req'[p] = Answered(q, "ok")
  BY DEF Joined, TypeOK
<1> QED
  BY <1>1, <1>2 DEF Answered, Request, Same

(* What each action of Continue does to its request. *)
Moves(p) ==
  \/ /\ At(p, "find") /\ req[p].op = "join" /\ rows' = rows /\ room' = room
     /\ \/ req'[p].pc = "insert" /\ req'[p].ans = req[p].ans /\ req'[p].snap = req[p].snap
        \/ req'[p].pc = "activate" /\ req'[p].ans = req[p].ans /\ req'[p].snap = req[p].snap
        \/ req'[p].pc = "done" /\ req'[p].ans = "ok"
     /\ req'[p].pc # "insert" => Present(req[p].room, req[p].user)
  \/ /\ At(p, "insert") /\ room' = room
     /\ \/ req'[p].pc = "activate" /\ req'[p].ans = req[p].ans /\ req'[p].snap = req[p].snap
        \/ req'[p].pc = "done" /\ req'[p].ans \in {"ok", "error"}
     /\ req'[p].pc = "activate" \/ req'[p].ans = "ok" =>
          rows' = Inserted(req[p].room, req[p].user)
  \/ At(p, "activate") /\ req'[p].pc = "done" /\ req'[p].ans = "ok" /\ rows' = rows
  \/ /\ At(p, "find") /\ req[p].op = "leave" /\ rows' = rows /\ room' = room
     /\ \/ req'[p].pc = "leave" /\ req'[p].ans = req[p].ans
        \/ req'[p].pc = "done" /\ req'[p].ans = "error"
  \/ /\ At(p, "leave") /\ room' = room
     /\ req'[p].pc = "done" /\ req'[p].ans \in {"ok", "error"} /\ req'[p].row = req[p].row
     /\ req'[p].ans = "ok" => rows' = Departed(req[p].room, req[p].user, req[p].row)
  \/ At(p, "end") /\ req'[p].pc = "done" /\ req'[p].ans \in {"ok", "error"} /\ rows' = rows

(* A request that continues stays what it is, and moves so. *)
LEMMA ContinueMoves ==
  ASSUME TypeOK, NEW p \in Requests, Continue(p)
  PROVE  Same(p) /\ Moves(p)
<1>1. req[p] \in Request
  BY DEF TypeOK
<1>2. CASE JoinFindParticipant(p)
  <2>1. CASE Goto(p, "insert")
    <3>1. req'[p] = [req[p] EXCEPT !.pc = "insert"]
      BY <2>1 DEF Goto, TypeOK
    <3>2. Same(p) /\ req'[p].pc = "insert" /\ req'[p].ans = req[p].ans /\ req'[p].snap = req[p].snap
      BY <1>1, <3>1 DEF Request, Same
    <3> QED
      BY <1>2, <3>2 DEF JoinFindParticipant, Moves
  <2>2. CASE Joined(p, 0) /\ Found(req[p].room, req[p].user) # {}
    BY <1>2, <2>2, JoinedFields DEF JoinFindParticipant, Moves, Found, Present
  <2> QED
    BY <1>2, <2>1, <2>2 DEF JoinFindParticipant
<1>3. CASE JoinCreateParticipant(p)
  <2>1. CASE Answer(p, "error")
    BY <1>3, <2>1, AnswerFields DEF JoinCreateParticipant, Moves
  <2>2. CASE /\ Joined(p, Len(rows[req[p].room][req[p].user]) + 1)
             /\ rows' = Inserted(req[p].room, req[p].user)
    BY <1>3, <2>2, JoinedFields DEF JoinCreateParticipant, Moves
  <2> QED
    BY <1>3, <2>1, <2>2 DEF JoinCreateParticipant
<1>4. CASE JoinActivateRoom(p)
  BY <1>4, AnswerFields DEF JoinActivateRoom, Moves
<1>5. CASE LeaveFindParticipant(p)
  <2>1. CASE Answer(p, "error")
    BY <1>5, <2>1, AnswerFields DEF LeaveFindParticipant, Moves
  <2>2. ASSUME NEW k, req' = [req EXCEPT ![p].pc = "leave", ![p].row = k]
        PROVE  Same(p) /\ Moves(p)
    <3>1. req'[p] = [req[p] EXCEPT !.pc = "leave", !.row = k]
      BY <2>2 DEF TypeOK
    <3>2. Same(p) /\ req'[p].pc = "leave" /\ req'[p].ans = req[p].ans
      BY <1>1, <3>1 DEF Request, Same
    <3> QED
      BY <1>5, <3>2 DEF LeaveFindParticipant, Moves
  <2> QED
    BY <1>5, <2>1, <2>2 DEF LeaveFindParticipant
<1>6. CASE LeaveUpdateParticipant(p)
  <2>1. CASE Answer(p, "ok")
    <3>1. rows' = Departed(req[p].room, req[p].user, req[p].row)
      <4>1. ~Answer(p, "error")
        BY <2>1, AnswerFields
      <4> QED
        BY <1>6, <4>1 DEF LeaveUpdateParticipant
    <3> QED
      BY <1>6, <2>1, <3>1, AnswerFields DEF LeaveUpdateParticipant, Moves
  <2>2. CASE Answer(p, "error")
    BY <1>6, <2>2, AnswerFields DEF LeaveUpdateParticipant, Moves
  <2> QED
    BY <1>6, <2>1, <2>2 DEF LeaveUpdateParticipant
<1>7. CASE DeleteUpdateRoom(p)
  BY <1>7, AnswerFields DEF DeleteUpdateRoom, Moves
<1> QED
  BY <1>2, <1>3, <1>4, <1>5, <1>6, <1>7 DEF Continue

(* What each action of Begin does to its request. *)
Begun(p) ==
  /\ Free(p) /\ rows' = rows
  /\ \/ /\ room' = room /\ req'[p].snap = room[req'[p].room] /\ req'[p].ans = "none"
        /\ \/ req'[p].op = "join" /\ req'[p].pc = "find" /\ Joinable(req'[p].room)
           \/ req'[p].op = "leave" /\ req'[p].pc = "find"
           \/ req'[p].op = "delete" /\ req'[p].pc = "end"
     \/ /\ req'[p].pc = "done" /\ req'[p].ans \in {"ok", "error"}
        /\ req'[p].ans = "ok" => req'[p].op = "create"

(* A request that begins does one of these. *)
LEMMA BeginBegun ==
  ASSUME TypeOK, NEW p \in Requests, Begin(p)
  PROVE  Begun(p)
<1>1. PICK u \in Users, r \in Rooms :
        \/ \E want \in Capacities : CreateRoom(p, u, r, want)
        \/ JoinReadRoom(p, u, r) \/ LeaveReadRoom(p, u, r) \/ DeleteReadRoom(p, u, r)
  BY DEF Begin
<1>2. Free(p) /\ rows' = rows
  BY <1>1 DEF CreateRoom, JoinReadRoom, LeaveReadRoom, DeleteReadRoom
<1>3. ASSUME NEW op, NEW l, Arrive(p, op, u, r, l)
      PROVE  /\ req'[p].op = op /\ req'[p].pc = l /\ req'[p].room = r
             /\ req'[p].snap = room[r] /\ req'[p].ans = "none"
  BY <1>3 DEF Arrive, TypeOK
<1>4. ASSUME NEW op, NEW a, Reply(p, op, u, r, a)
      PROVE  req'[p].op = op /\ req'[p].pc = "done" /\ req'[p].ans = a
  BY <1>4 DEF Reply, TypeOK
<1>5. ASSUME NEW want \in Capacities, CreateRoom(p, u, r, want) PROVE Begun(p)
  BY <1>2, <1>4, <1>5 DEF CreateRoom, Begun
<1>6. CASE JoinReadRoom(p, u, r)
  BY <1>2, <1>3, <1>4, <1>6 DEF JoinReadRoom, Begun
<1>7. CASE LeaveReadRoom(p, u, r)
  BY <1>2, <1>3, <1>4, <1>7 DEF LeaveReadRoom, Begun
<1>8. CASE DeleteReadRoom(p, u, r)
  BY <1>2, <1>3, <1>4, <1>8 DEF DeleteReadRoom, Begun
<1> QED
  BY <1>1, <1>5, <1>6, <1>7, <1>8

(* A restart answers nobody. *)
LEMMA RestartFields ==
  ASSUME TypeOK, Restart, NEW p \in Requests
  PROVE  /\ rows' = rows /\ room' = room
         /\ \/ req'[p] = req[p]
            \/ Same(p) /\ req'[p].pc = "done" /\ req'[p].ans = "lost" /\ ~Free(p)
<1>1. req[p] \in Request
  BY DEF TypeOK
<1>2. req'[p] = req[p] \/ (~Free(p) /\ req'[p] = Answered(req[p], "lost"))
  BY DEF Restart
<1> QED
  BY <1>1, <1>2 DEF Restart, Answered, Request, Same

(* All a step can be to a request. *)
LEMMA RequestStep ==
  ASSUME TypeOK, [Next]_vars, NEW p \in Requests
  PROVE  \/ req'[p] = req[p]
         \/ Same(p) /\ Moves(p)
         \/ Begun(p)
         \/ Same(p) /\ req'[p].pc = "done" /\ req'[p].ans = "lost" /\ ~Free(p) /\ rows' = rows
<1>1. CASE UNCHANGED vars
  BY <1>1 DEF vars
<1>2. ASSUME NEW q \in Requests, Begin(q) \/ Continue(q)
      PROVE  req'[p] = req[p] \/ (Same(p) /\ Moves(p)) \/ Begun(p)
  BY <1>2, Others, ContinueMoves, BeginBegun
<1> QED
  BY <1>1, <1>2, RestartFields DEF Next

(* The program point of a request tells its operation, and a request that   *)
(* has not answered has no answer.                                         *)
OpInv ==
  \A p \in Requests :
    /\ At(p, "insert") \/ At(p, "activate") => req[p].op = "join"
    /\ At(p, "leave") => req[p].op = "leave"
    /\ At(p, "end") => req[p].op = "delete"
    /\ ~Free(p) => req[p].ans = "none"

(* Nobody has begun. *)
LEMMA OpInit == Init => OpInv
BY DEF Init, OpInv, Idle, At, Free

(* No step confuses operations. *)
LEMMA OpStep == TypeOK /\ OpInv /\ [Next]_vars => OpInv'
<1> SUFFICES ASSUME TypeOK, OpInv, [Next]_vars, NEW p \in Requests
             PROVE  /\ At(p, "insert")' \/ At(p, "activate")' => req'[p].op = "join"
                    /\ At(p, "leave")' => req'[p].op = "leave"
                    /\ At(p, "end")' => req'[p].op = "delete"
                    /\ ~Free(p)' => req'[p].ans = "none"
  BY DEF OpInv
<1>1. CASE req'[p] = req[p]
  BY <1>1 DEF OpInv, At, Free
<1>2. CASE Same(p) /\ Moves(p)
  BY <1>2 DEF OpInv, At, Free, Same, Moves
<1>3. CASE Begun(p)
  BY <1>3 DEF At, Free, Begun
<1>4. CASE req'[p].pc = "done"
  BY <1>4 DEF At, Free
<1> QED
  BY <1>1, <1>2, <1>3, <1>4, RequestStep

--------------------------------------------------------------------------------
(* What answers mean. *)

(* A departed row stays departed, step by step. *)
LEMMA LeftStays ==
  ASSUME TypeOK, [Next]_vars, NEW r \in Rooms, NEW u \in Users
  PROVE  LeftRows(r, u) \subseteq LeftRows(r, u)'
BY LogStep

(* The row that the request found has departed. *)
TookEffect(p) == req[p].row \in LeftRows(req[p].room, req[p].user)

(* A leave that answers has just departed the row it found. *)
LEMMA LeaveStepTookEffect ==
  TypeOK /\ RowInv /\ OpInv /\ LeaveTookEffect /\ [Next]_vars => LeaveTookEffect'
<1> SUFFICES ASSUME TypeOK, RowInv, OpInv, LeaveTookEffect, [Next]_vars, NEW p \in Requests,
                    req'[p].op = "leave", req'[p].ans = "ok"
             PROVE  TookEffect(p)'
  BY DEF LeaveTookEffect, TookEffect
<1>1. req[p].room \in Rooms /\ req[p].user \in Users /\ req[p] \in Request
  BY DEF TypeOK, Request
<1>2. CASE req'[p] = req[p]
  <2>1. req[p].row \in LeftRows(req[p].room, req[p].user)
    BY <1>2 DEF LeaveTookEffect
  <2>2. req[p].row \in LeftRows(req[p].room, req[p].user)'
    BY <1>1, <1>2, <2>1, LeftStays DEF LeftRows
  <2> QED
    BY <1>2, <2>2 DEF LeftRows, TookEffect
<1>3. CASE Same(p) /\ Moves(p)
  <2>1. At(p, "leave") /\ req'[p].row = req[p].row
        /\ rows' = Departed(req[p].room, req[p].user, req[p].row)
    BY <1>3 DEF Same, Moves, OpInv, At, Free
  <2>2. req[p].row \in DOMAIN rows[req[p].room][req[p].user]
    BY <2>1 DEF RowInv, LeaveTarget
  <2>3. /\ req[p].row \in DOMAIN rows'[req[p].room][req[p].user]
        /\ ~rows'[req[p].room][req[p].user][req[p].row]
    BY <1>1, <2>1, <2>2 DEF Departed, TypeOK
  <2> QED
    BY <1>3, <2>1, <2>3 DEF Same, LeftRows, TookEffect
<1>4. ~Begun(p)
  BY DEF Begun
<1> QED
  BY <1>2, <1>3, <1>4, RequestStep

(* LeaveTookEffect: a leave that answered success ended the row it found,   *)
(* and no later request takes that back.                                   *)
THEOREM LeaveTookEffectHolds == Spec => []LeaveTookEffect
<1>1. Init => LeaveTookEffect
  BY DEF Init, LeaveTookEffect, Idle
<1> QED
  BY <1>1, TypeInit, TypeStep, RowInit, RowStep, OpInit, OpStep, LeaveStepTookEffect, PTL DEF Spec

(* JoinMeansPresent: a join is told that it is in, or goes on to open the   *)
(* room, only in a moment when the table has an active row of its user.     *)
THEOREM JoinMeansPresentHolds == Spec => JoinMeansPresent
<1>1. ASSUME TypeOK, OpInv, [Next]_vars, NEW p \in Requests, ~LetIn(p), LetIn(p)'
      PROVE  Present(req[p].room, req[p].user)'
  <2>1. req[p].room \in Rooms /\ req[p].user \in Users
    BY <1>1 DEF TypeOK, Request
  <2>2. req'[p] # req[p]
    BY <1>1 DEF LetIn, At
  <2>3. CASE Same(p) /\ Moves(p)
    <3>1. CASE rows' = rows /\ Present(req[p].room, req[p].user)
      BY <2>3, <3>1 DEF Same, Present, ActiveRows
    <3>2. CASE rows' = Inserted(req[p].room, req[p].user)
      <4> DEFINE h == rows[req[p].room][req[p].user]
      <4>1. h \in Seq(BOOLEAN)
        BY <1>1, <2>1 DEF TypeOK
      <4>2. rows'[req[p].room][req[p].user] = Append(h, TRUE)
        BY <1>1, <2>1, <3>2 DEF Inserted, TypeOK
      <4> HIDE DEF h
      <4>3. /\ Append(h, TRUE) \in Seq(BOOLEAN) /\ Len(Append(h, TRUE)) = Len(h) + 1
            /\ Append(h, TRUE)[Len(h) + 1] = TRUE
        BY <4>1, AppendLength, AppendLast, TRUE \in BOOLEAN, Zenon
      <4>4. Len(h) + 1 \in DOMAIN Append(h, TRUE)
        BY <4>1, <4>3
      <4>5. Len(h) + 1 \in ActiveRows(req[p].room, req[p].user)'
        BY <2>3, <4>2, <4>3, <4>4 DEF ActiveRows, Same
      <4> QED
        BY <4>5 DEF Present
    <3> QED
      BY <1>1, <2>3, <3>1, <3>2 DEF Moves, OpInv, LetIn, At, Same, Free
  <2>4. ~Begun(p)
    BY <1>1 DEF Begun, LetIn, At
  <2>5. ~(req'[p].pc = "done" /\ req'[p].ans = "lost")
    BY <1>1 DEF LetIn, At
  <2> QED
    BY <1>1, <2>2, <2>3, <2>4, <2>5, RequestStep
<1>2. TypeOK /\ OpInv /\ [Next]_vars =>
        [\A p \in Requests :
           ~LetIn(p) /\ LetIn(p)' => Present(req[p].room, req[p].user)']_vars
  BY <1>1
<1> QED
  BY <1>2, TypeInit, TypeStep, OpInit, OpStep, PTL DEF Spec, JoinMeansPresent

--------------------------------------------------------------------------------
(* What rooms keep. *)

(* call_rooms changes by a new room, a join that opens and a delete. *)
Created(r) == /\ room[r].status = "absent"
              /\ \E u \in Users, want \in Capacities : room' = [room EXCEPT ![r] = NewRoom(u, want)]
Opens(p) == At(p, "activate") /\ WriteRoom(req[p].room, Opened(req[p].snap))
Ends(p)  == At(p, "end") /\ WriteRoom(req[p].room, Over(req[p].snap))

(* There is no other write to the table. *)
LEMMA RoomWrites ==
  ASSUME [Next]_vars
  PROVE  room' = room \/ (\E r \in Rooms : Created(r)) \/ \E p \in Requests : Opens(p) \/ Ends(p)
<1>1. CASE UNCHANGED vars
  BY <1>1 DEF vars
<1>2. ASSUME NEW p \in Requests, Begin(p) PROVE room' = room \/ \E r \in Rooms : Created(r)
  BY <1>2 DEF Begin, CreateRoom, JoinReadRoom, LeaveReadRoom, DeleteReadRoom, Created
<1>3. ASSUME NEW p \in Requests, Continue(p) PROVE room' = room \/ Opens(p) \/ Ends(p)
  <2>1. CASE JoinActivateRoom(p) \/ DeleteUpdateRoom(p)
    BY <2>1 DEF JoinActivateRoom, DeleteUpdateRoom, Opens, Ends
  <2>2. CASE \/ JoinFindParticipant(p) \/ JoinCreateParticipant(p)
             \/ LeaveFindParticipant(p) \/ LeaveUpdateParticipant(p)
    BY <2>2 DEF JoinFindParticipant, JoinCreateParticipant, LeaveFindParticipant,
                LeaveUpdateParticipant
  <2> QED
    BY <1>3, <2>1, <2>2 DEF Continue
<1>4. CASE Restart
  BY <1>4 DEF Restart
<1> QED
  BY <1>1, <1>2, <1>3, <1>4 DEF Next

(* The columns that a write leaves in a room. *)
LEMMA WriteFields ==
  ASSUME TypeOK, NEW r \in Rooms, NEW q \in Rooms, NEW s \in RoomRow, WriteRoom(q, s)
  PROVE  IF q = r THEN room'[r].status = s.status /\ room'[r].started = s.started
                  ELSE room'[r] = room[r]
<1>1. room[r] \in RoomRow /\ room'[r] = IF q = r THEN Overwritten(room[r], s) ELSE room[r]
  BY DEF WriteRoom, TypeOK
<1> QED
  BY <1>1 DEF Overwritten, RoomRow

(* Once a room has ended and no join is in flight, it stays ended. *)
LEMMA EndedStays ==
  ASSUME TypeOK, OpInv, [Next]_vars, NEW r \in Rooms, Settled(r)
  PROVE  room'[r].status = "ended"
<1>1. CASE room' = room
  BY <1>1 DEF Settled
<1>2. ASSUME NEW q \in Rooms, Created(q) PROVE room'[r] = room[r]
  BY <1>2 DEF Created, Settled, TypeOK
<1>3. ASSUME NEW p \in Requests, Opens(p) PROVE room'[r] = room[r]
  <2>1. req[p].room # r
    BY <1>3 DEF Opens, Settled, Joining, OpInv, At, Free
  <2>2. req[p].room \in Rooms /\ Opened(req[p].snap) \in RoomRow
    <3>1. req[p].room \in Rooms /\ req[p].snap \in RoomRow
      BY DEF TypeOK, Request
    <3> QED
      BY <3>1, StructType
  <2> QED
    BY <1>3, <2>1, <2>2, WriteFields DEF Opens
<1>4. ASSUME NEW p \in Requests, Ends(p) PROVE room'[r] = room[r] \/ room'[r].status = "ended"
  <2>1. req[p].room \in Rooms /\ req[p].snap \in RoomRow /\ Over(req[p].snap) \in RoomRow
    <3>1. req[p].room \in Rooms /\ req[p].snap \in RoomRow
      BY DEF TypeOK, Request
    <3> QED
      BY <3>1, StructType
  <2>2. Over(req[p].snap).status = "ended"
    BY <2>1 DEF Over, RoomRow
  <2> QED
    BY <1>4, <2>1, <2>2, WriteFields DEF Ends
<1> QED
  BY <1>1, <1>2, <1>3, <1>4, RoomWrites DEF Settled

(* Nobody starts to join it. *)
LEMMA NobodyJoins ==
  ASSUME TypeOK, OpInv, [Next]_vars, NEW r \in Rooms, Settled(r), NEW p \in Requests
  PROVE  ~Joining(p, r)'
<1>1. CASE req'[p] = req[p]
  BY <1>1 DEF Settled, Joining, Free
<1>2. CASE Same(p) /\ Moves(p)
  BY <1>2 DEF Settled, Joining, Free, Same, Moves, At
<1>3. CASE Begun(p)
  BY <1>3 DEF Settled, Joining, Free, Begun, Joinable
<1>4. CASE req'[p].pc = "done"
  BY <1>4 DEF Joining, Free
<1> QED
  BY <1>1, <1>2, <1>3, <1>4, RequestStep

(* Nobody comes in. *)
LEMMA NobodyEnters ==
  ASSUME TypeOK, OpInv, [Next]_vars, NEW r \in Rooms, Settled(r), NEW u \in Users
  PROVE  ActiveRows(r, u)' \subseteq ActiveRows(r, u)
<1>1. CASE rows' = rows
  BY <1>1 DEF ActiveRows
<1>2. ASSUME NEW p \in Requests, Departure(p) PROVE ActiveRows(r, u)' \subseteq ActiveRows(r, u)
  <2>1. /\ DOMAIN rows'[r][u] = DOMAIN rows[r][u]
        /\ \A k \in DOMAIN rows[r][u] : rows'[r][u][k] => rows[r][u][k]
    BY <1>2 DEF Departure, Departed, TypeOK
  <2> QED
    BY <2>1 DEF ActiveRows
<1>3. ASSUME NEW p \in Requests, Admission(p) PROVE ActiveRows(r, u)' \subseteq ActiveRows(r, u)
  <2>1. req[p].room # r
    BY <1>3 DEF Admission, Settled, Joining, OpInv, At, Free
  <2>2. req[p].room \in Rooms
    BY DEF TypeOK, Request
  <2>3. rows'[r][u] = rows[r][u]
    BY <1>3, <2>1, <2>2 DEF Admission, Inserted, TypeOK
  <2> QED
    BY <2>3 DEF ActiveRows
<1> QED
  BY <1>1, <1>2, <1>3, RowsStep

(* SettledForGood: a room that has ended, with no join in flight, is never   *)
(* opened or entered again, however old the structs that requests write.    *)
THEOREM SettledForGoodHolds == Spec => SettledForGood
<1>1. ASSUME TypeOK, OpInv, [Next]_vars, NEW r \in Rooms, Settled(r)
      PROVE  /\ Settled(r)'
             /\ \A u \in Users : ActiveRows(r, u)' \subseteq ActiveRows(r, u)
  <2>1. Settled(r)'
    BY <1>1, EndedStays, NobodyJoins DEF Settled
  <2> QED
    BY <1>1, <2>1, NobodyEnters
<1>2. TypeOK /\ OpInv /\ [Next]_vars =>
        [\A r \in Rooms : Settled(r) =>
           /\ Settled(r)'
           /\ \A u \in Users : ActiveRows(r, u)' \subseteq ActiveRows(r, u)]_vars
  BY <1>1
<1> QED
  BY <1>2, TypeInit, TypeStep, OpInit, OpStep, PTL DEF Spec, SettledForGood

(* The writes that can reach a started room keep its start. *)
LEMMA StartStays ==
  ASSUME TypeOK, SnapInv, [Next]_vars, NEW r \in Rooms, Underway(r)
  PROVE  room'[r].started
<1>1. CASE room' = room
  BY <1>1 DEF Underway
<1>2. ASSUME NEW q \in Rooms, Created(q) PROVE room'[r] = room[r]
  BY <1>2 DEF Created, Underway, SnapInv, StatusTimestamps, Consistent, TypeOK
<1>3. ASSUME NEW p \in Requests, Opens(p) \/ Ends(p) PROVE room'[r].started
  <2>1. req[p].room \in Rooms /\ req[p].snap \in RoomRow
    BY DEF TypeOK, Request
  <2>2. /\ Opened(req[p].snap) \in RoomRow /\ Opened(req[p].snap).started
        /\ Over(req[p].snap) \in RoomRow /\ Over(req[p].snap).started = req[p].snap.started
    BY <2>1, StructType DEF Opened, Over, RoomRow
  <2>3. CASE Opens(p)
    BY <2>1, <2>2, <2>3, WriteFields DEF Opens, Underway
  <2>4. CASE Ends(p)
    BY <2>1, <2>2, <2>4, WriteFields DEF Ends, Underway
  <2> QED
    BY <1>3, <2>3, <2>4
<1> QED
  BY <1>1, <1>2, <1>3, RoomWrites DEF Underway

(* A delete that begins now reads the start. *)
LEMMA DeletesKnow ==
  ASSUME TypeOK, OpInv, [Next]_vars, NEW r \in Rooms, Underway(r), NEW p \in Requests,
         At(p, "end")', req'[p].room = r
  PROVE  req'[p].snap.started
<1>1. CASE req'[p] = req[p]
  BY <1>1 DEF Underway, At
<1>2. ~(Same(p) /\ Moves(p))
  BY DEF Moves, At
<1>3. CASE Begun(p)
  BY <1>3 DEF Begun, Underway, At
<1> QED
  BY <1>1, <1>2, <1>3, RequestStep DEF At

(* StartIsKept: only a delete that read the room before it opened can make   *)
(* it forget that it started.                                              *)
THEOREM StartIsKeptHolds == Spec => StartIsKept
<1>1. ASSUME TypeOK, OpInv, SnapInv, [Next]_vars, NEW r \in Rooms, Underway(r)
      PROVE  Underway(r)'
  BY <1>1, StartStays, DeletesKnow DEF Underway
<1>2. TypeOK /\ OpInv /\ SnapInv /\ [Next]_vars =>
        [\A r \in Rooms : Underway(r) => Underway(r)']_vars
  BY <1>1
<1> QED
  BY <1>2, TypeInit, TypeStep, OpInit, OpStep, SnapInit, SnapInvStep, PTL DEF Spec, StartIsKept
===============================================================================
