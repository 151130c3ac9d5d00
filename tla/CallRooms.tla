------------------------------- MODULE CallRooms -------------------------------
(***************************************************************************)
(* The call-room API: the tables call_rooms and call_participants, and the *)
(* HTTP handlers that create, join, leave and delete rooms.  Every handler *)
(* runs in a goroutine of its own and talks to MySQL one autocommitted     *)
(* statement at a time, with no transaction around them: each action below *)
(* is one statement together with the code up to the next one, and the     *)
(* statements of concurrent requests interleave.                           *)
(*                                                                         *)
(* A statement may fail (the five second context of the handler, a lost    *)
(* connection): a failed write may or may not have reached the table.  The *)
(* server may also restart, which drops every request in flight.           *)
(***************************************************************************)
EXTENDS Integers, Sequences, FiniteSets

CONSTANTS
  Users,       \* authenticated users
  Rooms,       \* room ids uuid.New may return
  Requests,    \* slots for concurrent HTTP requests
  Capacities,  \* values of max_participants a client may ask for
  NoUser,      \* the creator of a room that does not exist
  MaxFaults    \* bound on failed statements and restarts

ASSUME CapacitiesAssumption == Capacities \subseteq Int
ASSUME NoUserAssumption == NoUser \notin Users
ASSUME FaultsAssumption == MaxFaults \in Nat
ASSUME InhabitedAssumption == Users # {} /\ Rooms # {}

VARIABLES
  room,    \* call_rooms: room[r] is the row of r
  rows,    \* call_participants: is_active of the rows of (r, u), oldest first
  req,     \* the requests: where each handler is and what it has read
  faults   \* failed statements and restarts so far

vars == <<room, rows, req, faults>>

Status == {"absent", "waiting", "active", "ended"}

(* A row of call_rooms; of a timestamp only whether it is NULL matters. *)
RoomRow == [status: Status, creator: Users \cup {NoUser}, max: Nat,
            started: BOOLEAN, ended: BOOLEAN]

Absent == [status |-> "absent", creator |-> NoUser, max |-> 0,
           started |-> FALSE, ended |-> FALSE]

(* A handler: snap is the CallRoom struct it read, row the index of the    *)
(* participant row it found or inserted (0: none, the zero ID).            *)
Request == [op: {"none", "create", "join", "leave", "delete"},
            pc: {"idle", "find", "insert", "activate", "leave", "end", "done"},
            user: Users, room: Rooms, snap: RoomRow, row: Nat,
            ans: {"none", "ok", "error", "lost"}]

Idle == [op |-> "none", pc |-> "idle",
         user |-> CHOOSE u \in Users : TRUE, room |-> CHOOSE r \in Rooms : TRUE,
         snap |-> Absent, row |-> 0, ans |-> "none"]

(* The two tables and the handlers' variables keep their types. *)
TypeOK ==
  /\ room \in [Rooms -> RoomRow]
  /\ rows \in [Rooms -> [Users -> Seq(BOOLEAN)]]
  /\ req \in [Requests -> Request]
  /\ faults \in Nat

Init ==
  /\ room = [r \in Rooms |-> Absent]
  /\ rows = [r \in Rooms |-> [u \in Users |-> <<>>]]
  /\ req = [p \in Requests |-> Idle]
  /\ faults = 0

--------------------------------------------------------------------------------
(* Rows and requests. *)

(* The rows of a user in a room that are active, and those that are not. *)
ActiveRows(r, u) == {k \in DOMAIN rows[r][u] : rows[r][u][k]}
LeftRows(r, u)   == {k \in DOMAIN rows[r][u] : ~rows[r][u][k]}
Present(r, u)    == ActiveRows(r, u) # {}

(* The rows FindByRoomIDAndUserID may return: only active ones.  (Mutant: *)
(* the query without its is_active condition.)                            *)
AnyRow(r, u) == DOMAIN rows[r][u]
Found(r, u)  == ActiveRows(r, u)

Free(p)   == req[p].pc \in {"idle", "done"}
At(p, l)  == req[p].pc = l

Goto(p, l) == req' = [req EXCEPT ![p].pc = l]

(* The handler returns; what it had read is gone. *)
Answered(q, a) == [q EXCEPT !.pc = "done", !.ans = a, !.snap = Absent]
Answer(p, a)   == req' = [req EXCEPT ![p] = Answered(@, a)]

(* A request whose first statement, FindByRoomID, let the handler go on... *)
Arrive(p, op, u, r, l) ==
  req' = [req EXCEPT ![p] = [op |-> op, pc |-> l, user |-> u, room |-> r,
                             snap |-> room[r], row |-> 0, ans |-> "none"]]

(* ...or one that its first statement already answers. *)
Reply(p, op, u, r, a) ==
  req' = [req EXCEPT ![p] = [op |-> op, pc |-> "done", user |-> u, room |-> r,
                             snap |-> Absent, row |-> 0, ans |-> a]]

Works == faults' = faults
Fails == faults < MaxFaults /\ faults' = faults + 1

(* UPDATE call_rooms writes these three columns, whatever they now hold.  *)
(* (Mutant: the statement without ended_at.)                              *)
OverwrittenButEnd(cur, s) == [cur EXCEPT !.status = s.status, !.started = s.started]

Overwritten(cur, s) ==
  [cur EXCEPT !.status = s.status, !.started = s.started, !.ended = s.ended]

WriteRoom(r, s) == room' = [room EXCEPT ![r] = Overwritten(@, s)]

--------------------------------------------------------------------------------
(* POST /api/calls/rooms *)

(* (Mutant: the room takes what the client sent.) *)
Asked(want)    == want
Capacity(want) == IF want <= 0 THEN 10 ELSE want

NewRoom(u, want) == [status |-> "waiting", creator |-> u, max |-> Capacity(want),
                     started |-> FALSE, ended |-> FALSE]

CreateRoom(p, u, r, want) ==
  /\ Free(p)
  /\ room[r].status = "absent"
  /\ \/ /\ Works
        /\ room' = [room EXCEPT ![r] = NewRoom(u, want)]
        /\ Reply(p, "create", u, r, "ok")
     \/ /\ Fails
        /\ room' \in {room, [room EXCEPT ![r] = NewRoom(u, want)]}
        /\ Reply(p, "create", u, r, "error")
  /\ UNCHANGED rows

--------------------------------------------------------------------------------
(* POST /api/calls/rooms/{id}/join *)

(* A room that exists and has not ended.  (Mutant: the check of the status *)
(* is missing.)                                                            *)
Exists(r)   == room[r].status # "absent"
Joinable(r) == room[r].status \in {"waiting", "active"}

JoinReadRoom(p, u, r) ==
  /\ Free(p)
  /\ \/ Works /\ Joinable(r) /\ Arrive(p, "join", u, r, "find")
     \/ Works /\ ~Joinable(r) /\ Reply(p, "join", u, r, "error")
     \/ Fails /\ Reply(p, "join", u, r, "error")
  /\ UNCHANGED <<room, rows>>

(* The participant is in; what is left is to open a room read as waiting. *)
(* (Mutant: nobody opens the room.)                                       *)
JoinedOnly(p, k) == req' = [req EXCEPT ![p] = Answered([@ EXCEPT !.row = k], "ok")]

Joined(p, k) ==
  LET q == [req[p] EXCEPT !.row = k]
  IN  req' = [req EXCEPT ![p] = IF q.snap.status = "waiting"
                                THEN [q EXCEPT !.pc = "activate"]
                                ELSE Answered(q, "ok")]

(* Any error of the finder counts as "not a participant".  A row that was  *)
(* found is active, so the branch that reactivates a row is never taken,   *)
(* and its ID does not reach the answer.                                   *)
JoinFindParticipant(p) ==
  /\ At(p, "find") /\ req[p].op = "join"
  /\ \/ Works /\ Found(req[p].room, req[p].user) # {} /\ Joined(p, 0)
     \/ Works /\ Found(req[p].room, req[p].user) = {} /\ Goto(p, "insert")
     \/ Fails /\ Goto(p, "insert")
  /\ UNCHANGED <<room, rows>>

(* INSERT of an active row.  (Mutant: an upsert that reuses the old row.) *)
Upserted(r, u) == [rows EXCEPT ![r][u] = <<TRUE>>]
Inserted(r, u) == [rows EXCEPT ![r][u] = Append(@, TRUE)]

(* The unique key (room_id, user_id, is_active) refuses a second active    *)
(* row.  (Mutant: the table without the key.)                              *)
NoInsertKey(r, u)   == TRUE
InsertAllowed(r, u) == ~Present(r, u)

JoinCreateParticipant(p) ==
  LET r == req[p].room
      u == req[p].user
  IN  /\ At(p, "insert")
      /\ \/ /\ Works /\ InsertAllowed(r, u)
            /\ rows' = Inserted(r, u)
            /\ Joined(p, Len(rows[r][u]) + 1)
         \/ /\ Works /\ ~InsertAllowed(r, u)
            /\ rows' = rows
            /\ Answer(p, "error")
         \/ /\ Fails
            /\ rows' = rows \/ (InsertAllowed(r, u) /\ rows' = Inserted(r, u))
            /\ Answer(p, "error")
      /\ UNCHANGED room

Opened(s) == [s EXCEPT !.status = "active", !.started = TRUE]

(* An error of this update is only logged. *)
JoinActivateRoom(p) ==
  /\ At(p, "activate")
  /\ \/ Works /\ WriteRoom(req[p].room, Opened(req[p].snap))
     \/ Fails /\ (room' = room \/ WriteRoom(req[p].room, Opened(req[p].snap)))
  /\ Answer(p, "ok")
  /\ UNCHANGED rows

--------------------------------------------------------------------------------
(* POST /api/calls/rooms/{id}/leave *)

LeaveReadRoom(p, u, r) ==
  /\ Free(p)
  /\ \/ Works /\ Exists(r) /\ Arrive(p, "leave", u, r, "find")
     \/ Works /\ ~Exists(r) /\ Reply(p, "leave", u, r, "error")
     \/ Fails /\ Reply(p, "leave", u, r, "error")
  /\ UNCHANGED <<room, rows>>

LeaveFindParticipant(p) ==
  LET found == Found(req[p].room, req[p].user)
  IN  /\ At(p, "find") /\ req[p].op = "leave"
      /\ \/ /\ Works
            /\ \E k \in found : req' = [req EXCEPT ![p].pc = "leave", ![p].row = k]
         \/ Works /\ found = {} /\ Answer(p, "error")
         \/ Fails /\ Answer(p, "error")
      /\ UNCHANGED <<room, rows>>

Departed(r, u, k) == [rows EXCEPT ![r][u][k] = FALSE]

(* The same unique key refuses a second row with is_active = FALSE.  *)
(* (Mutant: the key covers active rows only.)                        *)
NoDepartKey(r, u, k)   == TRUE
DepartAllowed(r, u, k) == LeftRows(r, u) \subseteq {k}

LeaveUpdateParticipant(p) ==
  LET r == req[p].room
      u == req[p].user
      k == req[p].row
  IN  /\ At(p, "leave")
      /\ \/ /\ Works /\ DepartAllowed(r, u, k)
            /\ rows' = Departed(r, u, k)
            /\ Answer(p, "ok")
         \/ /\ Works /\ ~DepartAllowed(r, u, k)
            /\ rows' = rows
            /\ Answer(p, "error")
         \/ /\ Fails
            /\ rows' = rows \/ (DepartAllowed(r, u, k) /\ rows' = Departed(r, u, k))
            /\ Answer(p, "error")
      /\ UNCHANGED room

--------------------------------------------------------------------------------
(* DELETE /api/calls/rooms/{id} *)

DeleteReadRoom(p, u, r) ==
  /\ Free(p)
  /\ \/ Works /\ room[r].creator = u /\ Arrive(p, "delete", u, r, "end")
     \/ Works /\ room[r].creator # u /\ Reply(p, "delete", u, r, "error")
     \/ Fails /\ Reply(p, "delete", u, r, "error")
  /\ UNCHANGED <<room, rows>>

(* (Mutant: the update starts from an empty struct.) *)
OverOnly(s) == [Absent EXCEPT !.status = "ended", !.ended = TRUE]
Over(s)     == [s EXCEPT !.status = "ended", !.ended = TRUE]

DeleteUpdateRoom(p) ==
  /\ At(p, "end")
  /\ \/ /\ Works
        /\ WriteRoom(req[p].room, Over(req[p].snap))
        /\ Answer(p, "ok")
     \/ /\ Fails
        /\ room' = room \/ WriteRoom(req[p].room, Over(req[p].snap))
        /\ Answer(p, "error")
  /\ UNCHANGED rows

--------------------------------------------------------------------------------
(* The process dies and starts again: clients in flight get no answer. *)
Restart ==
  /\ Fails
  /\ \E p \in Requests : ~Free(p)
  /\ req' = [p \in Requests |-> IF Free(p) THEN req[p]
                                ELSE Answered(req[p], "lost")]
  /\ UNCHANGED <<room, rows>>

Begin(p) ==
  \E u \in Users, r \in Rooms :
    \/ \E want \in Capacities : CreateRoom(p, u, r, want)
    \/ JoinReadRoom(p, u, r)
    \/ LeaveReadRoom(p, u, r)
    \/ DeleteReadRoom(p, u, r)

Continue(p) ==
  \/ JoinFindParticipant(p)
  \/ JoinCreateParticipant(p)
  \/ JoinActivateRoom(p)
  \/ LeaveFindParticipant(p)
  \/ LeaveUpdateParticipant(p)
  \/ DeleteUpdateRoom(p)

Next == (\E p \in Requests : Begin(p) \/ Continue(p)) \/ Restart

Spec == Init /\ [][Next]_vars

(* A handler never waits for another: each statement returns or times out. *)
FairSpec == Spec /\ \A p \in Requests : WF_vars(Continue(p))

--------------------------------------------------------------------------------
(* Safety. *)

(* A join that was let in but may still write to the tables. *)
Joining(p, r) == req[p].op = "join" /\ req[p].room = r /\ ~Free(p)
Opening(p, r) == Joining(p, r) /\ req[p].snap.status = "waiting"

(***************************************************************************)
(* However joins and leaves of a user race, the participants table holds   *)
(* at most two rows of the user in a room, and if two then the older one   *)
(* is the departed one: never two active rows (the finder could pick only  *)
(* one of them to end), never two departed rows.                           *)
(***************************************************************************)
RowHistory ==
  \A r \in Rooms, u \in Users :
    rows[r][u] \in {<<>>, <<TRUE>>, <<FALSE>>, <<FALSE, TRUE>>}

(***************************************************************************)
(* The status of a room and its timestamps never drift apart, although     *)
(* both are written blindly from structs read at different times: a waiting*)
(* room has neither timestamp, an active room has started and has no end,  *)
(* and exactly the ended rooms have an end.                                *)
(***************************************************************************)
Consistent(s) ==
  /\ s.status \in {"absent", "waiting"} => ~s.started
  /\ s.status = "active" => s.started
  /\ s.status = "ended" <=> s.ended

StatusTimestamps == \A r \in Rooms : Consistent(room[r])

(* Somebody has been in the room. *)
Entered(r) == \E u \in Users : rows[r][u] # <<>>

(***************************************************************************)
(* A leave that answered success really took the row it found out of the   *)
(* room, and no later request puts that row back.                          *)
(***************************************************************************)
LeaveTookEffect ==
  \A p \in Requests :
    LET q == req[p]
    IN  q.op = "leave" /\ q.ans = "ok" => q.row \in LeftRows(q.room, q.user)

(***************************************************************************)
(* Participation is a log: a row once inserted is never removed, and a row *)
(* once departed is never made active again (a user who comes back gets a  *)
(* new row).                                                               *)
(***************************************************************************)
RowsAreALog ==
  [][\A r \in Rooms, u \in Users :
       /\ DOMAIN rows[r][u] \subseteq DOMAIN rows'[r][u]
       /\ LeftRows(r, u) \subseteq LeftRows(r, u)']_vars

(***************************************************************************)
(* A join answers success, or goes on to open the room, only in a moment   *)
(* when its user is recorded as present.                                   *)
(***************************************************************************)
LetIn(p) == At(p, "activate") \/ (req[p].op = "join" /\ req[p].ans = "ok")

JoinMeansPresent ==
  [][\A p \in Requests :
       ~LetIn(p) /\ LetIn(p)' => Present(req[p].room, req[p].user)']_vars

(***************************************************************************)
(* Ended for good: a room is ended and no join that was let in before is   *)
(* still in flight.  From then on nobody enters it, nothing opens it       *)
(* again, and those inside can only leave.                                 *)
(***************************************************************************)
Settled(r) == room[r].status = "ended" /\ \A p \in Requests : ~Joining(p, r)

SettledForGood ==
  [][\A r \in Rooms : Settled(r) =>
       /\ Settled(r)'
       /\ \A u \in Users : ActiveRows(r, u)' \subseteq ActiveRows(r, u)]_vars

(***************************************************************************)
(* The start of a call is lost only to a delete that read the room before  *)
(* it opened: if none is in flight, a started room stays started, whatever *)
(* stale structs other requests write back.                                *)
(***************************************************************************)
Underway(r) ==
  /\ room[r].started
  /\ \A p \in Requests : At(p, "end") /\ req[p].room = r => req[p].snap.started

StartIsKept == [][\A r \in Rooms : Underway(r) => Underway(r)']_vars

--------------------------------------------------------------------------------
(* Liveness, and the abstract view of membership. *)

(***************************************************************************)
(* Without failures, a room somebody entered does not stay "waiting".      *)
(***************************************************************************)
EnteredRoomOpens ==
  \A r \in Rooms : (Entered(r) /\ faults = 0)
                     ~> (room[r].status # "waiting" \/ faults > 0)

(***************************************************************************)
(* The rows of a user in a room, seen as a stage of membership, implement  *)
(* Membership: whatever requests do, each step enters, leaves or returns.  *)
(***************************************************************************)
StageOf(h) == CASE h = <<>>                -> "never"
                [] h = <<TRUE>>            -> "present"
                [] Len(h) > 0 /\ ~h[Len(h)] -> "gone"
                [] Len(h) > 1 /\ h[Len(h)]  -> "back"

M == INSTANCE Membership
       WITH stage <- [r \in Rooms |-> [u \in Users |-> StageOf(rows[r][u])]]

ImplementsMembership == M!Spec

--------------------------------------------------------------------------------
(* What documentation and comments say, and the code does not do. *)

(* call_handler.go:289 "open the room (if it is still waiting)": a step    *)
(* that makes a room active finds it waiting or already active.            *)
OpensOnlyWaitingRooms ==
  [][\A r \in Rooms : room'[r].status = "active" => room[r].status # "ended"]_vars

(* The API document: leaving answers success.  With no failure, a user     *)
(* whose active row was found can leave.                                   *)
FoundRowCanLeave ==
  \A p \in Requests :
    faults = 0 /\ req[p].op = "leave" /\ req[p].row # 0 => req[p].ans # "error"
===============================================================================
