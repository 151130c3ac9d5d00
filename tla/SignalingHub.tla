----------------------------- MODULE SignalingHub -----------------------------
(***************************************************************************)
(* The WebSocket signaling server: one hub goroutine (Run) that owns the   *)
(* rooms and selects over the channels register, unregister and broadcast, *)
(* and for each connection a handler that registers it and two goroutines, *)
(* readPump and writePump.                                                 *)
(*                                                                         *)
(* The hub is also the only receiver of broadcast, and it sends to that    *)
(* channel itself, in registerClient and unregisterClient, while it holds  *)
(* the write lock s.mu.  What this does depends on the channel's capacity, *)
(* so the capacity is a constant here.  NewSignalingServer makes the       *)
(* channel unbuffered: the program is this module with BroadcastCap = 0.   *)
(* Larger values are what the rest of the hub does once the channel is     *)
(* buffered.                                                               *)
(***************************************************************************)
EXTENDS Integers, Sequences, FiniteSets

CONSTANTS
  Conns,         \* WebSocket connections (the Client structs)
  Users,         \* client IDs: "user-<id>", the same for every tab of a user
  Rooms,         \* room ids
  BroadcastCap,  \* capacity of the channel broadcast: 0 in the code
  SendCap,       \* capacity of a client's Send channel: 256 in the code
  None           \* no connection, no user, no notice

ASSUME CapAssumption == BroadcastCap \in Nat /\ SendCap \in Nat \ {0}
ASSUME NoneAssumption == None \notin Conns /\ None \notin Users

VARIABLES
  conn,    \* per connection: where its handler, then its readPump, is
  socket,  \* per connection: is the WebSocket open
  send,    \* per connection: contents of the channel Send
  closed,  \* the connections whose channel Send was closed
  writer,  \* per connection: state of its writePump
  member,  \* rooms[r].Clients: the connection registered under an ID
  live,    \* the ids in s.rooms
  hub,     \* the hub goroutine: in its select, or in the handler of a case
  queue,   \* contents of the channel broadcast
  panicked \* the process died of a runtime panic

vars == <<conn, socket, send, closed, writer, member, live, hub, queue, panicked>>

(* A message on the wire.  Empty is the nil body of a failed json.Marshal. *)
Empty   == [type |-> "empty", from |-> None]
Message == {Empty} \cup [type: {"user-joined", "user-left", "signal"}, from: Users]

Notice == [room: Rooms, body: Message, exclude: Users \cup {None}]

(* "panicking": the readPump sent on a closed channel, and its deferred     *)
(* function is at s.unregister <- client; "dying": it has got past that, and *)
(* nothing recovers the panic.                                              *)
Client == [pc: {"new", "registering", "reading", "forwarding", "leaving", "closing", "gone",
                "panicking", "dying"},
           user: Users, room: Rooms, target: Conns \cup {None}]

(* "register", "unregister": received client, s.mu not yet taken.           *)
(* "notify": at s.broadcast <- notice, holding s.mu; last says that the     *)
(* room is empty and will be deleted after the send.                        *)
Hub == [pc: {"select", "register", "unregister", "notify"},
        client: Conns \cup {None}, notice: Notice \cup {None}, last: BOOLEAN]

(* The types, with every channel inside its capacity. *)
TypeOK ==
  /\ conn \in [Conns -> Client]
  /\ socket \in [Conns -> BOOLEAN]
  /\ send \in [Conns -> Seq(Message)]
  /\ \A c \in Conns : Len(send[c]) <= SendCap
  /\ closed \subseteq Conns
  /\ writer \in [Conns -> {"none", "running", "done"}]
  /\ member \in [Rooms -> [Users -> Conns \cup {None}]]
  /\ live \subseteq Rooms
  /\ hub \in Hub
  /\ queue \in Seq(Notice) /\ Len(queue) <= BroadcastCap
  /\ panicked \in BOOLEAN

Idle == [pc |-> "select", client |-> None, notice |-> None, last |-> FALSE]

(* The user and the room of a connection never change. *)
Init ==
  /\ conn \in [Conns -> [pc: {"new"}, user: Users, room: Rooms, target: {None}]]
  /\ socket = [c \in Conns |-> FALSE]
  /\ send = [c \in Conns |-> <<>>]
  /\ closed = {}
  /\ writer = [c \in Conns |-> "none"]
  /\ member = [r \in Rooms |-> [u \in Users |-> None]]
  /\ live = {}
  /\ hub = Idle
  /\ queue = <<>>
  /\ panicked = FALSE

--------------------------------------------------------------------------------
(* Helpers. *)

At(c, l) == conn[c].pc = l
Goto(c, l) == conn' = [conn EXCEPT ![c].pc = l]

Clients(r) == {u \in Users : member[r][u] # None}

(* Nobody holds s.mu: the hub alone takes it for writing, and keeps it     *)
(* until its notice is in the channel.                                      *)
Unlocked == hub.pc # "notify"

(* A notice carries participants_count as string(rune(n)), which is JSON   *)
(* only when the rune is a digit: json.Marshal fails for any other count.  *)
Body(type, u, n) == IF n \in 48..57 THEN [type |-> type, from |-> u] ELSE Empty

Notify(r, body, exclude, last) ==
  hub' = [pc |-> "notify", client |-> None, last |-> last,
          notice |-> [room |-> r, body |-> body, exclude |-> exclude]]

(* A non-blocking send, dropped when the channel is full. *)
Offered(s, m) == IF Len(s) < SendCap THEN Append(s, m) ELSE s

--------------------------------------------------------------------------------
(* The hub. *)

Receive(c, to) ==
  /\ hub.pc = "select"
  /\ hub' = [Idle EXCEPT !.pc = to, !.client = c]

(* The hub receives from register: the handler goes on to start the pumps. *)
HubReceiveRegister(c) ==
  /\ At(c, "registering")
  /\ Receive(c, "register")
  /\ Goto(c, "reading")
  /\ writer' = [writer EXCEPT ![c] = "running"]
  /\ UNCHANGED <<socket, send, closed, member, live, queue, panicked>>

(* registerClient, up to its send to broadcast. *)
HubRegister ==
  LET c == hub.client
      u == conn[c].user
      r == conn[c].room
  IN  /\ hub.pc = "register"
      /\ member' = [member EXCEPT ![r][u] = c]
      /\ live' = live \cup {r}
      /\ Notify(r, Body("user-joined", u, Cardinality(Clients(r) \cup {u})), u, FALSE)
      /\ UNCHANGED <<conn, socket, send, closed, writer, queue, panicked>>

(* The hub receives from unregister, and the readPump goes on: after a     *)
(* "leave" it reads again; at the end of its loop, or when it panics, this  *)
(* was its deferred function, which then closes the socket.                 *)
(* (Mutant: the deferred function recovers from the panic.)                 *)
Recovered       == [leaving |-> "reading", closing |-> "gone", panicking |-> "gone"]
AfterUnregister == [leaving |-> "reading", closing |-> "gone", panicking |-> "dying"]

HubReceiveUnregister(c) ==
  /\ conn[c].pc \in DOMAIN AfterUnregister
  /\ Receive(c, "unregister")
  /\ Goto(c, AfterUnregister[conn[c].pc])
  /\ socket' = [socket EXCEPT ![c] = @ /\ At(c, "leaving")]
  /\ UNCHANGED <<send, closed, writer, member, live, queue, panicked>>

(* unregisterClient finds the ID registered, by whichever connection, and  *)
(* closes the Send channel of the one that unregisters.                    *)
Registered(c) == member[conn[c].room][conn[c].user] # None

(* (Mutant: the entry stays in the map.) *)
KeptEntry(r, u) == member
Removed(r, u)   == [member EXCEPT ![r][u] = None]

(* (Mutant: the count is taken before the delete.) *)
LastOfTwo(n) == n = 1
LastOut(n)   == n = 0

HubUnregister ==
  LET c == hub.client
      u == conn[c].user
      r == conn[c].room
      n == Cardinality(Clients(r) \ {u})
  IN  /\ hub.pc = "unregister"
      /\ r \in live /\ Registered(c)
      /\ member' = Removed(r, u)
      /\ closed' = closed \cup {c}
      /\ panicked' = (c \in closed)
      /\ Notify(r, Body("user-left", u, n), None, LastOut(n))
      /\ UNCHANGED <<conn, socket, send, writer, live, queue>>

HubUnregisterUnknown ==
  /\ hub.pc = "unregister"
  /\ ~(conn[hub.client].room \in live /\ Registered(hub.client))
  /\ hub' = Idle
  /\ UNCHANGED <<conn, socket, send, closed, writer, member, live, queue, panicked>>

(* The end of registerClient and of unregisterClient: the send to broadcast *)
(* needs room in the buffer, since the only receiver is the hub itself.     *)
(* (Mutants: a send that does not wait; the channel without a buffer.)      *)
NeverBlocks == TRUE
Unbuffered  == FALSE
CanBuffer   == Len(queue) < BroadcastCap

HubNotify ==
  /\ hub.pc = "notify"
  /\ CanBuffer
  /\ queue' = Append(queue, hub.notice)
  /\ live' = IF hub.last THEN live \ {hub.notice.room} ELSE live
  /\ hub' = Idle
  /\ UNCHANGED <<conn, socket, send, closed, writer, member, panicked>>

(* broadcastToRoom *)
Audience(n) ==
  IF n.room \in live
  THEN {member[n.room][u] : u \in Clients(n.room) \ {n.exclude}}
  ELSE {}

HubBroadcast ==
  LET n == Head(queue)
  IN  /\ hub.pc = "select"
      /\ queue # <<>>
      /\ queue' = Tail(queue)
      /\ send' = [c \in Conns |-> IF c \in Audience(n) THEN Offered(send[c], n.body) ELSE send[c]]
      /\ panicked' = (Audience(n) \cap closed # {})
      /\ UNCHANGED <<conn, socket, closed, writer, member, live, hub>>

--------------------------------------------------------------------------------
(* Connections. *)

(* HandleSignaling and HandleWebSocket, up to s.register <- client. *)
Connect(c) ==
  /\ At(c, "new")
  /\ Goto(c, "registering")
  /\ socket' = [socket EXCEPT ![c] = TRUE]
  /\ UNCHANGED <<send, closed, writer, member, live, hub, queue, panicked>>

(* readPump reads an offer, answer or candidate for user u; forwardMessage *)
(* looks the room and then u up under read locks, for which the hub must   *)
(* not hold s.mu.  Other lookups find nothing and drop the message.        *)
(* (Mutant: one table of clients for all the rooms.)                       *)
LookupAnywhere(c, u) ==
  IF \E r \in Rooms : member[r][u] # None
  THEN member[CHOOSE r \in Rooms : member[r][u] # None][u]
  ELSE None

Lookup(c, u) == member[conn[c].room][u]

ReadSignal(c, u) ==
  /\ At(c, "reading") /\ socket[c]
  /\ Unlocked
  /\ conn[c].room \in live
  /\ Lookup(c, u) # None
  /\ conn' = [conn EXCEPT ![c].pc = "forwarding", ![c].target = Lookup(c, u)]
  /\ UNCHANGED <<socket, send, closed, writer, member, live, hub, queue, panicked>>

(* The send of forwardMessage, after the locks were released. *)
ForwardSend(c) ==
  LET t == conn[c].target
      m == [type |-> "signal", from |-> conn[c].user]
  IN  /\ At(c, "forwarding")
      /\ t \notin closed
      /\ send' = [send EXCEPT ![t] = Offered(@, m)]
      /\ conn' = [conn EXCEPT ![c].pc = "reading", ![c].target = None]
      /\ UNCHANGED <<socket, closed, writer, member, live, hub, queue, panicked>>

(* The target's channel was closed meanwhile: the send panics, and unwinds *)
(* into the deferred function of readPump, which first has to unregister.  *)
ForwardPanics(c) ==
  /\ At(c, "forwarding")
  /\ conn[c].target \in closed
  /\ Goto(c, "panicking")
  /\ UNCHANGED <<socket, send, closed, writer, member, live, hub, queue, panicked>>

(* The deferred function has returned: the process exits. *)
Die(c) ==
  /\ At(c, "dying")
  /\ panicked' = TRUE
  /\ UNCHANGED <<conn, socket, send, closed, writer, member, live, hub, queue>>

ReadLeave(c) ==
  /\ At(c, "reading") /\ socket[c]
  /\ Goto(c, "leaving")
  /\ UNCHANGED <<socket, send, closed, writer, member, live, hub, queue, panicked>>

ReadFails(c) ==
  /\ At(c, "reading") /\ ~socket[c]
  /\ Goto(c, "closing")
  /\ UNCHANGED <<socket, send, closed, writer, member, live, hub, queue, panicked>>

(* writePump: writes what is in Send; it stops on a write error, or when   *)
(* the channel is closed and drained, and then closes the socket.          *)
WriteMessage(c) ==
  /\ writer[c] = "running" /\ send[c] # <<>>
  /\ send' = [send EXCEPT ![c] = Tail(@)]
  /\ writer' = [writer EXCEPT ![c] = IF socket[c] THEN "running" ELSE "done"]
  /\ UNCHANGED <<conn, socket, closed, member, live, hub, queue, panicked>>

WriterEnds(c) ==
  /\ writer[c] = "running" /\ send[c] = <<>> /\ c \in closed
  /\ writer' = [writer EXCEPT ![c] = "done"]
  /\ socket' = [socket EXCEPT ![c] = FALSE]
  /\ UNCHANGED <<conn, send, closed, member, live, hub, queue, panicked>>

(* The browser closes the socket, or the network does. *)
Disconnect(c) ==
  /\ socket[c]
  /\ socket' = [socket EXCEPT ![c] = FALSE]
  /\ UNCHANGED <<conn, send, closed, writer, member, live, hub, queue, panicked>>

HubStep ==
  \/ HubRegister
  \/ HubUnregister
  \/ HubUnregisterUnknown
  \/ HubNotify
  \/ HubBroadcast
  \/ \E c \in Conns : HubReceiveRegister(c) \/ HubReceiveUnregister(c)

ConnStep(c) ==
  \/ Connect(c)
  \/ \E u \in Users : ReadSignal(c, u)
  \/ ForwardSend(c) \/ ForwardPanics(c) \/ Die(c)
  \/ ReadLeave(c)
  \/ ReadFails(c)
  \/ WriteMessage(c)
  \/ WriterEnds(c)
  \/ Disconnect(c)

Next == ~panicked /\ (HubStep \/ \E c \in Conns : ConnStep(c))

Spec == Init /\ [][Next]_vars

(* The Go scheduler runs every goroutine that can run, and select chooses  *)
(* at random among the channels that are ready, so a sender that is ready  *)
(* again and again is served: strong fairness for the hub's receives.  The *)
(* peers owe nothing: no fairness for Connect, ReadSignal, ReadLeave and   *)
(* Disconnect, nor for WriteMessage, a write without a deadline.           *)
Live(A) == ~panicked /\ A

FairSpec ==
  /\ Spec
  /\ WF_vars(Live(HubRegister \/ HubUnregister \/ HubUnregisterUnknown \/ HubNotify))
  /\ SF_vars(Live(HubBroadcast))
  /\ \A c \in Conns :
       /\ SF_vars(Live(HubReceiveRegister(c) \/ HubReceiveUnregister(c)))
       /\ WF_vars(Live(ForwardSend(c) \/ ForwardPanics(c) \/ Die(c) \/ ReadFails(c)))

--------------------------------------------------------------------------------
(* Safety, for every capacity of broadcast. *)

(***************************************************************************)
(* Whoever is registered under an ID in a room is a connection of that     *)
(* user to that room whose Send channel was never closed, although the     *)
(* hub closes channels of connections that an ID no longer names.  So a    *)
(* notice to a room never sends on a closed channel.                       *)
(***************************************************************************)
RegisteredChannelsOpen ==
  \A r \in Rooms, u \in Users :
    LET c == member[r][u]
    IN  c # None => /\ conn[c].room = r /\ conn[c].user = u
                    /\ conn[c].pc \notin {"new", "registering"}
                    /\ c \notin closed

(***************************************************************************)
(* Between two notices the hub keeps exactly the rooms that have clients:  *)
(* no empty room stays behind, no client is in a room already deleted.     *)
(***************************************************************************)
LiveRooms ==
  IF hub.pc = "notify" /\ hub.last
  THEN live = {r \in Rooms : Clients(r) # {}} \cup {hub.notice.room}
  ELSE live = {r \in Rooms : Clients(r) # {}}

(***************************************************************************)
(* Signals stay in their room: one that waits for a connection comes from  *)
(* a user who connected to the same room, and only connections that the    *)
(* hub accepted get any message.                                           *)
(***************************************************************************)
Accepted(c) == conn[c].pc \notin {"new", "registering"}

SignalsStayInRoom ==
  \A c \in Conns : \A k \in DOMAIN send[c] :
    /\ Accepted(c)
    /\ send[c][k].type = "signal" =>
         \E d \in Conns : /\ Accepted(d)
                          /\ conn[d].room = conn[c].room
                          /\ conn[d].user = send[c][k].from

(***************************************************************************)
(* Why the process can die: a connection forwarded to one of its own room  *)
(* whose channel the hub had closed since the lookup, and the hub has let  *)
(* it unregister; or the hub closes a channel twice, because a connection  *)
(* said "leave" and its user registered another one before it went away.   *)
(* No notice of the hub ever kills it.                                     *)
(***************************************************************************)
KnownPanics ==
  [][panicked' =>
       \/ \E c \in Conns : LET t == conn[c].target
                           IN  /\ At(c, "dying") /\ t \in closed
                               /\ conn[t].room = conn[c].room
       \/ /\ hub.pc = "unregister"
          /\ \E d \in Conns \ {hub.client} :
               /\ member[conn[d].room][conn[d].user] = d
               /\ conn[d].user = conn[hub.client].user
               /\ conn[d].room = conn[hub.client].room]_vars

(***************************************************************************)
(* The hub that sends to itself: once the buffer is full when the hub has  *)
(* a notice, it never leaves that send, and from then on no connection is  *)
(* registered or released, no notice is delivered, no user is looked up to *)
(* forward to, and a readPump that panics never gets as far as dying: the  *)
(* process stays, and serves nobody.  Still possible are a send whose      *)
(* lookup was made before, and the writes of what channels already hold.   *)
(***************************************************************************)
Wedged == hub.pc = "notify" /\ Len(queue) >= BroadcastCap

WedgedForGood ==
  [][Wedged => /\ Wedged'
               /\ UNCHANGED <<hub, queue, member, live, closed>>
               /\ \A c \in Conns, l \in {"forwarding", "dying"} : At(c, l)' => At(c, l)]_vars

(***************************************************************************)
(* With the channel as it is made, unbuffered, the first registration      *)
(* wedges the hub: at most one connection is ever registered, in all the   *)
(* rooms together, and no message reaches anybody.                         *)
(***************************************************************************)
UnbufferedServesOne ==
  BroadcastCap = 0 =>
    /\ \A r \in Rooms, u \in Users : member[r][u] # None => Wedged
    /\ \A r, s \in Rooms, u, v \in Users :
         member[r][u] # None /\ member[s][v] # None => r = s /\ u = v
    /\ \A c \in Conns : send[c] = <<>>

--------------------------------------------------------------------------------
(* Liveness. *)

(***************************************************************************)
(* A connection that waits to be registered gets registered, unless the    *)
(* process dies; one that goes away is released; and a panic in a readPump, *)
(* which has to wait for the hub, does end the process.                    *)
(***************************************************************************)
ConnectionsAreServed ==
  \A c \in Conns : At(c, "registering") ~> (Accepted(c) \/ panicked)

ClosedConnectionsEnd ==
  \A c \in Conns : At(c, "closing") ~> (At(c, "gone") \/ panicked)

PanicsEnd ==
  \A c \in Conns : At(c, "panicking") ~> panicked
===============================================================================
