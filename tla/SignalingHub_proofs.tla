-------------------------- MODULE SignalingHub_proofs --------------------------
(***************************************************************************)
(* Theorems about SignalingHub, for any connections, users, rooms and for  *)
(* any capacity of the channel broadcast.                                  *)
(***************************************************************************)
EXTENDS SignalingHub, SequenceTheorems, FiniteSetTheorems, TLAPS

--------------------------------------------------------------------------------
(* Types, and who the hub is working for. *)

(* A readPump that forwards, or whose send panicked, has a target. *)
Aiming(c) == conn[c].pc \in {"forwarding", "panicking", "dying"}

(* While it registers or unregisters, the hub holds a connection that its   *)
(* handler has gone on from; at the send to broadcast it holds a notice;    *)
(* and the target of a readPump is a connection.                            *)
HubWorks ==
  /\ hub.pc \in {"register", "unregister"} => hub.client \in Conns /\ Accepted(hub.client)
  /\ hub.pc = "notify" => hub.notice \in Notice
  /\ \A c \in Conns : Aiming(c) => conn[c].target \in Conns

TypeInv == TypeOK /\ HubWorks

(* The notices the hub makes are notices. *)
LEMMA BodyType ==
  ASSUME NEW type \in {"user-joined", "user-left"}, NEW u \in Users, NEW n
  PROVE  Body(type, u, n) \in Message
BY DEF Body, Message

(* A hub with a notice is a hub. *)
LEMMA NotifyType ==
  ASSUME NEW r \in Rooms, NEW body \in Message, NEW x \in Users \cup {None},
         NEW last \in BOOLEAN, Notify(r, body, x, last)
  PROVE  hub' \in Hub /\ hub'.pc = "notify" /\ hub'.notice \in Notice
BY DEF Notify, Hub, Notice

(* The idle hub is a hub. *)
LEMMA IdleType == Idle \in Hub /\ Idle.pc = "select"
BY DEF Idle, Hub

(* The hub that received a connection is a hub. *)
LEMMA ReceiveType ==
  ASSUME NEW c \in Conns, NEW to \in {"register", "unregister"}, Receive(c, to)
  PROVE  hub' \in Hub /\ hub'.pc = to /\ hub'.client = c
BY DEF Receive, Idle, Hub

(* Moving one connection to another place keeps all connections typed. *)
LEMMA GotoType ==
  ASSUME TypeOK, NEW c \in Conns,
         NEW l \in {"registering", "reading", "leaving", "closing", "gone",
                    "panicking", "dying"}, Goto(c, l)
  PROVE  conn' \in [Conns -> Client]
<1>1. [conn[c] EXCEPT !.pc = l] \in Client
  <2>1. conn[c] \in Client
    BY DEF TypeOK
  <2>2. QED BY <2>1 DEF Client
<1>2. QED BY <1>1 DEF Goto, TypeOK

(* The same when the target of a forwarded message changes. *)
LEMMA TargetType ==
  ASSUME TypeOK, NEW c \in Conns, NEW l \in {"reading", "forwarding"},
         NEW t \in Conns \cup {None},
         conn' = [conn EXCEPT ![c].pc = l, ![c].target = t]
  PROVE  /\ conn' \in [Conns -> Client]
         /\ conn'[c].pc = l /\ conn'[c].target = t
         /\ \A d \in Conns \ {c} : conn'[d] = conn[d]
<1> DEFINE q == [conn[c] EXCEPT !.pc = l, !.target = t]
<1>1. q \in Client /\ q.pc = l /\ q.target = t
  <2>1. conn[c] \in Client
    BY DEF TypeOK
  <2>2. QED BY <2>1 DEF Client
<1>2. conn \in [Conns -> Client]
  BY DEF TypeOK
<1>3. conn' = [conn EXCEPT ![c] = q]
  BY <1>2
<1> HIDE DEF q
<1>4. /\ conn'[c] = q /\ \A d \in Conns \ {c} : conn'[d] = conn[d]
      /\ conn' \in [Conns -> Client]
  BY <1>1, <1>2, <1>3
<1>5. QED BY <1>1, <1>4

(* Going somewhere changes nothing else about a connection. *)
LEMMA GotoKeeps ==
  ASSUME TypeOK, NEW c \in Conns, NEW l, Goto(c, l)
  PROVE  /\ conn'[c].pc = l /\ conn'[c].target = conn[c].target
         /\ \A d \in Conns \ {c} : conn'[d] = conn[d]
         /\ \A d \in Conns : conn'[d].user = conn[d].user /\ conn'[d].room = conn[d].room
<1> DEFINE q == [conn[c] EXCEPT !.pc = l]
<1>1. /\ q.pc = l /\ q.target = conn[c].target
      /\ q.user = conn[c].user /\ q.room = conn[c].room
  BY DEF TypeOK, Client
<1>2. conn' = [conn EXCEPT ![c] = q]
  BY DEF TypeOK, Goto
<1> HIDE DEF q
<1>3. QED BY <1>1, <1>2 DEF TypeOK

(* A non-blocking send keeps the channel a sequence within its capacity. *)
LEMMA OfferedType ==
  ASSUME NEW s \in Seq(Message), NEW m \in Message, Len(s) <= SendCap
  PROVE  Offered(s, m) \in Seq(Message) /\ Len(Offered(s, m)) <= SendCap
<1>1. CASE Len(s) < SendCap
  <2> DEFINE t == Append(s, m)
  <2>1. t \in Seq(Message) /\ Len(t) = Len(s) + 1
    BY AppendProperties
  <2>2. Len(s) \in Nat /\ SendCap \in Nat
    BY LenProperties, CapAssumption
  <2> HIDE DEF t
  <2>3. Len(t) <= SendCap
    BY <1>1, <2>1, <2>2
  <2>4. QED BY <1>1, <2>1, <2>3 DEF Offered, t
<1>2. CASE ~(Len(s) < SendCap)
  BY <1>2 DEF Offered
<1>3. QED BY <1>1, <1>2

(* Taking the first element of a channel keeps it a shorter channel. *)
LEMMA TailType ==
  ASSUME NEW S, NEW s \in Seq(S), s # <<>>
  PROVE  /\ Head(s) \in S /\ Tail(s) \in Seq(S)
         /\ Len(Tail(s)) <= Len(s)
BY HeadTailProperties, LenProperties

(* The types hold when the server starts. *)
LEMMA TypeInit == Init => TypeInv
<1> SUFFICES ASSUME Init PROVE TypeInv
  OBVIOUS
<1>1. conn \in [Conns -> Client] /\ \A c \in Conns : conn[c].pc = "new"
  BY DEF Init, Client
<1>2. /\ closed \subseteq Conns /\ live \subseteq Rooms
      /\ writer \in [Conns -> {"none", "running", "done"}]
      /\ queue \in Seq(Notice)
  BY DEF Init
<1>3. member \in [Rooms -> [Users -> Conns \cup {None}]]
  BY DEF Init
<1>4. socket \in [Conns -> BOOLEAN] /\ panicked \in BOOLEAN
  BY Zenon DEF Init
<1>5. send \in [Conns -> Seq(Message)] /\ \A c \in Conns : Len(send[c]) <= SendCap
  <2>1. <<>> \in Seq(Message) /\ Len(<<>>) = 0
    OBVIOUS
  <2>2. send \in [Conns -> Seq(Message)]
    BY <2>1 DEF Init
  <2>3. QED BY <2>1, <2>2, CapAssumption DEF Init
<1>6. Len(queue) <= BroadcastCap
  BY CapAssumption DEF Init
<1>7. hub \in Hub /\ hub.pc = "select"
  BY IdleType DEF Init
<1>8. QED BY <1>1, <1>2, <1>5, <1>6, <1>7, <1>3, <1>4 DEF TypeInv, TypeOK, HubWorks, Aiming

(* Every step of the hub and of the connections keeps the types. *)
LEMMA TypeStep == TypeInv /\ [Next]_vars => TypeInv'
<1> SUFFICES ASSUME TypeInv, [Next]_vars PROVE TypeInv'
  OBVIOUS
<1> USE DEF TypeInv
<1>1. CASE HubRegister
  <2>1. hub.client \in Conns /\ conn[hub.client] \in Client
    BY <1>1 DEF HubRegister, HubWorks, TypeOK
  <2>2. conn[hub.client].user \in Users /\ conn[hub.client].room \in Rooms
    BY <2>1 DEF Client
  <2>3. hub' \in Hub /\ hub'.pc = "notify" /\ hub'.notice \in Notice
    BY <1>1, <2>2, NotifyType, BodyType DEF HubRegister
  <2>4. member' \in [Rooms -> [Users -> Conns \cup {None}]] /\ live' \subseteq Rooms
    BY <1>1, <2>1, <2>2 DEF HubRegister, TypeOK
  <2>5. QED BY <1>1, <2>3, <2>4 DEF HubRegister, TypeOK, HubWorks, At, Accepted, Aiming
<1>2. CASE HubUnregister
  <2>1. hub.client \in Conns /\ conn[hub.client] \in Client
    BY <1>2 DEF HubUnregister, HubWorks, TypeOK
  <2>2. conn[hub.client].user \in Users /\ conn[hub.client].room \in Rooms
    BY <2>1 DEF Client
  <2>3. hub' \in Hub /\ hub'.pc = "notify" /\ hub'.notice \in Notice
    BY <1>2, <2>2, NotifyType, BodyType DEF HubUnregister, LastOut
  <2>4. member' \in [Rooms -> [Users -> Conns \cup {None}]] /\ closed' \subseteq Conns
    BY <1>2, <2>1, <2>2 DEF HubUnregister, Removed, TypeOK
  <2>5. panicked' \in BOOLEAN
    BY <1>2 DEF HubUnregister
  <2>6. QED BY <1>2, <2>3, <2>4, <2>5 DEF HubUnregister, TypeOK, HubWorks, At, Accepted, Aiming
<1>3. CASE HubUnregisterUnknown
  BY <1>3, IdleType DEF HubUnregisterUnknown, TypeOK, HubWorks, At, Accepted, Aiming
<1>4. CASE HubNotify
  <2> DEFINE q == Append(queue, hub.notice)
  <2>1. q \in Seq(Notice) /\ Len(q) = Len(queue) + 1
    BY <1>4, AppendProperties DEF HubNotify, HubWorks, TypeOK
  <2>2. Len(queue) \in Nat /\ Len(queue) < BroadcastCap /\ BroadcastCap \in Nat
    BY <1>4, LenProperties, CapAssumption DEF HubNotify, CanBuffer, TypeOK
  <2>3. queue' = q
    BY <1>4 DEF HubNotify
  <2> HIDE DEF q
  <2>4. queue' \in Seq(Notice) /\ Len(queue') <= BroadcastCap
    BY <2>1, <2>2, <2>3
  <2>5. live' \subseteq Rooms
    BY <1>4 DEF HubNotify, TypeOK
  <2>6. QED BY <1>4, <2>4, <2>5, IdleType DEF HubNotify, TypeOK, HubWorks, At, Accepted, Aiming
<1>5. CASE HubBroadcast
  <2>1. Head(queue) \in Notice /\ queue' \in Seq(Notice) /\ Len(queue') <= Len(queue)
    BY <1>5, TailType DEF HubBroadcast, TypeOK
  <2>2. Len(queue') <= BroadcastCap
    <3>1. Len(queue') \in Nat /\ Len(queue) \in Nat
      BY <2>1, LenProperties DEF TypeOK
    <3>2. QED BY <2>1, <3>1, CapAssumption DEF TypeOK
  <2>3. Head(queue).body \in Message
    BY <2>1 DEF Notice
  <2>4. ASSUME NEW c \in Conns
        PROVE  send'[c] \in Seq(Message) /\ Len(send'[c]) <= SendCap
    <3>1. send'[c] = Offered(send[c], Head(queue).body) \/ send'[c] = send[c]
      BY <1>5 DEF HubBroadcast
    <3>2. send[c] \in Seq(Message) /\ Len(send[c]) <= SendCap
      BY DEF TypeOK
    <3>3. QED BY <2>3, <3>1, <3>2, OfferedType
  <2>5. send' \in [Conns -> Seq(Message)]
    <3>1. send' = [c \in Conns |-> send'[c]]
      BY <1>5 DEF HubBroadcast
    <3>2. QED BY <2>4, <3>1
  <2>6. panicked' \in BOOLEAN
    BY <1>5 DEF HubBroadcast
  <2>7. QED BY <1>5, <2>1, <2>2, <2>4, <2>5, <2>6 DEF HubBroadcast, TypeOK, HubWorks, At, Accepted, Aiming
<1>6. ASSUME NEW c \in Conns, HubReceiveRegister(c) PROVE TypeInv'
  <2>1. hub' \in Hub /\ hub'.pc = "register" /\ hub'.client = c
    BY <1>6, ReceiveType DEF HubReceiveRegister
  <2>2. conn' \in [Conns -> Client] /\ conn'[c].pc = "reading"
        /\ \A d \in Conns \ {c} : conn'[d] = conn[d]
    BY <1>6, GotoType, GotoKeeps DEF HubReceiveRegister
  <2>3. QED BY <1>6, <2>1, <2>2 DEF HubReceiveRegister, TypeOK, HubWorks, At, Accepted, Aiming
<1>7. ASSUME NEW c \in Conns, HubReceiveUnregister(c) PROVE TypeInv'
  <2>1. hub' \in Hub /\ hub'.pc = "unregister" /\ hub'.client = c
    BY <1>7, ReceiveType DEF HubReceiveUnregister
  <2>2. PICK l \in {"reading", "gone", "dying"} : Goto(c, l) /\ (l = "dying" => At(c, "panicking"))
    BY <1>7 DEF HubReceiveUnregister, AfterUnregister, At
  <2>3. conn' \in [Conns -> Client] /\ conn'[c].pc = l /\ conn'[c].target = conn[c].target
        /\ \A d \in Conns \ {c} : conn'[d] = conn[d]
    BY <2>2, GotoType, GotoKeeps
  <2>4. socket' \in [Conns -> BOOLEAN]
    BY <1>7 DEF HubReceiveUnregister, TypeOK
  <2>5. QED BY <1>7, <2>1, <2>2, <2>3, <2>4 DEF HubReceiveUnregister, TypeOK, HubWorks, At, Accepted, Aiming
<1>8. ASSUME NEW c \in Conns, NEW l \in {"registering", "leaving", "closing", "panicking"}, Goto(c, l),
             l # "registering" => Accepted(c), l = "registering" => At(c, "new"),
             l = "panicking" => At(c, "forwarding"),
             socket' \in [Conns -> BOOLEAN],
             UNCHANGED <<send, closed, writer, member, live, hub, queue, panicked>>
      PROVE  TypeInv'
  <2>1. conn' \in [Conns -> Client] /\ conn'[c].pc = l /\ conn'[c].target = conn[c].target
        /\ \A d \in Conns \ {c} : conn'[d] = conn[d]
    BY <1>8, GotoType, GotoKeeps
  <2>2. HubWorks'
    BY <1>8, <2>1 DEF HubWorks, At, Accepted, Aiming
  <2>3. QED BY <1>8, <2>1, <2>2 DEF TypeOK
<1>9. ASSUME NEW c \in Conns, Connect(c) \/ ReadLeave(c) \/ ReadFails(c) \/ ForwardPanics(c)
      PROVE  TypeInv'
  <2>1. socket' \in [Conns -> BOOLEAN]
    BY <1>9 DEF Connect, ReadLeave, ReadFails, ForwardPanics, TypeOK
  <2>2. QED BY <1>8, <1>9, <2>1 DEF Connect, ReadLeave, ReadFails, ForwardPanics, At, Accepted
<1>10. ASSUME NEW c \in Conns, NEW u \in Users, ReadSignal(c, u) PROVE TypeInv'
  <2>1. conn[c].room \in Rooms
    BY DEF TypeOK, Client
  <2>2. Lookup(c, u) \in Conns
    BY <1>10, <2>1 DEF ReadSignal, Lookup, TypeOK
  <2>3. /\ conn' \in [Conns -> Client]
        /\ conn'[c].pc = "forwarding" /\ conn'[c].target = Lookup(c, u)
        /\ \A d \in Conns \ {c} : conn'[d] = conn[d]
    BY <1>10, <2>2, TargetType DEF ReadSignal
  <2>4. QED BY <1>10, <2>2, <2>3 DEF ReadSignal, TypeOK, HubWorks, At, Accepted, Aiming
<1>11. ASSUME NEW c \in Conns, ForwardSend(c) PROVE TypeInv'
  <2>1. /\ conn' \in [Conns -> Client]
        /\ conn'[c].pc = "reading" /\ conn'[c].target = None
        /\ \A d \in Conns \ {c} : conn'[d] = conn[d]
    BY <1>11, TargetType DEF ForwardSend
  <2> DEFINE t == conn[c].target
             m == [type |-> "signal", from |-> conn[c].user]
  <2>2. t \in Conns /\ m \in Message
    BY <1>11 DEF ForwardSend, HubWorks, At, Aiming, TypeOK, Client, Message
  <2>3. send[t] \in Seq(Message) /\ Len(send[t]) <= SendCap
    BY <2>2 DEF TypeOK
  <2>4. Offered(send[t], m) \in Seq(Message) /\ Len(Offered(send[t], m)) <= SendCap
    BY <2>2, <2>3, OfferedType
  <2>5. send' = [send EXCEPT ![t] = Offered(send[t], m)]
    BY <1>11 DEF ForwardSend
  <2> HIDE DEF t, m
  <2>6. send' \in [Conns -> Seq(Message)] /\ \A d \in Conns : Len(send'[d]) <= SendCap
    BY <2>2, <2>3, <2>4, <2>5 DEF TypeOK
  <2>7. QED BY <1>11, <2>1, <2>6 DEF ForwardSend, TypeOK, HubWorks, At, Accepted, Aiming
<1>12. ASSUME NEW c \in Conns, WriteMessage(c) PROVE TypeInv'
  <2>1. Tail(send[c]) \in Seq(Message) /\ Len(Tail(send[c])) <= SendCap
    <3>1. send[c] \in Seq(Message) /\ send[c] # <<>> /\ Len(send[c]) <= SendCap
      BY <1>12 DEF WriteMessage, TypeOK
    <3>2. Tail(send[c]) \in Seq(Message) /\ Len(Tail(send[c])) <= Len(send[c])
      BY <3>1, TailType
    <3>3. Len(send[c]) \in Nat /\ Len(Tail(send[c])) \in Nat
      BY <3>1, <3>2, LenProperties
    <3>4. QED BY <3>1, <3>2, <3>3, CapAssumption
  <2>2. send' \in [Conns -> Seq(Message)] /\ \A d \in Conns : Len(send'[d]) <= SendCap
    BY <1>12, <2>1 DEF WriteMessage, TypeOK
  <2>3. writer' \in [Conns -> {"none", "running", "done"}]
    BY <1>12 DEF WriteMessage, TypeOK
  <2>4. QED BY <1>12, <2>2, <2>3 DEF WriteMessage, TypeOK, HubWorks, At, Accepted, Aiming
<1>13. ASSUME NEW c \in Conns, WriterEnds(c) \/ Disconnect(c) \/ Die(c) PROVE TypeInv'
  <2>1. /\ socket' \in [Conns -> BOOLEAN] /\ writer' \in [Conns -> {"none", "running", "done"}]
        /\ panicked' \in BOOLEAN
    BY <1>13 DEF WriterEnds, Disconnect, Die, TypeOK
  <2>2. UNCHANGED <<conn, send, closed, member, live, hub, queue>>
    BY <1>13 DEF WriterEnds, Disconnect, Die
  <2>3. QED BY <2>1, <2>2 DEF TypeOK, HubWorks, At, Accepted, Aiming
<1>14. CASE UNCHANGED vars
  BY <1>14 DEF vars, TypeOK, HubWorks, At, Accepted, Aiming
<1>15. QED
  BY <1>1, <1>2, <1>3, <1>4, <1>5, <1>6, <1>7, <1>9, <1>10, <1>11, <1>12, <1>13, <1>14
     DEF Next, HubStep, ConnStep

(* TypeOK of SignalingHub: in every reachable state the variables have      *)
(* their types, and the channels stay within their capacities.              *)
THEOREM HubTypeCorrect == Spec => []TypeOK
<1>1. TypeInv => TypeOK
  BY DEF TypeInv
<1>2. QED BY <1>1, TypeInit, TypeStep, PTL DEF Spec

--------------------------------------------------------------------------------
(* Registered connections. *)

(* The invariant behind RegisteredChannelsOpen: a channel is closed only    *)
(* after its connection was accepted, and the connection that the hub is    *)
(* about to register is not yet closed.                                     *)
ChannelInv ==
  /\ RegisteredChannelsOpen
  /\ \A c \in closed : Accepted(c)
  /\ hub.pc = "register" => hub.client \notin closed

(* A connection keeps its user and its room, and once accepted stays so. *)
LEMMA ConnKeeps ==
  ASSUME TypeInv, [Next]_vars, NEW c \in Conns
  PROVE  /\ conn'[c].user = conn[c].user /\ conn'[c].room = conn[c].room
         /\ Accepted(c) => Accepted(c)'
<1> USE DEF TypeInv
<1>1. CASE conn' = conn
  BY <1>1 DEF Accepted
<1>2. ASSUME NEW d \in Conns,
             NEW l \in {"registering", "reading", "leaving", "closing", "gone",
                        "panicking", "dying"},
             Goto(d, l), l = "registering" => At(d, "new")
      PROVE  /\ conn'[c].user = conn[c].user /\ conn'[c].room = conn[c].room
             /\ Accepted(c) => Accepted(c)'
  <2>1. /\ conn'[d].pc = l /\ \A e \in Conns \ {d} : conn'[e] = conn[e]
        /\ conn'[c].user = conn[c].user /\ conn'[c].room = conn[c].room
    BY <1>2, GotoKeeps
  <2>2. QED BY <1>2, <2>1 DEF Accepted, At
<1>3. ASSUME NEW d \in Conns, NEW l \in {"reading", "forwarding"}, NEW t,
             conn' = [conn EXCEPT ![d].pc = l, ![d].target = t]
      PROVE  /\ conn'[c].user = conn[c].user /\ conn'[c].room = conn[c].room
             /\ Accepted(c) => Accepted(c)'
  <2> DEFINE q == [conn[d] EXCEPT !.pc = l, !.target = t]
  <2>1. conn[d] \in Client /\ conn \in [Conns -> Client]
    BY DEF TypeOK
  <2>2. q.user = conn[d].user /\ q.room = conn[d].room /\ q.pc = l
    BY <2>1 DEF Client
  <2>3. conn' = [conn EXCEPT ![d] = q]
    BY <1>3, <2>1
  <2> HIDE DEF q
  <2>4. conn'[d] = q /\ \A e \in Conns \ {d} : conn'[e] = conn[e]
    BY <2>1, <2>3
  <2>5. QED BY <2>2, <2>4 DEF Accepted
<1>4. CASE HubStep
  <2>1. CASE HubRegister \/ HubUnregister \/ HubUnregisterUnknown \/ HubNotify \/ HubBroadcast
    BY <1>1, <2>1 DEF HubRegister, HubUnregister, HubUnregisterUnknown, HubNotify, HubBroadcast
  <2>2. ASSUME NEW d \in Conns, HubReceiveRegister(d) \/ HubReceiveUnregister(d)
        PROVE  \E l \in {"reading", "gone", "dying"} : Goto(d, l)
    BY <2>2 DEF HubReceiveRegister, HubReceiveUnregister, AfterUnregister
  <2>3. QED BY <1>2, <1>4, <2>1, <2>2 DEF HubStep
<1>5. ASSUME NEW d \in Conns, ConnStep(d)
      PROVE  /\ conn'[c].user = conn[c].user /\ conn'[c].room = conn[c].room
             /\ Accepted(c) => Accepted(c)'
  <2>1. CASE Connect(d) \/ ReadLeave(d) \/ ReadFails(d) \/ ForwardPanics(d)
    BY <1>2, <2>1 DEF Connect, ReadLeave, ReadFails, ForwardPanics
  <2>2. CASE ForwardSend(d) \/ \E u \in Users : ReadSignal(d, u)
    BY <1>3, <2>2 DEF ForwardSend, ReadSignal
  <2>3. CASE WriteMessage(d) \/ WriterEnds(d) \/ Disconnect(d) \/ Die(d)
    BY <1>1, <2>3 DEF WriteMessage, WriterEnds, Disconnect, Die
  <2>4. QED BY <1>5, <2>1, <2>2, <2>3 DEF ConnStep
<1>6. QED BY <1>1, <1>4, <1>5 DEF Next, vars

(* Only registerClient and unregisterClient touch the rooms' clients and    *)
(* close channels.                                                          *)
LEMMA MemberStep ==
  ASSUME [Next]_vars
  PROVE  \/ HubRegister \/ HubUnregister
         \/ /\ UNCHANGED <<member, closed>>
            /\ \/ hub' = hub
               \/ hub'.pc # "register"
               \/ \E c \in Conns : At(c, "registering") /\ hub'.client = c
<1>1. CASE UNCHANGED vars
  BY <1>1 DEF vars
<1>2. CASE HubUnregisterUnknown \/ HubNotify
  BY <1>2, IdleType DEF HubUnregisterUnknown, HubNotify
<1>3. CASE HubBroadcast
  BY <1>3 DEF HubBroadcast
<1>4. ASSUME NEW c \in Conns, HubReceiveRegister(c) PROVE hub'.client = c
  BY <1>4, ReceiveType DEF HubReceiveRegister
<1>5. ASSUME NEW c \in Conns, HubReceiveUnregister(c) PROVE hub'.pc # "register"
  BY <1>5, ReceiveType DEF HubReceiveUnregister
<1>6. ASSUME NEW c \in Conns, ConnStep(c) PROVE UNCHANGED <<member, closed, hub>>
  BY <1>6 DEF ConnStep, Connect, ReadSignal, ForwardSend, ForwardPanics, Die, ReadLeave, ReadFails,
              WriteMessage, WriterEnds, Disconnect
<1>7. QED
  BY <1>1, <1>2, <1>3, <1>4, <1>5, <1>6
     DEF Next, HubStep, HubReceiveRegister, HubReceiveUnregister

(* No connection is registered when the server starts. *)
LEMMA ChannelInit == Init => ChannelInv
<1> SUFFICES ASSUME Init PROVE ChannelInv
  OBVIOUS
<1>1. \A r \in Rooms, u \in Users : member[r][u] = None
  BY DEF Init
<1>2. closed = {} /\ hub.pc = "select"
  BY IdleType DEF Init
<1>3. QED BY <1>1, <1>2 DEF ChannelInv, RegisteredChannelsOpen

(* ChannelInv is preserved by every step. *)
LEMMA ChannelStep == TypeInv /\ ChannelInv /\ [Next]_vars => ChannelInv'
<1> SUFFICES ASSUME TypeInv, ChannelInv, [Next]_vars PROVE ChannelInv'
  OBVIOUS
<1> DEFINE h == hub.client
<1>1. \A c \in Conns : /\ conn'[c].user = conn[c].user /\ conn'[c].room = conn[c].room
                       /\ Accepted(c) => Accepted(c)'
  BY ConnKeeps
<1>2. CASE HubRegister
  <2>1. h \in Conns /\ Accepted(h) /\ h \notin closed
    BY <1>2 DEF HubRegister, TypeInv, HubWorks, ChannelInv
  <2>2. conn[h].room \in Rooms /\ conn[h].user \in Users
    BY <2>1 DEF TypeInv, TypeOK, Client
  <2>3. \A r \in Rooms, u \in Users :
          member'[r][u] = IF r = conn[h].room /\ u = conn[h].user THEN h ELSE member[r][u]
    BY <1>2, <2>2 DEF HubRegister, TypeInv, TypeOK
  <2>4. conn' = conn /\ closed' = closed /\ hub'.pc = "notify"
    BY <1>2 DEF HubRegister, Notify
  <2>5. RegisteredChannelsOpen'
    BY <2>1, <2>3, <2>4 DEF ChannelInv, RegisteredChannelsOpen, Accepted
  <2>6. QED BY <2>4, <2>5 DEF ChannelInv, Accepted
<1>3. CASE HubUnregister
  <2>1. h \in Conns /\ Accepted(h)
    BY <1>3 DEF HubUnregister, TypeInv, HubWorks
  <2>2. conn[h].room \in Rooms /\ conn[h].user \in Users
    BY <2>1 DEF TypeInv, TypeOK, Client
  <2>3. \A r \in Rooms, u \in Users :
          member'[r][u] = IF r = conn[h].room /\ u = conn[h].user THEN None ELSE member[r][u]
    BY <1>3, <2>2 DEF HubUnregister, Removed, TypeInv, TypeOK
  <2>4. conn' = conn /\ closed' = closed \cup {h} /\ hub'.pc = "notify"
    BY <1>3 DEF HubUnregister, Notify
  <2>5. RegisteredChannelsOpen'
    BY <2>3, <2>4 DEF ChannelInv, RegisteredChannelsOpen
  <2>6. QED BY <2>1, <2>4, <2>5 DEF ChannelInv, Accepted
<1>4. CASE UNCHANGED <<member, closed>> /\ ~HubRegister /\ ~HubUnregister
  <2>1. RegisteredChannelsOpen'
    <3> SUFFICES ASSUME NEW r \in Rooms, NEW u \in Users, member[r][u] # None
                 PROVE  LET c == member[r][u]
                        IN  /\ conn'[c].room = r /\ conn'[c].user = u
                            /\ conn'[c].pc \notin {"new", "registering"}
                            /\ c \notin closed
      BY <1>4 DEF RegisteredChannelsOpen
    <3>1. member[r][u] \in Conns
      BY DEF TypeInv, TypeOK
    <3>2. QED BY <1>1, <3>1 DEF ChannelInv, RegisteredChannelsOpen, Accepted
  <2>2. \A c \in closed' : Accepted(c)'
    BY <1>1, <1>4 DEF ChannelInv, TypeInv, TypeOK
  <2>3. hub'.pc = "register" => hub'.client \notin closed'
    BY <1>4, MemberStep DEF ChannelInv, Accepted, At
  <2>4. QED BY <2>1, <2>2, <2>3 DEF ChannelInv
<1>5. QED BY <1>2, <1>3, <1>4, MemberStep

(* RegisteredChannelsOpen: whatever connections come and go, even several   *)
(* of one user, the hub never keeps a closed channel registered.            *)
THEOREM RegisteredChannelsStayOpen == Spec => []RegisteredChannelsOpen
<1>1. ChannelInv => RegisteredChannelsOpen
  BY DEF ChannelInv
<1>2. QED BY <1>1, TypeInit, TypeStep, ChannelInit, ChannelStep, PTL DEF Spec

--------------------------------------------------------------------------------
(* The hub that sends to itself. *)

(* What the connections do leaves the hub where it is. *)
LEMMA ConnLeavesHub ==
  ASSUME NEW c \in Conns, ConnStep(c)
  PROVE  UNCHANGED <<hub, queue, member, live, closed>>
BY DEF ConnStep, Connect, ReadSignal, ForwardSend, ForwardPanics, Die, ReadLeave, ReadFails,
       WriteMessage, WriterEnds, Disconnect

(* A connection starts to forward only while nobody holds the lock, and      *)
(* gets as far as dying only when the hub receives from it.                 *)
LEMMA PlacesOfConn ==
  ASSUME TypeInv, NEW c \in Conns, ConnStep(c), ~Unlocked,
         NEW d \in Conns, NEW l \in {"forwarding", "dying"}, At(d, l)'
  PROVE  At(d, l)
<1>1. ASSUME NEW p \in {"registering", "leaving", "closing", "panicking"}, Goto(c, p)
      PROVE  At(d, l)
  BY <1>1, GotoKeeps DEF At, TypeInv
<1>2. CASE Connect(c) \/ ReadLeave(c) \/ ReadFails(c) \/ ForwardPanics(c)
  BY <1>1, <1>2 DEF Connect, ReadLeave, ReadFails, ForwardPanics
<1>3. CASE ForwardSend(c)
  BY <1>3, TargetType DEF ForwardSend, At, TypeInv
<1>4. CASE WriteMessage(c) \/ WriterEnds(c) \/ Disconnect(c) \/ Die(c)
  BY <1>4 DEF WriteMessage, WriterEnds, Disconnect, Die, At
<1>5. ASSUME NEW u \in Users, ReadSignal(c, u) PROVE FALSE
  BY <1>5 DEF ReadSignal
<1> QED
  BY <1>2, <1>3, <1>4, <1>5 DEF ConnStep

(* WedgedForGood: a full buffer when the hub has a notice stops it for good, *)
(* and with it every lookup and every readPump that has to die.             *)
THEOREM WedgeLasts == Spec => WedgedForGood
<1> DEFINE Stays == /\ Wedged'
                    /\ UNCHANGED <<hub, queue, member, live, closed>>
                    /\ \A c \in Conns, l \in {"forwarding", "dying"} : At(c, l)' => At(c, l)
<1>1. ASSUME TypeInv, [Next]_vars, Wedged
      PROVE  Stays
  <2>1. CASE UNCHANGED vars
    BY <1>1, <2>1 DEF vars, Wedged, At
  <2>2. ASSUME NEW c \in Conns, ConnStep(c) PROVE Stays
    <3>1. UNCHANGED <<hub, queue, member, live, closed>>
      BY <2>2, ConnLeavesHub
    <3>2. ~Unlocked
      BY <1>1 DEF Wedged, Unlocked
    <3>3. \A d \in Conns, l \in {"forwarding", "dying"} : At(d, l)' => At(d, l)
      BY <1>1, <2>2, <3>2, PlacesOfConn
    <3> QED
      BY <1>1, <3>1, <3>3 DEF Wedged
  <2>3. ~(Len(queue) < BroadcastCap)
    <3>1. Len(queue) \in Nat
      BY <1>1, LenProperties DEF TypeInv, TypeOK
    <3> QED
      BY <1>1, <3>1, CapAssumption DEF Wedged
  <2>4. ~HubStep
    BY <1>1, <2>3
       DEF HubStep, Wedged, HubRegister, HubUnregister, HubUnregisterUnknown, HubNotify,
           HubBroadcast, HubReceiveRegister, HubReceiveUnregister, Receive, CanBuffer
  <2> QED
    BY <1>1, <2>1, <2>2, <2>4 DEF Next
<1>2. TypeInv /\ [Next]_vars =>
        [Wedged => /\ Wedged'
                   /\ UNCHANGED <<hub, queue, member, live, closed>>
                   /\ \A c \in Conns, l \in {"forwarding", "dying"} : At(c, l)' => At(c, l)]_vars
  BY <1>1
<1> HIDE DEF Stays
<1> QED
  BY <1>2, TypeInit, TypeStep, PTL DEF Spec, WedgedForGood

(* The invariant behind UnbufferedServesOne: without a buffer nobody is     *)
(* registered until the hub is at its first notice, so nobody forwards.     *)
ServesOneInv ==
  BroadcastCap = 0 =>
    /\ UnbufferedServesOne
    /\ \A c \in Conns : ~At(c, "forwarding")

(* Nobody is registered and nothing sent when the server starts. *)
LEMMA ServesOneInit == Init => ServesOneInv
<1> SUFFICES ASSUME Init PROVE ServesOneInv
  OBVIOUS
<1>1. \A r \in Rooms, u \in Users : member[r][u] = None
  BY DEF Init
<1>2. \A c \in Conns : send[c] = <<>> /\ ~At(c, "forwarding")
  BY DEF Init, At
<1>3. QED BY <1>1, <1>2 DEF ServesOneInv, UnbufferedServesOne

(* ServesOneInv is preserved by every step. *)
LEMMA ServesOneStep ==
  TypeInv /\ ServesOneInv /\ [Next]_vars => ServesOneInv'
<1> SUFFICES ASSUME TypeInv, ServesOneInv, [Next]_vars, BroadcastCap = 0
             PROVE  ServesOneInv'
  BY DEF ServesOneInv
<1> DEFINE h == hub.client
<1>1. /\ \A r \in Rooms, u \in Users : member[r][u] # None => Wedged
      /\ \A c \in Conns : send[c] = <<>> /\ ~At(c, "forwarding")
  BY DEF ServesOneInv, UnbufferedServesOne
<1>2. queue = <<>> /\ Len(queue) = 0
  <2>1. queue \in Seq(Notice) /\ Len(queue) \in Nat /\ Len(queue) <= 0
    BY LenProperties DEF TypeInv, TypeOK
  <2>2. Len(queue) = 0
    BY <2>1
  <2>3. QED BY <2>1, <2>2, EmptySeq
<1>3. CASE HubRegister
  <2>1. h \in Conns
    BY <1>3 DEF HubRegister, TypeInv, HubWorks
  <2>2. conn[h].room \in Rooms /\ conn[h].user \in Users
    BY <2>1 DEF TypeInv, TypeOK, Client
  <2>3. \A r \in Rooms, u \in Users : member[r][u] = None
    BY <1>1, <1>3 DEF HubRegister, Wedged
  <2>4. \A r \in Rooms, u \in Users :
          member'[r][u] # None => r = conn[h].room /\ u = conn[h].user
    BY <1>3, <2>2, <2>3 DEF HubRegister, TypeInv, TypeOK
  <2>5. Wedged'
    BY <1>2, <1>3 DEF HubRegister, Notify, Wedged
  <2>6. \A c \in Conns : send'[c] = <<>> /\ ~At(c, "forwarding")'
    BY <1>1, <1>3 DEF HubRegister, At
  <2>7. QED BY <2>4, <2>5, <2>6 DEF ServesOneInv, UnbufferedServesOne
<1>4. ~HubUnregister
  <2>1. ASSUME HubUnregister PROVE FALSE
    <3>1. h \in Conns /\ hub.pc = "unregister"
      BY <2>1 DEF HubUnregister, TypeInv, HubWorks
    <3>2. conn[h].room \in Rooms /\ conn[h].user \in Users
      BY <3>1 DEF TypeInv, TypeOK, Client
    <3>3. QED BY <1>1, <2>1, <3>1, <3>2 DEF HubUnregister, Registered, Wedged
  <2>2. QED BY <2>1
<1>5. ~HubBroadcast /\ ~HubNotify
  BY <1>2 DEF HubBroadcast, HubNotify, CanBuffer
<1>6. ASSUME NEW c \in Conns, NEW u \in Users, ReadSignal(c, u) PROVE FALSE
  <2>1. conn[c].room \in Rooms
    BY DEF TypeInv, TypeOK, Client
  <2>2. QED BY <1>1, <1>6, <2>1 DEF ReadSignal, Lookup, Wedged, Unlocked
<1>7. ASSUME NEW c \in Conns, ForwardSend(c) \/ ForwardPanics(c) \/ WriteMessage(c) PROVE FALSE
  BY <1>1, <1>7 DEF ForwardSend, ForwardPanics, WriteMessage
<1>8. ASSUME UNCHANGED <<member, send>>, Wedged => Wedged',
             \A c \in Conns : ~At(c, "forwarding")'
      PROVE  ServesOneInv'
  BY <1>8 DEF ServesOneInv, UnbufferedServesOne
<1>9. ASSUME NEW c \in Conns,
             NEW l \in {"registering", "reading", "leaving", "closing", "gone", "dying"}, Goto(c, l)
      PROVE  \A d \in Conns : ~At(d, "forwarding")'
  BY <1>1, <1>9, GotoKeeps DEF At, TypeInv
<1>10. ASSUME NEW c \in Conns, HubReceiveRegister(c) \/ HubReceiveUnregister(c)
       PROVE  ServesOneInv'
  <2>1. ~Wedged /\ UNCHANGED <<member, send>>
    BY <1>10 DEF HubReceiveRegister, HubReceiveUnregister, Receive, Wedged
  <2>2. \E l \in {"reading", "gone", "dying"} : Goto(c, l)
    BY <1>10 DEF HubReceiveRegister, HubReceiveUnregister, AfterUnregister
  <2>3. QED BY <1>8, <1>9, <2>1, <2>2
<1>11. ASSUME NEW c \in Conns, Connect(c) \/ ReadLeave(c) \/ ReadFails(c)
       PROVE  ServesOneInv'
  <2>1. (Wedged => Wedged') /\ UNCHANGED <<member, send>>
    BY <1>11 DEF Connect, ReadLeave, ReadFails, Wedged
  <2>2. \E l \in {"registering", "leaving", "closing"} : Goto(c, l)
    BY <1>11 DEF Connect, ReadLeave, ReadFails
  <2>3. QED BY <1>8, <1>9, <2>1, <2>2
<1>12. ASSUME NEW c \in Conns, WriterEnds(c) \/ Disconnect(c) \/ Die(c) PROVE ServesOneInv'
  <2>1. UNCHANGED <<member, send, conn, hub, queue>>
    BY <1>12 DEF WriterEnds, Disconnect, Die
  <2>2. QED BY <1>1, <1>8, <2>1 DEF Wedged, At
<1>13. CASE HubUnregisterUnknown
  <2>1. ~Wedged /\ UNCHANGED <<member, send, conn>>
    BY <1>13 DEF HubUnregisterUnknown, Wedged
  <2>2. QED BY <1>1, <1>8, <2>1 DEF At
<1>14. CASE UNCHANGED vars
  BY <1>1, <1>8, <1>14 DEF vars, Wedged, At
<1>15. QED
  BY <1>3, <1>4, <1>5, <1>6, <1>7, <1>10, <1>11, <1>12, <1>13, <1>14
     DEF Next, HubStep, ConnStep

(* UnbufferedServesOne: with the channel the program makes, at most one     *)
(* connection is ever registered and no message reaches anybody.            *)
THEOREM UnbufferedHubServesOne == Spec => []UnbufferedServesOne
<1>1. ServesOneInv => UnbufferedServesOne
  BY DEF ServesOneInv, UnbufferedServesOne
<1>2. QED BY <1>1, TypeInit, TypeStep, ServesOneInit, ServesOneStep, PTL DEF Spec

--------------------------------------------------------------------------------
(* Rooms that exist. *)

(* A step that changes the clients of no room, and deletes none. *)
Steady ==
  /\ UNCHANGED <<member, live>>
  /\ hub' = hub \/ (hub.pc # "notify" /\ hub'.pc # "notify")

(* The rooms and their clients change in three steps of the hub. *)
LEMMA RoomsStep ==
  ASSUME [Next]_vars
  PROVE  HubRegister \/ HubUnregister \/ HubNotify \/ Steady
<1>1. CASE UNCHANGED vars
  BY <1>1 DEF vars, Steady
<1>2. CASE HubUnregisterUnknown
  BY <1>2, IdleType DEF HubUnregisterUnknown, Steady
<1>3. CASE HubBroadcast
  BY <1>3 DEF HubBroadcast, Steady
<1>4. ASSUME NEW c \in Conns, HubReceiveRegister(c) \/ HubReceiveUnregister(c) PROVE Steady
  BY <1>4, ReceiveType DEF HubReceiveRegister, HubReceiveUnregister, Receive, Steady
<1>5. ASSUME NEW c \in Conns, ConnStep(c) PROVE Steady
  BY <1>5 DEF ConnStep, Connect, ReadSignal, ForwardSend, ForwardPanics, Die, ReadLeave, ReadFails,
              WriteMessage, WriterEnds, Disconnect, Steady
<1> QED
  BY <1>1, <1>2, <1>3, <1>4, <1>5 DEF Next, HubStep

(* The room about to be deleted. *)
LastIsEmpty == hub.pc = "notify" /\ hub.last => Clients(hub.notice.room) = {}

(* The invariant behind LiveRooms: a room about to be deleted is empty, and  *)
(* rooms have finitely many clients, so that the count the code compares     *)
(* with zero tells whether anybody is left.                                *)
RoomsInv ==
  /\ LiveRooms
  /\ LastIsEmpty
  /\ \A r \in Rooms : IsFiniteSet(Clients(r))

(* There are no rooms at the start. *)
LEMMA RoomsInit == Init => RoomsInv
<1> SUFFICES ASSUME Init PROVE RoomsInv
  OBVIOUS
<1>1. \A r \in Rooms : Clients(r) = {}
  BY DEF Init, Clients
<1>2. live = {} /\ hub.pc = "select"
  BY IdleType DEF Init
<1> QED
  BY <1>1, <1>2, FS_EmptySet DEF RoomsInv, LastIsEmpty, LiveRooms

(* A registration adds a client, and the room if there was none. *)
LEMMA RegisterRooms ==
  ASSUME TypeInv, RoomsInv, HubRegister
  PROVE  RoomsInv'
<1> DEFINE u == conn[hub.client].user
           q == conn[hub.client].room
<1>1. hub.client \in Conns /\ u \in Users /\ q \in Rooms
  <2>1. hub.client \in Conns
    BY DEF HubRegister, TypeInv, HubWorks
  <2> QED
    BY <2>1 DEF TypeInv, TypeOK, Client
<1>2. /\ live = {r \in Rooms : Clients(r) # {}} /\ live' = live \cup {q}
      /\ hub'.pc = "notify" /\ ~hub'.last
  BY DEF HubRegister, Notify, RoomsInv, LiveRooms
<1>3. \A r \in Rooms, v \in Users :
        member'[r][v] = IF r = q /\ v = u THEN hub.client ELSE member[r][v]
  BY <1>1 DEF HubRegister, TypeInv, TypeOK
<1> HIDE DEF u, q
<1>4. \A r \in Rooms : Clients(r)' = IF r = q THEN Clients(r) \cup {u} ELSE Clients(r)
  BY <1>1, <1>3, NoneAssumption DEF Clients
<1>5. \A r \in Rooms : IsFiniteSet(Clients(r)')
  BY <1>4, FS_AddElement DEF RoomsInv
<1>6. live' = {r \in Rooms : Clients(r)' # {}}
  BY <1>1, <1>2, <1>4
<1> QED
  BY <1>2, <1>5, <1>6 DEF RoomsInv, LastIsEmpty, LiveRooms

(* An unregistration removes a client, and finds out whether it was the last. *)
LEMMA UnregisterRooms ==
  ASSUME TypeInv, RoomsInv, HubUnregister
  PROVE  RoomsInv'
<1>1. PICK u \in Users, q \in Rooms : u = conn[hub.client].user /\ q = conn[hub.client].room
  <2>1. hub.client \in Conns
    BY DEF HubUnregister, TypeInv, HubWorks
  <2> QED
    BY <2>1 DEF TypeInv, TypeOK, Client
<1>2. /\ live = {r \in Rooms : Clients(r) # {}} /\ live' = live /\ q \in live
      /\ hub'.pc = "notify" /\ hub'.notice.room = q
      /\ hub'.last = (Cardinality(Clients(q) \ {u}) = 0)
  BY <1>1 DEF HubUnregister, Notify, LastOut, RoomsInv, LiveRooms
<1>3. \A r \in Rooms, v \in Users :
        member'[r][v] = IF r = q /\ v = u THEN None ELSE member[r][v]
  BY <1>1 DEF HubUnregister, Removed, TypeInv, TypeOK
<1>4. \A r \in Rooms : Clients(r)' = IF r = q THEN Clients(r) \ {u} ELSE Clients(r)
  BY <1>1, <1>3 DEF Clients
<1>5. \A r \in Rooms : IsFiniteSet(Clients(r)')
  BY <1>4, FS_RemoveElement DEF RoomsInv
<1>6. hub'.last <=> Clients(q)' = {}
  BY <1>1, <1>2, <1>4, <1>5, FS_EmptySet
<1>7. IF hub'.last THEN live' = {r \in Rooms : Clients(r)' # {}} \cup {q}
                   ELSE live' = {r \in Rooms : Clients(r)' # {}}
  BY <1>1, <1>2, <1>4, <1>6
<1>8. LastIsEmpty'
  BY <1>2, <1>6 DEF Clients, LastIsEmpty
<1> QED
  BY <1>2, <1>5, <1>7, <1>8 DEF RoomsInv, LastIsEmpty, LiveRooms

(* RoomsInv is preserved by every step. *)
LEMMA RoomsInvStep == TypeInv /\ RoomsInv /\ [Next]_vars => RoomsInv'
<1> SUFFICES ASSUME TypeInv, RoomsInv, [Next]_vars PROVE RoomsInv'
  OBVIOUS
<1>1. CASE HubNotify
  <2>1. /\ hub.pc = "notify" /\ hub'.pc = "select" /\ member' = member
        /\ live' = IF hub.last THEN live \ {hub.notice.room} ELSE live
    BY <1>1, IdleType DEF HubNotify
  <2>2. live' = {r \in Rooms : Clients(r) # {}}
    BY <2>1 DEF RoomsInv, LastIsEmpty, LiveRooms
  <2> QED
    BY <2>1, <2>2 DEF RoomsInv, LastIsEmpty, LiveRooms, Clients
<1>2. CASE Steady
  BY <1>2 DEF Steady, RoomsInv, LastIsEmpty, LiveRooms, Clients
<1> QED
  BY <1>1, <1>2, RegisterRooms, UnregisterRooms, RoomsStep

(* LiveRooms: between two notices the hub keeps exactly the rooms that have  *)
(* clients, whatever connections of one user come and go.                   *)
THEOREM LiveRoomsHold == Spec => []LiveRooms
<1>1. RoomsInv => LiveRooms
  BY DEF RoomsInv
<1> QED
  BY <1>1, TypeInit, TypeStep, RoomsInit, RoomsInvStep, PTL DEF Spec

--------------------------------------------------------------------------------
(* What is in the channels. *)

(* The messages that may wait for a connection: signals of its room. *)
Signals(c) ==
  {m \in Message : m.type = "signal" =>
     \E d \in Conns : /\ Accepted(d)
                      /\ conn[d].room = conn[c].room /\ conn[d].user = m.from}

(* What the hub itself sends is no signal. *)
Unsigned == {n \in Notice : n.body.type # "signal"}

(* A signal is, or was, for an accepted connection of the same room. *)
Aimed(c) == Accepted(conn[c].target) /\ conn[conn[c].target].room = conn[c].room

(* The invariant behind SignalsStayInRoom: the hub has only its own notices, *)
(* and a readPump that has a target has looked it up in its own room.       *)
SignalInv ==
  /\ \A c \in Conns : send[c] \in Seq(Signals(c)) /\ (send[c] # <<>> => Accepted(c))
  /\ queue \in Seq(Unsigned)
  /\ hub.pc = "notify" => hub.notice \in Unsigned
  /\ \A c \in Conns : Aiming(c) => Aimed(c)

(* Nothing has been sent at the start. *)
LEMMA SignalInit == Init => SignalInv
<1> SUFFICES ASSUME Init PROVE SignalInv
  OBVIOUS
<1>1. \A S : <<>> \in Seq(S)
  OBVIOUS
<1>2. /\ \A c \in Conns : send[c] = <<>> /\ conn[c].pc = "new"
      /\ queue = <<>> /\ hub.pc = "select"
  BY IdleType DEF Init
<1> QED
  BY <1>1, <1>2 DEF SignalInv, Aiming

(* What may wait for a connection may wait for it after any step. *)
LEMMA SignalsGrow ==
  ASSUME TypeInv, [Next]_vars, NEW c \in Conns
  PROVE  Signals(c) \subseteq Signals(c)'
BY ConnKeeps DEF Signals

(* The channels that a step leaves alone keep what they may have. *)
LEMMA SendKeeps ==
  ASSUME TypeInv, SignalInv, [Next]_vars, NEW c \in Conns, send'[c] = send[c]
  PROVE  send'[c] \in Seq(Signals(c)') /\ (send'[c] # <<>> => Accepted(c)')
<1>1. \A S, T, s : S \subseteq T /\ s \in Seq(S) => s \in Seq(T)
  OBVIOUS
<1>2. send[c] \in Seq(Signals(c)) /\ (send[c] # <<>> => Accepted(c))
  BY DEF SignalInv
<1>3. send'[c] \in Seq(Signals(c)')
  BY <1>1, <1>2, SignalsGrow
<1> QED
  BY <1>2, <1>3, ConnKeeps

(* So do the channels to which a step offers a message that may wait there. *)
LEMMA OfferKeeps ==
  ASSUME TypeInv, SignalInv, [Next]_vars, NEW c \in Conns, NEW m \in Signals(c), Accepted(c),
         send'[c] = Offered(send[c], m)
  PROVE  send'[c] \in Seq(Signals(c)') /\ (send'[c] # <<>> => Accepted(c)')
<1>1. \A S, T, s : S \subseteq T /\ s \in Seq(S) => s \in Seq(T)
  OBVIOUS
<1>2. send[c] \in Seq(Signals(c))
  BY DEF SignalInv
<1>3. Append(send[c], m) \in Seq(Signals(c))
  BY <1>2, AppendProperties
<1>4. send'[c] \in Seq(Signals(c))
  BY <1>2, <1>3 DEF Offered
<1>5. send'[c] \in Seq(Signals(c)')
  BY <1>1, <1>4, SignalsGrow
<1> QED
  BY <1>5, ConnKeeps

(* And the one from which writePump takes. *)
LEMMA TailKeeps ==
  ASSUME TypeInv, SignalInv, [Next]_vars, NEW c \in Conns, send[c] # <<>>,
         send'[c] = Tail(send[c])
  PROVE  send'[c] \in Seq(Signals(c)') /\ (send'[c] # <<>> => Accepted(c)')
<1>1. \A S, T, s : S \subseteq T /\ s \in Seq(S) => s \in Seq(T)
  OBVIOUS
<1>2. send[c] \in Seq(Signals(c)) /\ Accepted(c)
  BY DEF SignalInv
<1>3. Tail(send[c]) \in Seq(Signals(c))
  BY <1>2, TailType
<1>4. send'[c] \in Seq(Signals(c)')
  BY <1>1, <1>3, SignalsGrow
<1> QED
  BY <1>2, <1>4, ConnKeeps

(* A step of the hub or of a connection keeps the channels Send. *)
LEMMA SendStep ==
  ASSUME TypeInv, ChannelInv, SignalInv, [Next]_vars, NEW c \in Conns
  PROVE  send'[c] \in Seq(Signals(c)') /\ (send'[c] # <<>> => Accepted(c)')
<1>1. CASE HubBroadcast
  <2> DEFINE n == Head(queue)
  <2>1. n \in Unsigned
    BY <1>1, TailType DEF HubBroadcast, SignalInv
  <2>2. n.body \in Signals(c)
    BY <2>1 DEF Unsigned, Notice, Signals
  <2>3. c \in Audience(n) => Accepted(c)
    BY <2>1 DEF Audience, Clients, Unsigned, Notice, ChannelInv, RegisteredChannelsOpen, Accepted
  <2>4. send'[c] = IF c \in Audience(n) THEN Offered(send[c], n.body) ELSE send[c]
    BY <1>1 DEF HubBroadcast
  <2> QED
    BY <2>2, <2>3, <2>4, SendKeeps, OfferKeeps
<1>2. ASSUME NEW d \in Conns, ForwardSend(d)
      PROVE  send'[c] \in Seq(Signals(c)') /\ (send'[c] # <<>> => Accepted(c)')
  <2> DEFINE t == conn[d].target
             m == [type |-> "signal", from |-> conn[d].user]
  <2>1. t \in Conns /\ Accepted(t) /\ conn[t].room = conn[d].room /\ Accepted(d)
    BY <1>2 DEF ForwardSend, TypeInv, HubWorks, SignalInv, Aimed, At, Accepted, Aiming
  <2>2. m \in Message
    BY DEF Message, TypeInv, TypeOK, Client
  <2>3. m \in Signals(t)
    BY <2>1, <2>2 DEF Signals
  <2>4. send'[c] = send[c] \/ (c = t /\ send'[c] = Offered(send[c], m))
    BY <1>2, <2>1 DEF ForwardSend, TypeInv, TypeOK
  <2> HIDE DEF t, m
  <2> QED
    BY <2>1, <2>3, <2>4, SendKeeps, OfferKeeps
<1>3. ASSUME NEW d \in Conns, WriteMessage(d)
      PROVE  send'[c] \in Seq(Signals(c)') /\ (send'[c] # <<>> => Accepted(c)')
  <2>1. send[d] # <<>> /\ send' = [send EXCEPT ![d] = Tail(send[d])]
    BY <1>3 DEF WriteMessage
  <2>2. send'[c] = send[c] \/ (c = d /\ send'[c] = Tail(send[c]))
    BY <2>1 DEF TypeInv, TypeOK
  <2> QED
    BY <2>1, <2>2, SendKeeps, TailKeeps
<1>4. CASE UNCHANGED send
  BY <1>4, SendKeeps
<1>5. CASE UNCHANGED vars
  BY <1>4, <1>5 DEF vars
<1>6. CASE HubStep /\ ~HubBroadcast
  BY <1>4, <1>6 DEF HubStep, HubRegister, HubUnregister, HubUnregisterUnknown, HubNotify,
                    HubReceiveRegister, HubReceiveUnregister
<1>7. ASSUME NEW d \in Conns, ConnStep(d), ~ForwardSend(d), ~WriteMessage(d)
      PROVE  UNCHANGED send
  BY <1>7 DEF ConnStep, Connect, ReadSignal, ForwardPanics, Die, ReadLeave, ReadFails, WriterEnds,
              Disconnect
<1> QED
  BY <1>1, <1>2, <1>3, <1>4, <1>5, <1>6, <1>7 DEF Next

(* The hub makes notices, and forwards them. *)
LEMMA NoticeStep ==
  ASSUME TypeInv, SignalInv, [Next]_vars
  PROVE  /\ queue' \in Seq(Unsigned)
         /\ hub'.pc = "notify" => hub'.notice \in Unsigned
<1>0. queue \in Seq(Unsigned) /\ (hub.pc = "notify" => hub.notice \in Unsigned)
  BY DEF SignalInv
<1>1. ASSUME NEW r \in Rooms, NEW u \in Users, NEW type \in {"user-joined", "user-left"}, NEW n,
             NEW x \in Users \cup {None}, NEW last, Notify(r, Body(type, u, n), x, last)
      PROVE  hub'.notice \in Unsigned
  <2>1. Body(type, u, n) \in Message /\ Body(type, u, n).type # "signal"
    BY BodyType DEF Body, Empty
  <2> QED
    BY <1>1, <2>1 DEF Notify, Unsigned, Notice
<1>2. CASE HubRegister \/ HubUnregister
  <2>1. hub.client \in Conns
    BY <1>2 DEF HubRegister, HubUnregister, TypeInv, HubWorks
  <2>2. conn[hub.client].room \in Rooms /\ conn[hub.client].user \in Users
    BY <2>1 DEF TypeInv, TypeOK, Client
  <2> QED
    BY <1>0, <1>1, <1>2, <2>2 DEF HubRegister, HubUnregister
<1>3. CASE HubNotify
  <2>1. Append(queue, hub.notice) \in Seq(Unsigned)
    BY <1>0, <1>3, AppendProperties DEF HubNotify
  <2> QED
    BY <1>3, <2>1, IdleType DEF HubNotify
<1>4. CASE HubBroadcast
  BY <1>0, <1>4, TailType DEF HubBroadcast
<1>5. CASE HubUnregisterUnknown
  BY <1>0, <1>5, IdleType DEF HubUnregisterUnknown
<1>6. ASSUME NEW c \in Conns, HubReceiveRegister(c) \/ HubReceiveUnregister(c)
      PROVE  queue' = queue /\ hub'.pc # "notify"
  BY <1>6, ReceiveType DEF HubReceiveRegister, HubReceiveUnregister
<1>7. ASSUME NEW c \in Conns, ConnStep(c) PROVE UNCHANGED <<queue, hub>>
  BY <1>7 DEF ConnStep, Connect, ReadSignal, ForwardSend, ForwardPanics, Die, ReadLeave, ReadFails,
              WriteMessage, WriterEnds, Disconnect
<1>8. CASE UNCHANGED vars
  BY <1>0, <1>8 DEF vars
<1> QED
  BY <1>0, <1>2, <1>3, <1>4, <1>5, <1>6, <1>7, <1>8 DEF Next, HubStep

(* A readPump whose send panicked. *)
Doomed(c) == conn[c].pc \in {"panicking", "dying"}

(* A connection that has a target has just read a signal, or had it before;  *)
(* and it is doomed only when that target's channel was closed.             *)
LEMMA AimStep ==
  ASSUME TypeInv, [Next]_vars, NEW c \in Conns, Aiming(c)'
  PROVE  \/ \E u \in Users : ReadSignal(c, u)
         \/ /\ Aiming(c) /\ conn'[c].target = conn[c].target
            /\ Doomed(c)' => Doomed(c) \/ conn[c].target \in closed
<1> DEFINE Kept == /\ Aiming(c) /\ conn'[c].target = conn[c].target
                   /\ Doomed(c)' => Doomed(c) \/ conn[c].target \in closed
<1>1. ASSUME conn'[c] = conn[c] PROVE Kept
  BY <1>1 DEF Aiming, Doomed
<1>2. ASSUME NEW d \in Conns,
             NEW l \in {"registering", "reading", "leaving", "closing", "gone",
                        "panicking", "dying"}, Goto(d, l),
             l = "dying" => At(d, "panicking"),
             l = "panicking" => At(d, "forwarding") /\ conn[d].target \in closed
      PROVE  Kept
  <2>1. /\ conn'[d].pc = l /\ conn'[d].target = conn[d].target
        /\ \A e \in Conns \ {d} : conn'[e] = conn[e]
    BY <1>2, GotoKeeps DEF TypeInv
  <2>2. CASE c = d
    BY <1>2, <2>1, <2>2 DEF At, Aiming, Doomed
  <2>3. CASE c # d
    BY <1>1, <2>1, <2>3
  <2> QED
    BY <2>2, <2>3
<1>3. ASSUME NEW d \in Conns, ForwardSend(d) PROVE conn'[c] = conn[c]
  <2>1. conn'[d].pc = "reading" /\ \A e \in Conns \ {d} : conn'[e] = conn[e]
    BY <1>3, TargetType DEF ForwardSend, TypeInv
  <2> QED
    BY <2>1 DEF Aiming
<1>4. ASSUME NEW d \in Conns, NEW u \in Users, ReadSignal(d, u), d # c PROVE conn'[c] = conn[c]
  BY <1>4 DEF ReadSignal, TypeInv, TypeOK
<1>5. CASE HubStep
  <2>1. CASE HubRegister \/ HubUnregister \/ HubUnregisterUnknown \/ HubNotify \/ HubBroadcast
    BY <1>1, <2>1 DEF HubRegister, HubUnregister, HubUnregisterUnknown, HubNotify, HubBroadcast
  <2>2. ASSUME NEW d \in Conns, HubReceiveRegister(d) \/ HubReceiveUnregister(d)
        PROVE  \E l \in {"reading", "gone", "dying"} :
                 Goto(d, l) /\ (l = "dying" => At(d, "panicking"))
    BY <2>2 DEF HubReceiveRegister, HubReceiveUnregister, AfterUnregister, At
  <2> QED
    BY <1>2, <1>5, <2>1, <2>2 DEF HubStep
<1>6. ASSUME NEW d \in Conns, ConnStep(d)
      PROVE  Kept \/ \E u \in Users : ReadSignal(c, u)
  <2>1. CASE Connect(d) \/ ReadLeave(d) \/ ReadFails(d) \/ ForwardPanics(d)
    <3>1. PICK l \in {"registering", "leaving", "closing", "panicking"} :
            /\ Goto(d, l)
            /\ l = "panicking" => At(d, "forwarding") /\ conn[d].target \in closed
      BY <2>1 DEF Connect, ReadLeave, ReadFails, ForwardPanics
    <3> QED
      BY <1>2, <3>1
  <2>2. CASE WriteMessage(d) \/ WriterEnds(d) \/ Disconnect(d) \/ Die(d)
    BY <1>1, <2>2 DEF WriteMessage, WriterEnds, Disconnect, Die
  <2> QED
    BY <1>1, <1>3, <1>4, <1>6, <2>1, <2>2 DEF ConnStep
<1> QED
  BY <1>1, <1>5, <1>6 DEF Next, vars

(* Who has a target has found a connection of its own room. *)
LEMMA TargetStep ==
  ASSUME TypeInv, ChannelInv, SignalInv, [Next]_vars, NEW c \in Conns, Aiming(c)'
  PROVE  Aimed(c)'
<1>1. conn[c] \in Client
  BY DEF TypeInv, TypeOK
<1>2. ASSUME NEW t \in Conns, Accepted(t), conn[t].room = conn[c].room, conn'[c].target = t
      PROVE  Aimed(c)'
  BY <1>2, ConnKeeps DEF Aimed, Accepted
<1>3. CASE Aiming(c) /\ conn'[c].target = conn[c].target
  BY <1>2, <1>3 DEF SignalInv, Aimed, TypeInv, HubWorks
<1>4. ASSUME NEW u \in Users, ReadSignal(c, u) PROVE Aimed(c)'
  <2> DEFINE t == Lookup(c, u)
  <2>1. t \in Conns /\ Accepted(t) /\ conn[t].room = conn[c].room
    BY <1>1, <1>4 DEF ReadSignal, Lookup, Client, TypeInv, TypeOK, ChannelInv,
                      RegisteredChannelsOpen, Accepted
  <2>2. conn'[c].target = t
    BY <1>4, <2>1, TargetType DEF ReadSignal, TypeInv
  <2> HIDE DEF t
  <2> QED
    BY <1>2, <2>1, <2>2
<1> QED
  BY <1>3, <1>4, AimStep

(* SignalInv is preserved by every step. *)
LEMMA SignalStep == TypeInv /\ ChannelInv /\ SignalInv /\ [Next]_vars => SignalInv'
BY SendStep, NoticeStep, TargetStep DEF SignalInv

(* SignalsStayInRoom: what waits in a Send channel waits for an accepted     *)
(* connection, and a signal comes from a user of the same room.             *)
THEOREM SignalsStay == Spec => []SignalsStayInRoom
<1>1. SignalInv => SignalsStayInRoom
  <2> SUFFICES ASSUME SignalInv, NEW c \in Conns, NEW k \in DOMAIN send[c]
               PROVE  Accepted(c) /\ send[c][k] \in Signals(c)
    BY DEF SignalsStayInRoom, Signals
  <2>1. send[c] \in Seq(Signals(c)) /\ (send[c] # <<>> => Accepted(c))
    BY DEF SignalInv
  <2>2. send[c] # <<>>
    OBVIOUS
  <2>3. k \in 1..Len(send[c])
    BY <2>1
  <2> QED
    BY <2>1, <2>2, <2>3, ElementOfSeq
<1> QED
  BY <1>1, TypeInit, TypeStep, ChannelInit, ChannelStep, SignalInit, SignalStep, PTL DEF Spec

--------------------------------------------------------------------------------
(* How the process dies. *)

(* A readPump is doomed by a closed channel, and channels stay closed. *)
DoomInv == \A c \in Conns : Doomed(c) => conn[c].target \in closed

(* No readPump is doomed at the start. *)
LEMMA DoomInit == Init => DoomInv
BY DEF Init, DoomInv, Doomed

(* DoomInv is preserved by every step. *)
LEMMA DoomStep == TypeInv /\ DoomInv /\ [Next]_vars => DoomInv'
<1> SUFFICES ASSUME TypeInv, DoomInv, [Next]_vars, NEW c \in Conns, Doomed(c)'
             PROVE  conn'[c].target \in closed'
  BY DEF DoomInv
<1>1. closed \subseteq closed'
  BY MemberStep DEF HubRegister, HubUnregister
<1>2. ASSUME NEW u \in Users, ReadSignal(c, u) PROVE FALSE
  <2>1. conn[c].room \in Rooms
    BY DEF TypeInv, TypeOK, Client
  <2>2. Lookup(c, u) \in Conns
    BY <1>2, <2>1 DEF ReadSignal, Lookup, TypeInv, TypeOK
  <2>3. conn'[c].pc = "forwarding"
    BY <1>2, <2>2, TargetType DEF ReadSignal, TypeInv
  <2> QED
    BY <2>3 DEF Doomed
<1>3. conn'[c].target = conn[c].target /\ (Doomed(c) \/ conn[c].target \in closed)
  <2>1. Aiming(c)'
    BY DEF Doomed, Aiming
  <2> QED
    BY <1>2, <2>1, AimStep
<1> QED
  BY <1>1, <1>3 DEF DoomInv

(* KnownPanics: the process dies of a signal forwarded to a channel closed   *)
(* since its lookup, once the hub has let its sender unregister, or of a     *)
(* second close after the user had registered another connection; never of  *)
(* a notice.                                                                *)
THEOREM PanicsAreKnown == Spec => KnownPanics
<1> DEFINE Known ==
       \/ \E c \in Conns : LET t == conn[c].target
                           IN  /\ At(c, "dying") /\ t \in closed
                               /\ conn[t].room = conn[c].room
       \/ /\ hub.pc = "unregister"
          /\ \E d \in Conns \ {hub.client} :
               /\ member[conn[d].room][conn[d].user] = d
               /\ conn[d].user = conn[hub.client].user
               /\ conn[d].room = conn[hub.client].room
<1>1. ASSUME TypeInv, ChannelInv, SignalInv, DoomInv, Next, panicked' PROVE Known
  <2>1. ~panicked
    BY <1>1 DEF Next
  <2>2. CASE HubUnregister
    <3> DEFINE h == hub.client
               d == member[conn[h].room][conn[h].user]
    <3>1. h \in Conns /\ hub.pc = "unregister" /\ h \in closed /\ Registered(h)
      BY <1>1, <2>2 DEF HubUnregister, TypeInv, HubWorks
    <3>2. conn[h].room \in Rooms /\ conn[h].user \in Users
      BY <1>1, <3>1 DEF TypeInv, TypeOK, Client
    <3>3. d \in Conns
      BY <1>1, <3>1, <3>2 DEF Registered, TypeInv, TypeOK
    <3>4. d \notin closed /\ conn[d].room = conn[h].room /\ conn[d].user = conn[h].user
      BY <1>1, <3>1, <3>2 DEF Registered, ChannelInv, RegisteredChannelsOpen
    <3> QED
      BY <3>1, <3>3, <3>4
  <2>3. CASE HubBroadcast
    <3> DEFINE n == Head(queue)
    <3>1. n \in Notice
      BY <1>1, <2>3, TailType DEF HubBroadcast, TypeInv, TypeOK
    <3>2. \A c \in Audience(n) : c \notin closed
      BY <1>1, <3>1 DEF Audience, Clients, Notice, ChannelInv, RegisteredChannelsOpen
    <3> QED
      BY <1>1, <2>3, <3>2 DEF HubBroadcast
  <2>4. ASSUME NEW c \in Conns, Die(c) PROVE Known
    <3>1. At(c, "dying")
      BY <2>4 DEF Die
    <3>2. conn[c].target \in closed
      BY <1>1, <3>1 DEF DoomInv, Doomed, At
    <3>3. conn[conn[c].target].room = conn[c].room
      BY <1>1, <3>1 DEF SignalInv, Aiming, Aimed, At
    <3> QED
      BY <3>1, <3>2, <3>3
  <2>5. ASSUME panicked' = panicked PROVE FALSE
    BY <1>1, <2>1, <2>5
  <2>6. ~(HubRegister \/ HubUnregisterUnknown \/ HubNotify)
    BY <2>5 DEF HubRegister, HubUnregisterUnknown, HubNotify
  <2>7. \A c \in Conns : ~(HubReceiveRegister(c) \/ HubReceiveUnregister(c))
    BY <2>5 DEF HubReceiveRegister, HubReceiveUnregister
  <2>8. ASSUME NEW c \in Conns, ConnStep(c) PROVE Die(c)
    BY <2>5, <2>8 DEF ConnStep, Connect, ReadSignal, ForwardSend, ForwardPanics, ReadLeave,
                      ReadFails, WriteMessage, WriterEnds, Disconnect
  <2> HIDE DEF Known
  <2> QED
    BY <1>1, <2>2, <2>3, <2>4, <2>6, <2>7, <2>8 DEF Next, HubStep
<1>2. TypeInv /\ ChannelInv /\ SignalInv /\ DoomInv /\ [Next]_vars =>
        [panicked' =>
           \/ \E c \in Conns : LET t == conn[c].target
                               IN  /\ At(c, "dying") /\ t \in closed
                                   /\ conn[t].room = conn[c].room
           \/ /\ hub.pc = "unregister"
              /\ \E d \in Conns \ {hub.client} :
                   /\ member[conn[d].room][conn[d].user] = d
                   /\ conn[d].user = conn[hub.client].user
                   /\ conn[d].room = conn[hub.client].room]_vars
  BY <1>1
<1> HIDE DEF Known
<1> QED
  BY <1>2, TypeInit, TypeStep, ChannelInit, ChannelStep, SignalInit, SignalStep,
     DoomInit, DoomStep, PTL DEF Spec, KnownPanics
===============================================================================
