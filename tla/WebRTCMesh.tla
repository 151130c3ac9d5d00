------------------------------- MODULE WebRTCMesh -------------------------------
(***************************************************************************)
(* The calls between browser tabs: WebRTCManager and SignalingClient of     *)
(* the call page, one tab per user, over the signaling server.             *)
(*                                                                         *)
(* SignalingClient does not wait for a handler before it starts the next,  *)
(* so handlers interleave at their awaits.  Every await of a handler is an *)
(* operation of an RTCPeerConnection, and a connection performs its        *)
(* operations one at a time in the order they were asked for: a handler    *)
(* that waits is an element of the connection's chain, and goes on when    *)
(* the element has been performed.                                         *)
(*                                                                         *)
(* The server is SignalingHub seen from outside: who is registered, the    *)
(* notices not yet broadcast, and the messages under way in each           *)
(* direction.  Its notices are JSON only from 48 participants on, which is *)
(* the constant Readable: FALSE for any room of the program below that.    *)
(***************************************************************************)
EXTENDS Integers, Sequences, FiniteSets

CONSTANTS
  Peers,      \* users, and the client IDs of the server
  MaxEvents,  \* bound on the pages opened and the faults, together
  Readable,   \* the notices of the server can be parsed
  None        \* no partner, no description

ASSUME BoundsAssumption == MaxEvents \in Nat
ASSUME ReadableAssumption == Readable \in BOOLEAN

VARIABLES
  tab,     \* the call page of a user
  pcs,     \* the RTCPeerConnections its manager made, in order
  entry,   \* peerConnections: index in pcs of the one for a peer, or 0
  tiles,   \* remotePeers: the peers whose video is on the page
  member,  \* server: the page registered under an ID, or 0
  gone,    \* server: ended sockets of a user still to be unregistered
  queue,   \* server: notices to be broadcast
  inbox,   \* messages from the server under way to the page
  pages,   \* pages opened so far
  faults   \* lost messages and broken connections so far

browser == <<tab, pcs, entry, tiles>>
server  == <<member, gone, queue>>
vars    == <<browser, server, inbox, pages, faults>>

--------------------------------------------------------------------------------
(* Data. *)

Attempts == 3   \* connect(token, retries = 3)

(* n: the number of the page.  error: what set the error screen. *)
Tab == [n: Nat, phase: {"away", "connect", "media", "in"}, ws: BOOLEAN,
        tries: 0..Attempts, stream: BOOLEAN, error: {"none", "start", "handler"}]

(* A connection as its descriptions name it (by ICE and DTLS credentials). *)
Party == [peer: Peers, n: Nat \ {0}, k: Nat \ {0}]

(* media: the description offers tracks; answers: the party it is made for. *)
Description == [of: Party, media: BOOLEAN, answers: Party \cup {None}]
ASSUME NoneAssumption == None \notin Description

Operation == [op: {"createOffer", "setOffer", "setRemoteOffer", "createAnswer",
                   "setAnswer", "setRemoteAnswer", "addCandidate"},
              desc: Description \cup {None}]

(* told, offered: a user-joined notice, an offer of the peer was handled    *)
(* with this connection, for the properties.  gather: has a candidate to    *)
(* send.                                                                   *)
Connection == [peer: Peers, sig: {"stable", "offering", "answering", "closed"},
               tracks: BOOLEAN, remote: Description \cup {None}, told: BOOLEAN, offered: BOOLEAN,
               gather: BOOLEAN, failed: BOOLEAN, chain: Seq(Operation)]

Notice == [type: {"user-joined", "user-left"}, from: Peers]
Signal == [type: {"offer", "answer", "ice-candidate"}, from: Peers, desc: Description]

(* Types, and every entry of the map is a connection made for its peer. *)
TypeOK ==
  /\ tab \in [Peers -> Tab]
  /\ pcs \in [Peers -> Seq(Connection)]
  /\ entry \in [Peers -> [Peers -> Nat]]
  /\ \A p, q \in Peers : entry[p][q] # 0 =>
       entry[p][q] \in DOMAIN pcs[p] /\ pcs[p][entry[p][q]].peer = q
  /\ tiles \in [Peers -> SUBSET Peers]
  /\ member \in [Peers -> Nat]
  /\ gone \in [Peers -> Nat]
  /\ queue \in Seq(Notice)
  /\ inbox \in [Peers -> Seq(Notice \cup Signal)]
  /\ pages \in 0..MaxEvents /\ faults \in 0..MaxEvents

NoTab == [n |-> 0, phase |-> "away", ws |-> FALSE, tries |-> 0, stream |-> FALSE,
          error |-> "none"]

Init ==
  /\ tab = [p \in Peers |-> NoTab]
  /\ pcs = [p \in Peers |-> <<>>]
  /\ entry = [p \in Peers |-> [q \in Peers |-> 0]]
  /\ tiles = [p \in Peers |-> {}]
  /\ member = [p \in Peers |-> 0]
  /\ gone = [p \in Peers |-> 0]
  /\ queue = <<>>
  /\ inbox = [p \in Peers |-> <<>>]
  /\ pages = 0 /\ faults = 0

NoFault == faults' = faults
Fault   == pages + faults < MaxEvents /\ faults' = faults + 1

(* The pages whose socket the server has under their user's ID. *)
Reachable == {q \in Peers : member[q] # 0 /\ member[q] = tab[q].n /\ tab[q].ws}

(* The server puts a message in the Send channel of the pages in to; a full *)
(* channel loses it for one of them.                                        *)
Delivered(to, m) ==
  \E lost \in SUBSET to :
    /\ Cardinality(lost) <= 1
    /\ IF lost = {} THEN NoFault ELSE Fault
    /\ inbox' = [q \in Peers |-> IF q \in to \ lost THEN Append(inbox[q], m) ELSE inbox[q]]

--------------------------------------------------------------------------------
(* The page. *)

(* initializeCall, up to manager.connect. *)
OpenPage(p) ==
  /\ tab[p].phase = "away" /\ pages + faults < MaxEvents
  /\ pages' = pages + 1
  /\ tab' = [tab EXCEPT ![p] = [NoTab EXCEPT !.n = pages + 1, !.phase = "connect"]]
  /\ UNCHANGED <<pcs, entry, tiles, server, inbox, faults>>

(* The socket opens, and the server registers it.  Nothing about the user's *)
(* earlier page may be under way for this to be a quiet arrival.            *)
Mentioned(p) ==
  \/ gone[p] # 0
  \/ \E k \in DOMAIN queue : queue[k].from = p
  \/ \E q \in Peers : \E k \in DOMAIN inbox[q] : inbox[q][k].from = p

SocketOpens(p) ==
  /\ tab[p].phase = "connect"
  /\ tab' = [tab EXCEPT ![p].phase = "media", ![p].tries = 0, ![p].ws = TRUE]
  /\ IF Mentioned(p) THEN Fault ELSE NoFault
  /\ member' = [member EXCEPT ![p] = tab[p].n]
  /\ queue' = Append(queue, [type |-> "user-joined", from |-> p])
  /\ inbox' = [inbox EXCEPT ![p] = <<>>]
  /\ UNCHANGED <<pcs, entry, tiles, gone, pages>>

(* An attempt fails, or times out, or the page is left meanwhile, which     *)
(* only ends the attempt: the loop of connect goes on.                      *)
SocketFails(p) ==
  /\ tab[p].phase = "connect"
  /\ tab' = [tab EXCEPT ![p].tries = @ + 1,
                        ![p].phase = IF tab[p].tries + 1 = Attempts THEN "in" ELSE "connect",
                        ![p].error = IF tab[p].tries + 1 = Attempts THEN "start" ELSE @]
  /\ UNCHANGED <<pcs, entry, tiles, server, inbox, pages, faults>>

(* getUserMedia, asked for after the socket is open. *)
MediaArrives(p) ==
  /\ tab[p].phase = "media"
  /\ tab' = [tab EXCEPT ![p].phase = "in", ![p].stream = TRUE]
  /\ UNCHANGED <<pcs, entry, tiles, server, inbox, pages, faults>>

MediaRefused(p) ==
  /\ tab[p].phase = "media"
  /\ tab' = [tab EXCEPT ![p].phase = "in", ![p].error = "start"]
  /\ UNCHANGED <<pcs, entry, tiles, server, inbox, pages, faults>>

(* The socket breaks; it is no fault when the server ends it, because an     *)
(* unregister of the user's earlier page has closed the Send channel of this *)
(* one.  handleReconnect only starts a timer that does nothing.              *)
LoseSocket(p) ==
  /\ tab[p].ws
  /\ IF member[p] = tab[p].n THEN Fault ELSE NoFault
  /\ tab' = [tab EXCEPT ![p].ws = FALSE]
  /\ gone' = [gone EXCEPT ![p] = @ + 1]
  /\ inbox' = [inbox EXCEPT ![p] = <<>>]
  /\ UNCHANGED <<pcs, entry, tiles, member, queue, pages>>

(* disconnect of the manager closes all connections, says "leave" and closes *)
(* the socket: the server unregisters the user twice, and once when the      *)
(* browser just ends the page.  A page left while it connects is not ended:   *)
(* its loop of attempts goes on.                                             *)
ClosePage(p) ==
  /\ tab[p].phase \in {"media", "in"}
  /\ tab' = [tab EXCEPT ![p] = [NoTab EXCEPT !.n = tab[p].n]]
  /\ pcs' = [pcs EXCEPT ![p] = <<>>]
  /\ entry' = [entry EXCEPT ![p] = [q \in Peers |-> 0]]
  /\ tiles' = [tiles EXCEPT ![p] = {}]
  /\ \E ends \in IF tab[p].ws THEN {1, 2} ELSE {0} : gone' = [gone EXCEPT ![p] = @ + ends]
  /\ inbox' = [inbox EXCEPT ![p] = <<>>]
  /\ UNCHANGED <<member, queue, pages, faults>>

--------------------------------------------------------------------------------
(* The manager: the synchronous part of each handler. *)

Told(p, type) == tab[p].ws /\ inbox[p] # <<>> /\ Head(inbox[p]).type = type

Taken(p) == inbox' = [inbox EXCEPT ![p] = Tail(@)]

New(p, q) == [peer |-> q, sig |-> "stable", tracks |-> tab[p].stream, remote |-> None,
              told |-> FALSE, offered |-> FALSE, gather |-> FALSE, failed |-> FALSE, chain |-> <<>>]

(* createPeerConnection: the connection in the map is used again. *)
Created(p, q) == IF entry[p][q] # 0 THEN pcs[p] ELSE Append(pcs[p], New(p, q))
Chosen(p, q)  == IF entry[p][q] # 0 THEN entry[p][q] ELSE Len(pcs[p]) + 1

Asked(c, op, desc) ==
  [c EXCEPT !.chain = Append(@, [op |-> op, desc |-> desc]),
            !.told = @ \/ op = "createOffer", !.offered = @ \/ op = "setRemoteOffer"]

(* Mutant: createPeerConnection does not look in the map. *)
StartAnew(p, q, op, desc) ==
  /\ pcs' = [pcs EXCEPT ![p] = Append(@, Asked(New(p, q), op, desc))]
  /\ entry' = [entry EXCEPT ![p][q] = Len(pcs[p]) + 1]

Start(p, q, op, desc) ==
  /\ pcs' = [pcs EXCEPT ![p] = [Created(p, q) EXCEPT ![Chosen(p, q)] = Asked(@, op, desc)]]
  /\ entry' = [entry EXCEPT ![p][q] = Chosen(p, q)]

HandleUserJoined(p) ==
  LET q == Head(inbox[p]).from
  IN  /\ Told(p, "user-joined") /\ Taken(p)
      /\ Start(p, q, "createOffer", None)
      /\ UNCHANGED <<tab, tiles, server, pages, faults>>

HandleOffer(p) ==
  LET m == Head(inbox[p])
  IN  /\ Told(p, "offer") /\ Taken(p)
      /\ Start(p, m.from, "setRemoteOffer", m.desc)
      /\ UNCHANGED <<tab, tiles, server, pages, faults>>

(* handleAnswer and handleIceCandidate do nothing without a connection. *)
Asks(p, type, op) ==
  LET m == Head(inbox[p])
      k == entry[p][m.from]
  IN  /\ Told(p, type) /\ Taken(p)
      /\ pcs' = IF k = 0 THEN pcs ELSE [pcs EXCEPT ![p][k] = Asked(@, op, m.desc)]
      /\ UNCHANGED <<tab, entry, tiles, server, pages, faults>>

HandleAnswer(p)       == Asks(p, "answer", "setRemoteAnswer")
HandleIceCandidate(p) == Asks(p, "ice-candidate", "addCandidate")

(* close() ends every operation that waits: its promise is never settled. *)
Closed(c) == [c EXCEPT !.sig = "closed", !.chain = <<>>, !.gather = FALSE]

(* Mutant: only the tile of the user who left goes. *)
HandleUserLeftKeeps(p) ==
  /\ Told(p, "user-left") /\ Taken(p)
  /\ tiles' = [tiles EXCEPT ![p] = @ \ {Head(inbox[p]).from}]
  /\ UNCHANGED <<tab, pcs, entry, server, pages, faults>>

(* Mutant: onPeerLeft is not called. *)
HandleUserLeftShows(p) ==
  LET q == Head(inbox[p]).from
      k == entry[p][q]
  IN  /\ Told(p, "user-left") /\ Taken(p)
      /\ pcs' = IF k = 0 THEN pcs ELSE [pcs EXCEPT ![p][k] = Closed(@)]
      /\ entry' = [entry EXCEPT ![p][q] = 0]
      /\ UNCHANGED <<tab, tiles, server, pages, faults>>

HandleUserLeft(p) ==
  LET q == Head(inbox[p]).from
      k == entry[p][q]
  IN  /\ Told(p, "user-left") /\ Taken(p)
      /\ pcs' = IF k = 0 THEN pcs ELSE [pcs EXCEPT ![p][k] = Closed(@)]
      /\ entry' = [entry EXCEPT ![p][q] = 0]
      /\ tiles' = [tiles EXCEPT ![p] = @ \ {q}]
      /\ UNCHANGED <<tab, server, pages, faults>>

--------------------------------------------------------------------------------
(* The connections: what the browser does for an awaiting handler, and the  *)
(* handler up to its next await.                                           *)

Me(p, k) == [peer |-> p, n |-> tab[p].n, k |-> k]

Performs(p, k, op) ==
  /\ k \in DOMAIN pcs[p]
  /\ pcs[p][k].chain # <<>>
  /\ Head(pcs[p][k].chain).op = op

Given(p, k) == Head(pcs[p][k].chain).desc

(* The connection after its first operation; next is what the handler asks  *)
(* for then.                                                               *)
Performed(p, k, c, next) ==
  pcs' = [pcs EXCEPT ![p][k] = [c EXCEPT !.chain = Tail(@) \o next]]

(* SignalingClient.send to the peer of the connection, and forwardMessage:  *)
(* nothing is sent on a closed socket, or forwarded to a user not there.     *)
Send(p, k, type, desc) ==
  LET q == pcs[p][k].peer
  IN  IF tab[p].ws
      THEN Delivered({q} \cap Reachable, [type |-> type, from |-> p, desc |-> desc])
      ELSE inbox' = inbox /\ NoFault

(* The operation is refused, the handler throws and the page shows it. *)
Refused(p, k) ==
  /\ Performed(p, k, pcs[p][k], <<>>)
  /\ tab' = [tab EXCEPT ![p].error = "handler"]
  /\ UNCHANGED <<entry, tiles, server, inbox, pages, faults>>

Then(op) == <<[op |-> op, desc |-> None]>>

Offer(p, k) == [of |-> Me(p, k), media |-> pcs[p][k].tracks, answers |-> None]

Answer(p, k) ==
  LET r == pcs[p][k].remote
  IN  [of |-> Me(p, k), media |-> pcs[p][k].tracks /\ r.media, answers |-> r.of]

CreateOffer(p, k) ==
  /\ Performs(p, k, "createOffer")
  /\ pcs[p][k].sig \in {"stable", "offering"}
  /\ Performed(p, k, pcs[p][k], Then("setOffer"))
  /\ UNCHANGED <<tab, entry, tiles, server, inbox, pages, faults>>

SetOffer(p, k) ==
  /\ Performs(p, k, "setOffer")
  /\ pcs[p][k].sig \in {"stable", "offering"}
  /\ Performed(p, k, [pcs[p][k] EXCEPT !.sig = "offering", !.gather = pcs[p][k].tracks], <<>>)
  /\ Send(p, k, "offer", Offer(p, k))
  /\ UNCHANGED <<tab, entry, tiles, server, pages>>

Shown(p, k) ==
  tiles' = [tiles EXCEPT ![p] = IF Given(p, k).media THEN @ \cup {pcs[p][k].peer} ELSE @]

(* In "offering" the browser rolls its own offer back. *)
SetRemoteOffer(p, k) ==
  /\ Performs(p, k, "setRemoteOffer")
  /\ Performed(p, k, [pcs[p][k] EXCEPT !.sig = "answering", !.remote = Given(p, k)],
               Then("createAnswer"))
  /\ Shown(p, k)
  /\ UNCHANGED <<tab, entry, server, inbox, pages, faults>>

CreateAnswer(p, k) ==
  /\ Performs(p, k, "createAnswer")
  /\ pcs[p][k].sig = "answering"
  /\ Performed(p, k, pcs[p][k], Then("setAnswer"))
  /\ UNCHANGED <<tab, entry, tiles, server, inbox, pages, faults>>

SetAnswer(p, k) ==
  /\ Performs(p, k, "setAnswer")
  /\ pcs[p][k].sig = "answering"
  /\ Performed(p, k, [pcs[p][k] EXCEPT !.sig = "stable", !.gather = pcs[p][k].remote.media], <<>>)
  /\ Send(p, k, "answer", Answer(p, k))
  /\ UNCHANGED <<tab, entry, tiles, server, pages>>

SetRemoteAnswer(p, k) ==
  /\ Performs(p, k, "setRemoteAnswer")
  /\ pcs[p][k].sig = "offering"
  /\ Performed(p, k, [pcs[p][k] EXCEPT !.sig = "stable", !.remote = Given(p, k)], <<>>)
  /\ Shown(p, k)
  /\ UNCHANGED <<tab, entry, server, inbox, pages, faults>>

(* A candidate is of the party whose description the connection has. *)
Fits(p, k) == pcs[p][k].remote # None /\ pcs[p][k].remote.of = Given(p, k).of

AddCandidate(p, k) ==
  /\ Performs(p, k, "addCandidate")
  /\ Fits(p, k)
  /\ Performed(p, k, pcs[p][k], <<>>)
  /\ UNCHANGED <<tab, entry, tiles, server, inbox, pages, faults>>

WrongState(p, k) ==
  /\ k \in DOMAIN pcs[p] /\ pcs[p][k].chain # <<>>
  /\ \/ Head(pcs[p][k].chain).op \in {"createOffer", "setOffer"} /\ pcs[p][k].sig = "answering"
     \/ Head(pcs[p][k].chain).op \in {"createAnswer", "setAnswer"} /\ pcs[p][k].sig # "answering"
     \/ Performs(p, k, "setRemoteAnswer") /\ pcs[p][k].sig # "offering"
     \/ Performs(p, k, "addCandidate") /\ ~Fits(p, k)
  /\ Refused(p, k)

(* onicecandidate *)
SendCandidate(p, k) ==
  /\ k \in DOMAIN pcs[p] /\ pcs[p][k].gather
  /\ pcs' = [pcs EXCEPT ![p][k].gather = FALSE]
  /\ Send(p, k, "ice-candidate", Offer(p, k))
  /\ UNCHANGED <<tab, entry, tiles, server, pages>>

(* onconnectionstatechange "failed": the entry of the peer goes, the tile    *)
(* stays.                                                                   *)
ConnectionFails(p, k) ==
  /\ k \in DOMAIN pcs[p]
  /\ pcs[p][k].remote # None /\ pcs[p][k].sig # "closed" /\ ~pcs[p][k].failed
  /\ Fault
  /\ pcs' = [pcs EXCEPT ![p][k].failed = TRUE]
  /\ entry' = [entry EXCEPT ![p][pcs[p][k].peer] = 0]
  /\ UNCHANGED <<tab, tiles, server, inbox, pages>>

--------------------------------------------------------------------------------
(* The server. *)

(* unregisterClient, after the readPump has read what was sent: whichever   *)
(* page is registered under the ID is removed.                              *)
HubUnregister(p) ==
  /\ gone[p] # 0 
  /\ gone' = [gone EXCEPT ![p] = @ - 1]
  /\ member' = [member EXCEPT ![p] = 0]
  /\ queue' = IF member[p] # 0 THEN Append(queue, [type |-> "user-left", from |-> p]) ELSE queue
  /\ UNCHANGED <<browser, inbox, pages, faults>>

(* broadcastToRoom.  onmessage drops a notice that is not JSON. *)
HubBroadcast ==
  LET n == Head(queue)
      to == {q \in Peers : q \in Reachable /\ ~(n.type = "user-joined" /\ q = n.from)}
  IN  /\ queue # <<>>
      /\ queue' = Tail(queue)
      /\ Delivered(IF Readable THEN to ELSE {}, n)
      /\ UNCHANGED <<browser, member, gone, pages>>

PageStep(p) ==
  \/ OpenPage(p) \/ SocketOpens(p) \/ SocketFails(p) \/ MediaArrives(p) \/ MediaRefused(p)
  \/ LoseSocket(p) \/ ClosePage(p)

Handle(p) ==
  \/ HandleUserJoined(p) \/ HandleOffer(p) \/ HandleAnswer(p) \/ HandleIceCandidate(p)
  \/ HandleUserLeft(p)

Perform(p, k) ==
  \/ CreateOffer(p, k) \/ SetOffer(p, k) \/ SetRemoteOffer(p, k)
  \/ CreateAnswer(p, k) \/ SetAnswer(p, k) \/ SetRemoteAnswer(p, k)
  \/ AddCandidate(p, k) \/ WrongState(p, k)

Next ==
  \/ \E p \in Peers :
       \/ PageStep(p) \/ Handle(p) \/ HubUnregister(p)
       \/ \E k \in DOMAIN pcs[p] : Perform(p, k) \/ SendCandidate(p, k) \/ ConnectionFails(p, k)
  \/ HubBroadcast

Spec == Init /\ [][Next]_vars

--------------------------------------------------------------------------------
(* What the pages may rely on while nothing was lost. *)

(* No fault so far, and p is on the call page. *)
Here(p) == faults = 0 /\ tab[p].phase # "away"

(* A page shows the error screen for a signaling message only in a glare: the *)
(* connection was told of the peer by the server and offered to by the peer, *)
(* both of which make it start an exchange.  Without that, no order in which  *)
(* offers, answers and candidates arrive at awaiting handlers is refused by   *)
(* the connection, unless something was lost or the peer has left.           *)
ErrorsHaveReasons ==
  [][\A p \in Peers : tab[p].error # "handler" /\ tab'[p].error = "handler" =>
       \E k \in DOMAIN pcs[p] :
         /\ pcs'[p][k] # pcs[p][k]
         /\ \/ pcs[p][k].told /\ pcs[p][k].offered
            \/ ~Here(p) \/ ~Here(pcs[p][k].peer)]_vars

(* A connection is never handed to another partner: when a peer leaves and    *)
(* comes back, its new page is met with a new connection, and an answer       *)
(* reaches the connection whose offer it answers.                             *)
OnePartner ==
  [][\A p \in Peers : Here(p) /\ tab'[p].n = tab[p].n =>
      \A k \in DOMAIN pcs[p] \cap DOMAIN pcs'[p] :
       LET r == pcs'[p][k].remote
       IN  r # pcs[p][k].remote =>
             /\ pcs[p][k].remote # None => r.of = pcs[p][k].remote.of
             /\ r.answers \in {None, Me(p, k)}]_vars

(* A peer whose video is on the page is still in the room, or the news that  *)
(* it left is on its way: an offer of a peer that left cannot bring its tile  *)
(* back after the user-left message.                                         *)
TilesAreOfMembers ==
  \A p, q \in Peers : q \in tiles[p] /\ tab[p].ws /\ Here(p) =>
    \/ member[q] # 0
    \/ \E k \in DOMAIN queue : queue[k].from = q
    \/ \E k \in DOMAIN inbox[p] : inbox[p][k].from = q /\ inbox[p][k].type = "user-left"

(* Nothing was lost, nothing is under way and no handler waits. *)
Settled ==
  /\ faults = 0 /\ Readable
  /\ queue = <<>>
  /\ \A p \in Peers :
       /\ gone[p] = 0 /\ inbox[p] = <<>>
       /\ tab[p].ws = (tab[p].phase # "away")
       /\ \A k \in DOMAIN pcs[p] : pcs[p][k].chain = <<>>

(* The connections of p and q were each started by the server's notice and  *)
(* by the other's offer: both made an offer.                                 *)
Glare(p, q) ==
  LET c == pcs[p][entry[p][q]] IN c.told /\ c.offered

(* The connection of p is the one that q has for p, and p sees q if both had  *)
(* their camera by the time they made it.                                    *)
Linked(p, q) ==
  LET c == pcs[p][entry[p][q]]
  IN  /\ c.sig = "stable" /\ c.remote # None
      /\ c.remote.of = Me(q, entry[q][p])
      /\ c.tracks /\ pcs[q][entry[q][p]].tracks => q \in tiles[p]

(* Once everything has settled, any two pages in the room have connections    *)
(* to each other, agreed on by both and with both videos shown, except after  *)
(* a glare: whoever joined, left or returned, in any order, meanwhile.        *)
SettledPagesAreLinked ==
  Settled => \A p, q \in {r \in Peers : tab[r].ws} : p # q =>
    entry[p][q] # 0 /\ (Linked(p, q) \/ Glare(p, q))
================================================================================
