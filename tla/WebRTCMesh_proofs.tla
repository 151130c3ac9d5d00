-------------------------- MODULE WebRTCMesh_proofs --------------------------
(***************************************************************************)
(* Proofs about WebRTCMesh: what it comes to when no notice of the server   *)
(* can be parsed, which is the program in every room of fewer than 48       *)
(* participants; its types; the tiles on the page; and what any two pages   *)
(* agree on while nothing is lost: the partner of a connection, where the   *)
(* exchange of offer and answer is, the order of candidates, the tracks.    *)
(***************************************************************************)
EXTENDS WebRTCMesh, SequenceTheorems, TLAPS

(* Nobody is connected to anybody, and no page shows another. *)
Alone == \A p \in Peers : pcs[p] = <<>> /\ tiles[p] = {}

(* Offers only answer notices, so without notices nothing is ever received. *)
Silent ==
  /\ pcs = [p \in Peers |-> <<>>]
  /\ tiles = [p \in Peers |-> {}]
  /\ inbox = [p \in Peers |-> <<>>]
  /\ entry \in [Peers -> [Peers -> {0}]]

(* Steps of the page that keep its connections, or have none to keep. *)
LEMMA PageSilent ==
  ASSUME Silent, NEW p \in Peers, PageStep(p)
  PROVE  Silent'
<1>1. CASE OpenPage(p) \/ SocketFails(p) \/ MediaArrives(p) \/ MediaRefused(p)
  BY <1>1 DEF OpenPage, SocketFails, MediaArrives, MediaRefused, Silent
<1>2. CASE SocketOpens(p) \/ LoseSocket(p)
  <2>1. UNCHANGED <<pcs, entry, tiles>> /\ inbox' = [inbox EXCEPT ![p] = <<>>]
    BY <1>2 DEF SocketOpens, LoseSocket
  <2> QED
    BY <2>1 DEF Silent
<1>3. CASE ClosePage(p)
  <2>1. /\ pcs' = [pcs EXCEPT ![p] = <<>>] /\ tiles' = [tiles EXCEPT ![p] = {}]
        /\ entry' = [entry EXCEPT ![p] = [q \in Peers |-> 0]]
        /\ inbox' = [inbox EXCEPT ![p] = <<>>]
    BY <1>3 DEF ClosePage
  <2> QED
    BY <2>1 DEF Silent
<1> QED
  BY <1>1, <1>2, <1>3 DEF PageStep

(* Nothing is received, so no handler starts. *)
LEMMA NoHandle ==
  ASSUME Silent, NEW p \in Peers, Handle(p)
  PROVE  FALSE
<1>1. \A type : ~Told(p, type)
  BY DEF Silent, Told
<1> QED
  BY <1>1 DEF Handle, HandleUserJoined, HandleOffer, HandleAnswer, HandleIceCandidate,
              HandleUserLeft, Asks

(* A notice that is broadcast reaches nobody. *)
LEMMA BroadcastSilent == ASSUME ~Readable, Silent, HubBroadcast PROVE Silent'
<1>1. UNCHANGED <<pcs, tiles, entry>> /\ \E n : Delivered({}, n)
  BY DEF HubBroadcast, browser
<1>2. inbox' = [q \in Peers |-> inbox[q]]
  BY <1>1 DEF Delivered
<1> QED
  BY <1>1, <1>2 DEF Silent

(* Every step keeps the silence. *)
LEMMA SilentStep == ~Readable /\ Silent /\ [Next]_vars => Silent'
<1> SUFFICES ASSUME ~Readable, Silent, [Next]_vars PROVE Silent'
  OBVIOUS
<1>1. \A p \in Peers : DOMAIN pcs[p] = {}
  BY DEF Silent
<1>2. ASSUME NEW p \in Peers, HubUnregister(p) PROVE Silent'
  BY <1>2 DEF HubUnregister, browser, Silent
<1>3. CASE UNCHANGED vars
  BY <1>3 DEF vars, browser, Silent
<1> QED
  BY <1>1, <1>2, <1>3, PageSilent, NoHandle, BroadcastSilent DEF Next

(***************************************************************************)
(* setupSignalingHandlers makes a connection only when a user-joined notice *)
(* or an offer arrives, and an offer is only made after a notice.  So       *)
(* without readable notices no page ever has a connection or a tile, for    *)
(* any number of users, pages and faults.                                  *)
(***************************************************************************)
THEOREM NobodyIsConnected == ASSUME ~Readable PROVE Spec => []Alone
<1>1. Init => Silent
  BY DEF Init, Silent
<1>2. Silent /\ [Next]_vars => Silent'
  BY SilentStep
<1>3. Silent => Alone
  BY DEF Silent, Alone
<1> QED
  BY <1>1, <1>2, <1>3, PTL DEF Spec

--------------------------------------------------------------------------------
(* Types. *)

(* Taking and adding elements keeps a sequence typed. *)
LEMMA SeqKeeps ==
  ASSUME NEW S, NEW s \in Seq(S)
  PROVE  /\ \A e \in S : Append(s, e) \in Seq(S) /\ Len(Append(s, e)) = Len(s) + 1
         /\ s # <<>> => Head(s) \in S /\ Tail(s) \in Seq(S)
         /\ DOMAIN s = 1..Len(s) /\ Len(s) \in Nat
BY AppendProperties, HeadTailProperties, LenProperties

(* What a change of a sequence leaves at each place. *)
LEMMA ExceptKeeps ==
  ASSUME NEW S, NEW s \in Seq(S), NEW k \in DOMAIN s, NEW e \in S
  PROVE  /\ [s EXCEPT ![k] = e] \in Seq(S)
         /\ DOMAIN [s EXCEPT ![k] = e] = DOMAIN s
         /\ \A j \in DOMAIN s : [s EXCEPT ![k] = e][j] = IF j = k THEN e ELSE s[j]
<1>1. DOMAIN s = 1..Len(s)
  BY SeqKeeps
<1> QED
  BY <1>1, ExceptSeq

(* The facts behind TypeOK: a page that does something has been opened, and  *)
(* one that connects has attempts left; an operation on a remote description *)
(* has it, and so has a connection that answers.                           *)
TabInv ==
  \A p \in Peers :
    /\ tab[p].phase # "away" \/ tab[p].ws \/ pcs[p] # <<>> => tab[p].n # 0
    /\ tab[p].phase = "connect" => tab[p].tries < Attempts

Remote == {"setRemoteOffer", "setRemoteAnswer", "addCandidate"}

SoundOp == {o \in Operation : o.op \in Remote => o.desc \in Description}

SoundConn == {c \in Connection : /\ c.chain \in Seq(SoundOp)
                                 /\ c.sig = "answering" => c.remote \in Description}

PcsInv == pcs \in [Peers -> Seq(SoundConn)]

EntryInv ==
  /\ entry \in [Peers -> [Peers -> Nat]]
  /\ \A p, q \in Peers : entry[p][q] # 0 =>
       entry[p][q] \in DOMAIN pcs[p] /\ pcs[p][entry[p][q]].peer = q

RestInv ==
  /\ tab \in [Peers -> Tab]
  /\ tiles \in [Peers -> SUBSET Peers]
  /\ member \in [Peers -> Nat]
  /\ gone \in [Peers -> Nat]
  /\ queue \in Seq(Notice)
  /\ inbox \in [Peers -> Seq(Notice \cup Signal)]
  /\ pages \in 0..MaxEvents /\ faults \in 0..MaxEvents

TypeInv == TabInv /\ PcsInv /\ EntryInv /\ RestInv

(* A sound connection is a connection. *)
LEMMA TypeInvIsTypeOK == TypeInv => TypeOK
<1> SUFFICES ASSUME TypeInv PROVE TypeOK
  OBVIOUS
<1>1. SoundConn \subseteq Connection
  BY DEF SoundConn
<1>2. pcs \in [Peers -> Seq(Connection)]
  <2>1. \A s : s \in Seq(SoundConn) => s \in Seq(Connection)
    BY <1>1
  <2> QED
    BY <2>1 DEF TypeInv, PcsInv
<1> QED
  BY <1>2 DEF TypeInv, EntryInv, RestInv, TypeOK

(* Nobody is on the page. *)
LEMMA TypeInit == Init => TypeInv
<1> SUFFICES ASSUME Init PROVE TypeInv
  OBVIOUS
<1>1. NoTab \in Tab /\ NoTab.phase = "away" /\ ~NoTab.ws
  BY DEF NoTab, Tab, Attempts
<1>2. \A S : <<>> \in Seq(S)
  OBVIOUS
<1>3. PcsInv /\ RestInv
  BY <1>1, <1>2, BoundsAssumption DEF Init, PcsInv, RestInv
<1>4. EntryInv /\ TabInv
  BY <1>1 DEF Init, EntryInv, TabInv
<1> QED
  BY <1>3, <1>4 DEF TypeInv

(* A counted fault stays within the bound. *)
LEMMA FaultType ==
  ASSUME TypeInv, NoFault \/ Fault
  PROVE  faults' \in 0..MaxEvents
BY BoundsAssumption DEF TypeInv, RestInv, NoFault, Fault

(* Delivering a message keeps the messages under way typed. *)
LEMMA DeliveredType ==
  ASSUME TypeInv, NEW to \in SUBSET Peers, NEW m \in Notice \cup Signal, Delivered(to, m)
  PROVE  inbox' \in [Peers -> Seq(Notice \cup Signal)] /\ faults' \in 0..MaxEvents
<1>1. PICK lost \in SUBSET to :
        /\ IF lost = {} THEN NoFault ELSE Fault
        /\ inbox' = [q \in Peers |-> IF q \in to \ lost THEN Append(inbox[q], m) ELSE inbox[q]]
  BY DEF Delivered
<1>2. \A q \in Peers : inbox[q] \in Seq(Notice \cup Signal)
  BY DEF TypeInv, RestInv
<1>3. \A q \in Peers : Append(inbox[q], m) \in Seq(Notice \cup Signal)
  BY <1>2, SeqKeeps
<1>4. inbox' \in [Peers -> Seq(Notice \cup Signal)]
  BY <1>1, <1>2, <1>3
<1> QED
  BY <1>1, <1>4, FaultType

(* A step that leaves the connections alone keeps them. *)
LEMMA PagesKept ==
  ASSUME TypeInv, UNCHANGED <<pcs, entry>>
  PROVE  PcsInv' /\ EntryInv'
BY DEF TypeInv, PcsInv, EntryInv

(* The page that is opened, and the page whose socket opens. *)
LEMMA NewTab ==
  ASSUME NEW n \in Nat
  PROVE  LET t == [NoTab EXCEPT !.n = n, !.phase = "connect"]
         IN  t \in Tab /\ t.n = n /\ t.tries = 0
<1>1. 0 \in 0..Attempts
  BY DEF Attempts
<1> QED
  BY <1>1 DEF NoTab, Tab

LEMMA OpenTab ==
  ASSUME NEW u \in Tab
  PROVE  LET t == [u EXCEPT !.phase = "media", !.tries = 0, !.ws = TRUE]
         IN  t \in Tab /\ t.n = u.n /\ t.phase = "media"
<1>1. 0 \in 0..Attempts
  BY DEF Attempts
<1> QED
  BY <1>1 DEF Tab

(* The steps of the page. *)
LEMMA PageType ==
  ASSUME TypeInv, NEW p \in Peers, PageStep(p)
  PROVE  TypeInv'
<1>0. /\ tab \in [Peers -> Tab] /\ tab[p] \in Tab /\ NoTab \in Tab
      /\ \A S : <<>> \in Seq(S)
  BY DEF TypeInv, RestInv, NoTab, Tab, Attempts
<1>1. CASE OpenPage(p)
  <2> DEFINE t == [NoTab EXCEPT !.n = pages + 1, !.phase = "connect"]
  <2>1. pages + 1 \in 1..MaxEvents
    BY <1>1, BoundsAssumption DEF OpenPage, TypeInv, RestInv
  <2>2. t \in Tab /\ t.n # 0 /\ t.tries = 0
    <3>1. pages + 1 \in Nat /\ pages + 1 # 0
      BY <2>1
    <3> QED
      BY <3>1, NewTab
  <2>3. tab' = [tab EXCEPT ![p] = t] /\ pages' = pages + 1
        /\ UNCHANGED <<pcs, entry, tiles, member, gone, queue, inbox, faults>>
    BY <1>1 DEF OpenPage, server
  <2> HIDE DEF t
  <2>4. TabInv' /\ RestInv'
    BY <1>0, <2>1, <2>2, <2>3 DEF TypeInv, TabInv, RestInv, Attempts
  <2> QED
    BY <2>3, <2>4, PagesKept DEF TypeInv
<1>2. CASE SocketOpens(p)
  <2> DEFINE t == [tab[p] EXCEPT !.phase = "media", !.tries = 0, !.ws = TRUE]
             joined == [type |-> "user-joined", from |-> p]
  <2>0. tab[p].n \in Nat /\ tab[p].n # 0
    BY <1>0, <1>2 DEF SocketOpens, Tab, TypeInv, TabInv
  <2>1. t \in Tab /\ t.n = tab[p].n /\ t.phase = "media"
    BY <1>0, OpenTab
  <2>2. joined \in Notice /\ queue \in Seq(Notice)
    BY DEF Notice, TypeInv, RestInv
  <2>3. Append(queue, joined) \in Seq(Notice)
    BY <2>2, SeqKeeps
  <2>4. /\ tab' = [tab EXCEPT ![p] = t] /\ member' = [member EXCEPT ![p] = tab[p].n]
        /\ queue' = Append(queue, joined) /\ inbox' = [inbox EXCEPT ![p] = <<>>]
        /\ UNCHANGED <<pcs, entry, tiles, gone, pages>>
    BY <1>0, <1>2 DEF SocketOpens
  <2>5. faults' \in 0..MaxEvents
    BY <1>2, FaultType DEF SocketOpens
  <2> HIDE DEF t, joined
  <2>6. TabInv' /\ RestInv'
    BY <1>0, <2>0, <2>1, <2>3, <2>4, <2>5 DEF TypeInv, TabInv, RestInv
  <2> QED
    BY <2>4, <2>6, PagesKept DEF TypeInv
<1>3. CASE SocketFails(p) \/ MediaArrives(p) \/ MediaRefused(p)
  <2>1. PICK t \in Tab : /\ tab' = [tab EXCEPT ![p] = t] /\ t.n = tab[p].n /\ tab[p].n # 0
                         /\ t.phase = "connect" => t.tries < Attempts
    <3>1. CASE SocketFails(p)
      <4>1. tab[p].tries + 1 \in 0..Attempts /\ tab[p].n # 0 /\ tab[p].phase = "connect"
        BY <1>0, <3>1 DEF SocketFails, Tab, Attempts, TypeInv, TabInv
      <4>2. CASE tab[p].tries + 1 = Attempts
        <5> DEFINE t == [tab[p] EXCEPT !.tries = @ + 1, !.phase = "in", !.error = "start"]
        <5>1. t \in Tab /\ t.n = tab[p].n /\ t.phase = "in"
          BY <1>0, <4>1 DEF Tab
        <5>2. tab' = [tab EXCEPT ![p] = t]
          BY <1>0, <3>1, <4>2 DEF SocketFails
        <5> QED
          BY <4>1, <5>1, <5>2
      <4>3. CASE tab[p].tries + 1 # Attempts
        <5> DEFINE t == [tab[p] EXCEPT !.tries = @ + 1]
        <5>1. t \in Tab /\ t.n = tab[p].n /\ t.tries < Attempts
          BY <1>0, <4>1, <4>3 DEF Tab, Attempts
        <5>2. tab' = [tab EXCEPT ![p] = t]
          <6>1. tab'[p] = [tab[p] EXCEPT !.tries = @ + 1, !.phase = "connect", !.error = @]
            BY <1>0, <3>1, <4>3 DEF SocketFails
          <6>2. tab'[p] = t
            BY <1>0, <4>1, <6>1 DEF Tab
          <6> QED
            BY <1>0, <3>1, <6>2 DEF SocketFails
        <5> QED
          BY <4>1, <5>1, <5>2
      <4> QED
        BY <4>2, <4>3
    <3>2. CASE MediaArrives(p)
      <4> DEFINE t == [tab[p] EXCEPT !.phase = "in", !.stream = TRUE]
      <4>1. t \in Tab /\ t.n = tab[p].n /\ t.phase = "in" /\ tab[p].n # 0
        BY <1>0, <3>2 DEF MediaArrives, Tab, TypeInv, TabInv
      <4>2. tab' = [tab EXCEPT ![p] = t]
        BY <1>0, <3>2 DEF MediaArrives
      <4> QED
        BY <4>1, <4>2
    <3>3. CASE MediaRefused(p)
      <4> DEFINE t == [tab[p] EXCEPT !.phase = "in", !.error = "start"]
      <4>1. t \in Tab /\ t.n = tab[p].n /\ t.phase = "in" /\ tab[p].n # 0
        BY <1>0, <3>3 DEF MediaRefused, Tab, TypeInv, TabInv
      <4>2. tab' = [tab EXCEPT ![p] = t]
        BY <1>0, <3>3 DEF MediaRefused
      <4> QED
        BY <4>1, <4>2
    <3> QED
      BY <1>3, <3>1, <3>2, <3>3
  <2>2. UNCHANGED <<pcs, entry, tiles, member, gone, queue, inbox, pages, faults>>
    BY <1>3 DEF SocketFails, MediaArrives, MediaRefused, server
  <2>3. TabInv' /\ RestInv'
    BY <1>0, <2>1, <2>2 DEF TypeInv, TabInv, RestInv
  <2> QED
    BY <2>2, <2>3, PagesKept DEF TypeInv
<1>4. CASE LoseSocket(p)
  <2> DEFINE t == [tab[p] EXCEPT !.ws = FALSE]
  <2>1. t \in Tab /\ t.n = tab[p].n /\ t.phase = tab[p].phase /\ t.tries = tab[p].tries
    BY <1>0 DEF Tab
  <2>2. /\ tab' = [tab EXCEPT ![p] = t] /\ gone' = [gone EXCEPT ![p] = @ + 1]
        /\ inbox' = [inbox EXCEPT ![p] = <<>>]
        /\ UNCHANGED <<pcs, entry, tiles, member, queue, pages>>
    BY <1>0, <1>4 DEF LoseSocket
  <2>3. faults' \in 0..MaxEvents /\ ~t.ws
    BY <1>0, <1>4, FaultType DEF LoseSocket, Tab
  <2> HIDE DEF t
  <2>4. TabInv' /\ RestInv'
    BY <1>0, <2>1, <2>2, <2>3 DEF TypeInv, TabInv, RestInv
  <2> QED
    BY <2>2, <2>4, PagesKept DEF TypeInv
<1>5. CASE ClosePage(p)
  <2> DEFINE t == [NoTab EXCEPT !.n = tab[p].n]
  <2>1. t \in Tab /\ t.n = tab[p].n /\ tab[p].n # 0 /\ t.phase = "away"
    BY <1>0, <1>5 DEF ClosePage, NoTab, Tab, Attempts, TypeInv, TabInv
  <2>2. PICK ends \in {0, 1, 2} : gone' = [gone EXCEPT ![p] = @ + ends]
    BY <1>5 DEF ClosePage
  <2>3. /\ tab' = [tab EXCEPT ![p] = t] /\ pcs' = [pcs EXCEPT ![p] = <<>>]
        /\ entry' = [entry EXCEPT ![p] = [q \in Peers |-> 0]]
        /\ tiles' = [tiles EXCEPT ![p] = {}]
        /\ inbox' = [inbox EXCEPT ![p] = <<>>]
        /\ UNCHANGED <<member, queue, pages, faults>>
    BY <1>5 DEF ClosePage
  <2> HIDE DEF t
  <2>4. PcsInv' /\ EntryInv'
    BY <1>0, <2>3 DEF TypeInv, PcsInv, EntryInv
  <2>5. TabInv' /\ RestInv'
    BY <1>0, <2>1, <2>2, <2>3 DEF TypeInv, TabInv, RestInv, PcsInv
  <2> QED
    BY <2>4, <2>5 DEF TypeInv
<1> QED
  BY <1>1, <1>2, <1>3, <1>4, <1>5 DEF PageStep

(* The page is as it was but for its error. *)
SameTab(p) == /\ tab'[p].n = tab[p].n /\ tab'[p].phase = tab[p].phase
              /\ tab'[p].ws = tab[p].ws /\ tab'[p].tries = tab[p].tries

(* Connections are only added to a page that has some or has a socket. *)
LEMMA TabKept ==
  ASSUME TypeInv, \A q \in Peers : SameTab(q),
         \A q \in Peers : pcs'[q] # <<>> => pcs[q] # <<>> \/ tab[q].ws
  PROVE  TabInv'
BY DEF TypeInv, TabInv, SameTab

(* A connection changes, and its peer does not. *)
LEMMA ConnKept ==
  ASSUME TypeInv, NEW p \in Peers, NEW k \in DOMAIN pcs[p], NEW c \in SoundConn,
         c.peer = pcs[p][k].peer,
         pcs' = [pcs EXCEPT ![p][k] = c],
         \A q, r \in Peers : entry'[q][r] \in {0, entry[q][r]},
         entry' \in [Peers -> [Peers -> Nat]]
  PROVE  PcsInv' /\ EntryInv' /\ \A q \in Peers : pcs'[q] # <<>> => pcs[q] # <<>>
<1>1. pcs \in [Peers -> Seq(SoundConn)] /\ pcs[p] \in Seq(SoundConn)
  BY DEF TypeInv, PcsInv
<1> DEFINE s == [pcs[p] EXCEPT ![k] = c]
<1>2. /\ s \in Seq(SoundConn) /\ DOMAIN s = DOMAIN pcs[p]
      /\ \A j \in DOMAIN pcs[p] : s[j].peer = pcs[p][j].peer
  BY <1>1, ExceptKeeps
<1>3. pcs' = [pcs EXCEPT ![p] = s]
  BY <1>1
<1>4. pcs[p] # <<>>
  OBVIOUS
<1> HIDE DEF s
<1>5. PcsInv'
  BY <1>1, <1>2, <1>3 DEF PcsInv
<1>6. \A q \in Peers : /\ DOMAIN pcs'[q] = DOMAIN pcs[q]
                       /\ \A j \in DOMAIN pcs[q] : pcs'[q][j].peer = pcs[q][j].peer
                       /\ pcs'[q] # <<>> => pcs[q] # <<>>
  BY <1>1, <1>2, <1>3, <1>4
<1>7. EntryInv'
  <2>1. ASSUME NEW q \in Peers, NEW r \in Peers, entry'[q][r] # 0
        PROVE  entry'[q][r] \in DOMAIN pcs'[q] /\ pcs'[q][entry'[q][r]].peer = r
    <3>1. PICK j : j = entry[q][r]
      OBVIOUS
    <3>2. entry'[q][r] = j /\ j # 0
      BY <2>1, <3>1
    <3>3. j \in DOMAIN pcs[q] /\ pcs[q][j].peer = r
      BY <3>1, <3>2 DEF TypeInv, EntryInv
    <3> QED
      BY <1>6, <3>2, <3>3
  <2> QED
    BY <2>1 DEF EntryInv
<1> QED
  BY <1>5, <1>6, <1>7

(* What the first message under way to a page is. *)
LEMMA HeadType ==
  ASSUME TypeInv, NEW p \in Peers, NEW type, Told(p, type), Taken(p)
  PROVE  /\ Head(inbox[p]).from \in Peers /\ tab[p].ws
         /\ type \in {"offer", "answer", "ice-candidate"} => Head(inbox[p]).desc \in Description
         /\ inbox' \in [Peers -> Seq(Notice \cup Signal)]
<1>1. inbox \in [Peers -> Seq(Notice \cup Signal)] /\ inbox[p] \in Seq(Notice \cup Signal)
  BY DEF TypeInv, RestInv
<1>2. Head(inbox[p]) \in Notice \cup Signal /\ Tail(inbox[p]) \in Seq(Notice \cup Signal)
  BY <1>1, SeqKeeps DEF Told
<1>3. inbox' \in [Peers -> Seq(Notice \cup Signal)]
  BY <1>1, <1>2 DEF Taken
<1> QED
  BY <1>2, <1>3 DEF Told, Notice, Signal

(* A handler asks a connection for an operation. *)
LEMMA AskedSound ==
  ASSUME NEW c \in SoundConn, NEW op, NEW desc \in Description \cup {None},
         op \in {"createOffer", "setRemoteOffer", "setRemoteAnswer", "addCandidate"},
         op # "createOffer" => desc \in Description
  PROVE  Asked(c, op, desc) \in SoundConn /\ Asked(c, op, desc).peer = c.peer
<1> DEFINE o == [op |-> op, desc |-> desc]
<1>1. o \in SoundOp
  BY DEF SoundOp, Operation, Remote
<1>2. c \in Connection /\ c.chain \in Seq(SoundOp) /\ (c.sig = "answering" => c.remote \in Description)
  BY DEF SoundConn
<1>3. Append(c.chain, o) \in Seq(SoundOp)
  BY <1>1, <1>2, SeqKeeps
<1>4. Append(c.chain, o) \in Seq(Operation)
  BY <1>3 DEF SoundOp
<1> DEFINE x == [c EXCEPT !.chain = Append(c.chain, o), !.told = c.told \/ op = "createOffer",
                          !.offered = c.offered \/ op = "setRemoteOffer"]
<1> HIDE DEF o
<1>5. x \in Connection /\ x.chain = Append(c.chain, o) /\ x.sig = c.sig /\ x.remote = c.remote
      /\ x.peer = c.peer
  BY <1>2, <1>4 DEF Connection
<1>6. x = Asked(c, op, desc)
  BY DEF Asked, o
<1> HIDE DEF x
<1> QED
  BY <1>2, <1>3, <1>5, <1>6 DEF SoundConn

(* createPeerConnection returns a connection for the peer, old or new. *)
LEMMA CreatedSound ==
  ASSUME TypeInv, NEW p \in Peers, NEW q \in Peers
  PROVE  /\ Created(p, q) \in Seq(SoundConn)
         /\ Chosen(p, q) \in DOMAIN Created(p, q) /\ Chosen(p, q) \in Nat \ {0}
         /\ Created(p, q)[Chosen(p, q)].peer = q
         /\ DOMAIN pcs[p] \subseteq DOMAIN Created(p, q)
         /\ \A j \in DOMAIN pcs[p] : Created(p, q)[j] = pcs[p][j]
         /\ \A j \in DOMAIN Created(p, q) : j \in DOMAIN pcs[p] \/ j = Chosen(p, q)
<1>1. pcs[p] \in Seq(SoundConn) /\ DOMAIN pcs[p] = 1..Len(pcs[p]) /\ Len(pcs[p]) \in Nat
  BY SeqKeeps DEF TypeInv, PcsInv
<1>2. CASE entry[p][q] # 0
  BY <1>1, <1>2 DEF Created, Chosen, TypeInv, EntryInv
<1>3. CASE entry[p][q] = 0
  <2> DEFINE c == New(p, q)
             s == Append(pcs[p], c)
  <2>1. c \in SoundConn /\ c.peer = q
    <3>1. tab[p].stream \in BOOLEAN
      BY DEF TypeInv, RestInv, Tab
    <3>2. <<>> \in Seq(Operation) /\ <<>> \in Seq(SoundOp)
      OBVIOUS
    <3>3. New(p, q) \in Connection /\ New(p, q).chain = <<>> /\ New(p, q).sig = "stable"
      BY <3>1, <3>2 DEF New, Connection
    <3> QED
      BY <3>2, <3>3 DEF SoundConn, New
  <2> HIDE DEF c
  <2>2. /\ s \in Seq(SoundConn) /\ Len(s) = Len(pcs[p]) + 1 /\ DOMAIN s = 1..Len(s)
        /\ \A j \in 1..Len(pcs[p]) : s[j] = pcs[p][j]
        /\ s[Len(pcs[p]) + 1] = c
    BY <1>1, <2>1, AppendProperties, SeqKeeps
  <2>3. Created(p, q) = s /\ Chosen(p, q) = Len(pcs[p]) + 1
    BY <1>3 DEF Created, Chosen, c
  <2> HIDE DEF s
  <2> QED
    BY <1>1, <2>1, <2>2, <2>3
<1> QED
  BY <1>2, <1>3

(* A handler starts with a connection of its peer. *)
LEMMA StartType ==
  ASSUME TypeInv, NEW p \in Peers, NEW q \in Peers, NEW op, NEW desc \in Description \cup {None},
         op \in {"createOffer", "setRemoteOffer"}, op # "createOffer" => desc \in Description,
         Start(p, q, op, desc)
  PROVE  PcsInv' /\ EntryInv' /\ \A r \in Peers : pcs'[r] # <<>> => pcs[r] # <<>> \/ r = p
<1> DEFINE s == Created(p, q)
           k == Chosen(p, q)
           c == Asked(s[k], op, desc)
           x == [s EXCEPT ![k] = c]
<1>1. /\ s \in Seq(SoundConn) /\ k \in DOMAIN s /\ k \in Nat \ {0} /\ s[k].peer = q
      /\ DOMAIN pcs[p] \subseteq DOMAIN s /\ \A j \in DOMAIN pcs[p] : s[j] = pcs[p][j]
  BY CreatedSound
<1>2. pcs' = [pcs EXCEPT ![p] = x] /\ entry' = [entry EXCEPT ![p][q] = k]
  BY DEF Start
<1>3. pcs \in [Peers -> Seq(SoundConn)] /\ entry \in [Peers -> [Peers -> Nat]]
  BY DEF TypeInv, PcsInv, EntryInv
<1> HIDE DEF s, k
<1>4. s[k] \in SoundConn
  BY <1>1, ElementOfSeq, SeqKeeps
<1>5. c \in SoundConn /\ c.peer = q
  BY <1>1, <1>4, AskedSound
<1> HIDE DEF c
<1>6. /\ x \in Seq(SoundConn) /\ DOMAIN x = DOMAIN s
      /\ \A j \in DOMAIN s : x[j].peer = s[j].peer
  BY <1>1, <1>5, ExceptKeeps
<1> HIDE DEF x
<1>7. PcsInv'
  BY <1>2, <1>3, <1>6 DEF PcsInv
<1>8. EntryInv'
  <2>1. entry' \in [Peers -> [Peers -> Nat]]
    BY <1>1, <1>2, <1>3
  <2>2. ASSUME NEW r \in Peers, NEW t \in Peers, entry'[r][t] # 0
        PROVE  entry'[r][t] \in DOMAIN pcs'[r] /\ pcs'[r][entry'[r][t]].peer = t
    <3>1. CASE r = p /\ t = q
      BY <1>1, <1>2, <1>3, <1>6, <3>1
    <3>2. CASE r = p /\ t # q
      <4>1. entry'[r][t] = entry[p][t] /\ pcs'[r] = x
        BY <1>2, <1>3, <3>2
      <4>2. entry[p][t] \in DOMAIN pcs[p] /\ pcs[p][entry[p][t]].peer = t
        BY <2>2, <4>1 DEF TypeInv, EntryInv
      <4> QED
        BY <1>1, <1>6, <4>1, <4>2
    <3>3. CASE r # p
      BY <1>2, <1>3, <2>2, <3>3 DEF TypeInv, EntryInv
    <3> QED
      BY <3>1, <3>2, <3>3
  <2> QED
    BY <2>1, <2>2 DEF EntryInv
<1> QED
  BY <1>2, <1>3, <1>7, <1>8

(* close() ends what the connection does. *)
LEMMA ClosedSound ==
  ASSUME NEW c \in SoundConn
  PROVE  Closed(c) \in SoundConn /\ Closed(c).peer = c.peer
<1>1. c \in Connection /\ <<>> \in Seq(Operation) /\ <<>> \in Seq(SoundOp)
  BY DEF SoundConn
<1>2. Closed(c) \in Connection /\ Closed(c).peer = c.peer /\ Closed(c).chain = <<>>
      /\ Closed(c).sig = "closed"
  BY <1>1 DEF Closed, Connection
<1> QED
  BY <1>1, <1>2 DEF SoundConn

(* A connection in the map. *)
LEMMA EntrySound ==
  ASSUME TypeInv, NEW p \in Peers, NEW k \in DOMAIN pcs[p]
  PROVE  pcs[p][k] \in SoundConn /\ k \in Nat \ {0}
<1>1. pcs[p] \in Seq(SoundConn)
  BY DEF TypeInv, PcsInv
<1> QED
  BY <1>1, ElementOfSeq, SeqKeeps

(* A handler of a page with a socket changes nothing else than these. *)
LEMMA HandleQuiet ==
  ASSUME TypeInv, NEW p \in Peers, tab[p].ws, UNCHANGED <<tab, member, gone, queue, pages, faults>>,
         PcsInv', EntryInv', inbox' \in [Peers -> Seq(Notice \cup Signal)],
         \A q \in Peers : pcs'[q] # <<>> => pcs[q] # <<>> \/ q = p,
         tiles' = tiles \/ \E x \in SUBSET Peers : tiles' = [tiles EXCEPT ![p] = x]
  PROVE  TypeInv'
<1>1. \A q \in Peers : SameTab(q)
  BY DEF SameTab
<1>2. TabInv'
  BY <1>1, TabKept
<1>3. tiles' \in [Peers -> SUBSET Peers]
  BY DEF TypeInv, RestInv
<1>4. RestInv'
  BY <1>3 DEF TypeInv, RestInv
<1> QED
  BY <1>2, <1>4 DEF TypeInv

(* The handlers of the manager. *)
LEMMA HandleType ==
  ASSUME TypeInv, NEW p \in Peers, Handle(p)
  PROVE  TypeInv'
<1> DEFINE m == Head(inbox[p])
           k == entry[p][m.from]
<1>1. CASE HandleUserJoined(p)
  <2>1. m.from \in Peers /\ tab[p].ws /\ inbox' \in [Peers -> Seq(Notice \cup Signal)]
    BY <1>1, HeadType DEF HandleUserJoined
  <2>2. Start(p, m.from, "createOffer", None)
    BY <1>1 DEF HandleUserJoined
  <2> QED
    BY <2>1, <2>2, <1>1, StartType, HandleQuiet DEF HandleUserJoined, server
<1>2. CASE HandleOffer(p)
  <2>1. /\ m.from \in Peers /\ tab[p].ws /\ inbox' \in [Peers -> Seq(Notice \cup Signal)]
        /\ m.desc \in Description
    BY <1>2, HeadType DEF HandleOffer
  <2>2. Start(p, m.from, "setRemoteOffer", m.desc)
    BY <1>2 DEF HandleOffer
  <2> QED
    BY <2>1, <2>2, <1>2, StartType, HandleQuiet DEF HandleOffer, server
<1>3. ASSUME NEW type \in {"answer", "ice-candidate"}, NEW op \in {"setRemoteAnswer", "addCandidate"},
             Asks(p, type, op)
      PROVE  TypeInv'
  <2>1. /\ m.from \in Peers /\ tab[p].ws /\ inbox' \in [Peers -> Seq(Notice \cup Signal)]
        /\ m.desc \in Description
    BY <1>3, HeadType DEF Asks
  <2>2. entry' = entry /\ entry \in [Peers -> [Peers -> Nat]]
    BY <1>3 DEF Asks, TypeInv, EntryInv
  <2>3. PcsInv' /\ EntryInv' /\ \A q \in Peers : pcs'[q] # <<>> => pcs[q] # <<>> \/ q = p
    <3>1. CASE k = 0
      BY <1>3, <3>1, <2>2, PagesKept DEF Asks
    <3>2. CASE k # 0
      <4> DEFINE c == Asked(pcs[p][k], op, m.desc)
      <4>1. k \in DOMAIN pcs[p]
        BY <2>1, <3>2 DEF TypeInv, EntryInv
      <4>2. c \in SoundConn /\ c.peer = pcs[p][k].peer
        BY <2>1, <4>1, EntrySound, AskedSound
      <4>3. pcs' = [pcs EXCEPT ![p][k] = c]
        BY <1>3, <3>2 DEF Asks
      <4> HIDE DEF c
      <4> QED
        BY <4>1, <4>2, <4>3, <2>2, ConnKept
    <3> QED
      BY <3>1, <3>2
  <2> QED
    BY <2>1, <2>3, <1>3, HandleQuiet DEF Asks, server
<1>4. CASE HandleUserLeft(p)
  <2>1. m.from \in Peers /\ tab[p].ws /\ inbox' \in [Peers -> Seq(Notice \cup Signal)]
    BY <1>4, HeadType DEF HandleUserLeft
  <2>2. /\ entry' = [entry EXCEPT ![p][m.from] = 0] /\ entry' \in [Peers -> [Peers -> Nat]]
        /\ \A q, r \in Peers : entry'[q][r] \in {0, entry[q][r]}
    <3>1. entry' = [entry EXCEPT ![p][m.from] = 0] /\ entry \in [Peers -> [Peers -> Nat]]
      BY <1>4 DEF HandleUserLeft, TypeInv, EntryInv
    <3> QED
      BY <3>1, <2>1
  <2>3. PcsInv' /\ EntryInv' /\ \A q \in Peers : pcs'[q] # <<>> => pcs[q] # <<>> \/ q = p
    <3>1. CASE k = 0
      <4>1. pcs' = pcs
        BY <1>4, <3>1 DEF HandleUserLeft
      <4>2. EntryInv'
        BY <2>2, <4>1 DEF TypeInv, EntryInv
      <4> QED
        BY <4>1, <4>2 DEF TypeInv, PcsInv
    <3>2. CASE k # 0
      <4> DEFINE c == Closed(pcs[p][k])
      <4>1. k \in DOMAIN pcs[p]
        BY <2>1, <3>2 DEF TypeInv, EntryInv
      <4>2. c \in SoundConn /\ c.peer = pcs[p][k].peer
        BY <4>1, EntrySound, ClosedSound
      <4>3. pcs' = [pcs EXCEPT ![p][k] = c]
        BY <1>4, <3>2 DEF HandleUserLeft
      <4> HIDE DEF c
      <4> QED
        BY <4>1, <4>2, <4>3, <2>2, ConnKept
    <3> QED
      BY <3>1, <3>2
  <2>4. tiles' = [tiles EXCEPT ![p] = @ \ {m.from}] /\ UNCHANGED <<tab, member, gone, queue, pages, faults>>
    BY <1>4 DEF HandleUserLeft, server
  <2>5. tiles[p] \ {m.from} \in SUBSET Peers /\ tiles' = [tiles EXCEPT ![p] = tiles[p] \ {m.from}]
    BY <2>4 DEF TypeInv, RestInv
  <2> QED
    BY <2>1, <2>3, <2>4, <2>5, HandleQuiet
<1> QED
  BY <1>1, <1>2, <1>3, <1>4 DEF Handle, HandleAnswer, HandleIceCandidate

(* A connection performs its first operation, and its handler may ask for    *)
(* another.                                                                *)
LEMMA PerformedConn ==
  ASSUME TypeInv, NEW p \in Peers, NEW k \in DOMAIN pcs[p], pcs[p][k].chain # <<>>,
         NEW c \in SoundConn, c.chain = pcs[p][k].chain, c.peer = pcs[p][k].peer,
         NEW next \in Seq(SoundOp), Performed(p, k, c, next)
  PROVE  \E x \in SoundConn : x.peer = pcs[p][k].peer /\ pcs' = [pcs EXCEPT ![p][k] = x]
<1>1. c \in Connection /\ c.chain \in Seq(SoundOp) /\ c.chain # <<>>
      /\ (c.sig = "answering" => c.remote \in Description)
  BY DEF SoundConn
<1> DEFINE left == Tail(c.chain) \o next
           x == [c EXCEPT !.chain = left]
<1>2. left \in Seq(SoundOp)
  BY <1>1, SeqKeeps, ConcatProperties
<1>3. left \in Seq(Operation)
  BY <1>2 DEF SoundOp
<1> HIDE DEF left
<1>4. x \in Connection /\ x.chain = left /\ x.sig = c.sig /\ x.remote = c.remote /\ x.peer = c.peer
  BY <1>1, <1>3 DEF Connection
<1>5. pcs' = [pcs EXCEPT ![p][k] = x]
  BY DEF Performed, left
<1> HIDE DEF x
<1>6. x \in SoundConn
  BY <1>1, <1>2, <1>4 DEF SoundConn
<1> QED
  BY <1>4, <1>5, <1>6

LEMMA PerformedKept ==
  ASSUME TypeInv, NEW p \in Peers, NEW k \in DOMAIN pcs[p], pcs[p][k].chain # <<>>,
         NEW c \in SoundConn, c.chain = pcs[p][k].chain, c.peer = pcs[p][k].peer,
         NEW next \in Seq(SoundOp), Performed(p, k, c, next), entry' = entry
  PROVE  PcsInv' /\ EntryInv' /\ \A q \in Peers : pcs'[q] # <<>> => pcs[q] # <<>>
<1>1. PICK x \in SoundConn : x.peer = pcs[p][k].peer /\ pcs' = [pcs EXCEPT ![p][k] = x]
  BY PerformedConn
<1>2. entry \in [Peers -> [Peers -> Nat]]
  BY DEF TypeInv, EntryInv
<1> QED
  BY <1>1, <1>2, ConnKept

(* The operation at the head of a chain. *)
LEMMA GivenSound ==
  ASSUME TypeInv, NEW p \in Peers, NEW k, NEW op, Performs(p, k, op)
  PROVE  /\ k \in DOMAIN pcs[p] /\ pcs[p][k] \in SoundConn /\ pcs[p][k].chain # <<>>
         /\ op \in Remote => Given(p, k) \in Description
<1>1. k \in DOMAIN pcs[p] /\ pcs[p][k] \in SoundConn /\ pcs[p][k].chain # <<>>
  BY EntrySound DEF Performs
<1>2. pcs[p][k].chain \in Seq(SoundOp)
  BY <1>1 DEF SoundConn
<1>3. Head(pcs[p][k].chain) \in SoundOp
  BY <1>1, <1>2, SeqKeeps
<1> QED
  BY <1>1, <1>3 DEF Performs, Given, SoundOp

(* What a handler asks for next. *)
LEMMA ThenSound ==
  ASSUME NEW op \in {"setOffer", "createAnswer", "setAnswer"}
  PROVE  Then(op) \in Seq(SoundOp) /\ <<>> \in Seq(SoundOp)
<1>1. [op |-> op, desc |-> None] \in SoundOp
  BY DEF SoundOp, Operation, Remote
<1> QED
  BY <1>1 DEF Then

(* The descriptions a connection makes. *)
LEMMA OfferType ==
  ASSUME TypeInv, NEW p \in Peers, NEW k \in DOMAIN pcs[p]
  PROVE  /\ Offer(p, k) \in Description
         /\ pcs[p][k].sig = "answering" => Answer(p, k) \in Description
<1>1. pcs[p][k] \in SoundConn /\ k \in Nat \ {0}
  BY EntrySound
<1>2. tab[p].n \in Nat \ {0}
  <2>1. pcs[p] # <<>>
    OBVIOUS
  <2> QED
    BY <2>1 DEF TypeInv, TabInv, RestInv, Tab
<1>3. Me(p, k) \in Party
  BY <1>1, <1>2 DEF Me, Party
<1>4. pcs[p][k].tracks \in BOOLEAN /\ (pcs[p][k].sig = "answering" => pcs[p][k].remote \in Description)
  BY <1>1 DEF SoundConn, Connection
<1>5. Offer(p, k) \in Description
  BY <1>3, <1>4 DEF Offer, Description
<1>6. ASSUME pcs[p][k].remote \in Description PROVE Answer(p, k) \in Description
  <2>1. pcs[p][k].remote.of \in Party /\ pcs[p][k].remote.media \in BOOLEAN
    BY <1>6 DEF Description
  <2>2. (pcs[p][k].tracks /\ pcs[p][k].remote.media) \in BOOLEAN
    OBVIOUS
  <2> QED
    BY <1>3, <2>1, <2>2 DEF Answer, Description
<1> QED
  BY <1>4, <1>5, <1>6

(* What a connection sends. *)
LEMMA SendType ==
  ASSUME TypeInv, NEW p \in Peers, NEW k \in DOMAIN pcs[p],
         NEW type \in {"offer", "answer", "ice-candidate"}, NEW desc \in Description,
         Send(p, k, type, desc)
  PROVE  inbox' \in [Peers -> Seq(Notice \cup Signal)] /\ faults' \in 0..MaxEvents
<1> DEFINE m == [type |-> type, from |-> p, desc |-> desc]
           to == {pcs[p][k].peer} \cap Reachable
<1>1. m \in Notice \cup Signal /\ to \in SUBSET Peers
  BY DEF Signal, Reachable
<1>2. CASE tab[p].ws
  <2>1. Delivered(to, m)
    BY <1>2 DEF Send
  <2> HIDE DEF to, m
  <2> QED
    BY <1>1, <2>1, DeliveredType
<1>3. CASE ~tab[p].ws
  BY <1>3, FaultType DEF Send, TypeInv, RestInv
<1> QED
  BY <1>2, <1>3

(* A page that shows an error is otherwise as it was. *)
LEMMA ErrorTab ==
  ASSUME tab \in [Peers -> Tab], NEW p \in Peers,
         tab' = tab \/ tab' = [tab EXCEPT ![p].error = "handler"]
  PROVE  tab' \in [Peers -> Tab] /\ \A q \in Peers : SameTab(q)
<1>1. CASE tab' = tab
  BY <1>1 DEF SameTab
<1>2. CASE tab' = [tab EXCEPT ![p].error = "handler"]
  BY <1>2 DEF SameTab, Tab
<1> QED
  BY <1>1, <1>2

(* A connection changes, and what else an operation may touch. *)
LEMMA PerformQuiet ==
  ASSUME TypeInv, NEW p \in Peers, UNCHANGED <<member, gone, queue, pages>>,
         PcsInv', EntryInv', \A q \in Peers : pcs'[q] # <<>> => pcs[q] # <<>>,
         inbox' \in [Peers -> Seq(Notice \cup Signal)], faults' \in 0..MaxEvents,
         tiles' \in [Peers -> SUBSET Peers],
         tab' = tab \/ tab' = [tab EXCEPT ![p].error = "handler"]
  PROVE  TypeInv'
<1>1. tab \in [Peers -> Tab]
  BY DEF TypeInv, RestInv
<1>2. tab' \in [Peers -> Tab] /\ \A q \in Peers : SameTab(q)
  BY <1>1, ErrorTab
<1>3. TabInv'
  BY <1>2, TabKept
<1>4. RestInv'
  BY <1>2 DEF TypeInv, RestInv
<1> QED
  BY <1>3, <1>4 DEF TypeInv

(* A connection's peer may get a tile. *)
LEMMA ShownType ==
  ASSUME TypeInv, NEW p \in Peers, NEW k \in DOMAIN pcs[p], Shown(p, k)
  PROVE  tiles' \in [Peers -> SUBSET Peers]
<1>1. pcs[p][k].peer \in Peers /\ tiles \in [Peers -> SUBSET Peers]
  BY EntrySound DEF SoundConn, Connection, TypeInv, RestInv
<1>2. CASE Given(p, k).media
  BY <1>1, <1>2 DEF Shown
<1>3. CASE ~Given(p, k).media
  BY <1>1, <1>3 DEF Shown
<1> QED
  BY <1>2, <1>3

(* The operations that only ask for another, or end. *)
LEMMA PlainType ==
  ASSUME TypeInv, NEW p \in Peers, NEW k \in DOMAIN pcs[p], pcs[p][k].chain # <<>>,
         NEW next \in Seq(SoundOp), Performed(p, k, pcs[p][k], next),
         UNCHANGED <<entry, tiles, server, inbox, pages, faults>>,
         tab' = tab \/ tab' = [tab EXCEPT ![p].error = "handler"]
  PROVE  TypeInv'
<1>1. pcs[p][k] \in SoundConn
  BY EntrySound
<1>2. PcsInv' /\ EntryInv' /\ \A q \in Peers : pcs'[q] # <<>> => pcs[q] # <<>>
  BY <1>1, PerformedKept
<1> QED
  BY <1>2, PerformQuiet DEF server, TypeInv, RestInv

(* The operations of a connection. *)
LEMMA PerformType ==
  ASSUME TypeInv, NEW p \in Peers, NEW k \in DOMAIN pcs[p], Perform(p, k)
  PROVE  TypeInv'
<1>0. tiles \in [Peers -> SUBSET Peers] /\ inbox \in [Peers -> Seq(Notice \cup Signal)]
      /\ faults \in 0..MaxEvents /\ <<>> \in Seq(SoundOp)
  BY DEF TypeInv, RestInv
<1>1. CASE CreateOffer(p, k)
  BY <1>1, GivenSound, ThenSound, PlainType DEF CreateOffer
<1>2. CASE CreateAnswer(p, k)
  BY <1>2, GivenSound, ThenSound, PlainType DEF CreateAnswer
<1>3. CASE AddCandidate(p, k)
  BY <1>0, <1>3, GivenSound, PlainType DEF AddCandidate
<1>4. CASE WrongState(p, k)
  BY <1>0, <1>4, PlainType DEF WrongState, Refused
<1>5. CASE SetOffer(p, k)
  <2> DEFINE c == [pcs[p][k] EXCEPT !.sig = "offering", !.gather = pcs[p][k].tracks]
  <2>1. pcs[p][k] \in SoundConn /\ pcs[p][k].chain # <<>>
    BY <1>5, GivenSound DEF SetOffer
  <2>2. c \in SoundConn /\ c.chain = pcs[p][k].chain /\ c.peer = pcs[p][k].peer
    BY <2>1 DEF SoundConn, Connection
  <2>3. Performed(p, k, c, <<>>) /\ Send(p, k, "offer", Offer(p, k))
        /\ UNCHANGED <<tab, entry, tiles, server, pages>>
    BY <1>5 DEF SetOffer
  <2> HIDE DEF c
  <2>4. PcsInv' /\ EntryInv' /\ \A q \in Peers : pcs'[q] # <<>> => pcs[q] # <<>>
    BY <1>0, <2>1, <2>2, <2>3, PerformedKept
  <2>5. inbox' \in [Peers -> Seq(Notice \cup Signal)] /\ faults' \in 0..MaxEvents
    BY <2>3, OfferType, SendType
  <2> QED
    BY <1>0, <2>3, <2>4, <2>5, PerformQuiet DEF server
<1>6. CASE SetRemoteOffer(p, k)
  <2> DEFINE c == [pcs[p][k] EXCEPT !.sig = "answering", !.remote = Given(p, k)]
  <2>1. pcs[p][k] \in SoundConn /\ pcs[p][k].chain # <<>> /\ Given(p, k) \in Description
    BY <1>6, GivenSound DEF SetRemoteOffer, Remote
  <2>2. c \in SoundConn /\ c.chain = pcs[p][k].chain /\ c.peer = pcs[p][k].peer
    BY <2>1 DEF SoundConn, Connection
  <2>3. Performed(p, k, c, Then("createAnswer")) /\ Shown(p, k)
        /\ UNCHANGED <<tab, entry, server, inbox, pages, faults>>
    BY <1>6 DEF SetRemoteOffer
  <2> HIDE DEF c
  <2>4. PcsInv' /\ EntryInv' /\ \A q \in Peers : pcs'[q] # <<>> => pcs[q] # <<>>
    BY <2>1, <2>2, <2>3, ThenSound, PerformedKept
  <2> QED
    BY <1>0, <2>3, <2>4, ShownType, PerformQuiet DEF server
<1>7. CASE SetAnswer(p, k)
  <2> DEFINE c == [pcs[p][k] EXCEPT !.sig = "stable", !.gather = pcs[p][k].remote.media]
  <2>1. pcs[p][k] \in SoundConn /\ pcs[p][k].chain # <<>> /\ pcs[p][k].sig = "answering"
    BY <1>7, GivenSound DEF SetAnswer
  <2>2. pcs[p][k].remote.media \in BOOLEAN
    BY <2>1 DEF SoundConn, Description
  <2>3. c \in SoundConn /\ c.chain = pcs[p][k].chain /\ c.peer = pcs[p][k].peer
    BY <2>1, <2>2 DEF SoundConn, Connection
  <2>4. Performed(p, k, c, <<>>) /\ Send(p, k, "answer", Answer(p, k))
        /\ UNCHANGED <<tab, entry, tiles, server, pages>>
    BY <1>7 DEF SetAnswer
  <2> HIDE DEF c
  <2>5. PcsInv' /\ EntryInv' /\ \A q \in Peers : pcs'[q] # <<>> => pcs[q] # <<>>
    BY <1>0, <2>1, <2>3, <2>4, PerformedKept
  <2>6. inbox' \in [Peers -> Seq(Notice \cup Signal)] /\ faults' \in 0..MaxEvents
    BY <2>1, <2>4, OfferType, SendType
  <2> QED
    BY <1>0, <2>4, <2>5, <2>6, PerformQuiet DEF server
<1>8. CASE SetRemoteAnswer(p, k)
  <2> DEFINE c == [pcs[p][k] EXCEPT !.sig = "stable", !.remote = Given(p, k)]
  <2>1. pcs[p][k] \in SoundConn /\ pcs[p][k].chain # <<>> /\ Given(p, k) \in Description
    BY <1>8, GivenSound DEF SetRemoteAnswer, Remote
  <2>2. c \in SoundConn /\ c.chain = pcs[p][k].chain /\ c.peer = pcs[p][k].peer
    BY <2>1 DEF SoundConn, Connection
  <2>3. Performed(p, k, c, <<>>) /\ Shown(p, k)
        /\ UNCHANGED <<tab, entry, server, inbox, pages, faults>>
    BY <1>8 DEF SetRemoteAnswer
  <2> HIDE DEF c
  <2>4. PcsInv' /\ EntryInv' /\ \A q \in Peers : pcs'[q] # <<>> => pcs[q] # <<>>
    BY <1>0, <2>1, <2>2, <2>3, PerformedKept
  <2> QED
    BY <1>0, <2>3, <2>4, ShownType, PerformQuiet DEF server
<1> QED
  BY <1>1, <1>2, <1>3, <1>4, <1>5, <1>6, <1>7, <1>8 DEF Perform

(* What a connection does by itself. *)
LEMMA OwnType ==
  ASSUME TypeInv, NEW p \in Peers, NEW k \in DOMAIN pcs[p],
         SendCandidate(p, k) \/ ConnectionFails(p, k)
  PROVE  TypeInv'
<1>0. /\ pcs[p][k] \in SoundConn /\ pcs[p][k].peer \in Peers
      /\ tiles \in [Peers -> SUBSET Peers] /\ inbox \in [Peers -> Seq(Notice \cup Signal)]
      /\ entry \in [Peers -> [Peers -> Nat]]
  BY EntrySound DEF TypeInv, RestInv, EntryInv, SoundConn, Connection
<1>1. CASE SendCandidate(p, k)
  <2> DEFINE c == [pcs[p][k] EXCEPT !.gather = FALSE]
  <2>1. c \in SoundConn /\ c.peer = pcs[p][k].peer
    BY <1>0 DEF SoundConn, Connection
  <2>2. pcs' = [pcs EXCEPT ![p][k] = c] /\ UNCHANGED <<tab, entry, tiles, server, pages>>
    BY <1>1 DEF SendCandidate
  <2> HIDE DEF c
  <2>3. PcsInv' /\ EntryInv' /\ \A q \in Peers : pcs'[q] # <<>> => pcs[q] # <<>>
    BY <1>0, <2>1, <2>2, ConnKept
  <2>4. inbox' \in [Peers -> Seq(Notice \cup Signal)] /\ faults' \in 0..MaxEvents
    BY <1>1, OfferType, SendType DEF SendCandidate
  <2> QED
    BY <1>0, <2>2, <2>3, <2>4, PerformQuiet DEF server
<1>2. CASE ConnectionFails(p, k)
  <2> DEFINE c == [pcs[p][k] EXCEPT !.failed = TRUE]
             q == pcs[p][k].peer
  <2>1. c \in SoundConn /\ c.peer = q
    BY <1>0 DEF SoundConn, Connection
  <2>2. /\ pcs' = [pcs EXCEPT ![p][k] = c] /\ entry' = [entry EXCEPT ![p][q] = 0]
        /\ UNCHANGED <<tab, tiles, server, inbox, pages>> /\ faults' \in 0..MaxEvents
    BY <1>2, FaultType DEF ConnectionFails
  <2> HIDE DEF c, q
  <2>3. entry' \in [Peers -> [Peers -> Nat]] /\ \A r, t \in Peers : entry'[r][t] \in {0, entry[r][t]}
    BY <1>0, <2>2 DEF q
  <2>4. PcsInv' /\ EntryInv' /\ \A r \in Peers : pcs'[r] # <<>> => pcs[r] # <<>>
    BY <2>1, <2>2, <2>3, ConnKept DEF q
  <2> QED
    BY <1>0, <2>2, <2>4, PerformQuiet DEF server
<1> QED
  BY <1>1, <1>2

(* The server. *)
LEMMA HubType ==
  ASSUME TypeInv, HubBroadcast \/ \E p \in Peers : HubUnregister(p)
  PROVE  TypeInv'
<1>0. queue \in Seq(Notice) /\ gone \in [Peers -> Nat] /\ member \in [Peers -> Nat]
  BY DEF TypeInv, RestInv
<1>1. ASSUME NEW p \in Peers, HubUnregister(p) PROVE TypeInv'
  <2>1. UNCHANGED <<tab, pcs, entry, tiles, inbox, pages, faults>>
    BY <1>1 DEF HubUnregister, browser
  <2>2. [type |-> "user-left", from |-> p] \in Notice
    BY DEF Notice
  <2>3. queue' \in Seq(Notice)
    BY <1>0, <1>1, <2>2, SeqKeeps DEF HubUnregister
  <2>4. gone' \in [Peers -> Nat] /\ member' \in [Peers -> Nat]
    BY <1>0, <1>1 DEF HubUnregister
  <2> QED
    BY <2>1, <2>3, <2>4 DEF TypeInv, TabInv, PcsInv, EntryInv, RestInv
<1>2. CASE HubBroadcast
  <2>1. UNCHANGED <<tab, pcs, entry, tiles, member, gone, pages>>
    BY <1>2 DEF HubBroadcast, browser
  <2>2. queue # <<>> /\ queue' = Tail(queue)
    BY <1>2 DEF HubBroadcast
  <2>3. Head(queue) \in Notice \cup Signal /\ queue' \in Seq(Notice)
    BY <1>0, <2>2, SeqKeeps
  <2>4. PICK to \in SUBSET Peers : Delivered(to, Head(queue))
    BY <1>2 DEF HubBroadcast
  <2>5. inbox' \in [Peers -> Seq(Notice \cup Signal)] /\ faults' \in 0..MaxEvents
    BY <2>3, <2>4, DeliveredType
  <2> QED
    BY <2>1, <2>3, <2>5 DEF TypeInv, TabInv, PcsInv, EntryInv, RestInv
<1> QED
  BY <1>1, <1>2

(* Every step keeps the types. *)
LEMMA TypeStep == TypeInv /\ [Next]_vars => TypeInv'
<1> SUFFICES ASSUME TypeInv, [Next]_vars PROVE TypeInv'
  OBVIOUS
<1>1. CASE UNCHANGED vars
  BY <1>1 DEF vars, browser, server, TypeInv, TabInv, PcsInv, EntryInv, RestInv
<1> QED
  BY <1>1, PageType, HandleType, PerformType, OwnType, HubType DEF Next

(***************************************************************************)
(* The maps of the page and of the server keep their types, and the entry  *)
(* of a peer in peerConnections is always a connection made for that peer.  *)
(***************************************************************************)
THEOREM MeshTypeCorrect == Spec => []TypeOK
<1>1. Init => TypeInv
  BY TypeInit
<1>2. TypeInv /\ [Next]_vars => TypeInv'
  BY TypeStep
<1>3. TypeInv => TypeOK
  BY TypeInvIsTypeOK
<1> QED
  BY <1>1, <1>2, <1>3, PTL DEF Spec

--------------------------------------------------------------------------------
(* Tiles. *)

(* The server has a page of q, or news that q left is in its queue; or such  *)
(* news is under way to p, after its i-th message.                          *)
UserLeft(m, q) == m.type = "user-left" /\ m.from = q
LeftQueued(q)  == \E j \in DOMAIN queue : UserLeft(queue[j], q)
Known(q)       == member[q] # 0 \/ LeftQueued(q)
Tells(m)       == m.type = "user-left" \/ Known(m.from)
LeftUnderWay(p, q, i) == \E j \in DOMAIN inbox[p] : j > i /\ UserLeft(inbox[p][j], q)
NewsAfter(p, q, i)    == Known(q) \/ LeftUnderWay(p, q, i)

(* That is so of every peer that a connection has something to do for, that  *)
(* is shown, or that has sent something which is under way.                 *)
ChainNews(p) == \A k \in DOMAIN pcs[p], q \in Peers :
                  pcs[p][k].chain # <<>> /\ pcs[p][k].peer = q => NewsAfter(p, q, 0)
TileNews(p)  == \A q \in tiles[p] : NewsAfter(p, q, 0)
InboxNews(p) == \A i \in DOMAIN inbox[p], q \in Peers :
                  inbox[p][i].type # "user-left" /\ inbox[p][i].from = q => NewsAfter(p, q, i)
PageNews(p)  == tab[p].ws => ChainNews(p) /\ TileNews(p) /\ InboxNews(p)

(* A notice that somebody joined is followed by one that they left, if so.   *)
QueueNews == \A i \in DOMAIN queue, q \in Peers :
               queue[i].type = "user-joined" /\ queue[i].from = q =>
                 member[q] # 0 \/ \E j \in DOMAIN queue : j > i /\ UserLeft(queue[j], q)

(* A page with a socket is the one registered; one without connections has    *)
(* none; a connection with something to do is the one in the map.            *)
Registered(p) == tab[p].ws => gone[p] = 0 /\ member[p] = tab[p].n /\ tab[p].n # 0
Blank(p)      == tab[p].phase \in {"away", "connect"} => pcs[p] = <<>> /\ tiles[p] = {} /\ ~tab[p].ws
Current(p)    == \A k \in DOMAIN pcs[p] : pcs[p][k].chain # <<>> => entry[p][pcs[p][k].peer] = k

PageInv(p) == Registered(p) /\ Blank(p) /\ Current(p) /\ PageNews(p)

TilesInv == Readable /\ faults = 0 => QueueNews /\ \A p \in Peers : PageInv(p)

(* News of a peer is not lost when messages are added. *)
LEMMA InboxKept ==
  ASSUME TypeInv, NEW p \in Peers, InboxNews(p), \A q \in Peers : Known(q) => Known(q)',
         \/ inbox'[p] = inbox[p]
         \/ \E m \in Notice \cup Signal : inbox'[p] = Append(inbox[p], m) /\ Tells(m)'
  PROVE  InboxNews(p)' /\ \A q \in Peers : \A i \in Nat : NewsAfter(p, q, i) => NewsAfter(p, q, i)'
<1>1. inbox[p] \in Seq(Notice \cup Signal)
  BY DEF TypeInv, RestInv
<1>2. /\ DOMAIN inbox[p] \subseteq DOMAIN inbox'[p] /\ DOMAIN inbox[p] \subseteq Nat
      /\ \A j \in DOMAIN inbox[p] : inbox'[p][j] = inbox[p][j]
      /\ \A j \in DOMAIN inbox'[p] : j \in DOMAIN inbox[p] \/ \E x : x = inbox'[p][j] /\ Tells(x)'
  <2>1. CASE inbox'[p] = inbox[p]
    BY <1>1, <2>1, SeqKeeps
  <2>2. ASSUME NEW m \in Notice \cup Signal, inbox'[p] = Append(inbox[p], m), Tells(m)'
        PROVE  /\ DOMAIN inbox[p] \subseteq DOMAIN inbox'[p] /\ DOMAIN inbox[p] \subseteq Nat
               /\ \A j \in DOMAIN inbox[p] : inbox'[p][j] = inbox[p][j]
               /\ \A j \in DOMAIN inbox'[p] : j \in DOMAIN inbox[p] \/ \E x : x = inbox'[p][j] /\ Tells(x)'
    <3>1. /\ DOMAIN inbox[p] = 1..Len(inbox[p]) /\ DOMAIN inbox'[p] = 1..(Len(inbox[p]) + 1)
          /\ Len(inbox[p]) \in Nat /\ inbox'[p][Len(inbox[p]) + 1] = m
          /\ \A j \in 1..Len(inbox[p]) : inbox'[p][j] = inbox[p][j]
      BY <1>1, <2>2, SeqKeeps, AppendProperties
    <3> QED
      BY <2>2, <3>1
  <2> QED
    BY <2>1, <2>2
<1>3. ASSUME NEW q \in Peers, NEW i \in Nat, NewsAfter(p, q, i) PROVE NewsAfter(p, q, i)'
  <2>1. LeftUnderWay(p, q, i) => LeftUnderWay(p, q, i)'
    BY <1>2 DEF LeftUnderWay
  <2> QED
    BY <1>3, <2>1 DEF NewsAfter
<1>4. ASSUME NEW i \in DOMAIN inbox'[p], NEW q \in Peers,
             inbox'[p][i].type # "user-left", inbox'[p][i].from = q
      PROVE  NewsAfter(p, q, i)'
  <2>1. CASE i \in DOMAIN inbox[p]
    <3>1. inbox'[p][i] = inbox[p][i] /\ i \in Nat
      BY <1>2, <2>1
    <3>2. NewsAfter(p, q, i)
      BY <1>4, <2>1, <3>1 DEF InboxNews
    <3> QED
      BY <1>3, <3>1, <3>2
  <2>2. CASE i \notin DOMAIN inbox[p]
    BY <1>2, <1>4, <2>2 DEF NewsAfter, Tells
  <2> QED
    BY <2>1, <2>2
<1>5. InboxNews(p)'
  BY <1>4 DEF InboxNews
<1> QED
  BY <1>3, <1>5

(* A page takes its first message: what there is of news comes later, unless *)
(* the message was the news.                                               *)
LEMMA InboxTaken ==
  ASSUME TypeInv, NEW p \in Peers, InboxNews(p), NEW type, Told(p, type), Taken(p),
         UNCHANGED <<member, queue>>
  PROVE  /\ InboxNews(p)'
         /\ \A q \in Peers : type # "user-left" /\ q = Head(inbox[p]).from => NewsAfter(p, q, 0)'
         /\ \A q \in Peers : NewsAfter(p, q, 0) =>
              NewsAfter(p, q, 0)' \/ (type = "user-left" /\ q = Head(inbox[p]).from)
<1>1. inbox[p] \in Seq(Notice \cup Signal) /\ inbox[p] # <<>> /\ inbox'[p] = Tail(inbox[p])
      /\ Head(inbox[p]).type = type
  BY DEF TypeInv, RestInv, Told, Taken
<1>2. /\ DOMAIN inbox[p] = 1..Len(inbox[p]) /\ DOMAIN inbox'[p] = 1..(Len(inbox[p]) - 1)
      /\ Len(inbox[p]) \in Nat \ {0} /\ Head(inbox[p]) = inbox[p][1]
      /\ \A j \in DOMAIN inbox'[p] : j + 1 \in DOMAIN inbox[p] /\ inbox'[p][j] = inbox[p][j + 1]
  BY <1>1, SeqKeeps, HeadTailProperties
<1>3. \A q : Known(q)' = Known(q)
  BY DEF Known, LeftQueued
<1>4. ASSUME NEW q, NEW i \in Nat, NewsAfter(p, q, i + 1) PROVE NewsAfter(p, q, i)'
  <2>1. CASE Known(q)
    BY <1>3, <2>1 DEF NewsAfter
  <2>2. CASE LeftUnderWay(p, q, i + 1)
    <3>1. PICK j \in DOMAIN inbox[p] : j > i + 1 /\ UserLeft(inbox[p][j], q)
      BY <2>2 DEF LeftUnderWay
    <3>2. j - 1 \in DOMAIN inbox'[p] /\ j - 1 > i /\ inbox'[p][j - 1] = inbox[p][j]
      BY <1>2, <3>1
    <3>3. LeftUnderWay(p, q, i)'
      BY <3>1, <3>2 DEF LeftUnderWay
    <3> QED
      BY <3>3 DEF NewsAfter
  <2> QED
    BY <1>4, <2>1, <2>2 DEF NewsAfter
<1>5. InboxNews(p)'
  <2>1. ASSUME NEW i \in DOMAIN inbox'[p], NEW q \in Peers,
               inbox'[p][i].type # "user-left", inbox'[p][i].from = q
        PROVE  NewsAfter(p, q, i)'
    <3>1. i \in Nat /\ i + 1 \in DOMAIN inbox[p] /\ inbox'[p][i] = inbox[p][i + 1]
      BY <1>2
    <3>2. NewsAfter(p, q, i + 1)
      BY <2>1, <3>1 DEF InboxNews
    <3> QED
      BY <1>4, <3>1, <3>2
  <2> QED
    BY <2>1 DEF InboxNews
<1>6. ASSUME NEW q \in Peers, type # "user-left", q = Head(inbox[p]).from PROVE NewsAfter(p, q, 0)'
  <2>1. 1 \in DOMAIN inbox[p] /\ inbox[p][1].type # "user-left" /\ inbox[p][1].from = q
    BY <1>1, <1>2, <1>6
  <2>2. NewsAfter(p, q, 0 + 1)
    BY <2>1 DEF InboxNews
  <2> QED
    BY <1>4, <2>2
<1>7. ASSUME NEW q \in Peers, NewsAfter(p, q, 0), ~(type = "user-left" /\ q = Head(inbox[p]).from)
      PROVE  NewsAfter(p, q, 0)'
  <2>1. NewsAfter(p, q, 0 + 1)
    BY <1>1, <1>2, <1>7 DEF NewsAfter, LeftUnderWay, UserLeft
  <2> QED
    BY <1>4, <2>1
<1> QED
  BY <1>5, <1>6, <1>7

(* A notice is added to the queue: elements before it stay where they are. *)
LEMMA QueueAppended ==
  ASSUME TypeInv, NEW n \in Notice, queue' = Append(queue, n)
  PROVE  /\ DOMAIN queue = 1..Len(queue) /\ DOMAIN queue' = 1..(Len(queue) + 1)
         /\ Len(queue) \in Nat /\ queue'[Len(queue) + 1] = n
         /\ \A j \in 1..Len(queue) : queue'[j] = queue[j]
         /\ \A q : LeftQueued(q) => LeftQueued(q)'
<1>1. /\ DOMAIN queue = 1..Len(queue) /\ DOMAIN queue' = 1..(Len(queue) + 1)
      /\ Len(queue) \in Nat /\ queue'[Len(queue) + 1] = n
      /\ \A j \in 1..Len(queue) : queue'[j] = queue[j]
  BY SeqKeeps, AppendProperties DEF TypeInv, RestInv
<1>2. ASSUME NEW q, LeftQueued(q) PROVE LeftQueued(q)'
  BY <1>1, <1>2 DEF LeftQueued
<1> QED
  BY <1>1, <1>2

(* A socket that opens is news to the server, and told. *)
LEMMA OpenServer ==
  ASSUME TypeInv, QueueNews, NEW p \in Peers, SocketOpens(p)
  PROVE  QueueNews' /\ (\A q \in Peers : Known(q) => Known(q)')
         /\ member'[p] = tab[p].n /\ tab[p].n \in Nat \ {0}
<1> DEFINE n == [type |-> "user-joined", from |-> p]
<1>1. n \in Notice /\ n.type = "user-joined" /\ n.from = p
  BY DEF Notice
<1>2. /\ queue' = Append(queue, n) /\ member' = [member EXCEPT ![p] = tab[p].n]
      /\ member \in [Peers -> Nat]
  BY DEF SocketOpens, TypeInv, RestInv
<1>3. tab[p].n \in Nat \ {0}
  BY DEF SocketOpens, TypeInv, TabInv, RestInv, Tab
<1> HIDE DEF n
<1>4. /\ DOMAIN queue = 1..Len(queue) /\ DOMAIN queue' = 1..(Len(queue) + 1)
      /\ Len(queue) \in Nat /\ queue'[Len(queue) + 1] = n
      /\ \A j \in 1..Len(queue) : queue'[j] = queue[j]
      /\ \A q : LeftQueued(q) => LeftQueued(q)'
  BY <1>1, <1>2, QueueAppended
<1>5. ASSUME NEW q \in Peers, Known(q) PROVE Known(q)'
  BY <1>2, <1>3, <1>4, <1>5 DEF Known
<1>6. ASSUME NEW i \in DOMAIN queue', NEW q \in Peers,
             queue'[i].type = "user-joined", queue'[i].from = q
      PROVE  member'[q] # 0 \/ \E j \in DOMAIN queue' : j > i /\ UserLeft(queue'[j], q)
  <2>1. CASE q = p
    BY <1>2, <1>3, <2>1
  <2>2. CASE q # p
    <3>1. i \in DOMAIN queue /\ queue'[i] = queue[i] /\ member'[q] = member[q]
      BY <1>1, <1>2, <1>4, <1>6, <2>2
    <3>2. member[q] # 0 \/ \E j \in DOMAIN queue : j > i /\ UserLeft(queue[j], q)
      BY <1>6, <3>1 DEF QueueNews
    <3> QED
      BY <1>4, <3>1, <3>2
  <2> QED
    BY <2>1, <2>2
<1>7. QueueNews'
  BY <1>6 DEF QueueNews, UserLeft
<1> QED
  BY <1>2, <1>3, <1>5, <1>7

(* Whoever is unregistered is reported. *)
LEMMA LeaveServer ==
  ASSUME TypeInv, QueueNews, NEW p \in Peers, HubUnregister(p)
  PROVE  QueueNews' /\ (\A q \in Peers : Known(q) => Known(q)')
<1> DEFINE n == [type |-> "user-left", from |-> p]
<1>1. n \in Notice /\ UserLeft(n, p) /\ n.type # "user-joined"
  BY DEF Notice, UserLeft
<1>2. member' = [member EXCEPT ![p] = 0] /\ member \in [Peers -> Nat]
  BY DEF HubUnregister, TypeInv, RestInv
<1>3. CASE member[p] = 0
  <2>1. queue' = queue /\ member' = member
    BY <1>2, <1>3 DEF HubUnregister
  <2> QED
    BY <2>1 DEF QueueNews, Known, LeftQueued
<1>4. CASE member[p] # 0
  <2>1. queue' = Append(queue, n)
    BY <1>4 DEF HubUnregister
  <2> HIDE DEF n
  <2>2. /\ DOMAIN queue = 1..Len(queue) /\ DOMAIN queue' = 1..(Len(queue) + 1)
        /\ Len(queue) \in Nat /\ queue'[Len(queue) + 1] = n
        /\ \A j \in 1..Len(queue) : queue'[j] = queue[j]
        /\ \A q : LeftQueued(q) => LeftQueued(q)'
    BY <1>1, <2>1, QueueAppended
  <2>3. ASSUME NEW q \in Peers, Known(q) PROVE Known(q)'
    <3>1. CASE q = p
      BY <1>1, <2>2, <3>1 DEF Known, LeftQueued, UserLeft
    <3>2. CASE q # p
      BY <1>2, <2>2, <2>3, <3>2 DEF Known
    <3> QED
      BY <3>1, <3>2
  <2>4. ASSUME NEW i \in DOMAIN queue', NEW q \in Peers,
               queue'[i].type = "user-joined", queue'[i].from = q
        PROVE  member'[q] # 0 \/ \E j \in DOMAIN queue' : j > i /\ UserLeft(queue'[j], q)
    <3>1. i \in DOMAIN queue /\ queue'[i] = queue[i]
      BY <1>1, <2>2, <2>4
    <3>2. member[q] # 0 \/ \E j \in DOMAIN queue : j > i /\ UserLeft(queue[j], q)
      BY <2>4, <3>1 DEF QueueNews
    <3>3. CASE q = p
      BY <1>1, <2>2, <3>1, <3>3
    <3>4. CASE q # p
      BY <1>2, <2>2, <3>2, <3>1, <3>4
    <3> QED
      BY <3>3, <3>4
  <2>5. QueueNews'
    BY <2>4 DEF QueueNews, UserLeft
  <2> QED
    BY <2>3, <2>5
<1> QED
  BY <1>3, <1>4

(* Nothing is lost without a fault. *)
LEMMA DeliveredAll ==
  ASSUME TypeInv, faults = 0, faults' = 0, NEW to \in SUBSET Peers, NEW m, Delivered(to, m)
  PROVE  /\ \A q \in to : inbox'[q] = Append(inbox[q], m)
         /\ \A q \in Peers \ to : inbox'[q] = inbox[q]
<1>1. PICK lost \in SUBSET to :
        /\ IF lost = {} THEN NoFault ELSE Fault
        /\ inbox' = [q \in Peers |-> IF q \in to \ lost THEN Append(inbox[q], m) ELSE inbox[q]]
  BY DEF Delivered
<1>2. lost = {}
  BY <1>1 DEF Fault
<1> QED
  BY <1>1, <1>2

(* The page of p, as the server and its other tabs see it, stays as it was. *)
Untouched(p) ==
  /\ tab'[p].ws = tab[p].ws /\ tab'[p].n = tab[p].n
  /\ tab'[p].phase \in {"away", "connect"} => tab[p].phase \in {"away", "connect"}
  /\ pcs'[p] = pcs[p] /\ entry'[p] = entry[p] /\ tiles'[p] = tiles[p]
  /\ gone'[p] = gone[p] /\ member'[p] = member[p]

LEMMA UntouchedKept ==
  ASSUME TypeInv, NEW p \in Peers, PageInv(p), Untouched(p),
         \A q \in Peers : Known(q) => Known(q)',
         \/ inbox'[p] = inbox[p]
         \/ \E m \in Notice \cup Signal : inbox'[p] = Append(inbox[p], m) /\ Tells(m)'
  PROVE  PageInv(p)'
<1>1. Registered(p)' /\ Blank(p)' /\ Current(p)'
  BY DEF Untouched, PageInv, Registered, Blank, Current
<1>2. PageNews(p)'
  <2>1. SUFFICES ASSUME tab[p].ws PROVE (ChainNews(p) /\ TileNews(p) /\ InboxNews(p))'
    BY DEF PageNews, Untouched
  <2>2. ChainNews(p) /\ TileNews(p) /\ InboxNews(p)
    BY <2>1 DEF PageInv, PageNews
  <2>3. InboxNews(p)' /\ \A q \in Peers : \A i \in Nat : NewsAfter(p, q, i) => NewsAfter(p, q, i)'
    BY <2>2, InboxKept
  <2>4. tiles[p] \subseteq Peers
    BY DEF TypeInv, RestInv
  <2> QED
    BY <2>2, <2>3, <2>4 DEF Untouched, ChainNews, TileNews
<1> QED
  BY <1>1, <1>2 DEF PageInv

(* A page without a socket relies on nobody. *)
LEMMA Offline ==
  ASSUME NEW p \in Peers, ~tab'[p].ws, Current(p)',
         tab'[p].phase \in {"away", "connect"} => pcs'[p] = <<>> /\ tiles'[p] = {}
  PROVE  PageInv(p)'
BY DEF PageInv, Registered, Blank, PageNews

(* The steps of a page, while nothing is lost. *)
LEMMA PageTiles ==
  ASSUME TypeInv, faults = 0, faults' = 0, QueueNews, \A q \in Peers : PageInv(q),
         NEW p \in Peers, PageStep(p)
  PROVE  QueueNews' /\ \A q \in Peers : PageInv(q)'
<1>0. /\ tab \in [Peers -> Tab] /\ tab[p] \in Tab /\ pcs \in [Peers -> Seq(SoundConn)]
      /\ entry \in [Peers -> [Peers -> Nat]] /\ tiles \in [Peers -> SUBSET Peers]
      /\ member \in [Peers -> Nat] /\ gone \in [Peers -> Nat]
      /\ inbox \in [Peers -> Seq(Notice \cup Signal)]
  BY DEF TypeInv, RestInv, PcsInv, EntryInv
<1>00. NoTab.phase = "away" /\ ~NoTab.ws
  BY DEF NoTab
<1>k. ASSUME UNCHANGED <<member, queue>> PROVE QueueNews' /\ \A q \in Peers : Known(q) => Known(q)'
  BY <1>k DEF QueueNews, Known, LeftQueued
<1>1. CASE OpenPage(p)
  <2>1. tab[p].phase = "away" /\ tab' = [tab EXCEPT ![p] = [NoTab EXCEPT !.n = pages + 1, !.phase = "connect"]]
        /\ UNCHANGED <<pcs, entry, tiles, member, gone, queue, inbox>>
    BY <1>1 DEF OpenPage, server
  <2>2. ~tab'[p].ws /\ pcs'[p] = <<>> /\ tiles'[p] = {}
    <3>1. tab'[p] = [NoTab EXCEPT !.n = pages + 1, !.phase = "connect"]
      BY <1>0, <2>1
    <3>2. tab'[p].ws = NoTab.ws
      BY <3>1 DEF NoTab
    <3> QED
      BY <1>00, <2>1, <3>2 DEF PageInv, Blank
  <2>3. PageInv(p)'
    BY <2>2, Offline DEF Current
  <2>4. ASSUME NEW q \in Peers, q # p PROVE PageInv(q)'
    BY <1>0, <1>k, <2>1, <2>4, UntouchedKept DEF Untouched
  <2> QED
    BY <1>k, <2>1, <2>3, <2>4
<1>2. CASE SocketOpens(p)
  <2>1. QueueNews' /\ (\A q \in Peers : Known(q) => Known(q)') /\ member'[p] = tab[p].n
        /\ tab[p].n \in Nat \ {0}
    BY <1>2, OpenServer
  <2>2. /\ tab' = [tab EXCEPT ![p].phase = "media", ![p].tries = 0, ![p].ws = TRUE]
        /\ member' = [member EXCEPT ![p] = tab[p].n]
        /\ inbox' = [inbox EXCEPT ![p] = <<>>] /\ UNCHANGED <<pcs, entry, tiles, gone>>
        /\ tab[p].phase = "connect"
    BY <1>2 DEF SocketOpens
  <2>3. gone[p] = 0
    BY <1>2 DEF SocketOpens, Fault, Mentioned
  <2>4. pcs'[p] = <<>> /\ tiles'[p] = {} /\ inbox'[p] = <<>>
    BY <1>0, <2>2 DEF PageInv, Blank
  <2>5. tab'[p].phase = "media" /\ tab'[p].n = tab[p].n
    BY <1>0, <2>2 DEF Tab
  <2>6. PageInv(p)'
    <3>1. Registered(p)' /\ Blank(p)'
      BY <2>1, <2>2, <2>3, <2>5 DEF Registered, Blank
    <3>2. Current(p)' /\ PageNews(p)'
      BY <2>4 DEF Current, PageNews, ChainNews, TileNews, InboxNews
    <3> QED
      BY <3>1, <3>2 DEF PageInv
  <2>7. ASSUME NEW q \in Peers, q # p PROVE PageInv(q)'
    BY <1>0, <2>1, <2>2, <2>7, UntouchedKept DEF Untouched
  <2> QED
    BY <2>1, <2>6, <2>7
<1>3. CASE SocketFails(p)
  <2>1. tab[p].phase = "connect" /\ UNCHANGED <<pcs, entry, tiles, member, gone, queue, inbox>>
        /\ tab'[p].ws = tab[p].ws /\ \A q \in Peers \ {p} : tab'[q] = tab[q]
    BY <1>0, <1>3 DEF SocketFails, server, Tab
  <2>2. pcs'[p] = <<>> /\ tiles'[p] = {} /\ ~tab'[p].ws
    BY <2>1 DEF PageInv, Blank
  <2>3. PageInv(p)'
    BY <2>2, Offline DEF Current
  <2>4. ASSUME NEW q \in Peers, q # p PROVE PageInv(q)'
    BY <1>0, <1>k, <2>1, <2>4, UntouchedKept DEF Untouched
  <2> QED
    BY <1>k, <2>1, <2>3, <2>4
<1>4. CASE MediaArrives(p) \/ MediaRefused(p)
  <2>1. /\ UNCHANGED <<pcs, entry, tiles, member, gone, queue, inbox>>
        /\ tab'[p].ws = tab[p].ws /\ tab'[p].n = tab[p].n /\ tab'[p].phase = "in"
        /\ \A q \in Peers \ {p} : tab'[q] = tab[q]
    BY <1>0, <1>4 DEF MediaArrives, MediaRefused, server, Tab
  <2>2. ASSUME NEW q \in Peers PROVE PageInv(q)'
    BY <1>0, <1>k, <2>1, UntouchedKept DEF Untouched
  <2> QED
    BY <1>k, <2>1, <2>2
<1>5. CASE LoseSocket(p)
  <2>1. /\ tab' = [tab EXCEPT ![p].ws = FALSE] /\ gone' = [gone EXCEPT ![p] = @ + 1]
        /\ inbox' = [inbox EXCEPT ![p] = <<>>] /\ UNCHANGED <<pcs, entry, tiles, member, queue>>
    BY <1>5 DEF LoseSocket
  <2>2. ~tab'[p].ws /\ tab'[p].phase = tab[p].phase
    BY <1>0, <2>1 DEF Tab
  <2>3. PageInv(p)'
    BY <2>1, <2>2, Offline DEF PageInv, Blank, Current
  <2>4. ASSUME NEW q \in Peers, q # p PROVE PageInv(q)'
    BY <1>0, <1>k, <2>1, <2>4, UntouchedKept DEF Untouched
  <2> QED
    BY <1>k, <2>1, <2>3, <2>4
<1>6. CASE ClosePage(p)
  <2>1. /\ tab' = [tab EXCEPT ![p] = [NoTab EXCEPT !.n = tab[p].n]]
        /\ pcs' = [pcs EXCEPT ![p] = <<>>] /\ entry' = [entry EXCEPT ![p] = [q \in Peers |-> 0]]
        /\ tiles' = [tiles EXCEPT ![p] = {}] /\ inbox' = [inbox EXCEPT ![p] = <<>>]
        /\ UNCHANGED <<member, queue>>
    BY <1>6 DEF ClosePage
  <2>2. PICK ends \in {0, 1, 2} : gone' = [gone EXCEPT ![p] = @ + ends]
    BY <1>6 DEF ClosePage
  <2>3. ~tab'[p].ws /\ pcs'[p] = <<>> /\ tiles'[p] = {}
    <3>1. tab'[p] = [NoTab EXCEPT !.n = tab[p].n]
      BY <1>0, <2>1
    <3>2. tab'[p].ws = NoTab.ws
      BY <3>1 DEF NoTab
    <3> QED
      BY <1>0, <1>00, <2>1, <3>2
  <2>4. PageInv(p)'
    BY <2>3, Offline DEF Current
  <2>5. ASSUME NEW q \in Peers, q # p PROVE PageInv(q)'
    BY <1>0, <1>k, <2>1, <2>2, <2>5, UntouchedKept DEF Untouched
  <2> QED
    BY <1>k, <2>1, <2>4, <2>5
<1> QED
  BY <1>1, <1>2, <1>3, <1>4, <1>5, <1>6 DEF PageStep

(* What a handler that starts leaves of the other connections. *)
LEMMA StartCurrent ==
  ASSUME TypeInv, NEW p \in Peers, NEW q \in Peers, NEW op, NEW desc \in Description \cup {None},
         op \in {"createOffer", "setRemoteOffer"}, op # "createOffer" => desc \in Description,
         Start(p, q, op, desc), Current(p)
  PROVE  /\ Current(p)'
         /\ \A j \in DOMAIN pcs'[p] : \/ pcs'[p][j].peer = q
                                      \/ j \in DOMAIN pcs[p] /\ pcs'[p][j] = pcs[p][j]
<1> DEFINE s == Created(p, q)
           k == Chosen(p, q)
           c == Asked(s[k], op, desc)
           x == [s EXCEPT ![k] = c]
<1>1. /\ s \in Seq(SoundConn) /\ k \in DOMAIN s /\ k \in Nat \ {0} /\ s[k].peer = q
      /\ \A j \in DOMAIN pcs[p] : s[j] = pcs[p][j]
      /\ \A j \in DOMAIN s : j \in DOMAIN pcs[p] \/ j = k
  BY CreatedSound
<1>2. pcs' = [pcs EXCEPT ![p] = x] /\ entry' = [entry EXCEPT ![p][q] = k]
  BY DEF Start
<1>3. pcs \in [Peers -> Seq(SoundConn)] /\ entry \in [Peers -> [Peers -> Nat]]
  BY DEF TypeInv, PcsInv, EntryInv
<1>k. entry[p][q] # 0 => k = entry[p][q]
  BY DEF Chosen
<1> HIDE DEF s, k
<1>4. s[k] \in SoundConn
  BY <1>1, ElementOfSeq, SeqKeeps
<1>5. c \in SoundConn /\ c.peer = q
  BY <1>1, <1>4, AskedSound
<1> HIDE DEF c
<1>6. /\ DOMAIN x = DOMAIN s
      /\ \A j \in DOMAIN s : x[j] = IF j = k THEN c ELSE s[j]
  BY <1>1, <1>5, ExceptKeeps
<1> HIDE DEF x
<1>7. pcs'[p] = x /\ entry'[p][q] = k /\ \A r \in Peers \ {q} : entry'[p][r] = entry[p][r]
  BY <1>2, <1>3
<1>8. \A j \in DOMAIN pcs'[p] : \/ j = k /\ pcs'[p][j].peer = q
                                \/ j # k /\ j \in DOMAIN pcs[p] /\ pcs'[p][j] = pcs[p][j]
  BY <1>1, <1>5, <1>6, <1>7
<1>9. ASSUME NEW j \in DOMAIN pcs'[p], pcs'[p][j].chain # <<>>
      PROVE  entry'[p][pcs'[p][j].peer] = j
  <2>1. CASE j = k
    BY <1>7, <1>8, <2>1
  <2>2. CASE j # k
    <3>1. j \in DOMAIN pcs[p] /\ pcs'[p][j] = pcs[p][j]
      BY <1>8, <2>2
    <3>2. entry[p][pcs[p][j].peer] = j /\ pcs[p][j].peer \in Peers /\ j # 0
      BY <1>9, <3>1, EntrySound DEF Current, SoundConn, Connection
    <3>3. pcs[p][j].peer # q
      BY <1>k, <2>2, <3>2
    <3> QED
      BY <1>7, <3>1, <3>2, <3>3
  <2> QED
    BY <2>1, <2>2
<1>10. Current(p)'
  BY <1>9 DEF Current
<1> QED
  BY <1>8, <1>10

(* A message is handled, and what it leaves to do is about a peer there is    *)
(* news of.                                                                *)
LEMMA HandledKept ==
  ASSUME TypeInv, QueueNews, \A q \in Peers : PageInv(q), NEW p \in Peers, NEW type,
         Told(p, type), Taken(p), UNCHANGED <<tab, member, gone, queue>>,
         \A q \in Peers \ {p} : UNCHANGED <<pcs[q], entry[q], tiles[q]>>,
         Current(p)', ChainNews(p)', TileNews(p)'
  PROVE  QueueNews' /\ \A q \in Peers : PageInv(q)'
<1>1. tab[p].ws /\ inbox \in [Peers -> Seq(Notice \cup Signal)]
  BY DEF Told, TypeInv, RestInv
<1>2. QueueNews' /\ \A q \in Peers : Known(q) => Known(q)'
  BY DEF QueueNews, Known, LeftQueued
<1>3. InboxNews(p)
  BY <1>1 DEF PageInv, PageNews
<1>4. PageInv(p)'
  <2>1. InboxNews(p)'
    BY <1>3, InboxTaken
  <2>2. Registered(p)' /\ Blank(p)'
    BY <1>1 DEF PageInv, Registered, Blank
  <2> QED
    BY <2>1, <2>2 DEF PageInv, PageNews
<1>5. ASSUME NEW q \in Peers, q # p PROVE PageInv(q)'
  <2>1. inbox'[q] = inbox[q]
    BY <1>1, <1>5 DEF Taken
  <2>2. Untouched(q)
    BY <1>5 DEF Untouched
  <2> QED
    BY <1>2, <2>1, <2>2, UntouchedKept
<1> QED
  BY <1>2, <1>4, <1>5

(* A handler that starts an exchange. *)
LEMMA StartTiles ==
  ASSUME TypeInv, QueueNews, \A q \in Peers : PageInv(q), NEW p \in Peers,
         NEW type \in {"user-joined", "offer"}, Told(p, type), Taken(p),
         UNCHANGED <<tab, tiles, member, gone, queue>>,
         NEW op, NEW desc \in Description \cup {None},
         op \in {"createOffer", "setRemoteOffer"}, op # "createOffer" => desc \in Description,
         Start(p, Head(inbox[p]).from, op, desc)
  PROVE  QueueNews' /\ \A q \in Peers : PageInv(q)'
<1>0. tab[p].ws /\ Head(inbox[p]).from \in Peers
  BY HeadType
<1>1. PICK q \in Peers : q = Head(inbox[p]).from
  BY <1>0
<1>2. ChainNews(p) /\ TileNews(p) /\ InboxNews(p) /\ Current(p)
  BY <1>0 DEF PageInv, PageNews
<1>3. NewsAfter(p, q, 0)' /\ \A r \in Peers : NewsAfter(p, r, 0) => NewsAfter(p, r, 0)'
  BY <1>1, <1>2, InboxTaken
<1>4. /\ Current(p)'
      /\ \A j \in DOMAIN pcs'[p] : \/ pcs'[p][j].peer = q
                                   \/ j \in DOMAIN pcs[p] /\ pcs'[p][j] = pcs[p][j]
  BY <1>1, <1>2, StartCurrent
<1>5. ChainNews(p)'
  <2>1. ASSUME NEW j \in DOMAIN pcs'[p], NEW r \in Peers, pcs'[p][j].chain # <<>>, pcs'[p][j].peer = r
        PROVE  NewsAfter(p, r, 0)'
    BY <1>2, <1>3, <1>4, <2>1 DEF ChainNews
  <2> QED
    BY <2>1 DEF ChainNews
<1>6. TileNews(p)'
  <2>1. tiles[p] \subseteq Peers
    BY DEF TypeInv, RestInv
  <2> QED
    BY <1>2, <1>3, <2>1 DEF TileNews
<1>7. \A r \in Peers \ {p} : UNCHANGED <<pcs[r], entry[r], tiles[r]>>
  BY DEF Start, TypeInv, PcsInv, EntryInv
<1> QED
  BY <1>4, <1>5, <1>6, <1>7, HandledKept

(* One connection of a page changes. *)
LEMMA OneChanged ==
  ASSUME TypeInv, NEW p \in Peers, NEW k \in DOMAIN pcs[p], NEW c \in SoundConn,
         pcs' = [pcs EXCEPT ![p][k] = c]
  PROVE  /\ DOMAIN pcs'[p] = DOMAIN pcs[p] /\ \A q \in Peers \ {p} : pcs'[q] = pcs[q]
         /\ \A j \in DOMAIN pcs[p] : pcs'[p][j] = IF j = k THEN c ELSE pcs[p][j]
<1>1. pcs \in [Peers -> Seq(SoundConn)] /\ pcs[p] \in Seq(SoundConn)
  BY DEF TypeInv, PcsInv
<1>2. pcs'[p] = [pcs[p] EXCEPT ![k] = c] /\ \A q \in Peers \ {p} : pcs'[q] = pcs[q]
  BY <1>1
<1> QED
  BY <1>1, <1>2, ExceptKeeps

(* A handler that asks a connection in the map. *)
LEMMA AsksTiles ==
  ASSUME TypeInv, QueueNews, \A q \in Peers : PageInv(q), NEW p \in Peers,
         NEW type \in {"answer", "ice-candidate"}, NEW op \in {"setRemoteAnswer", "addCandidate"},
         Asks(p, type, op)
  PROVE  QueueNews' /\ \A q \in Peers : PageInv(q)'
<1>1. /\ Told(p, type) /\ Taken(p) /\ UNCHANGED <<tab, entry, tiles, member, gone, queue>>
      /\ Head(inbox[p]).from \in Peers /\ Head(inbox[p]).desc \in Description /\ tab[p].ws
  BY HeadType DEF Asks, server
<1>2. PICK q \in Peers : q = Head(inbox[p]).from
  BY <1>1
<1>3. ChainNews(p) /\ TileNews(p) /\ InboxNews(p) /\ Current(p)
  BY <1>1 DEF PageInv, PageNews
<1>4. NewsAfter(p, q, 0)' /\ \A r \in Peers : NewsAfter(p, r, 0) => NewsAfter(p, r, 0)'
  BY <1>1, <1>2, <1>3, InboxTaken
<1>5. TileNews(p)'
  <2>1. tiles[p] \subseteq Peers
    BY DEF TypeInv, RestInv
  <2> QED
    BY <1>1, <1>3, <1>4, <2>1 DEF TileNews
<1>6. CASE entry[p][q] = 0
  <2>1. pcs' = pcs
    BY <1>2, <1>6 DEF Asks
  <2>2. Current(p)' /\ ChainNews(p)'
    BY <1>1, <1>3, <1>4, <2>1 DEF Current, ChainNews
  <2> QED
    BY <1>1, <1>5, <2>1, <2>2, HandledKept
<1>7. CASE entry[p][q] # 0
  <2> DEFINE k == entry[p][q]
             c == Asked(pcs[p][k], op, Head(inbox[p]).desc)
  <2>1. k \in DOMAIN pcs[p] /\ pcs[p][k].peer = q
    BY <1>7 DEF TypeInv, EntryInv
  <2>2. c \in SoundConn /\ c.peer = q
    BY <1>1, <2>1, EntrySound, AskedSound
  <2>3. pcs' = [pcs EXCEPT ![p][k] = c]
    BY <1>2, <1>7 DEF Asks
  <2> HIDE DEF c
  <2>4. /\ DOMAIN pcs'[p] = DOMAIN pcs[p] /\ \A r \in Peers \ {p} : pcs'[r] = pcs[r]
        /\ \A j \in DOMAIN pcs[p] : pcs'[p][j] = IF j = k THEN c ELSE pcs[p][j]
    BY <2>1, <2>2, <2>3, OneChanged
  <2>5. Current(p)'
    BY <1>1, <1>3, <2>2, <2>4 DEF Current
  <2>6. ASSUME NEW j \in DOMAIN pcs'[p], NEW r \in Peers, pcs'[p][j].chain # <<>>, pcs'[p][j].peer = r
        PROVE  NewsAfter(p, r, 0)'
    BY <1>3, <1>4, <2>2, <2>4, <2>6 DEF ChainNews
  <2>7. ChainNews(p)'
    BY <2>6 DEF ChainNews
  <2> QED
    BY <1>1, <1>5, <2>4, <2>5, <2>7, HandledKept
<1> QED
  BY <1>6, <1>7

(* The handler of user-left closes the one connection that might have had     *)
(* something to do for the peer.                                           *)
LEMMA LeftTiles ==
  ASSUME TypeInv, QueueNews, \A q \in Peers : PageInv(q), NEW p \in Peers, HandleUserLeft(p)
  PROVE  QueueNews' /\ \A q \in Peers : PageInv(q)'
<1>1. /\ Told(p, "user-left") /\ Taken(p) /\ UNCHANGED <<tab, member, gone, queue>>
      /\ Head(inbox[p]).from \in Peers /\ tab[p].ws
  BY HeadType DEF HandleUserLeft, server
<1>2. PICK q \in Peers : q = Head(inbox[p]).from
  BY <1>1
<1>3. ChainNews(p) /\ TileNews(p) /\ InboxNews(p) /\ Current(p)
  BY <1>1 DEF PageInv, PageNews
<1>4. \A r \in Peers \ {q} : NewsAfter(p, r, 0) => NewsAfter(p, r, 0)'
  BY <1>1, <1>2, <1>3, InboxTaken
<1>5. /\ tiles'[p] = tiles[p] \ {q} /\ entry'[p][q] = 0
      /\ \A r \in Peers \ {q} : entry'[p][r] = entry[p][r]
      /\ \A r \in Peers \ {p} : UNCHANGED <<entry[r], tiles[r]>>
  BY <1>2 DEF HandleUserLeft, TypeInv, EntryInv, RestInv
<1>6. TileNews(p)'
  <2>1. tiles[p] \subseteq Peers
    BY DEF TypeInv, RestInv
  <2> QED
    BY <1>3, <1>4, <1>5, <2>1 DEF TileNews
<1>7. /\ DOMAIN pcs'[p] = DOMAIN pcs[p] /\ \A r \in Peers \ {p} : pcs'[r] = pcs[r]
      /\ \A j \in DOMAIN pcs[p] : pcs'[p][j].chain # <<>> => pcs'[p][j] = pcs[p][j] /\ pcs[p][j].peer # q
  <2>1. CASE entry[p][q] = 0
    <3>1. pcs' = pcs
      BY <1>2, <2>1 DEF HandleUserLeft
    <3>2. \A j \in DOMAIN pcs[p] : j # 0
      BY EntrySound
    <3> QED
      BY <1>3, <2>1, <3>1, <3>2 DEF Current
  <2>2. CASE entry[p][q] # 0
    <3> DEFINE k == entry[p][q]
               c == Closed(pcs[p][k])
    <3>1. k \in DOMAIN pcs[p]
      BY <2>2 DEF TypeInv, EntryInv
    <3>2. c \in SoundConn
      BY <3>1, EntrySound, ClosedSound
    <3>3. c.chain = <<>>
      BY <3>1, EntrySound DEF Closed, SoundConn, Connection
    <3>4. pcs' = [pcs EXCEPT ![p][k] = c]
      BY <1>2, <2>2 DEF HandleUserLeft
    <3> HIDE DEF c
    <3>5. /\ DOMAIN pcs'[p] = DOMAIN pcs[p] /\ \A r \in Peers \ {p} : pcs'[r] = pcs[r]
          /\ \A j \in DOMAIN pcs[p] : pcs'[p][j] = IF j = k THEN c ELSE pcs[p][j]
      BY <3>1, <3>2, <3>4, OneChanged
    <3> QED
      BY <1>3, <3>3, <3>5 DEF Current
  <2> QED
    BY <2>1, <2>2
<1>8. ASSUME NEW j \in DOMAIN pcs'[p], pcs'[p][j].chain # <<>>
      PROVE  /\ entry'[p][pcs'[p][j].peer] = j
             /\ \A r \in Peers : pcs'[p][j].peer = r => NewsAfter(p, r, 0)'
  <2>1. j \in DOMAIN pcs[p] /\ pcs'[p][j] = pcs[p][j] /\ pcs[p][j].peer # q
    BY <1>7, <1>8
  <2>2. pcs[p][j].peer \in Peers
    BY <2>1, EntrySound DEF SoundConn, Connection
  <2> QED
    BY <1>3, <1>4, <1>5, <1>8, <2>1, <2>2 DEF Current, ChainNews
<1>9. Current(p)' /\ ChainNews(p)'
  BY <1>8 DEF Current, ChainNews
<1> QED
  BY <1>1, <1>5, <1>6, <1>7, <1>9, HandledKept

(* The handlers. *)
LEMMA HandleTiles ==
  ASSUME TypeInv, QueueNews, \A q \in Peers : PageInv(q), NEW p \in Peers, Handle(p)
  PROVE  QueueNews' /\ \A q \in Peers : PageInv(q)'
<1>1. CASE HandleUserJoined(p)
  BY <1>1, StartTiles DEF HandleUserJoined, server
<1>2. CASE HandleOffer(p)
  <2>1. Head(inbox[p]).desc \in Description
    BY <1>2, HeadType DEF HandleOffer
  <2> QED
    BY <1>2, <2>1, StartTiles DEF HandleOffer, server
<1>3. CASE HandleAnswer(p) \/ HandleIceCandidate(p)
  BY <1>3, AsksTiles DEF HandleAnswer, HandleIceCandidate
<1>4. CASE HandleUserLeft(p)
  BY <1>4, LeftTiles
<1> QED
  BY <1>1, <1>2, <1>3, <1>4 DEF Handle

(* A connection goes on with what it has to do. *)
LEMMA ConnTiles ==
  ASSUME TypeInv, QueueNews, \A q \in Peers : PageInv(q), NEW p \in Peers, NEW k \in DOMAIN pcs[p],
         NEW c \in SoundConn, c.peer = pcs[p][k].peer, c.chain # <<>> => pcs[p][k].chain # <<>>,
         pcs' = [pcs EXCEPT ![p][k] = c], UNCHANGED <<entry, member, gone, queue>>,
         \A q \in Peers : SameTab(q), \A q \in Peers \ {p} : tiles'[q] = tiles[q],
         \/ tiles'[p] = tiles[p]
         \/ pcs[p][k].chain # <<>> /\ tiles'[p] = tiles[p] \cup {pcs[p][k].peer},
         \A q \in Peers :
           \/ inbox'[q] = inbox[q]
           \/ \E m \in Notice \cup Signal : inbox'[q] = Append(inbox[q], m) /\ Tells(m)'
  PROVE  QueueNews' /\ \A q \in Peers : PageInv(q)'
<1>1. QueueNews' /\ \A q \in Peers : Known(q) => Known(q)'
  BY DEF QueueNews, Known, LeftQueued
<1>2. /\ DOMAIN pcs'[p] = DOMAIN pcs[p] /\ \A q \in Peers \ {p} : pcs'[q] = pcs[q]
      /\ \A j \in DOMAIN pcs[p] : pcs'[p][j] = IF j = k THEN c ELSE pcs[p][j]
  BY OneChanged
<1>3. \A j \in DOMAIN pcs[p] : /\ pcs'[p][j].peer = pcs[p][j].peer
                              /\ pcs'[p][j].chain # <<>> => pcs[p][j].chain # <<>>
  BY <1>2
<1>4. PageInv(p)'
  <2>1. Registered(p)'
    BY DEF PageInv, Registered, SameTab
  <2>2. Blank(p)'
    <3>1. tab[p].phase \notin {"away", "connect"}
      BY DEF PageInv, Blank
    <3> QED
      BY <3>1 DEF Blank, SameTab
  <2>3. Current(p)'
    BY <1>2, <1>3 DEF PageInv, Current
  <2>4. PageNews(p)'
    <3>1. SUFFICES ASSUME tab[p].ws PROVE (ChainNews(p) /\ TileNews(p) /\ InboxNews(p))'
      BY DEF PageNews, SameTab
    <3>2. ChainNews(p) /\ TileNews(p) /\ InboxNews(p)
      BY <3>1 DEF PageInv, PageNews
    <3>3. InboxNews(p)' /\ \A q \in Peers : NewsAfter(p, q, 0) => NewsAfter(p, q, 0)'
      BY <1>1, <3>2, InboxKept
    <3>4. ASSUME NEW j \in DOMAIN pcs'[p], NEW q \in Peers, pcs'[p][j].chain # <<>>, pcs'[p][j].peer = q
          PROVE  NewsAfter(p, q, 0)'
      BY <1>2, <1>3, <3>2, <3>3, <3>4 DEF ChainNews
    <3>5. ASSUME NEW q \in tiles'[p] PROVE NewsAfter(p, q, 0)'
      <4>1. tiles[p] \subseteq Peers /\ pcs[p][k].peer \in Peers
        BY EntrySound DEF TypeInv, RestInv, SoundConn, Connection
      <4>2. CASE q \in tiles[p]
        BY <3>2, <3>3, <4>1, <4>2 DEF TileNews
      <4>3. CASE q \notin tiles[p]
        BY <3>2, <3>3, <3>5, <4>1, <4>3 DEF ChainNews
      <4> QED
        BY <4>2, <4>3
    <3> QED
      BY <3>3, <3>4, <3>5 DEF ChainNews, TileNews
  <2> QED
    BY <2>1, <2>2, <2>3, <2>4 DEF PageInv
<1>5. ASSUME NEW q \in Peers, q # p PROVE PageInv(q)'
  <2>1. Untouched(q)
    BY <1>2, <1>5 DEF Untouched, SameTab
  <2> QED
    BY <1>1, <2>1, UntouchedKept
<1> QED
  BY <1>1, <1>4, <1>5

(* Only a registered page sends. *)
LEMMA SendTells ==
  ASSUME TypeInv, faults = 0, faults' = 0, NEW p \in Peers, NEW k \in DOMAIN pcs[p], PageInv(p),
         NEW type \in {"offer", "answer", "ice-candidate"}, NEW desc \in Description,
         Send(p, k, type, desc), UNCHANGED <<member, queue>>
  PROVE  \A q \in Peers :
           \/ inbox'[q] = inbox[q]
           \/ \E m \in Notice \cup Signal : inbox'[q] = Append(inbox[q], m) /\ Tells(m)'
<1> DEFINE m == [type |-> type, from |-> p, desc |-> desc]
           to == {pcs[p][k].peer} \cap Reachable
<1>1. CASE tab[p].ws
  <2>1. Delivered(to, m) /\ to \in SUBSET Peers
    BY <1>1 DEF Send, Reachable
  <2>2. m \in Notice \cup Signal
    BY DEF Signal
  <2>3. Tells(m)'
    BY <1>1 DEF PageInv, Registered, Tells, Known
  <2> HIDE DEF to, m
  <2> QED
    BY <2>1, <2>2, <2>3, DeliveredAll
<1>2. CASE ~tab[p].ws
  BY <1>2 DEF Send
<1> QED
  BY <1>1, <1>2

(* The operations of a connection, while nothing is lost. *)
LEMMA PerformTiles ==
  ASSUME TypeInv, faults = 0, faults' = 0, QueueNews, \A q \in Peers : PageInv(q),
         NEW p \in Peers, NEW k \in DOMAIN pcs[p], Perform(p, k) \/ SendCandidate(p, k)
  PROVE  QueueNews' /\ \A q \in Peers : PageInv(q)'
<1>0. /\ pcs[p][k] \in SoundConn /\ pcs[p][k].peer \in Peers /\ <<>> \in Seq(SoundOp)
      /\ tiles \in [Peers -> SUBSET Peers] /\ tab \in [Peers -> Tab]
  BY EntrySound DEF TypeInv, RestInv, SoundConn, Connection
<1> DEFINE Changes == \E x \in SoundConn : x.peer = pcs[p][k].peer /\ pcs' = [pcs EXCEPT ![p][k] = x]
           Quiet   == \A q \in Peers :
                        \/ inbox'[q] = inbox[q]
                        \/ \E m \in Notice \cup Signal : inbox'[q] = Append(inbox[q], m) /\ Tells(m)'
           Frame   == UNCHANGED <<entry, member, gone, queue>> /\ (\A q \in Peers : SameTab(q))
                      /\ (\A q \in Peers \ {p} : tiles'[q] = tiles[q])
                      /\ (tiles'[p] = tiles[p] \/ tiles'[p] = tiles[p] \cup {pcs[p][k].peer})
<1>1. ASSUME Changes, Quiet, Frame, pcs[p][k].chain # <<>> PROVE QueueNews' /\ \A q \in Peers : PageInv(q)'
  <2>1. PICK x \in SoundConn : x.peer = pcs[p][k].peer /\ pcs' = [pcs EXCEPT ![p][k] = x]
    BY <1>1
  <2>2. UNCHANGED <<entry, member, gone, queue>> /\ \A q \in Peers : SameTab(q)
    BY <1>1
  <2>3. /\ \A q \in Peers \ {p} : tiles'[q] = tiles[q]
        /\ tiles'[p] = tiles[p] \/ (pcs[p][k].chain # <<>> /\ tiles'[p] = tiles[p] \cup {pcs[p][k].peer})
    BY <1>1
  <2>4. Quiet
    BY <1>1
  <2> HIDE DEF Frame
  <2> QED
    BY <1>1, <2>1, <2>2, <2>3, <2>4, ConnTiles
<1>2. CASE CreateOffer(p, k) \/ CreateAnswer(p, k) \/ AddCandidate(p, k) \/ WrongState(p, k)
  <2>1. PICK next \in Seq(SoundOp) : Performed(p, k, pcs[p][k], next)
    BY <1>0, <1>2, ThenSound DEF CreateOffer, CreateAnswer, AddCandidate, WrongState, Refused
  <2>2. pcs[p][k].chain # <<>>
    BY <1>2 DEF CreateOffer, CreateAnswer, AddCandidate, WrongState, Performs
  <2>3. Changes
    BY <1>0, <2>1, <2>2, PerformedConn
  <2>4. /\ UNCHANGED <<entry, tiles, server, inbox>>
        /\ tab' = tab \/ tab' = [tab EXCEPT ![p].error = "handler"]
    BY <1>2 DEF CreateOffer, CreateAnswer, AddCandidate, WrongState, Refused
  <2>5. UNCHANGED <<entry, tiles, server, inbox>> /\ \A q \in Peers : SameTab(q)
    BY <1>0, <2>4, ErrorTab
  <2>6. Quiet /\ Frame
    BY <2>5 DEF server
  <2> QED
    BY <1>1, <2>2, <2>3, <2>6
<1>3. CASE SetOffer(p, k) \/ SetAnswer(p, k)
  <2>1. pcs[p][k].chain # <<>> /\ UNCHANGED <<tab, entry, tiles, server>>
    BY <1>3 DEF SetOffer, SetAnswer, Performs
  <2>2. Changes
    <3>1. CASE SetOffer(p, k)
      <4> DEFINE c == [pcs[p][k] EXCEPT !.sig = "offering", !.gather = pcs[p][k].tracks]
      <4>1. c \in SoundConn /\ c.chain = pcs[p][k].chain /\ c.peer = pcs[p][k].peer
        BY <1>0 DEF SoundConn, Connection
      <4>2. Performed(p, k, c, <<>>)
        BY <3>1 DEF SetOffer
      <4> HIDE DEF c
      <4> QED
        BY <1>0, <2>1, <4>1, <4>2, PerformedConn
    <3>2. CASE SetAnswer(p, k)
      <4> DEFINE c == [pcs[p][k] EXCEPT !.sig = "stable", !.gather = pcs[p][k].remote.media]
      <4>1. pcs[p][k].remote.media \in BOOLEAN
        BY <1>0, <3>2 DEF SetAnswer, SoundConn, Description
      <4>2. c \in SoundConn /\ c.chain = pcs[p][k].chain /\ c.peer = pcs[p][k].peer
        BY <1>0, <4>1 DEF SoundConn, Connection
      <4>3. Performed(p, k, c, <<>>)
        BY <3>2 DEF SetAnswer
      <4> HIDE DEF c
      <4> QED
        BY <1>0, <2>1, <4>2, <4>3, PerformedConn
    <3> QED
      BY <1>3, <3>1, <3>2
  <2>3. Quiet
    <3>1. CASE SetOffer(p, k)
      BY <3>1, <2>1, OfferType, SendTells DEF SetOffer, server
    <3>2. CASE SetAnswer(p, k)
      BY <3>2, <2>1, OfferType, SendTells DEF SetAnswer, server
    <3> QED
      BY <1>3, <3>1, <3>2
  <2>4. Frame
    BY <2>1 DEF server, SameTab
  <2> QED
    BY <1>1, <2>1, <2>2, <2>3, <2>4
<1>4. CASE SetRemoteOffer(p, k) \/ SetRemoteAnswer(p, k)
  <2>1. /\ pcs[p][k].chain # <<>> /\ Given(p, k) \in Description /\ Shown(p, k)
        /\ UNCHANGED <<tab, entry, server, inbox>>
    BY <1>4, GivenSound DEF SetRemoteOffer, SetRemoteAnswer, Remote
  <2>2. Changes
    <3>1. CASE SetRemoteOffer(p, k)
      <4> DEFINE c == [pcs[p][k] EXCEPT !.sig = "answering", !.remote = Given(p, k)]
      <4>1. c \in SoundConn /\ c.chain = pcs[p][k].chain /\ c.peer = pcs[p][k].peer
        BY <1>0, <2>1 DEF SoundConn, Connection
      <4>2. Performed(p, k, c, Then("createAnswer"))
        BY <3>1 DEF SetRemoteOffer
      <4> HIDE DEF c
      <4> QED
        BY <2>1, <4>1, <4>2, ThenSound, PerformedConn
    <3>2. CASE SetRemoteAnswer(p, k)
      <4> DEFINE c == [pcs[p][k] EXCEPT !.sig = "stable", !.remote = Given(p, k)]
      <4>1. c \in SoundConn /\ c.chain = pcs[p][k].chain /\ c.peer = pcs[p][k].peer
        BY <1>0, <2>1 DEF SoundConn, Connection
      <4>2. Performed(p, k, c, <<>>)
        BY <3>2 DEF SetRemoteAnswer
      <4> HIDE DEF c
      <4> QED
        BY <1>0, <2>1, <4>1, <4>2, PerformedConn
    <3> QED
      BY <1>4, <3>1, <3>2
  <2>3. Frame
    <3>1. (\A q \in Peers \ {p} : tiles'[q] = tiles[q])
          /\ (tiles'[p] = tiles[p] \/ tiles'[p] = tiles[p] \cup {pcs[p][k].peer})
      BY <1>0, <2>1 DEF Shown
    <3> QED
      BY <2>1, <3>1 DEF server, SameTab
  <2> QED
    BY <1>1, <2>1, <2>2, <2>3
<1>5. CASE SendCandidate(p, k)
  <2> DEFINE c == [pcs[p][k] EXCEPT !.gather = FALSE]
  <2>1. c \in SoundConn /\ c.peer = pcs[p][k].peer /\ c.chain = pcs[p][k].chain
    BY <1>0 DEF SoundConn, Connection
  <2>2. pcs' = [pcs EXCEPT ![p][k] = c] /\ UNCHANGED <<tab, entry, tiles, server>>
    BY <1>5 DEF SendCandidate
  <2>3. Quiet
    BY <1>5, <2>2, OfferType, SendTells DEF SendCandidate, server
  <2> HIDE DEF c
  <2>4. \A q \in Peers : SameTab(q)
    BY <2>2 DEF SameTab
  <2> QED
    BY <2>1, <2>2, <2>3, <2>4, ConnTiles DEF server
<1> QED
  BY <1>2, <1>3, <1>4, <1>5 DEF Perform

(* The server broadcasts a notice: it goes to every page with a socket, the   *)
(* user's own first page apart.                                            *)
LEMMA BroadcastAll ==
  ASSUME TypeInv, Readable, faults = 0, faults' = 0, \A q \in Peers : PageInv(q), HubBroadcast,
         NEW p \in Peers, tab[p].ws, Head(queue).type = "user-left"
  PROVE  inbox'[p] = Append(inbox[p], Head(queue))
<1>1. p \in Reachable
  BY DEF PageInv, Registered, Reachable
<1> DEFINE to == {q \in Peers : q \in Reachable
                                /\ ~(Head(queue).type = "user-joined" /\ q = Head(queue).from)}
<1>2. Delivered(to, Head(queue)) /\ p \in to /\ to \in SUBSET Peers
  BY <1>1 DEF HubBroadcast
<1> HIDE DEF to
<1> QED
  BY <1>2, DeliveredAll

(* What is left in the queue. *)
LEMMA QueueTaken ==
  ASSUME TypeInv, HubBroadcast
  PROVE  /\ Head(queue) = queue[1] /\ 1 \in DOMAIN queue /\ Head(queue) \in Notice
         /\ \A j \in DOMAIN queue' : j + 1 \in DOMAIN queue /\ queue'[j] = queue[j + 1] /\ j \in Nat
         /\ \A j \in DOMAIN queue : j \in Nat /\ j # 0 /\ (j > 1 => j - 1 \in DOMAIN queue' /\ queue'[j - 1] = queue[j])
<1>1. queue \in Seq(Notice) /\ queue # <<>> /\ queue' = Tail(queue)
  BY DEF HubBroadcast, TypeInv, RestInv
<1>2. /\ DOMAIN queue = 1..Len(queue) /\ DOMAIN queue' = 1..(Len(queue) - 1)
      /\ Len(queue) \in Nat \ {0} /\ Head(queue) = queue[1] /\ Head(queue) \in Notice
      /\ \A j \in DOMAIN queue' : queue'[j] = queue[j + 1]
  BY <1>1, SeqKeeps, HeadTailProperties
<1> QED
  BY <1>2

(* News that leaves the queue is under way to every page with a socket. *)
LEMMA BroadcastTiles ==
  ASSUME TypeInv, Readable, faults = 0, faults' = 0, QueueNews, \A q \in Peers : PageInv(q), HubBroadcast
  PROVE  QueueNews' /\ \A q \in Peers : PageInv(q)'
<1> DEFINE n == Head(queue)
<1>0. /\ n = queue[1] /\ 1 \in DOMAIN queue /\ n \in Notice
      /\ \A j \in DOMAIN queue' : j + 1 \in DOMAIN queue /\ queue'[j] = queue[j + 1] /\ j \in Nat
      /\ \A j \in DOMAIN queue : j \in Nat /\ j # 0 /\ (j > 1 => j - 1 \in DOMAIN queue' /\ queue'[j - 1] = queue[j])
  BY QueueTaken
<1>1. UNCHANGED <<tab, pcs, entry, tiles, member, gone>>
  BY DEF HubBroadcast, browser
<1>2. QueueNews'
  <2>1. ASSUME NEW i \in DOMAIN queue', NEW q \in Peers,
               queue'[i].type = "user-joined", queue'[i].from = q
        PROVE  member'[q] # 0 \/ \E j \in DOMAIN queue' : j > i /\ UserLeft(queue'[j], q)
    <3>1. member[q] # 0 \/ \E j \in DOMAIN queue : j > i + 1 /\ UserLeft(queue[j], q)
      BY <1>0, <2>1 DEF QueueNews
    <3>2. ASSUME NEW j \in DOMAIN queue, j > i + 1, UserLeft(queue[j], q)
          PROVE  j - 1 \in DOMAIN queue' /\ j - 1 > i /\ queue'[j - 1] = queue[j]
      BY <1>0, <3>2
    <3> QED
      BY <1>1, <3>1, <3>2
  <2> QED
    BY <2>1 DEF QueueNews, UserLeft
<1>3. ASSUME NEW q \in Peers, Known(q), ~UserLeft(n, q) PROVE Known(q)'
  <2>1. ASSUME NEW j \in DOMAIN queue, UserLeft(queue[j], q) PROVE LeftQueued(q)'
    <3>0. j # 1
      BY <1>0, <1>3, <2>1
    <3>1. j > 1
      BY <1>0, <3>0
    <3>2. j - 1 \in DOMAIN queue' /\ queue'[j - 1] = queue[j]
      BY <1>0, <3>1
    <3> QED
      BY <2>1, <3>2 DEF LeftQueued, UserLeft
  <2> QED
    BY <1>1, <1>3, <2>1 DEF Known, LeftQueued
<1>4. CASE n.type = "user-left"
  <2>1. ASSUME NEW p \in Peers, tab[p].ws PROVE PageInv(p)'
    <3>1. inbox'[p] = Append(inbox[p], n) /\ inbox[p] \in Seq(Notice \cup Signal)
      BY <1>4, <2>1, BroadcastAll DEF TypeInv, RestInv
    <3>2. /\ DOMAIN inbox[p] = 1..Len(inbox[p]) /\ DOMAIN inbox'[p] = 1..(Len(inbox[p]) + 1)
          /\ Len(inbox[p]) \in Nat /\ inbox'[p][Len(inbox[p]) + 1] = n
          /\ \A j \in 1..Len(inbox[p]) : inbox'[p][j] = inbox[p][j]
      BY <1>0, <3>1, SeqKeeps, AppendProperties
    <3>3. ASSUME NEW q \in Peers, NEW i \in 0..Len(inbox[p]), NewsAfter(p, q, i) PROVE NewsAfter(p, q, i)'
      <4>1. CASE UserLeft(n, q)
        BY <3>2, <4>1 DEF NewsAfter, LeftUnderWay, UserLeft
      <4>2. CASE ~UserLeft(n, q)
        <5>1. LeftUnderWay(p, q, i) => LeftUnderWay(p, q, i)'
          BY <3>2 DEF LeftUnderWay
        <5> QED
          BY <1>3, <3>3, <4>2, <5>1 DEF NewsAfter
      <4> QED
        BY <4>1, <4>2
    <3>4. ChainNews(p) /\ TileNews(p) /\ InboxNews(p)
      BY <2>1 DEF PageInv, PageNews
    <3>5. InboxNews(p)'
      <4>1. ASSUME NEW i \in DOMAIN inbox'[p], NEW q \in Peers,
                   inbox'[p][i].type # "user-left", inbox'[p][i].from = q
            PROVE  NewsAfter(p, q, i)'
        BY <1>4, <3>2, <3>3, <3>4, <4>1 DEF InboxNews
      <4> QED
        BY <4>1 DEF InboxNews
    <3>6. (ChainNews(p) /\ TileNews(p))'
      <4>1. tiles[p] \subseteq Peers /\ 0 \in 0..Len(inbox[p])
        BY <3>2 DEF TypeInv, RestInv
      <4> QED
        BY <1>1, <3>3, <3>4, <4>1 DEF ChainNews, TileNews
    <3>7. (Registered(p) /\ Blank(p) /\ Current(p))'
      BY <1>1 DEF PageInv, Registered, Blank, Current
    <3> QED
      BY <3>5, <3>6, <3>7 DEF PageInv, PageNews
  <2>2. ASSUME NEW p \in Peers, ~tab[p].ws PROVE PageInv(p)'
    <3>1. ~tab'[p].ws /\ Current(p)'
      BY <1>1, <2>2 DEF PageInv, Current
    <3>2. tab'[p].phase \in {"away", "connect"} => pcs'[p] = <<>> /\ tiles'[p] = {}
      BY <1>1 DEF PageInv, Blank
    <3> QED
      BY <3>1, <3>2, Offline
  <2> QED
    BY <1>2, <2>1, <2>2
<1>5. CASE n.type # "user-left"
  <2>1. \A q \in Peers : Known(q) => Known(q)'
    BY <1>3, <1>5 DEF UserLeft
  <2>2. PICK m \in Notice : m = n
    BY <1>0
  <2>3. Tells(m)'
    <3>1. PICK q \in Peers : q = m.from
      BY DEF Notice
    <3>2. m.type = "user-joined"
      BY <1>5, <2>2 DEF Notice
    <3>3. Known(q)
      BY <1>0, <2>2, <3>1, <3>2 DEF QueueNews, Known, LeftQueued
    <3>4. Known(q)'
      BY <2>1, <3>3
    <3> QED
      BY <3>1, <3>4 DEF Tells
  <2>4. ASSUME NEW q \in Peers
        PROVE  inbox'[q] = inbox[q] \/ inbox'[q] = Append(inbox[q], m)
    <3>1. PICK to \in SUBSET Peers : Delivered(to, n)
      BY DEF HubBroadcast
    <3> QED
      BY <2>2, <3>1, DeliveredAll
  <2>5. \A q \in Peers : Untouched(q)
    BY <1>1 DEF Untouched
  <2> QED
    BY <1>2, <2>1, <2>3, <2>4, <2>5, UntouchedKept
<1> QED
  BY <1>4, <1>5

(* The hub unregisters a user: news of it is queued if a page of it was there, *)
(* and the user's own page has no socket any more.                          *)
LEMMA UnregisterTiles ==
  ASSUME TypeInv, QueueNews, \A q \in Peers : PageInv(q), NEW p \in Peers, HubUnregister(p)
  PROVE  QueueNews' /\ \A q \in Peers : PageInv(q)'
<1>1. QueueNews' /\ \A q \in Peers : Known(q) => Known(q)'
  BY LeaveServer
<1>2. /\ UNCHANGED <<tab, pcs, entry, tiles, inbox>>
      /\ \A q \in Peers \ {p} : member'[q] = member[q] /\ gone'[q] = gone[q]
  BY DEF HubUnregister, browser, TypeInv, RestInv
<1>3. PageInv(p)'
  <2>1. ~tab'[p].ws
    BY <1>2 DEF HubUnregister, PageInv, Registered
  <2>2. Current(p)' /\ (tab'[p].phase \in {"away", "connect"} => pcs'[p] = <<>> /\ tiles'[p] = {})
    BY <1>2 DEF PageInv, Current, Blank
  <2> QED
    BY <2>1, <2>2, Offline
<1>4. ASSUME NEW q \in Peers, q # p PROVE PageInv(q)'
  <2>1. Untouched(q)
    BY <1>2, <1>4 DEF Untouched
  <2> QED
    BY <1>1, <1>2, <2>1, UntouchedKept
<1> QED
  BY <1>1, <1>3, <1>4

(* No step takes a fault back. *)
LEMMA FaultsGrow ==
  ASSUME TypeInv, NEW p \in Peers, PageStep(p) \/ Handle(p) \/ HubUnregister(p)
  PROVE  faults' = faults \/ faults' = faults + 1
BY DEF PageStep, OpenPage, SocketOpens, SocketFails, MediaArrives, MediaRefused, LoseSocket, ClosePage,
       Handle, HandleUserJoined, HandleOffer, HandleAnswer, HandleIceCandidate, Asks, HandleUserLeft,
       HubUnregister, Fault, NoFault

LEMMA ConnFaultsGrow ==
  ASSUME TypeInv, NEW p \in Peers, NEW k \in DOMAIN pcs[p],
         Perform(p, k) \/ SendCandidate(p, k) \/ ConnectionFails(p, k)
  PROVE  faults' = faults \/ faults' = faults + 1
<1>1. \A type, desc : Send(p, k, type, desc) => faults' = faults \/ faults' = faults + 1
  BY DEF Send, Delivered, Fault, NoFault
<1> QED
  BY <1>1 DEF Perform, SetOffer, SetAnswer, SetRemoteOffer, SetRemoteAnswer, CreateOffer, CreateAnswer,
              AddCandidate, WrongState, Refused, SendCandidate, ConnectionFails, Fault

LEMMA HubFaultsGrow == TypeInv /\ HubBroadcast => faults' = faults \/ faults' = faults + 1
BY DEF HubBroadcast, Delivered, Fault, NoFault

(* Every step keeps the news of those who left. *)
LEMMA TilesStep == Readable /\ TypeInv /\ TilesInv /\ [Next]_vars => TilesInv'
<1> SUFFICES ASSUME Readable, TypeInv, TilesInv, [Next]_vars, faults' = 0
             PROVE  QueueNews' /\ \A p \in Peers : PageInv(p)'
  BY DEF TilesInv
<1>0. faults = 0
  <2>1. faults' = faults \/ faults' = faults + 1
    BY FaultsGrow, ConnFaultsGrow, HubFaultsGrow DEF Next, vars
  <2> QED
    BY <2>1 DEF TypeInv, RestInv
<1>1. QueueNews /\ \A p \in Peers : PageInv(p)
  BY <1>0 DEF TilesInv
<1>2. CASE UNCHANGED vars
  BY <1>1, <1>2 DEF vars, browser, server, QueueNews, PageInv, Registered, Blank, Current, PageNews,
                    ChainNews, TileNews, InboxNews, NewsAfter, LeftUnderWay, Known, LeftQueued
<1>3. ASSUME NEW p \in Peers, PageStep(p) PROVE QueueNews' /\ \A q \in Peers : PageInv(q)'
  BY <1>0, <1>1, <1>3, PageTiles
<1>4. ASSUME NEW p \in Peers, Handle(p) PROVE QueueNews' /\ \A q \in Peers : PageInv(q)'
  BY <1>1, <1>4, HandleTiles
<1>5. ASSUME NEW p \in Peers, HubUnregister(p) PROVE QueueNews' /\ \A q \in Peers : PageInv(q)'
  BY <1>1, <1>5, UnregisterTiles
<1>6. ASSUME NEW p \in Peers, NEW k \in DOMAIN pcs[p], Perform(p, k) \/ SendCandidate(p, k)
      PROVE  QueueNews' /\ \A q \in Peers : PageInv(q)'
  BY <1>0, <1>1, <1>6, PerformTiles
<1>7. ASSUME NEW p \in Peers, NEW k \in DOMAIN pcs[p], ConnectionFails(p, k) PROVE FALSE
  BY <1>0, <1>7 DEF ConnectionFails, Fault
<1>8. CASE HubBroadcast
  BY <1>0, <1>1, <1>8, BroadcastTiles
<1> QED
  BY <1>2, <1>3, <1>4, <1>5, <1>6, <1>7, <1>8 DEF Next

LEMMA TilesInit == Init => TilesInv
BY DEF Init, NoTab, TilesInv, QueueNews, PageInv, Registered, Blank, Current, PageNews, ChainNews,
       TileNews, InboxNews

LEMMA TilesAreKnown == Readable /\ TilesInv => TilesAreOfMembers
<1> SUFFICES ASSUME Readable, TilesInv, NEW p \in Peers, NEW q \in Peers,
                    q \in tiles[p], tab[p].ws, Here(p)
             PROVE  \/ member[q] # 0
                    \/ \E k \in DOMAIN queue : queue[k].from = q
                    \/ \E k \in DOMAIN inbox[p] : inbox[p][k].from = q /\ inbox[p][k].type = "user-left"
  BY DEF TilesAreOfMembers
<1>1. NewsAfter(p, q, 0)
  BY DEF TilesInv, Here, PageInv, PageNews, TileNews
<1> QED
  BY <1>1 DEF NewsAfter, Known, LeftQueued, LeftUnderWay, UserLeft

(***************************************************************************)
(* The video of a peer is on the page only while the server has a page of  *)
(* that peer or the news that it left is queued or under way, unless a      *)
(* message or a connection was lost: no offer or answer that is still with  *)
(* an awaiting handler when the peer leaves brings the tile back.           *)
(***************************************************************************)
THEOREM TilesHold == Spec => []TilesAreOfMembers
<1>1. CASE Readable
  <2>1. Init => TypeInv /\ TilesInv
    BY TypeInit, TilesInit
  <2>2. TypeInv /\ TilesInv /\ [Next]_vars => (TypeInv /\ TilesInv)'
    BY <1>1, TypeStep, TilesStep
  <2>3. TilesInv => TilesAreOfMembers
    BY <1>1, TilesAreKnown
  <2> QED
    BY <2>1, <2>2, <2>3, PTL DEF Spec
<1>2. CASE ~Readable
  <2>1. Spec => []Alone
    BY <1>2, NobodyIsConnected
  <2>2. Alone => TilesAreOfMembers
    BY DEF Alone, TilesAreOfMembers
  <2> QED
    BY <2>1, <2>2, PTL
<1> QED
  BY <1>1, <1>2, ReadableAssumption

--------------------------------------------------------------------------------
(* Counting in sequences.                                                   *)

(* Sequences of messages and of operations: whether an element of S is in s, *)
(* and at most once; whether one of B comes before every one of A; whether    *)
(* none of B comes after one of A.                                          *)
Some(s, S)         == \E i \in DOMAIN s : s[i] \in S
Once(s, S)         == \A i, j \in DOMAIN s : s[i] \in S /\ s[j] \in S => i = j
Preceded(s, A, B)  == \A j \in DOMAIN s : s[j] \in A => \E i \in DOMAIN s : i < j /\ s[i] \in B
NoneAfter(s, A, B) == \A i, j \in DOMAIN s : i < j /\ s[i] \in A => s[j] \notin B

(* A sequence without elements. *)
LEMMA NothingIn ==
  \A A, B : ~Some(<<>>, A) /\ Once(<<>>, A) /\ Preceded(<<>>, A, B) /\ NoneAfter(<<>>, A, B)
BY DEF Some, Once, Preceded, NoneAfter

(* One more element at the end of a sequence. *)
LEMMA AddedTo ==
  ASSUME NEW M, NEW s \in Seq(M), NEW e \in M, NEW t, t = Append(s, e)
  PROVE  /\ \A A : Some(t, A) <=> Some(s, A) \/ e \in A
         /\ \A A : Once(t, A) <=> Once(s, A) /\ (e \in A => ~Some(s, A))
         /\ \A A, B : Preceded(s, A, B) /\ (e \in A => Some(s, B)) => Preceded(t, A, B)
         /\ \A A, B : NoneAfter(s, A, B) /\ (e \in B => ~Some(s, A)) => NoneAfter(t, A, B)
<1>1. /\ DOMAIN s = 1..Len(s) /\ DOMAIN t = 1..(Len(s) + 1) /\ Len(s) \in Nat
      /\ t[Len(s) + 1] = e /\ \A j \in 1..Len(s) : t[j] = s[j]
  BY SeqKeeps, AppendProperties
<1>2. ASSUME NEW A PROVE Some(t, A) <=> Some(s, A) \/ e \in A
  BY <1>1 DEF Some
<1>3. ASSUME NEW A PROVE Once(t, A) <=> Once(s, A) /\ (e \in A => ~Some(s, A))
  BY <1>1 DEF Some, Once
<1>4. ASSUME NEW A, NEW B, Preceded(s, A, B), e \in A => Some(s, B) PROVE Preceded(t, A, B)
  BY <1>1, <1>4 DEF Some, Preceded
<1>5. ASSUME NEW A, NEW B, NoneAfter(s, A, B), e \in B => ~Some(s, A) PROVE NoneAfter(t, A, B)
  BY <1>1, <1>5 DEF Some, NoneAfter
<1> QED
  BY <1>2, <1>3, <1>4, <1>5

(* The first element of a sequence is taken off. *)
LEMMA TakenFrom ==
  ASSUME NEW M, NEW s \in Seq(M), s # <<>>, NEW e, e = Head(s), NEW t, t = Tail(s)
  PROVE  /\ \A A : Some(s, A) <=> Some(t, A) \/ e \in A
         /\ \A A : Once(s, A) => Once(t, A) /\ (e \in A => ~Some(t, A))
         /\ \A A, B : Preceded(s, A, B) => e \notin A /\ (e \in B \/ Preceded(t, A, B))
         /\ \A A, B : NoneAfter(s, A, B) => NoneAfter(t, A, B) /\ (e \in A => ~Some(t, B))
<1>1. /\ DOMAIN s = 1..Len(s) /\ DOMAIN t = 1..(Len(s) - 1) /\ Len(s) \in Nat \ {0}
      /\ s[1] = e /\ \A j \in DOMAIN t : t[j] = s[j + 1]
  BY SeqKeeps, HeadTailProperties
<1>2. /\ \A j \in DOMAIN t : j + 1 \in DOMAIN s /\ t[j] = s[j + 1] /\ j \in Nat /\ j + 1 > 1
      /\ 1 \in DOMAIN s
      /\ \A j \in DOMAIN s : j \in Nat /\ (j = 1 \/ (j > 1 /\ j - 1 \in DOMAIN t /\ t[j - 1] = s[j]))
  BY <1>1
<1>3. ASSUME NEW A PROVE Some(s, A) <=> Some(t, A) \/ e \in A
  BY <1>1, <1>2 DEF Some
<1>4. ASSUME NEW A, Once(s, A) PROVE Once(t, A) /\ (e \in A => ~Some(t, A))
  BY <1>1, <1>2, <1>4 DEF Some, Once
<1>5. ASSUME NEW A, NEW B, Preceded(s, A, B) PROVE e \notin A /\ (e \in B \/ Preceded(t, A, B))
  <2>1. e \notin A
    BY <1>1, <1>2, <1>5 DEF Preceded
  <2>2. ASSUME e \notin B, NEW j \in DOMAIN t, t[j] \in A PROVE \E i \in DOMAIN t : i < j /\ t[i] \in B
    <3>1. PICK i \in DOMAIN s : i < j + 1 /\ s[i] \in B
      BY <1>2, <1>5, <2>2 DEF Preceded
    <3>2. i > 1 /\ i - 1 \in DOMAIN t /\ t[i - 1] = s[i]
      BY <1>1, <1>2, <2>2, <3>1
    <3> QED
      BY <1>2, <3>1, <3>2
  <2> QED
    BY <2>1, <2>2 DEF Preceded
<1>6. ASSUME NEW A, NEW B, NoneAfter(s, A, B) PROVE NoneAfter(t, A, B) /\ (e \in A => ~Some(t, B))
  BY <1>1, <1>2, <1>6 DEF Some, NoneAfter
<1> QED
  BY <1>3, <1>4, <1>5, <1>6

--------------------------------------------------------------------------------
(* Two users: the connection that one has for the other.                    *)

(* All that can be in an inbox; the messages from q of some types; the      *)
(* operations of some kinds.                                                *)
Message == Notice \cup Signal
From(q, T) == {m \in Message : m.from = q /\ m.type \in T}
Ops(O)     == {o \in SoundOp : o.op \in O}

(* What p has received from q, what the server has still to say of q.        *)
Gets(p, q, T) == Some(inbox[p], From(q, T))
Queued(q, T)  == Some(queue, From(q, T))

(* The connection that p uses for q; what it has to do.                      *)
NoLink == [sig |-> "stable", tracks |-> FALSE, remote |-> None, told |-> FALSE, offered |-> FALSE,
           gather |-> FALSE, chain |-> <<>>]
Link(p, q)    == IF entry[p][q] = 0 THEN NoLink ELSE pcs[p][entry[p][q]]
Does(p, q, O) == Some(Link(p, q).chain, Ops(O))

(* The messages of a kind of a user. *)
LEMMA InFrom == ASSUME NEW m \in Message PROVE \A q, T : m \in From(q, T) <=> m.from = q /\ m.type \in T
BY DEF From

(* The operations of a kind. *)
LEMMA InOps == ASSUME NEW o \in SoundOp PROVE \A O : o \in Ops(O) <=> o.op \in O
BY DEF Ops

(* The types of the connection of p for q, which is one of p's, made for q. *)
LEMMA LinkSound ==
  ASSUME TypeInv, NEW p \in Peers, NEW q \in Peers
  PROVE  /\ Link(p, q).chain \in Seq(SoundOp)
         /\ Link(p, q).told \in BOOLEAN /\ Link(p, q).offered \in BOOLEAN
         /\ Link(p, q).tracks \in BOOLEAN /\ Link(p, q).gather \in BOOLEAN
         /\ Link(p, q).remote \in Description \cup {None}
         /\ Link(p, q).sig = "answering" => Link(p, q).remote \in Description
         /\ entry[p][q] \in Nat
         /\ entry[p][q] # 0 => /\ entry[p][q] \in DOMAIN pcs[p] /\ Link(p, q) = pcs[p][entry[p][q]]
                               /\ pcs[p][entry[p][q]].peer = q /\ Link(p, q) \in SoundConn
<1>1. CASE entry[p][q] = 0
  <2>1. <<>> \in Seq(SoundOp)
    OBVIOUS
  <2> QED
    BY <1>1, <2>1 DEF Link, NoLink
<1>2. CASE entry[p][q] # 0
  <2>1. entry[p][q] \in DOMAIN pcs[p] /\ pcs[p][entry[p][q]].peer = q /\ entry[p][q] \in Nat
    BY <1>2 DEF TypeInv, EntryInv
  <2>2. pcs[p][entry[p][q]] \in SoundConn
    BY <2>1, EntrySound
  <2> QED
    BY <1>2, <2>1, <2>2 DEF Link, SoundConn, Connection
<1> QED
  BY <1>1, <1>2

(* The connections of all pairs but one stay as they are. *)
OtherLinks(p, q) ==
  \A r, s \in Peers : r # p \/ s # q => entry'[r][s] = entry[r][s] /\ Link(r, s)' = Link(r, s)

(* The connection of p for q is asked for an operation. *)
LinkAsked(p, q, op, desc) ==
  /\ Link(p, q)'.chain = Append(Link(p, q).chain, [op |-> op, desc |-> desc])
  /\ Link(p, q)'.told = (Link(p, q).told \/ op = "createOffer")
  /\ Link(p, q)'.offered = (Link(p, q).offered \/ op = "setRemoteOffer")
  /\ Link(p, q)'.sig = Link(p, q).sig
  /\ Link(p, q)'.remote = Link(p, q).remote
  /\ Link(p, q)'.gather = Link(p, q).gather
  /\ entry[p][q] # 0 => Link(p, q)'.tracks = Link(p, q).tracks

(* What Asked does to a connection. *)
LEMMA AskedFields ==
  ASSUME NEW c \in Connection, NEW op, NEW desc, NEW d, d = Asked(c, op, desc)
  PROVE  /\ d.chain = Append(c.chain, [op |-> op, desc |-> desc])
         /\ d.told = (c.told \/ op = "createOffer") /\ d.offered = (c.offered \/ op = "setRemoteOffer")
         /\ d.sig = c.sig /\ d.remote = c.remote /\ d.gather = c.gather /\ d.tracks = c.tracks
         /\ d.peer = c.peer
BY DEF Asked, Connection

(* createPeerConnection and the first operation of a handler: the           *)
(* connection of p for q is asked, the others are not.                      *)
LEMMA StartLink ==
  ASSUME TypeInv, NEW p \in Peers, NEW q \in Peers, NEW op, NEW desc \in Description \cup {None},
         op \in {"createOffer", "setRemoteOffer"}, op # "createOffer" => desc \in Description,
         Start(p, q, op, desc)
  PROVE  /\ entry'[p][q] # 0 /\ entry[p][q] \in {0, entry'[p][q]}
         /\ entry[p][q] = 0 => entry'[p][q] \notin DOMAIN pcs[p]
         /\ OtherLinks(p, q) /\ LinkAsked(p, q, op, desc)
         /\ \A j \in DOMAIN pcs'[p] : \/ j = entry'[p][q] /\ pcs'[p][j] = Link(p, q)'
                                      \/ j # entry'[p][q] /\ j \in DOMAIN pcs[p] /\ pcs'[p][j] = pcs[p][j]
         /\ \A r \in Peers \ {p} : pcs'[r] = pcs[r]
<1> DEFINE s == Created(p, q)
           k == Chosen(p, q)
           c == Asked(s[k], op, desc)
           x == [s EXCEPT ![k] = c]
<1>1. /\ s \in Seq(SoundConn) /\ k \in DOMAIN s /\ k \in Nat \ {0} /\ s[k].peer = q
      /\ DOMAIN pcs[p] \subseteq DOMAIN s /\ \A j \in DOMAIN pcs[p] : s[j] = pcs[p][j]
      /\ \A j \in DOMAIN s : j \in DOMAIN pcs[p] \/ j = k
  BY CreatedSound
<1>2. pcs' = [pcs EXCEPT ![p] = x] /\ entry' = [entry EXCEPT ![p][q] = k]
  BY DEF Start
<1>3. pcs \in [Peers -> Seq(SoundConn)] /\ entry \in [Peers -> [Peers -> Nat]]
  BY DEF TypeInv, PcsInv, EntryInv
<1>k. /\ entry[p][q] # 0 => k = entry[p][q] /\ s = pcs[p]
      /\ entry[p][q] = 0 => s[k] = New(p, q) /\ k \notin DOMAIN pcs[p]
  <2>1. CASE entry[p][q] # 0
    BY <2>1 DEF Chosen, Created
  <2>2. CASE entry[p][q] = 0
    <3>1. pcs[p] \in Seq(SoundConn) /\ DOMAIN pcs[p] = 1..Len(pcs[p]) /\ Len(pcs[p]) \in Nat
      BY <1>3, SeqKeeps
    <3>2. s = Append(pcs[p], New(p, q)) /\ k = Len(pcs[p]) + 1
      BY <2>2 DEF Chosen, Created
    <3> QED
      BY <2>2, <3>1, <3>2
  <2> QED
    BY <2>1, <2>2
<1> HIDE DEF s, k
<1>4. s[k] \in SoundConn
  BY <1>1, ElementOfSeq, SeqKeeps
<1>5. c \in SoundConn /\ c.peer = q
  BY <1>1, <1>4, AskedSound
<1>c. /\ c.chain = Append(s[k].chain, [op |-> op, desc |-> desc])
      /\ c.told = (s[k].told \/ op = "createOffer") /\ c.offered = (s[k].offered \/ op = "setRemoteOffer")
      /\ c.sig = s[k].sig /\ c.remote = s[k].remote /\ c.gather = s[k].gather /\ c.tracks = s[k].tracks
  BY <1>4, AskedFields DEF SoundConn
<1> HIDE DEF c
<1>6. /\ DOMAIN x = DOMAIN s
      /\ \A j \in DOMAIN s : x[j] = IF j = k THEN c ELSE s[j]
  BY <1>1, <1>5, ExceptKeeps
<1> HIDE DEF x
<1>7. /\ pcs'[p] = x /\ \A r \in Peers \ {p} : pcs'[r] = pcs[r]
      /\ entry'[p][q] = k /\ \A r, t \in Peers : r # p \/ t # q => entry'[r][t] = entry[r][t]
  BY <1>2, <1>3
<1>8. Link(p, q)' = c
  BY <1>1, <1>6, <1>7 DEF Link
<1>9. LinkAsked(p, q, op, desc)
  <2>1. CASE entry[p][q] # 0
    <3>1. Link(p, q) = s[k]
      BY <1>k, <2>1 DEF Link
    <3> QED
      BY <1>c, <1>8, <3>1 DEF LinkAsked
  <2>2. CASE entry[p][q] = 0
    <3>1. Link(p, q) = NoLink
      BY <2>2 DEF Link
    <3>2. s[k] = New(p, q)
      BY <1>k, <2>2
    <3>3. /\ s[k].chain = NoLink.chain /\ s[k].told = NoLink.told /\ s[k].offered = NoLink.offered
          /\ s[k].sig = NoLink.sig /\ s[k].remote = NoLink.remote /\ s[k].gather = NoLink.gather
      BY <3>2 DEF New, NoLink
    <3> QED
      BY <1>c, <1>8, <2>2, <3>1, <3>3 DEF LinkAsked
  <2> QED
    BY <2>1, <2>2
<1>10. OtherLinks(p, q)
  <2>1. ASSUME NEW r \in Peers, NEW t \in Peers, r # p \/ t # q
        PROVE  entry'[r][t] = entry[r][t] /\ Link(r, t)' = Link(r, t)
    <3>1. entry'[r][t] = entry[r][t]
      BY <1>7, <2>1
    <3>2. CASE r # p
      BY <1>7, <2>1, <3>1, <3>2 DEF Link
    <3>3. CASE r = p /\ entry[p][t] # 0
      <4>1. entry[p][t] \in DOMAIN pcs[p] /\ pcs[p][entry[p][t]].peer = t
        BY <3>3 DEF TypeInv, EntryInv
      <4>2. entry[p][t] # k
        BY <1>1, <1>k, <2>1, <3>3, <4>1
      <4>3. x[entry[p][t]] = pcs[p][entry[p][t]]
        BY <1>1, <1>6, <4>1, <4>2
      <4> QED
        BY <1>7, <3>1, <3>3, <4>3 DEF Link
    <3>4. CASE entry[r][t] = 0
      BY <3>1, <3>4 DEF Link
    <3> QED
      BY <3>2, <3>3, <3>4
  <2> QED
    BY <2>1 DEF OtherLinks
<1>11. \A j \in DOMAIN pcs'[p] : \/ j = k /\ pcs'[p][j] = Link(p, q)'
                                 \/ j # k /\ j \in DOMAIN pcs[p] /\ pcs'[p][j] = pcs[p][j]
  BY <1>1, <1>6, <1>7, <1>8
<1> QED
  BY <1>1, <1>k, <1>7, <1>9, <1>10, <1>11

(* One connection of p changes, the map does not. *)
LEMMA ChangedLink ==
  ASSUME TypeInv, NEW p \in Peers, NEW q \in Peers, NEW k \in DOMAIN pcs[p], entry[p][q] = k,
         NEW c \in SoundConn, pcs' = [pcs EXCEPT ![p][k] = c], entry' = entry
  PROVE  Link(p, q)' = c /\ OtherLinks(p, q) /\ Link(p, q) = pcs[p][k]
<1>1. /\ DOMAIN pcs'[p] = DOMAIN pcs[p] /\ \A r \in Peers \ {p} : pcs'[r] = pcs[r]
      /\ \A j \in DOMAIN pcs[p] : pcs'[p][j] = IF j = k THEN c ELSE pcs[p][j]
  BY OneChanged
<1>2. k # 0 /\ pcs[p][k].peer = q
  BY EntrySound DEF TypeInv, EntryInv
<1>3. \A t \in Peers : entry[p][t] # 0 => entry[p][t] \in DOMAIN pcs[p] /\ pcs[p][entry[p][t]].peer = t
  BY DEF TypeInv, EntryInv
<1>4. OtherLinks(p, q)
  BY <1>1, <1>2, <1>3 DEF OtherLinks, Link
<1> QED
  BY <1>1, <1>2, <1>4 DEF Link

(* handleAnswer, handleIceCandidate: with a connection, it is asked; without  *)
(* one the message is dropped.                                              *)
LEMMA AsksLink ==
  ASSUME TypeInv, NEW p \in Peers, NEW type, NEW op,
         \/ type = "answer" /\ op = "setRemoteAnswer"
         \/ type = "ice-candidate" /\ op = "addCandidate",
         Asks(p, type, op), NEW q, q = Head(inbox[p]).from
  PROVE  /\ q \in Peers /\ entry' = entry /\ OtherLinks(p, q)
         /\ IF entry[p][q] = 0 THEN Link(p, q)' = Link(p, q)
                               ELSE LinkAsked(p, q, op, Head(inbox[p]).desc)
         /\ \A j \in DOMAIN pcs'[p] :
              \/ j # 0 /\ j = entry[p][q] /\ pcs'[p][j] = Link(p, q)'
              \/ j # entry[p][q] /\ j \in DOMAIN pcs[p] /\ pcs'[p][j] = pcs[p][j]
         /\ \A r \in Peers \ {p} : pcs'[r] = pcs[r]
<1>1. /\ q \in Peers /\ Told(p, type) /\ Taken(p) /\ entry' = entry
      /\ Head(inbox[p]).desc \in Description
  BY HeadType DEF Asks
<1>2. CASE entry[p][q] = 0
  <2>1. pcs' = pcs
    BY <1>2 DEF Asks
  <2>2. \A j \in DOMAIN pcs[p] : j # 0
    BY EntrySound
  <2> QED
    BY <1>1, <1>2, <2>1, <2>2 DEF Link, OtherLinks
<1>3. CASE entry[p][q] # 0
  <2>0. PICK k : entry[p][q] = k
    OBVIOUS
  <2> DEFINE c == Asked(pcs[p][k], op, Head(inbox[p]).desc)
  <2>1. k \in DOMAIN pcs[p] /\ pcs[p][k] \in SoundConn /\ pcs[p][k] \in Connection /\ Link(p, q) = pcs[p][k]
    BY <1>1, <1>3, <2>0, LinkSound DEF SoundConn
  <2>a. c \in SoundConn
    BY <1>1, <2>1, AskedSound
  <2>b. pcs' = [pcs EXCEPT ![p][k] = Asked(@, op, Head(inbox[p]).desc)]
    BY <1>3, <2>0 DEF Asks
  <2>2. c \in SoundConn /\ pcs' = [pcs EXCEPT ![p][k] = c]
    BY <2>a, <2>b
  <2>3. /\ c.chain = Append(pcs[p][k].chain, [op |-> op, desc |-> Head(inbox[p]).desc])
        /\ c.told = (pcs[p][k].told \/ op = "createOffer")
        /\ c.offered = (pcs[p][k].offered \/ op = "setRemoteOffer")
        /\ c.sig = pcs[p][k].sig /\ c.remote = pcs[p][k].remote /\ c.gather = pcs[p][k].gather
        /\ c.tracks = pcs[p][k].tracks
    BY <2>1, AskedFields
  <2> HIDE DEF c
  <2>c. q \in Peers /\ k \in DOMAIN pcs[p] /\ entry' = entry
    BY <1>1, <2>1
  <2>4. Link(p, q)' = c /\ OtherLinks(p, q)
    BY ONLY TypeInv, p \in Peers, <2>c, <2>0, <2>2, ChangedLink
  <2>5. LinkAsked(p, q, op, Head(inbox[p]).desc)
    BY <2>1, <2>3, <2>4 DEF LinkAsked
  <2>6. /\ DOMAIN pcs'[p] = DOMAIN pcs[p] /\ \A r \in Peers \ {p} : pcs'[r] = pcs[r]
        /\ \A j \in DOMAIN pcs[p] : pcs'[p][j] = IF j = k THEN c ELSE pcs[p][j]
    BY <2>1, <2>2, OneChanged
  <2>7. k # 0
    BY <1>3, <2>0
  <2> QED
    BY <1>1, <1>3, <2>0, <2>4, <2>5, <2>6, <2>7
<1> QED
  BY <1>2, <1>3

(* handleUserLeft: the peer has no connection any more. *)
LEMMA LeftLink ==
  ASSUME TypeInv, NEW p \in Peers, HandleUserLeft(p), NEW q, q = Head(inbox[p]).from
  PROVE  /\ q \in Peers /\ entry'[p][q] = 0 /\ OtherLinks(p, q) /\ Link(p, q)' = NoLink
         /\ DOMAIN pcs'[p] = DOMAIN pcs[p]
         /\ \A j \in DOMAIN pcs[p] : IF j = entry[p][q] THEN pcs'[p][j] = Closed(pcs[p][j])
                                                        ELSE pcs'[p][j] = pcs[p][j]
         /\ \A r \in Peers \ {p} : pcs'[r] = pcs[r]
<1>1. q \in Peers
  BY HeadType DEF HandleUserLeft
<1>2. /\ pcs \in [Peers -> Seq(SoundConn)] /\ entry \in [Peers -> [Peers -> Nat]]
      /\ \A t \in Peers : entry[p][t] # 0 => entry[p][t] \in DOMAIN pcs[p] /\ pcs[p][entry[p][t]].peer = t
  BY DEF TypeInv, PcsInv, EntryInv
<1>3. entry' = [entry EXCEPT ![p][q] = 0]
  BY DEF HandleUserLeft
<1>4. entry'[p][q] = 0 /\ \A r, t \in Peers : r # p \/ t # q => entry'[r][t] = entry[r][t]
  BY <1>1, <1>2, <1>3
<1>5. /\ DOMAIN pcs'[p] = DOMAIN pcs[p] /\ \A r \in Peers \ {p} : pcs'[r] = pcs[r]
      /\ \A j \in DOMAIN pcs[p] : IF j = entry[p][q] THEN pcs'[p][j] = Closed(pcs[p][j])
                                                     ELSE pcs'[p][j] = pcs[p][j]
  <2>1. CASE entry[p][q] = 0
    <3>1. pcs' = pcs
      BY <2>1 DEF HandleUserLeft
    <3>2. \A j \in DOMAIN pcs[p] : j # 0
      BY EntrySound
    <3> QED
      BY <2>1, <3>1, <3>2
  <2>2. CASE entry[p][q] # 0
    <3>1. entry[p][q] \in DOMAIN pcs[p]
      BY <1>1, <1>2, <2>2
    <3>2. PICK c : c = Closed(pcs[p][entry[p][q]])
      OBVIOUS
    <3>3. c \in SoundConn
      BY <3>1, <3>2, EntrySound, ClosedSound
    <3>4. pcs' = [pcs EXCEPT ![p][entry[p][q]] = c]
      BY <2>2, <3>2, Zenon DEF HandleUserLeft
    <3>5. /\ DOMAIN pcs'[p] = DOMAIN pcs[p] /\ \A r \in Peers \ {p} : pcs'[r] = pcs[r]
          /\ \A j \in DOMAIN pcs[p] : pcs'[p][j] = IF j = entry[p][q] THEN c ELSE pcs[p][j]
      BY <3>1, <3>3, <3>4, OneChanged
    <3> QED
      BY <3>2, <3>5, Zenon
  <2> QED
    BY <2>1, <2>2
<1>6. OtherLinks(p, q)
  <2>1. ASSUME NEW r \in Peers, NEW t \in Peers, r # p \/ t # q
        PROVE  entry'[r][t] = entry[r][t] /\ Link(r, t)' = Link(r, t)
    <3>1. entry'[r][t] = entry[r][t]
      BY <1>4, <2>1
    <3>2. CASE r # p
      BY <1>5, <2>1, <3>1, <3>2 DEF Link
    <3>3. CASE r = p /\ entry[p][t] # 0
      <4>1. entry[p][t] \in DOMAIN pcs[p] /\ entry[p][t] # entry[p][q]
        BY <1>1, <1>2, <2>1, <3>3
      <4> QED
        BY <1>5, <3>1, <3>3, <4>1 DEF Link
    <3>4. CASE entry[r][t] = 0
      BY <3>1, <3>4 DEF Link
    <3> QED
      BY <3>2, <3>3, <3>4
  <2> QED
    BY <2>1 DEF OtherLinks
<1>7. Link(p, q)' = NoLink
  BY <1>4 DEF Link, NoLink
<1> QED
  BY <1>1, <1>4, <1>5, <1>6, <1>7

(* An operation of the connection that p uses for q has been performed: c is  *)
(* the connection after it, next what its handler asks for.                  *)
LinkPerformed(p, q, c, next) ==
  /\ Link(p, q)'.chain = Tail(Link(p, q).chain) \o next
  /\ Link(p, q)'.told = Link(p, q).told /\ Link(p, q)'.offered = Link(p, q).offered
  /\ Link(p, q)'.tracks = Link(p, q).tracks
  /\ Link(p, q)'.sig = c.sig /\ Link(p, q)'.remote = c.remote /\ Link(p, q)'.gather = c.gather

(* An operation changes the connection of p for q, and no other. *)
LEMMA PerformLink ==
  ASSUME TypeInv, NEW p \in Peers, NEW k \in DOMAIN pcs[p], pcs[p][k].chain # <<>>,
         NEW q, q = pcs[p][k].peer, entry[p][q] = k,
         NEW c \in SoundConn, c.chain = pcs[p][k].chain, c.peer = q, c.told = pcs[p][k].told,
         c.offered = pcs[p][k].offered, c.tracks = pcs[p][k].tracks,
         NEW next \in Seq(SoundOp), Performed(p, k, c, next), entry' = entry
  PROVE  /\ LinkPerformed(p, q, c, next) /\ OtherLinks(p, q)
         /\ \A j \in DOMAIN pcs'[p] : \/ j = k /\ pcs'[p][j] = Link(p, q)'
                                      \/ j # k /\ j \in DOMAIN pcs[p] /\ pcs'[p][j] = pcs[p][j]
         /\ \A r \in Peers \ {p} : pcs'[r] = pcs[r]
<1>1. c \in Connection /\ c.chain \in Seq(SoundOp) /\ c.chain # <<>>
      /\ (c.sig = "answering" => c.remote \in Description)
  BY DEF SoundConn
<1> DEFINE left == Tail(c.chain) \o next
           x == [c EXCEPT !.chain = left]
<1>2. left \in Seq(SoundOp)
  BY <1>1, SeqKeeps, ConcatProperties
<1>3. left \in Seq(Operation)
  BY <1>2 DEF SoundOp
<1>l. left = Tail(pcs[p][k].chain) \o next
  OBVIOUS
<1> HIDE DEF left
<1>4. /\ x \in Connection /\ x.chain = left /\ x.sig = c.sig /\ x.remote = c.remote /\ x.peer = c.peer
      /\ x.told = c.told /\ x.offered = c.offered /\ x.tracks = c.tracks /\ x.gather = c.gather
  BY <1>1, <1>3 DEF Connection
<1>5. pcs' = [pcs EXCEPT ![p][k] = x]
  BY DEF Performed, left
<1> HIDE DEF x
<1>6. x \in SoundConn
  BY <1>1, <1>2, <1>4 DEF SoundConn
<1>q. q \in Peers
  BY EntrySound DEF SoundConn, Connection
<1>7. Link(p, q)' = x /\ OtherLinks(p, q) /\ Link(p, q) = pcs[p][k]
  <2>1. entry[p][q] = k /\ entry' = entry
    OBVIOUS
  <2> HIDE DEF left
  <2> QED
    BY ONLY TypeInv, p \in Peers, <1>q, k \in DOMAIN pcs[p], <1>5, <1>6, <2>1, ChangedLink
<1>8. /\ DOMAIN pcs'[p] = DOMAIN pcs[p] /\ \A r \in Peers \ {p} : pcs'[r] = pcs[r]
      /\ \A j \in DOMAIN pcs[p] : pcs'[p][j] = IF j = k THEN x ELSE pcs[p][j]
  BY <1>5, <1>6, OneChanged
<1>9. LinkPerformed(p, q, c, next)
  BY <1>l, <1>4, <1>7 DEF LinkPerformed
<1> QED
  BY <1>7, <1>8, <1>9

--------------------------------------------------------------------------------
(* The base: what holds of a page, whoever it talks to.                     *)

(* The messages that tell that q left; all messages from q.                 *)
Left(q) == From(q, {"user-left"})
Post(q) == {m \in Message : m.from = q}

(* All messages of a user, and that he left. *)
LEMMA InPost == ASSUME NEW m \in Message PROVE \A q : /\ m \in Post(q) <=> m.from = q
                                                      /\ m \in Left(q) <=> m.from = q /\ m.type = "user-left"
BY DEF Post, Left, From

(* A page without a socket has nothing; once its sockets are unregistered, so *)
(* is its user.                                                             *)
Off(p) == ~tab[p].ws => pcs[p] = <<>> /\ inbox[p] = <<>> /\ \A q \in Peers : entry[p][q] = 0
Out(p) == ~tab[p].ws /\ gone[p] = 0 => member[p] = 0

(* Nobody has to do with himself. *)
Others(p) == ~Some(inbox[p], Post(p)) /\ entry[p][p] = 0

(* Only the connection of the map has candidates, and it is open. *)
Live(p) == \A k \in DOMAIN pcs[p] : /\ pcs[p][k].gather => entry[p][pcs[p][k].peer] = k
                                    /\ entry[p][pcs[p][k].peer] = k => pcs[p][k].sig # "closed"

(* There is news of everybody a page has a connection for. *)
News(p, q)   == member[q] # 0 \/ Some(queue, Left(q)) \/ Some(inbox[p], Left(q))
EntryNews(p) == \A q \in Peers : entry[p][q] # 0 => News(p, q)

(* That a user left is the last there is of a page of his. *)
Farewell(q) ==
  /\ member[q] # 0 => ~Some(queue, Left(q)) /\ \A p \in Peers : ~Some(inbox[p], Left(q))
  /\ NoneAfter(queue, Left(q), Post(q))
  /\ \A p \in Peers : /\ NoneAfter(inbox[p], Left(q), Post(q))
                      /\ Some(inbox[p], Left(q)) => ~Some(queue, Post(q))

(* All of it.                                                               *)
Base(p) == Off(p) /\ Out(p) /\ Others(p) /\ Live(p) /\ EntryNews(p) /\ Farewell(p)

(* What the tiles rely on, and the above. *)
Quiet == TypeInv /\ Readable /\ faults = 0 /\ QueueNews /\ \A p \in Peers : PageInv(p) /\ Base(p)

(* The types of the messages under way. *)
LEMMA MailSound ==
  ASSUME TypeInv
  PROVE  /\ queue \in Seq(Notice) /\ queue \in Seq(Message) /\ \A p \in Peers : inbox[p] \in Seq(Message)
         /\ \A m \in Notice : m \in Message /\ m.from \in Peers /\ m.type \in {"user-joined", "user-left"}
         /\ \A m \in Signal : m \in Message /\ m.from \in Peers /\ m.type \notin {"user-joined", "user-left"}
<1>1. queue \in Seq(Notice) /\ \A p \in Peers : inbox[p] \in Seq(Message)
  BY DEF TypeInv, RestInv, Message
<1>2. queue \in Seq(Message)
  BY <1>1 DEF Message
<1> QED
  BY <1>1, <1>2 DEF Message, Notice, Signal

(* A page with a socket is registered, and the server reaches it. *)
LEMMA OnlineKnown ==
  ASSUME Quiet, NEW p \in Peers
  PROVE  /\ tab[p].ws => member[p] # 0 /\ gone[p] = 0
         /\ tab[p].ws <=> p \in Reachable
         /\ tab[p].ws => ~Some(queue, Left(p)) /\ \A q \in Peers : ~Some(inbox[q], Left(p))
<1>1. tab[p].ws => member[p] # 0 /\ member[p] = tab[p].n /\ gone[p] = 0
  BY DEF Quiet, PageInv, Registered
<1>2. Farewell(p)
  BY DEF Quiet, Base
<1> QED
  BY <1>1, <1>2 DEF Reachable, Farewell

(* A message is taken. *)
LEMMA TakenMail ==
  ASSUME TypeInv, NEW p \in Peers, NEW type, Told(p, type), Taken(p), NEW m, m = Head(inbox[p])
  PROVE  /\ m \in Message /\ m.type = type /\ m.from \in Peers /\ tab[p].ws
         /\ type \in {"offer", "answer", "ice-candidate"} => m \in Signal
         /\ inbox[p] \in Seq(Message) /\ inbox[p] # <<>> /\ inbox'[p] = Tail(inbox[p])
         /\ \A r \in Peers \ {p} : inbox'[r] = inbox[r]
<1>1. inbox \in [Peers -> Seq(Notice \cup Signal)] /\ inbox[p] # <<>> /\ inbox[p] \in Seq(Message)
  BY MailSound DEF TypeInv, RestInv, Told
<1>2. m \in Message
  BY <1>1, SeqKeeps
<1>3. inbox'[p] = Tail(inbox[p]) /\ \A r \in Peers \ {p} : inbox'[r] = inbox[r]
  BY <1>1 DEF Taken
<1>4. m.type = type /\ tab[p].ws
  BY DEF Told
<1> QED
  BY <1>1, <1>2, <1>3, <1>4 DEF Message, Notice, Signal

(* A connection sends: what it sends reaches the peer, if it is there. *)
LEMMA SentMail ==
  ASSUME Quiet, faults' = 0, NEW p \in Peers, NEW k \in DOMAIN pcs[p], NEW q, q = pcs[p][k].peer,
         NEW type \in {"offer", "answer", "ice-candidate"}, NEW desc \in Description,
         Send(p, k, type, desc)
  PROVE  LET m == [type |-> type, from |-> p, desc |-> desc]
         IN  /\ q \in Peers /\ tab[p].ws /\ m \in Signal
             /\ IF tab[q].ws THEN inbox'[q] = Append(inbox[q], m) ELSE inbox'[q] = inbox[q]
             /\ \A r \in Peers \ {q} : inbox'[r] = inbox[r]
<1> DEFINE m == [type |-> type, from |-> p, desc |-> desc]
           to == {q} \cap Reachable
<1>1. q \in Peers
  BY EntrySound DEF Quiet, SoundConn, Connection
<1>2. tab[p].ws
  <2>1. pcs[p] # <<>>
    OBVIOUS
  <2> QED
    BY <2>1 DEF Quiet, Base, Off
<1>3. Delivered(to, m) /\ to \in SUBSET Peers
  BY <1>1, <1>2 DEF Send
<1>4. m \in Signal
  BY DEF Signal
<1>5. tab[q].ws <=> q \in to
  BY <1>1, OnlineKnown
<1> HIDE DEF m, to
<1>6. /\ \A r \in to : inbox'[r] = Append(inbox[r], m)
      /\ \A r \in Peers \ to : inbox'[r] = inbox[r]
  BY <1>3, DeliveredAll DEF Quiet
<1>7. to \subseteq {q}
  BY DEF to
<1> QED
  BY <1>1, <1>2, <1>4, <1>5, <1>6, <1>7 DEF m

(* There is news of q for p in the sense of the tiles. *)
LEMMA NewsKnown == ASSUME TypeInv, NEW p \in Peers, NEW q \in Peers PROVE News(p, q) <=> NewsAfter(p, q, 0)
<1>1. /\ \A j \in DOMAIN queue : queue[j] \in Message
      /\ \A j \in DOMAIN inbox[p] : inbox[p][j] \in Message /\ j > 0
  BY MailSound, SeqKeeps, ElementOfSeq
<1>2. Some(queue, Left(q)) <=> LeftQueued(q)
  BY <1>1, InPost DEF Some, LeftQueued, UserLeft
<1>3. Some(inbox[p], Left(q)) <=> LeftUnderWay(p, q, 0)
  BY <1>1, InPost DEF Some, LeftUnderWay, UserLeft
<1> QED
  BY <1>2, <1>3 DEF News, NewsAfter, Known

(* Steps that change no connection, and of the server nothing. *)
LEMMA SameBase ==
  ASSUME Quiet, UNCHANGED <<pcs, entry, inbox, queue, member, gone>>, \A p \in Peers : tab'[p].ws = tab[p].ws
  PROVE  \A p \in Peers : Base(p)'
<1>1. SUFFICES ASSUME NEW p \in Peers PROVE Base(p)'
  OBVIOUS
<1>2. Base(p)
  BY DEF Quiet
<1>3. (Off(p) /\ Out(p) /\ Others(p) /\ Live(p))'
  BY <1>2 DEF Base, Off, Out, Others, Live
<1>4. (EntryNews(p) /\ Farewell(p))'
  BY <1>2 DEF Base, EntryNews, News, Farewell
<1> QED
  BY <1>3, <1>4 DEF Base

(* One more notice to broadcast. *)
LEMMA AddedToQueue ==
  ASSUME NEW n \in Message, queue \in Seq(Message), queue' = Append(queue, n)
  PROVE  /\ \A A : Some(queue', A) <=> Some(queue, A) \/ n \in A
         /\ \A A : Once(queue', A) <=> Once(queue, A) /\ (n \in A => ~Some(queue, A))
         /\ \A A, B : NoneAfter(queue, A, B) /\ (n \in B => ~Some(queue, A)) => NoneAfter(queue', A, B)
<1>1. PICK s, t : s = queue /\ t = queue'
  OBVIOUS
<1>2. s \in Seq(Message) /\ t = Append(s, n)
  BY <1>1
<1>3. /\ \A A : Some(t, A) <=> Some(s, A) \/ n \in A
      /\ \A A : Once(t, A) <=> Once(s, A) /\ (n \in A => ~Some(s, A))
      /\ \A A, B : NoneAfter(s, A, B) /\ (n \in B => ~Some(s, A)) => NoneAfter(t, A, B)
  BY ONLY n \in Message, <1>2, AddedTo
<1> QED
  BY <1>1, <1>3

(* The user's earlier page is forgotten when the socket of the next opens. *)
LEMMA Unmentioned ==
  ASSUME Quiet, faults' = 0, NEW p \in Peers, SocketOpens(p)
  PROVE  /\ ~Some(queue, Post(p)) /\ \A q \in Peers : ~Some(inbox[q], Post(p)) /\ entry[q][p] = 0
         /\ ~tab[p].ws /\ inbox[p] = <<>> /\ pcs[p] = <<>> /\ \A q \in Peers : entry[p][q] = 0
         /\ tab'[p].ws /\ \A q \in Peers \ {p} : tab'[q].ws = tab[q].ws /\ tab'[q].n = tab[q].n
         /\ inbox' = inbox
<1>1. ~Mentioned(p) /\ ~tab[p].ws /\ tab \in [Peers -> Tab] /\ inbox \in [Peers -> Seq(Notice \cup Signal)]
  BY DEF SocketOpens, Fault, Quiet, PageInv, Blank, TypeInv, RestInv
<1>2. gone[p] = 0 /\ ~Some(queue, Post(p)) /\ \A q \in Peers : ~Some(inbox[q], Post(p))
  BY <1>1 DEF Mentioned, Some, Post
<1>3. member[p] = 0 /\ inbox[p] = <<>> /\ pcs[p] = <<>> /\ \A q \in Peers : entry[p][q] = 0
  BY <1>1, <1>2 DEF Quiet, Base, Out, Off
<1>4. ~Some(queue, Left(p)) /\ \A q \in Peers : ~Some(inbox[q], Left(p))
  BY <1>2 DEF Some, Left, From, Post
<1>5. \A q \in Peers : entry[q][p] = 0
  BY <1>3, <1>4 DEF Quiet, Base, EntryNews, News
<1>6. tab'[p].ws /\ \A q \in Peers \ {p} : tab'[q].ws = tab[q].ws /\ tab'[q].n = tab[q].n
  BY <1>1 DEF SocketOpens, Tab
<1>7. inbox' = inbox
  BY <1>1, <1>3 DEF SocketOpens
<1> QED
  BY <1>1, <1>2, <1>3, <1>5, <1>6, <1>7

(* The base when the socket of a page opens. *)
LEMMA OpensBase ==
  ASSUME Quiet, faults' = 0, NEW p \in Peers, SocketOpens(p)
  PROVE  \A q \in Peers : Base(q)'
<1> DEFINE n == [type |-> "user-joined", from |-> p]
<1>0. n \in Message /\ n.from = p /\ n.type = "user-joined"
  BY DEF Message, Notice
<1>1. /\ UNCHANGED <<pcs, entry, gone>> /\ queue' = Append(queue, n) /\ queue \in Seq(Message)
      /\ member' = [member EXCEPT ![p] = tab[p].n] /\ tab[p].n # 0 /\ member \in [Peers -> Nat]
  BY MailSound DEF SocketOpens, Quiet, TypeInv, TabInv, RestInv
<1> HIDE DEF n
<1>2. /\ \A A : Some(queue', A) <=> Some(queue, A) \/ n \in A
      /\ \A A, B : NoneAfter(queue, A, B) /\ (n \in B => ~Some(queue, A)) => NoneAfter(queue', A, B)
  BY <1>0, <1>1, AddedToQueue
<1>3. /\ ~Some(queue, Post(p)) /\ \A q \in Peers : ~Some(inbox[q], Post(p)) /\ entry[q][p] = 0
      /\ ~tab[p].ws /\ inbox[p] = <<>> /\ \A q \in Peers : entry[p][q] = 0
      /\ tab'[p].ws /\ \A q \in Peers \ {p} : tab'[q].ws = tab[q].ws
      /\ inbox' = inbox
  BY Unmentioned
<1>n. member'[p] # 0 /\ \A q \in Peers \ {p} : member'[q] = member[q]
  BY <1>1
<1>4. ASSUME NEW q \in Peers PROVE Base(q)'
  <2>1. Base(q)
    BY DEF Quiet
  <2>2. (Off(q) /\ Out(q) /\ Others(q) /\ Live(q))'
    BY <1>1, <1>3, <1>n, <2>1 DEF Base, Off, Out, Others, Live
  <2>3. EntryNews(q)'
    BY <1>1, <1>2, <1>3, <1>n, <2>1 DEF Base, EntryNews, News
  <2>4. CASE q # p
    <3>1. n \notin Left(q) /\ n \notin Post(q) /\ member'[q] = member[q]
      BY <1>0, <1>n, <2>4, InPost
    <3>2. Farewell(q)'
      BY <1>2, <1>3, <2>1, <3>1 DEF Base, Farewell
    <3> QED
      BY <2>2, <2>3, <3>2 DEF Base
  <2>5. CASE q = p
    <3>1. n \notin Left(p) /\ ~Some(queue, Left(p)) /\ \A r \in Peers : ~Some(inbox[r], Left(p))
      BY <1>0, <1>3, InPost DEF Some, Left, From, Post
    <3>2. Farewell(p)'
      BY <1>2, <1>3, <2>1, <2>5, <3>1 DEF Base, Farewell
    <3> QED
      BY <2>2, <2>3, <2>5, <3>2 DEF Base
  <2> QED
    BY <2>4, <2>5
<1> QED
  BY <1>4

(* The base when a page is closed. *)
LEMMA ClosesBase ==
  ASSUME Quiet, NEW p \in Peers, ClosePage(p)
  PROVE  \A q \in Peers : Base(q)'
<1>1. /\ tab \in [Peers -> Tab] /\ pcs \in [Peers -> Seq(SoundConn)] /\ entry \in [Peers -> [Peers -> Nat]]
      /\ inbox \in [Peers -> Seq(Notice \cup Signal)] /\ gone \in [Peers -> Nat]
  BY DEF Quiet, TypeInv, PcsInv, EntryInv, RestInv
<1>2. UNCHANGED <<member, queue>>
  BY DEF ClosePage
<1>3. /\ ~tab'[p].ws /\ pcs'[p] = <<>> /\ inbox'[p] = <<>> /\ \A q \in Peers : entry'[p][q] = 0
      /\ \A q \in Peers \ {p} : /\ tab'[q].ws = tab[q].ws /\ pcs'[q] = pcs[q] /\ inbox'[q] = inbox[q]
                                /\ entry'[q] = entry[q] /\ gone'[q] = gone[q]
  BY <1>1 DEF ClosePage, NoTab
<1>4. gone'[p] = 0 => ~tab[p].ws /\ gone[p] = 0
  BY <1>1 DEF ClosePage
<1>5. \A A, B : ~Some(inbox'[p], A) /\ NoneAfter(inbox'[p], A, B)
  BY <1>3, NothingIn
<1>6. ASSUME NEW q \in Peers PROVE Base(q)'
  <2>1. Base(q)
    BY DEF Quiet
  <2>2. CASE q = p
    <3>1. (Off(p) /\ Out(p) /\ Others(p) /\ Live(p) /\ EntryNews(p))'
      BY <1>2, <1>3, <1>4, <1>5, <2>1, <2>2 DEF Base, Off, Out, Others, Live, EntryNews
    <3>2. Farewell(p)'
      BY <1>2, <1>3, <1>5, <2>1, <2>2 DEF Base, Farewell
    <3> QED
      BY <2>2, <3>1, <3>2 DEF Base
  <2>3. CASE q # p
    <3>1. (Off(q) /\ Out(q) /\ Others(q) /\ Live(q) /\ EntryNews(q))'
      BY <1>2, <1>3, <2>1, <2>3 DEF Base, Off, Out, Others, Live, EntryNews, News
    <3>2. Farewell(q)'
      BY <1>2, <1>3, <1>5, <2>1, <2>3 DEF Base, Farewell
    <3> QED
      BY <3>1, <3>2 DEF Base
  <2> QED
    BY <2>2, <2>3
<1> QED
  BY <1>6

(* The base when the server unregisters a socket. *)
LEMMA UnregisterBase ==
  ASSUME Quiet, NEW p \in Peers, HubUnregister(p)
  PROVE  \A q \in Peers : Base(q)'
<1> DEFINE n == [type |-> "user-left", from |-> p]
<1>0. n \in Message /\ n.from = p /\ n.type = "user-left"
  BY DEF Message, Notice
<1>1. /\ UNCHANGED <<tab, pcs, entry, inbox>> /\ queue \in Seq(Message)
      /\ member'[p] = 0 /\ \A q \in Peers \ {p} : member'[q] = member[q] /\ gone'[q] = gone[q]
  BY MailSound DEF HubUnregister, browser, Quiet, TypeInv, RestInv
<1>2. ~tab[p].ws
  BY DEF HubUnregister, Quiet, PageInv, Registered
<1>3. CASE member[p] = 0
  <2>1. queue' = queue /\ \A q \in Peers : member'[q] = member[q]
    BY <1>1, <1>3 DEF HubUnregister
  <2>2. ASSUME NEW q \in Peers PROVE Base(q)'
    <3>1. Base(q)
      BY DEF Quiet
    <3>2. (Off(q) /\ Out(q) /\ Others(q) /\ Live(q) /\ EntryNews(q))'
      BY <1>1, <2>1, <3>1 DEF Base, Off, Out, Others, Live, EntryNews, News
    <3>3. Farewell(q)'
      BY <1>1, <2>1, <3>1 DEF Base, Farewell
    <3> QED
      BY <3>2, <3>3 DEF Base
  <2> QED
    BY <2>2
<1>4. CASE member[p] # 0
  <2>1. queue' = Append(queue, n)
    BY <1>4 DEF HubUnregister
  <2> HIDE DEF n
  <2>2. /\ \A A : Some(queue', A) <=> Some(queue, A) \/ n \in A
        /\ \A A, B : NoneAfter(queue, A, B) /\ (n \in B => ~Some(queue, A)) => NoneAfter(queue', A, B)
    BY <1>0, <1>1, <2>1, AddedToQueue
  <2>3. ASSUME NEW q \in Peers PROVE Base(q)'
    <3>1. Base(q) /\ (n \in Left(q) <=> q = p) /\ (n \in Post(q) <=> q = p)
      BY <1>0, InPost DEF Quiet
    <3>2. (Off(q) /\ Out(q) /\ Others(q) /\ Live(q))'
      BY <1>1, <3>1 DEF Base, Off, Out, Others, Live
    <3>3. EntryNews(q)'
      <4>1. \A s \in Peers : n \in Left(s) <=> s = p
        BY <1>0, InPost
      <4> QED
        BY <1>1, <2>2, <3>1, <4>1 DEF Base, EntryNews, News
    <3>4. CASE q # p
      BY <1>1, <2>2, <3>1, <3>2, <3>3, <3>4 DEF Base, Farewell
    <3>5. CASE q = p
      <4>1. Farewell(p)'
        BY <1>1, <1>4, <2>2, <3>1, <3>5 DEF Base, Farewell
      <4> QED
        BY <3>2, <3>3, <3>5, <4>1 DEF Base
    <3> QED
      BY <3>4, <3>5
  <2> QED
    BY <2>3
<1> QED
  BY <1>3, <1>4

--------------------------------------------------------------------------------
(* Steps as two users see them.  Every step of the system is one of a few   *)
(* moves of a pair of users, or nothing to them.                            *)

(* How a sequence changes: by one more at its end, by its first one less, or *)
(* by nothing that is in P.                                                 *)
Grew(s, t, e) ==
  /\ \A A : Some(t, A) <=> Some(s, A) \/ e \in A
  /\ \A A : Once(t, A) <=> Once(s, A) /\ (e \in A => ~Some(s, A))
  /\ \A A, B : Preceded(s, A, B) /\ (e \in A => Some(s, B)) => Preceded(t, A, B)
Shrank(s, t, e) ==
  /\ \A A : Some(s, A) <=> Some(t, A) \/ e \in A
  /\ \A A : Once(s, A) => Once(t, A) /\ (e \in A => ~Some(t, A))
  /\ \A A, B : Preceded(s, A, B) => e \notin A /\ (e \in B \/ Preceded(t, A, B))
Alike(s, t, P) ==
  /\ \A A \in SUBSET P : Some(t, A) <=> Some(s, A)
  /\ \A A \in SUBSET P : Once(s, A) => Once(t, A)
  /\ \A A, B \in SUBSET P : Preceded(s, A, B) => Preceded(t, A, B)

(* Append makes a sequence grow. *)
LEMMA GrewBy == ASSUME NEW M, NEW s \in Seq(M), NEW e \in M, NEW t, t = Append(s, e) PROVE Grew(s, t, e)
<1>1. /\ \A A : Some(t, A) <=> Some(s, A) \/ e \in A
      /\ \A A : Once(t, A) <=> Once(s, A) /\ (e \in A => ~Some(s, A))
      /\ \A A, B : Preceded(s, A, B) /\ (e \in A => Some(s, B)) => Preceded(t, A, B)
  BY AddedTo
<1> QED
  BY <1>1 DEF Grew

(* Tail makes a sequence shrink. *)
LEMMA ShrankBy ==
  ASSUME NEW M, NEW s \in Seq(M), s # <<>>, NEW e, e = Head(s), NEW t, t = Tail(s)
  PROVE  Shrank(s, t, e)
<1>1. /\ \A A : Some(s, A) <=> Some(t, A) \/ e \in A
      /\ \A A : Once(s, A) => Once(t, A) /\ (e \in A => ~Some(t, A))
      /\ \A A, B : Preceded(s, A, B) => e \notin A /\ (e \in B \/ Preceded(t, A, B))
  BY TakenFrom
<1> QED
  BY <1>1 DEF Shrank

(* What is unchanged is alike. *)
LEMMA SameAlike == \A s, P : Alike(s, s, P)
BY DEF Alike

(* An element of no interest was added. *)
LEMMA GrewAlike == ASSUME NEW s, NEW t, NEW e, NEW P, Grew(s, t, e), e \notin P PROVE Alike(s, t, P)
<1>1. \A A \in SUBSET P : e \notin A
  OBVIOUS
<1> QED
  BY <1>1 DEF Grew, Alike

(* An element of no interest was taken off. *)
LEMMA ShrankAlike == ASSUME NEW s, NEW t, NEW e, NEW P, Shrank(s, t, e), e \notin P PROVE Alike(s, t, P)
<1>1. \A A \in SUBSET P : e \notin A
  OBVIOUS
<1> QED
  BY <1>1 DEF Shrank, Alike

(* What two peers p and q have to do with each other, seen from p: its page,  *)
(* its connection, what it gets from q, what the server has to say of q.     *)
Talk(q)        == From(q, {"user-joined", "offer", "answer", "ice-candidate"})
SamePage(p)    == tab'[p].ws = tab[p].ws /\ (tab[p].ws => tab'[p].n = tab[p].n)
SameLink(p, q) == entry'[p][q] = entry[p][q] /\ Link(p, q)' = Link(p, q)
SameMail(p, q) == Alike(inbox[p], inbox'[p], Talk(q))
SameNews(q)    == Alike(queue, queue', Talk(q))
Kept(p, q)     == SamePage(p) /\ SameLink(p, q) /\ SameMail(p, q) /\ SameNews(q)

(* The page of p opens its socket; it is closed. *)
Comes(p, q) ==
  /\ ~tab[p].ws /\ tab'[p].ws /\ SamePage(q) /\ SameNews(q)
  /\ entry[p][q] = 0 /\ entry[q][p] = 0 /\ SameLink(p, q) /\ SameLink(q, p)
  /\ \A A : ~Some(inbox[p], A) /\ ~Some(inbox'[p], A)
  /\ ~Some(inbox[q], Talk(p)) /\ inbox'[q] = inbox[q]
  /\ ~Some(queue, Talk(p)) /\ Grew(queue, queue', [type |-> "user-joined", from |-> p])
Goes(p, q) ==
  /\ ~tab'[p].ws /\ SameNews(q) /\ Kept(q, p)
  /\ entry'[p][q] = 0 /\ inbox'[p] = <<>>

(* That q joined is told to p. *)
Hears(p, q) ==
  /\ SamePage(p) /\ SameLink(p, q) /\ Kept(q, p)
  /\ \E n \in From(q, {"user-joined"}) :
       /\ Shrank(queue, queue', n)
       /\ IF tab[p].ws THEN Grew(inbox[p], inbox'[p], n) ELSE SameMail(p, q)

(* p handles a message of q. *)
Asked1(p, q, op, desc) ==
  /\ entry'[p][q] # 0 /\ entry[p][q] \in {0, entry'[p][q]} /\ LinkAsked(p, q, op, desc)
  /\ Grew(Link(p, q).chain, Link(p, q)'.chain, [op |-> op, desc |-> desc])
Takes(p, q) ==
  /\ tab[p].ws /\ SamePage(p) /\ SameNews(q) /\ Kept(q, p)
  /\ \E m \in Talk(q) :
       /\ Shrank(inbox[p], inbox'[p], m)
       /\ \/ m.type = "user-joined" /\ Asked1(p, q, "createOffer", None)
          \/ m.type = "offer" /\ m \in Signal /\ Asked1(p, q, "setRemoteOffer", m.desc)
          \/ m.type \in {"answer", "ice-candidate"} /\ m \in Signal /\ entry[p][q] = 0 /\ SameLink(p, q)
          \/ m.type = "answer" /\ m \in Signal /\ entry[p][q] # 0 /\ Asked1(p, q, "setRemoteAnswer", m.desc)
          \/ m.type = "ice-candidate" /\ m \in Signal /\ entry[p][q] # 0 /\ Asked1(p, q, "addCandidate", m.desc)
Drops(p, q) ==
  /\ tab[p].ws /\ ~tab[q].ws /\ SamePage(p) /\ SameNews(q) /\ Kept(q, p)
  /\ entry'[p][q] = 0 /\ \A A \in SUBSET Talk(q) : ~Some(inbox'[p], A)

(* The connection of p for q does an operation. *)
Shape(p, q, sig, remote, gather) ==
  /\ tab[p].ws /\ entry[p][q] # 0 /\ entry'[p][q] = entry[p][q]
  /\ Link(p, q)'.told = Link(p, q).told /\ Link(p, q)'.offered = Link(p, q).offered
  /\ Link(p, q)'.tracks = Link(p, q).tracks
  /\ Link(p, q)'.sig = sig /\ Link(p, q)'.remote = remote /\ Link(p, q)'.gather = gather
Ends(p, q, o)       == Shrank(Link(p, q).chain, Link(p, q)'.chain, o)
Follows(p, q, o, op) ==
  \E mid : Shrank(Link(p, q).chain, mid, o) /\ Grew(mid, Link(p, q)'.chain, [op |-> op, desc |-> None])

(* An offer is created, a remote offer set, an answer created, a remote     *)
(* answer set, a candidate added; or the operation is refused.              *)
Drafts(p, q, o) ==
  /\ o.op = "createOffer" /\ Link(p, q).sig \in {"stable", "offering"}
  /\ Shape(p, q, Link(p, q).sig, Link(p, q).remote, Link(p, q).gather) /\ Follows(p, q, o, "setOffer")
Adopts(p, q, o) ==
  /\ o.op = "setRemoteOffer"
  /\ Shape(p, q, "answering", o.desc, Link(p, q).gather) /\ Follows(p, q, o, "createAnswer")
Writes(p, q, o) ==
  /\ o.op = "createAnswer" /\ Link(p, q).sig = "answering"
  /\ Shape(p, q, Link(p, q).sig, Link(p, q).remote, Link(p, q).gather) /\ Follows(p, q, o, "setAnswer")
Agrees(p, q, o) ==
  /\ o.op = "setRemoteAnswer" /\ Link(p, q).sig = "offering"
  /\ Shape(p, q, "stable", o.desc, Link(p, q).gather) /\ Ends(p, q, o)
Adds(p, q, o) ==
  /\ o.op = "addCandidate"
  /\ Shape(p, q, Link(p, q).sig, Link(p, q).remote, Link(p, q).gather) /\ Ends(p, q, o)
Fails(p, q, o) ==
  /\ \/ o.op \in {"createOffer", "setOffer"} /\ Link(p, q).sig = "answering"
     \/ o.op \in {"createAnswer", "setAnswer"} /\ Link(p, q).sig # "answering"
     \/ o.op = "setRemoteAnswer" /\ Link(p, q).sig # "offering"
     \/ o.op = "addCandidate" /\ ~(Link(p, q).remote # None /\ Link(p, q).remote.of = o.desc.of)
  /\ Shape(p, q, Link(p, q).sig, Link(p, q).remote, Link(p, q).gather) /\ Ends(p, q, o)
Acts(p, q) ==
  /\ SamePage(p) /\ SameMail(p, q) /\ SameNews(q) /\ Kept(q, p)
  /\ \E o \in SoundOp : \/ Drafts(p, q, o) \/ Adopts(p, q, o) \/ Writes(p, q, o)
                        \/ Agrees(p, q, o) \/ Adds(p, q, o) \/ Fails(p, q, o)

(* It sends something to q. *)
OfferOf(p, q)  == [of |-> Me(p, entry[p][q]), media |-> Link(p, q).tracks, answers |-> None]
AnswerOf(p, q) == [of |-> Me(p, entry[p][q]), media |-> Link(p, q).tracks /\ Link(p, q).remote.media,
                   answers |-> Link(p, q).remote.of]
Posts(p, q, type, desc) ==
  LET m == [type |-> type, from |-> p, desc |-> desc]
  IN  /\ desc \in Description
      /\ SamePage(q) /\ SameLink(q, p) /\ SameNews(p)
      /\ IF tab[q].ws THEN Grew(inbox[q], inbox'[q], m) ELSE SameMail(q, p)
Offers(p, q, o) ==
  /\ o.op = "setOffer" /\ Link(p, q).sig \in {"stable", "offering"}
  /\ Shape(p, q, "offering", Link(p, q).remote, Link(p, q).tracks) /\ Ends(p, q, o)
  /\ Posts(p, q, "offer", OfferOf(p, q))
Answers(p, q, o) ==
  /\ o.op = "setAnswer" /\ Link(p, q).sig = "answering"
  /\ Shape(p, q, "stable", Link(p, q).remote, Link(p, q).remote.media) /\ Ends(p, q, o)
  /\ Posts(p, q, "answer", AnswerOf(p, q))
Trickles(p, q) ==
  /\ Link(p, q).gather
  /\ Shape(p, q, Link(p, q).sig, Link(p, q).remote, FALSE) /\ Link(p, q)'.chain = Link(p, q).chain
  /\ Posts(p, q, "ice-candidate", OfferOf(p, q))
Sends(p, q) ==
  /\ SamePage(p) /\ SameMail(p, q) /\ SameNews(q)
  /\ \/ \E o \in SoundOp : Offers(p, q, o) \/ Answers(p, q, o)
     \/ Trickles(p, q)

(* What can happen between two users, through a step of p, or of the server *)
(* about p.                                                                 *)
Moves(p, q) == \/ Comes(p, q) \/ Goes(p, q) \/ Hears(p, q) \/ Takes(p, q) \/ Drops(p, q)
               \/ Acts(p, q) \/ Sends(p, q)
View(p, q)  == (Kept(p, q) /\ Kept(q, p)) \/ Moves(p, q) \/ Moves(q, p)

--------------------------------------------------------------------------------
(* Every step is a view: pages, server and handlers.                        *)

(* A step, as every two users see it.                                       *)
Views == \A a, b \in Peers : a # b => View(a, b)

(* Nothing is sent or read. *)
LEMMA SameKept == ASSUME UNCHANGED <<inbox, queue>> PROVE \A a, b \in Peers : SameMail(a, b) /\ SameNews(b)
BY SameAlike DEF SameMail, SameNews

(* Nothing between pages changes. *)
LEMMA IdleViews ==
  ASSUME Quiet, UNCHANGED <<pcs, entry, inbox, queue>>, \A p \in Peers : SamePage(p)
  PROVE  Views
<1>1. \A a, b \in Peers : SameMail(a, b) /\ SameNews(b)
  BY SameKept
<1>2. \A a, b \in Peers : SameLink(a, b)
  BY DEF SameLink, Link
<1> QED
  BY <1>1, <1>2 DEF Views, View, Kept

(* The page opens, waits for its socket, or has its camera: nothing happens *)
(* between two users.                                                       *)
LEMMA OpenViews ==
  ASSUME Quiet, NEW p \in Peers,
         OpenPage(p) \/ SocketFails(p) \/ MediaArrives(p) \/ MediaRefused(p)
  PROVE  Views /\ UNCHANGED <<pcs, entry, inbox, queue, member, gone>> /\ \A q \in Peers : tab'[q].ws = tab[q].ws
<1>1. tab \in [Peers -> Tab] /\ (tab[p].phase = "away" => ~tab[p].ws)
  BY DEF Quiet, TypeInv, RestInv, PageInv, Blank
<1>2. UNCHANGED <<pcs, entry, inbox, queue, member, gone>>
  BY DEF OpenPage, SocketFails, MediaArrives, MediaRefused, server
<1>3. \A q \in Peers \ {p} : tab'[q] = tab[q]
  BY <1>1 DEF OpenPage, SocketFails, MediaArrives, MediaRefused
<1>4. SamePage(p)
  <2>1. CASE OpenPage(p)
    BY <1>1, <2>1 DEF OpenPage, SamePage, NoTab, Tab
  <2>2. CASE SocketFails(p)
    BY <1>1, <2>2 DEF SocketFails, SamePage, Tab
  <2>3. CASE MediaArrives(p)
    BY <1>1, <2>3 DEF MediaArrives, SamePage, Tab
  <2>4. CASE MediaRefused(p)
    BY <1>1, <2>4 DEF MediaRefused, SamePage, Tab
  <2> QED
    BY <2>1, <2>2, <2>3, <2>4
<1>5. \A q \in Peers : SamePage(q)
  BY <1>3, <1>4 DEF SamePage
<1> QED
  BY <1>2, <1>5, IdleViews DEF SamePage

(* The socket of a page opens. *)
LEMMA ComesViews ==
  ASSUME Quiet, faults' = 0, NEW p \in Peers, SocketOpens(p)
  PROVE  Views
<1> DEFINE n == [type |-> "user-joined", from |-> p]
<1>0. n \in Message /\ n.from = p /\ n.type = "user-joined"
  BY DEF Message, Notice
<1>1. UNCHANGED <<pcs, entry>> /\ queue' = Append(queue, n) /\ queue \in Seq(Message)
  BY MailSound DEF SocketOpens, Quiet
<1> HIDE DEF n
<1>2. Grew(queue, queue', n)
  BY <1>0, <1>1, GrewBy
<1>3. /\ ~Some(queue, Post(p)) /\ \A q \in Peers : ~Some(inbox[q], Post(p)) /\ entry[q][p] = 0
      /\ ~tab[p].ws /\ inbox[p] = <<>> /\ \A q \in Peers : entry[p][q] = 0
      /\ tab'[p].ws /\ \A q \in Peers \ {p} : tab'[q].ws = tab[q].ws /\ tab'[q].n = tab[q].n
      /\ inbox' = inbox
  BY Unmentioned
<1>4. \A a, b \in Peers : SameMail(a, b) /\ SameLink(a, b)
  BY <1>1, <1>3, SameAlike DEF SameMail, SameLink, Link
<1>5. \A q \in Peers \ {p} : SamePage(q) /\ SameNews(q)
  <2>1. \A q \in Peers \ {p} : n \notin Talk(q)
    BY <1>0, InFrom DEF Talk
  <2> QED
    BY <1>2, <1>3, <2>1, GrewAlike DEF SamePage, SameNews
<1>6. \A q \in Peers \ {p} : Comes(p, q)
  <2>1. ~Some(queue, Talk(p)) /\ \A q \in Peers : ~Some(inbox[q], Talk(p))
    BY <1>3 DEF Some, Talk, From, Post
  <2>2. \A A : ~Some(inbox[p], A) /\ ~Some(inbox'[p], A)
    BY <1>3, NothingIn
  <2> QED
    BY <1>2, <1>3, <1>4, <1>5, <2>1, <2>2 DEF Comes, n
<1>7. \A a, b \in Peers \ {p} : Kept(a, b)
  BY <1>4, <1>5 DEF Kept
<1> QED
  BY <1>6, <1>7 DEF Views, View, Moves

(* A page is closed. *)
LEMMA GoesViews ==
  ASSUME Quiet, NEW p \in Peers, ClosePage(p)
  PROVE  Views
<1>1. /\ tab \in [Peers -> Tab] /\ pcs \in [Peers -> Seq(SoundConn)] /\ entry \in [Peers -> [Peers -> Nat]]
      /\ inbox \in [Peers -> Seq(Notice \cup Signal)]
  BY DEF Quiet, TypeInv, PcsInv, EntryInv, RestInv
<1>3. /\ ~tab'[p].ws /\ inbox'[p] = <<>> /\ \A q \in Peers : entry'[p][q] = 0
      /\ \A q \in Peers \ {p} : /\ tab'[q] = tab[q] /\ pcs'[q] = pcs[q] /\ inbox'[q] = inbox[q]
                                /\ entry'[q] = entry[q]
  BY <1>1 DEF ClosePage, NoTab
<1>4. \A b \in Peers : SameNews(b)
  BY SameAlike DEF SameNews, ClosePage
<1>5. \A a \in Peers \ {p}, b \in Peers : Kept(a, b)
  BY <1>3, <1>4, SameAlike DEF Kept, SamePage, SameLink, SameMail, Link
<1>6. \A q \in Peers \ {p} : Goes(p, q)
  BY <1>3, <1>4, <1>5 DEF Goes
<1> QED
  BY <1>5, <1>6 DEF Views, View, Moves

(* The server unregisters a socket: that a user left is no talk of his. *)
LEMMA UnregisterViews ==
  ASSUME Quiet, NEW p \in Peers, HubUnregister(p)
  PROVE  Views
<1> DEFINE n == [type |-> "user-left", from |-> p]
<1>0. n \in Message /\ n.from = p /\ n.type = "user-left"
  BY DEF Message, Notice
<1>1. UNCHANGED <<tab, pcs, entry, inbox>> /\ queue \in Seq(Message)
      /\ (queue' = queue \/ queue' = Append(queue, n))
  BY MailSound DEF HubUnregister, browser, Quiet
<1> HIDE DEF n
<1>2. \A b \in Peers : n \notin Talk(b)
  BY <1>0, InFrom DEF Talk
<1>3. \A b \in Peers : SameNews(b)
  <2>1. CASE queue' = queue
    BY <2>1, SameAlike DEF SameNews
  <2>2. CASE queue' = Append(queue, n)
    <3>1. Grew(queue, queue', n)
      BY <1>0, <1>1, <2>2, GrewBy
    <3> QED
      BY <1>2, <3>1, GrewAlike DEF SameNews
  <2> QED
    BY <1>1, <2>1, <2>2
<1>4. \A a, b \in Peers : SameMail(a, b) /\ SameLink(a, b) /\ SamePage(a)
  BY <1>1, SameAlike DEF SameMail, SameLink, SamePage, Link
<1> QED
  BY <1>3, <1>4 DEF Views, View, Kept

(* A notice reaches every page with a socket, but not that of its own user. *)
LEMMA Broadcasts ==
  ASSUME Quiet, faults' = 0, HubBroadcast, NEW n, n = Head(queue)
  PROVE  /\ n \in Message /\ n.from \in Peers /\ n.type \in {"user-joined", "user-left"}
         /\ UNCHANGED <<tab, pcs, entry, member, gone>>
         /\ Shrank(queue, queue', n) /\ Some(queue, {n})
         /\ \A A, B : NoneAfter(queue, A, B) => NoneAfter(queue', A, B) /\ (n \in A => ~Some(queue', B))
         /\ \A p \in Peers : IF tab[p].ws /\ p # n.from THEN inbox'[p] = Append(inbox[p], n)
                                                       ELSE inbox'[p] = inbox[p]
<1> DEFINE to == {q \in Peers : q \in Reachable /\ ~(n.type = "user-joined" /\ q = n.from)}
<1>1. /\ Delivered(to, n) /\ queue # <<>> /\ queue' = Tail(queue) /\ UNCHANGED <<tab, pcs, entry, member, gone>>
      /\ to \in SUBSET Peers
  BY DEF HubBroadcast, browser, Quiet
<1>2. queue \in Seq(Notice) /\ queue \in Seq(Message)
  BY MailSound DEF Quiet
<1>3. n \in Notice /\ n \in Message /\ n.from \in Peers /\ n.type \in {"user-joined", "user-left"}
  BY <1>1, <1>2, MailSound, SeqKeeps DEF Quiet
<1> HIDE DEF to
<1>4. PICK t : t = queue'
  OBVIOUS
<1>5. Shrank(queue, queue', n)
  BY <1>1, <1>2, ShrankBy
<1>6. \A A, B : NoneAfter(queue, A, B) => NoneAfter(queue', A, B) /\ (n \in A => ~Some(queue', B))
  <2>1. PICK s : s = queue
    OBVIOUS
  <2>2. s \in Seq(Message) /\ s # <<>> /\ n = Head(s) /\ t = Tail(s)
    BY <1>1, <1>2, <1>4, <2>1
  <2>3. \A A, B : NoneAfter(s, A, B) => NoneAfter(t, A, B) /\ (n \in A => ~Some(t, B))
    BY ONLY <2>2, TakenFrom
  <2> QED
    BY <1>4, <2>1, <2>3
<1>7. Some(queue, {n})
  BY <1>5 DEF Shrank
<1>8. \A p \in Peers : IF p \in to THEN inbox'[p] = Append(inbox[p], n) ELSE inbox'[p] = inbox[p]
  BY <1>1, DeliveredAll DEF Quiet
<1>9. ASSUME NEW p \in Peers PROVE p \in to <=> tab[p].ws /\ p # n.from
  <2>1. n.type = "user-left" /\ p = n.from => ~tab[p].ws
    <3>1. n.type = "user-left" /\ p = n.from => n \in Left(p)
      BY <1>3, InPost
    <3>2. n \in Left(p) => Some(queue, Left(p))
      BY <1>7 DEF Some
    <3> QED
      BY <3>1, <3>2, OnlineKnown
  <2>2. tab[p].ws <=> p \in Reachable
    BY OnlineKnown
  <2> QED
    BY <1>3, <2>1, <2>2 DEF to
<1> QED
  BY <1>1, <1>3, <1>5, <1>6, <1>7, <1>8, <1>9

(* The server broadcasts a notice. *)
LEMMA HearsViews ==
  ASSUME Quiet, faults' = 0, HubBroadcast
  PROVE  Views
<1>1. PICK n : n = Head(queue)
  OBVIOUS
<1>2. /\ n \in Message /\ n.from \in Peers /\ n.type \in {"user-joined", "user-left"}
      /\ UNCHANGED <<tab, pcs, entry, member, gone>>
      /\ Shrank(queue, queue', n)
      /\ \A p \in Peers : IF tab[p].ws /\ p # n.from THEN inbox'[p] = Append(inbox[p], n)
                                                    ELSE inbox'[p] = inbox[p]
  BY <1>1, Broadcasts
<1>3. \A a, b \in Peers : SamePage(a) /\ SameLink(a, b)
  BY <1>2 DEF SamePage, SameLink, Link
<1>4. \A b \in Peers : n \in Talk(b) <=> b = n.from /\ n.type = "user-joined"
  BY <1>2, InFrom DEF Talk
<1>5. ASSUME NEW a \in Peers
      PROVE  IF tab[a].ws /\ a # n.from THEN Grew(inbox[a], inbox'[a], n) ELSE inbox'[a] = inbox[a]
  <2>1. inbox[a] \in Seq(Message)
    BY MailSound DEF Quiet
  <2> QED
    BY <1>2, <2>1, GrewBy
<1>6. \A a, b \in Peers : n \notin Talk(b) => Kept(a, b)
  <2>1. \A b \in Peers : n \notin Talk(b) => SameNews(b)
    BY <1>2, ShrankAlike DEF SameNews
  <2>2. \A a, b \in Peers : n \notin Talk(b) => SameMail(a, b)
    BY <1>5, GrewAlike, SameAlike DEF SameMail
  <2> QED
    BY <1>3, <2>1, <2>2 DEF Kept
<1>7. ASSUME n.type = "user-joined", NEW a \in Peers, a # n.from
      PROVE  Hears(a, n.from)
  <2>1. n \in From(n.from, {"user-joined"}) /\ n \notin Talk(a)
    BY <1>2, <1>4, <1>7, InFrom
  <2>2. Kept(n.from, a)
    BY <1>2, <1>6, <2>1
  <2>3. IF tab[a].ws THEN Grew(inbox[a], inbox'[a], n) ELSE SameMail(a, n.from)
    BY <1>5, <1>7, SameAlike DEF SameMail
  <2> QED
    BY <1>2, <1>3, <2>1, <2>2, <2>3 DEF Hears
<1> QED
  BY <1>2, <1>4, <1>6, <1>7 DEF Views, View, Moves

(* A handler takes a message of q: what is the same for all of them. *)
LEMMA HandlerViews ==
  ASSUME Quiet, NEW p \in Peers, NEW type, Told(p, type), Taken(p), UNCHANGED <<tab, queue>>,
         NEW m, m = Head(inbox[p]), OtherLinks(p, m.from), m.from # p => Takes(p, m.from) \/ Drops(p, m.from)
  PROVE  Views
<1>1. /\ m \in Message /\ m.from \in Peers
      /\ inbox[p] \in Seq(Message) /\ inbox[p] # <<>> /\ inbox'[p] = Tail(inbox[p])
      /\ \A r \in Peers \ {p} : inbox'[r] = inbox[r]
  BY TakenMail DEF Quiet
<1>2. Shrank(inbox[p], inbox'[p], m)
  BY <1>1, ShrankBy
<1>3. \A a \in Peers : SamePage(a) /\ SameNews(a)
  BY SameAlike DEF SamePage, SameNews
<1>4. \A a, b \in Peers : a # p \/ b # m.from => SameLink(a, b)
  BY <1>1 DEF OtherLinks, SameLink
<1>5. \A a, b \in Peers : a # p \/ b # m.from => SameMail(a, b)
  <2>1. \A b \in Peers \ {m.from} : m \notin Talk(b)
    BY <1>1, InFrom DEF Talk
  <2> QED
    BY <1>1, <1>2, <2>1, SameAlike, ShrankAlike DEF SameMail
<1>6. \A a, b \in Peers : a # p \/ b # m.from => Kept(a, b)
  BY <1>3, <1>4, <1>5 DEF Kept
<1> QED
  BY <1>1, <1>6 DEF Views, View, Moves

(* What a handler leaves alone of the pair. *)
LEMMA OtherHalf ==
  ASSUME Quiet, NEW p \in Peers, NEW type, Told(p, type), Taken(p), UNCHANGED <<tab, queue>>,
         NEW m, m = Head(inbox[p]), NEW q \in Peers \ {p}, q = m.from, OtherLinks(p, q)
  PROVE  /\ SamePage(p) /\ SameNews(q) /\ Kept(q, p) /\ Shrank(inbox[p], inbox'[p], m)
         /\ m \in Message /\ (m \in Talk(q) <=> type # "user-left")
         /\ m.type = type /\ tab[p].ws /\ (type \in {"offer", "answer", "ice-candidate"} => m \in Signal)
<1>1. /\ m \in Message /\ m.type = type /\ tab[p].ws
      /\ type \in {"offer", "answer", "ice-candidate"} => m \in Signal
      /\ inbox[p] \in Seq(Message) /\ inbox[p] # <<>> /\ inbox'[p] = Tail(inbox[p])
      /\ \A r \in Peers \ {p} : inbox'[r] = inbox[r]
  BY TakenMail DEF Quiet
<1>2. Shrank(inbox[p], inbox'[p], m)
  BY <1>1, ShrankBy
<1>3. SamePage(p) /\ SameNews(q) /\ SamePage(q) /\ SameNews(p) /\ SameMail(q, p) /\ SameLink(q, p)
  BY <1>1, SameAlike DEF SamePage, SameNews, SameMail, SameLink, OtherLinks
<1>4. m \in Talk(q) <=> type # "user-left"
  <2>1. m.type \in {"user-joined", "user-left", "offer", "answer", "ice-candidate"}
    BY <1>1 DEF Message, Notice, Signal
  <2> QED
    BY <1>1, <2>1, InFrom DEF Talk
<1> QED
  BY <1>1, <1>2, <1>3, <1>4 DEF Kept

(* The chain of a connection that is asked grows. *)
LEMMA AskedGrew ==
  ASSUME TypeInv, NEW p \in Peers, NEW q \in Peers, NEW op, NEW desc, [op |-> op, desc |-> desc] \in SoundOp,
         LinkAsked(p, q, op, desc)
  PROVE  Grew(Link(p, q).chain, Link(p, q)'.chain, [op |-> op, desc |-> desc])
<1>1. PICK s, t, e : s = Link(p, q).chain /\ t = Link(p, q)'.chain /\ e = [op |-> op, desc |-> desc]
  OBVIOUS
<1>2. s \in Seq(SoundOp) /\ t = Append(s, e) /\ e \in SoundOp
  BY <1>1, LinkSound DEF LinkAsked
<1>3. Grew(s, t, e)
  BY ONLY <1>2, GrewBy, Zenon
<1> QED
  BY <1>1, <1>3

(* A page handles a message. *)
LEMMA TakesViews ==
  ASSUME Quiet, NEW p \in Peers, Handle(p)
  PROVE  Views
<1>0. TypeInv /\ Others(p)
  BY DEF Quiet, Base
<1>1. PICK m : m = Head(inbox[p])
  OBVIOUS
<1>2. UNCHANGED <<tab, queue>>
  BY Zenon DEF Handle, HandleUserJoined, HandleOffer, HandleAnswer, HandleIceCandidate, HandleUserLeft, Asks, server
<1>3. PICK q : q = m.from
  OBVIOUS
<1>4. CASE HandleUserJoined(p)
  <2>1. Told(p, "user-joined") /\ Taken(p) /\ Start(p, q, "createOffer", None)
    BY <1>1, <1>3, <1>4 DEF HandleUserJoined
  <2>2. q \in Peers /\ m \in Message
    BY <1>0, <1>1, <1>3, <2>1, TakenMail
  <2>3. entry'[p][q] # 0 /\ entry[p][q] \in {0, entry'[p][q]} /\ OtherLinks(p, q) /\ LinkAsked(p, q, "createOffer", None)
    BY <1>0, <2>1, <2>2, StartLink
  <2>4. q # p => Takes(p, q)
    <3> SUFFICES ASSUME q # p PROVE Takes(p, q)
      OBVIOUS
    <3>1. [op |-> "createOffer", desc |-> None] \in SoundOp
      BY DEF SoundOp, Operation, Remote
    <3>2. Asked1(p, q, "createOffer", None)
      BY <1>0, <2>2, <2>3, <3>1, AskedGrew DEF Asked1
    <3>3. /\ SamePage(p) /\ SameNews(q) /\ Kept(q, p) /\ Shrank(inbox[p], inbox'[p], m)
          /\ m \in Talk(q) /\ m.type = "user-joined" /\ tab[p].ws
      BY <1>1, <1>2, <1>3, <2>1, <2>2, <2>3, OtherHalf
    <3> QED
      BY <3>2, <3>3 DEF Takes
  <2> QED
    BY <1>1, <1>2, <1>3, <2>1, <2>3, <2>4, HandlerViews
<1>5. CASE HandleOffer(p)
  <2>1. Told(p, "offer") /\ Taken(p) /\ Start(p, q, "setRemoteOffer", m.desc)
    BY <1>1, <1>3, <1>5 DEF HandleOffer
  <2>2. q \in Peers /\ m \in Signal
    BY <1>0, <1>1, <1>3, <2>1, TakenMail
  <2>d. m.desc \in Description
    BY <2>2 DEF Signal
  <2>3. entry'[p][q] # 0 /\ entry[p][q] \in {0, entry'[p][q]} /\ OtherLinks(p, q) /\ LinkAsked(p, q, "setRemoteOffer", m.desc)
    BY <1>0, <2>1, <2>2, <2>d, StartLink
  <2>4. q # p => Takes(p, q)
    <3> SUFFICES ASSUME q # p PROVE Takes(p, q)
      OBVIOUS
    <3>1. [op |-> "setRemoteOffer", desc |-> m.desc] \in SoundOp
      BY <2>d DEF SoundOp, Operation, Remote
    <3>2. Asked1(p, q, "setRemoteOffer", m.desc)
      BY <1>0, <2>2, <2>3, <3>1, AskedGrew DEF Asked1
    <3>3. /\ SamePage(p) /\ SameNews(q) /\ Kept(q, p) /\ Shrank(inbox[p], inbox'[p], m)
          /\ m \in Talk(q) /\ m.type = "offer" /\ tab[p].ws
      BY <1>1, <1>2, <1>3, <2>1, <2>2, <2>3, OtherHalf
    <3> QED
      BY <2>2, <3>2, <3>3 DEF Takes
  <2> QED
    BY <1>1, <1>2, <1>3, <2>1, <2>3, <2>4, HandlerViews
<1>6. ASSUME NEW type, NEW op, \/ type = "answer" /\ op = "setRemoteAnswer"
                               \/ type = "ice-candidate" /\ op = "addCandidate",
             Asks(p, type, op)
      PROVE  Views
  <2>1. Told(p, type) /\ Taken(p)
    BY <1>6 DEF Asks
  <2>2. q \in Peers /\ m \in Signal
    BY <1>0, <1>1, <1>3, <1>6, <2>1, TakenMail
  <2>d. m.desc \in Description
    BY <2>2 DEF Signal
  <2>3. /\ entry' = entry /\ OtherLinks(p, q)
        /\ IF entry[p][q] = 0 THEN Link(p, q)' = Link(p, q) ELSE LinkAsked(p, q, op, m.desc)
    BY <1>0, <1>1, <1>3, <1>6, AsksLink
  <2>4. q # p => Takes(p, q)
    <3> SUFFICES ASSUME q # p PROVE Takes(p, q)
      OBVIOUS
    <3>1. [op |-> op, desc |-> m.desc] \in SoundOp
      BY <1>6, <2>d DEF SoundOp, Operation, Remote
    <3>2. /\ entry[p][q] = 0 => SameLink(p, q)
          /\ entry[p][q] # 0 => Asked1(p, q, op, m.desc)
      BY <1>0, <2>2, <2>3, <3>1, AskedGrew DEF Asked1, SameLink
    <3>3. /\ SamePage(p) /\ SameNews(q) /\ Kept(q, p) /\ Shrank(inbox[p], inbox'[p], m)
          /\ m \in Talk(q) /\ m.type = type /\ tab[p].ws
      BY <1>1, <1>2, <1>3, <1>6, <2>1, <2>2, <2>3, OtherHalf
    <3> QED
      BY <1>6, <2>2, <3>2, <3>3 DEF Takes
  <2> QED
    BY <1>1, <1>2, <1>3, <2>1, <2>3, <2>4, HandlerViews
<1>7. CASE HandleUserLeft(p)
  <2>1. Told(p, "user-left") /\ Taken(p)
    BY <1>7 DEF HandleUserLeft
  <2>2. /\ q \in Peers /\ m \in Message /\ m.type = "user-left"
        /\ inbox[p] \in Seq(Message) /\ inbox[p] # <<>> /\ inbox'[p] = Tail(inbox[p])
    BY <1>0, <1>1, <1>3, <2>1, TakenMail
  <2>3. entry'[p][q] = 0 /\ OtherLinks(p, q)
    BY <1>0, <1>1, <1>3, <1>7, LeftLink
  <2>4. q # p => Drops(p, q)
    <3> SUFFICES ASSUME q # p PROVE Drops(p, q)
      OBVIOUS
    <3>1. SamePage(p) /\ SameNews(q) /\ Kept(q, p) /\ Shrank(inbox[p], inbox'[p], m) /\ tab[p].ws
      BY <1>1, <1>2, <1>3, <2>1, <2>2, <2>3, OtherHalf
    <3>2. m \in Left(q)
      BY <1>3, <2>2, InPost
    <3>3. ~tab[q].ws
      <4>1. Some(inbox[p], Left(q))
        BY <3>1, <3>2 DEF Shrank
      <4> QED
        BY <2>2, <4>1, OnlineKnown
    <3>4. ~Some(inbox'[p], Post(q))
      <4>1. NoneAfter(inbox[p], Left(q), Post(q))
        BY <2>2 DEF Quiet, Base, Farewell
      <4>2. PICK s, t : s = inbox[p] /\ t = inbox'[p]
        OBVIOUS
      <4>3. s \in Seq(Message) /\ s # <<>> /\ m = Head(s) /\ t = Tail(s)
        BY <1>1, <2>2, <4>2
      <4>4. \A A, B : NoneAfter(s, A, B) => NoneAfter(t, A, B) /\ (m \in A => ~Some(t, B))
        BY ONLY <4>3, TakenFrom
      <4> QED
        BY <3>2, <4>1, <4>2, <4>4
    <3>5. \A A \in SUBSET Talk(q) : ~Some(inbox'[p], A)
      BY <3>4 DEF Some, Talk, From, Post
    <3> QED
      BY <2>3, <3>1, <3>3, <3>5 DEF Drops
  <2> QED
    BY <1>1, <1>2, <1>3, <2>1, <2>3, <2>4, HandlerViews
<1> QED
  BY <1>4, <1>5, <1>6, <1>7 DEF Handle, HandleAnswer, HandleIceCandidate

--------------------------------------------------------------------------------
(* Every step is a view: the operations of a connection.                    *)

(* A connection with something to do, or to send, is the one of the map. *)
LEMMA Busy ==
  ASSUME Quiet, NEW p \in Peers, NEW k \in DOMAIN pcs[p], pcs[p][k].chain # <<>> \/ pcs[p][k].gather,
         NEW q, q = pcs[p][k].peer
  PROVE  /\ q \in Peers /\ q # p /\ entry[p][q] = k /\ k # 0 /\ tab[p].ws /\ Link(p, q) = pcs[p][k]
         /\ pcs[p][k] \in SoundConn /\ pcs[p][k] \in Connection /\ pcs[p][k].sig # "closed"
<1>1. TypeInv /\ Current(p) /\ Live(p) /\ Off(p) /\ Others(p)
  BY DEF Quiet, PageInv, Base
<1>2. k # 0 /\ pcs[p][k] \in SoundConn /\ pcs[p][k] \in Connection
  BY <1>1, EntrySound DEF SoundConn
<1>3. entry[p][q] = k /\ q \in Peers /\ pcs[p][k].sig # "closed"
  BY <1>1, <1>2 DEF Current, Live, Connection
<1>4. q # p
  BY <1>1, <1>2, <1>3 DEF Others
<1>5. tab[p].ws
  <2>1. pcs[p] # <<>>
    OBVIOUS
  <2> QED
    BY <1>1, <2>1 DEF Off
<1> QED
  BY <1>2, <1>3, <1>4, <1>5 DEF Link

(* What an operation does to its connection. *)
LEMMA ActLink ==
  ASSUME Quiet, NEW p \in Peers, NEW k \in DOMAIN pcs[p], pcs[p][k].chain # <<>>,
         NEW q, q = pcs[p][k].peer,
         NEW c \in SoundConn, c.chain = pcs[p][k].chain, c.peer = q, c.told = pcs[p][k].told,
         c.offered = pcs[p][k].offered, c.tracks = pcs[p][k].tracks,
         NEW next \in Seq(SoundOp), Performed(p, k, c, next), entry' = entry,
         NEW o, o = Head(pcs[p][k].chain)
  PROVE  /\ Shape(p, q, c.sig, c.remote, c.gather) /\ OtherLinks(p, q) /\ o \in SoundOp
         /\ next = <<>> => Ends(p, q, o)
         /\ \A op \in {"setOffer", "createAnswer", "setAnswer"} : next = Then(op) => Follows(p, q, o, op)
         /\ \A j \in DOMAIN pcs'[p] : \/ j = k /\ pcs'[p][j] = Link(p, q)'
                                      \/ j # k /\ j \in DOMAIN pcs[p] /\ pcs'[p][j] = pcs[p][j]
         /\ \A r \in Peers \ {p} : pcs'[r] = pcs[r]
<1>1. /\ TypeInv /\ q \in Peers /\ q # p /\ entry[p][q] = k /\ k # 0 /\ tab[p].ws /\ Link(p, q) = pcs[p][k]
      /\ pcs[p][k] \in SoundConn
  BY Busy DEF Quiet
<1>2. /\ LinkPerformed(p, q, c, next) /\ OtherLinks(p, q)
      /\ \A j \in DOMAIN pcs'[p] : \/ j = k /\ pcs'[p][j] = Link(p, q)'
                                   \/ j # k /\ j \in DOMAIN pcs[p] /\ pcs'[p][j] = pcs[p][j]
      /\ \A r \in Peers \ {p} : pcs'[r] = pcs[r]
  BY <1>1, PerformLink
<1>3. Shape(p, q, c.sig, c.remote, c.gather)
  BY <1>1, <1>2 DEF Shape, LinkPerformed
<1>4. PICK s, t, mid : s = Link(p, q).chain /\ t = Link(p, q)'.chain /\ mid = Tail(s)
  OBVIOUS
<1>5. s \in Seq(SoundOp) /\ s # <<>> /\ o = Head(s) /\ t = mid \o next
  BY <1>1, <1>2, <1>4, Zenon DEF LinkPerformed, SoundConn
<1>6. o \in SoundOp /\ mid \in Seq(SoundOp)
  BY <1>4, <1>5, SeqKeeps, Zenon
<1>7. Shrank(s, mid, o)
  BY ONLY <1>4, <1>5, ShrankBy
<1>8. next = <<>> => Ends(p, q, o)
  <2>1. next = <<>> => t = mid
    BY <1>5, <1>6
  <2> QED
    BY <1>4, <1>7, <2>1 DEF Ends
<1>9. ASSUME NEW op \in {"setOffer", "createAnswer", "setAnswer"}, next = Then(op) PROVE Follows(p, q, o, op)
  <2>1. PICK e : e = [op |-> op, desc |-> None]
    OBVIOUS
  <2>2. e \in SoundOp
    BY <2>1 DEF SoundOp, Operation, Remote
  <2>3. t = Append(mid, e)
    BY <1>5, <1>6, <1>9, <2>1, <2>2 DEF Then
  <2>4. Grew(mid, t, e)
    BY ONLY <1>6, <2>2, <2>3, GrewBy
  <2> QED
    BY <1>4, <1>7, <2>1, <2>4 DEF Follows
<1> QED
  BY <1>2, <1>3, <1>6, <1>8, <1>9

(* What it leaves alone. *)
LEMMA ActRest ==
  ASSUME NEW p \in Peers, NEW q \in Peers \ {p}, OtherLinks(p, q), UNCHANGED <<queue, inbox>>,
         \A r \in Peers : SamePage(r)
  PROVE  /\ SamePage(p) /\ SameMail(p, q) /\ SameNews(q) /\ Kept(q, p)
         /\ Acts(p, q) => Views
<1>1. \A a, b \in Peers : SameMail(a, b) /\ SameNews(b) /\ SamePage(a)
  BY SameKept
<1>2. \A a, b \in Peers : a # p \/ b # q => Kept(a, b)
  BY <1>1 DEF Kept, SameLink, OtherLinks
<1> QED
  BY <1>1, <1>2 DEF Views, View, Moves

(* What is sent reaches the peer while his socket is open, and nobody else. *)
LEMMA PostRest ==
  ASSUME Quiet, faults' = 0, NEW p \in Peers, NEW k \in DOMAIN pcs[p], NEW q \in Peers \ {p}, q = pcs[p][k].peer,
         OtherLinks(p, q), UNCHANGED <<tab, queue>>,
         NEW type \in {"offer", "answer", "ice-candidate"}, NEW desc \in Description,
         Send(p, k, type, desc)
  PROVE  /\ SamePage(p) /\ SameMail(p, q) /\ SameNews(q) /\ Posts(p, q, type, desc)
         /\ Sends(p, q) => Views
<1>1. PICK m : m = [type |-> type, from |-> p, desc |-> desc]
  OBVIOUS
<1>2. /\ m \in Signal /\ IF tab[q].ws THEN inbox'[q] = Append(inbox[q], m) ELSE inbox'[q] = inbox[q]
      /\ \A r \in Peers \ {q} : inbox'[r] = inbox[r]
  BY <1>1, SentMail
<1>3. m \in Message /\ inbox[q] \in Seq(Message)
  BY <1>2, MailSound DEF Quiet
<1>4. IF tab[q].ws THEN Grew(inbox[q], inbox'[q], m) ELSE inbox'[q] = inbox[q]
  BY <1>2, <1>3, GrewBy
<1>5. \A a \in Peers : SamePage(a) /\ SameNews(a)
  BY SameAlike DEF SamePage, SameNews
<1>6. \A a, b \in Peers : a # p \/ b # q => SameLink(a, b)
  BY DEF OtherLinks, SameLink
<1>7. \A a, b \in Peers : a # q \/ b # p => SameMail(a, b)
  <2>1. \A b \in Peers \ {p} : m \notin Talk(b)
    BY <1>1, <1>3, InFrom DEF Talk
  <2> QED
    BY <1>2, <1>4, <2>1, SameAlike, GrewAlike DEF SameMail
<1>8. IF tab[q].ws THEN Grew(inbox[q], inbox'[q], m) ELSE SameMail(q, p)
  BY <1>4, SameAlike DEF SameMail
<1>9. Posts(p, q, type, desc)
  BY <1>1, <1>5, <1>6, <1>8 DEF Posts
<1> QED
  BY <1>5, <1>6, <1>7, <1>9 DEF Views, View, Moves, Kept

(* What the server and the pages see of an operation. *)
OwnStep(p, k) ==
  \E q \in Peers \ {p} :
    /\ q = pcs[p][k].peer /\ entry[p][q] = k /\ tab[p].ws
    /\ UNCHANGED <<entry, member, gone, queue>> /\ \A r \in Peers : tab'[r].ws = tab[r].ws
    /\ Link(p, q)'.sig # "closed"
    /\ \A j \in DOMAIN pcs'[p] : \/ j = k /\ pcs'[p][j] = Link(p, q)'
                                 \/ j # k /\ j \in DOMAIN pcs[p] /\ pcs'[p][j] = pcs[p][j]
    /\ \A r \in Peers \ {p} : pcs'[r] = pcs[r]
    /\ \A r \in Peers \ {q} : inbox'[r] = inbox[r]
    /\ \/ inbox'[q] = inbox[q]
       \/ tab[q].ws /\ \E m \in Signal : m.from = p /\ inbox'[q] = Append(inbox[q], m)

(* Operations that send nothing. *)
LEMMA QuietAct ==
  ASSUME Quiet, NEW p \in Peers, NEW k \in DOMAIN pcs[p], pcs[p][k].chain # <<>>,
         NEW q, q = pcs[p][k].peer,
         NEW c \in SoundConn, c.chain = pcs[p][k].chain, c.peer = q, c.told = pcs[p][k].told,
         c.offered = pcs[p][k].offered, c.tracks = pcs[p][k].tracks, c.sig # "closed",
         NEW next \in Seq(SoundOp), Performed(p, k, c, next),
         UNCHANGED <<entry, server, inbox, pages, faults>>,
         tab' = tab \/ tab' = [tab EXCEPT ![p].error = "handler"]
  PROVE  OwnStep(p, k) /\ (Acts(p, q) => Views)
         /\ SamePage(p) /\ SameMail(p, q) /\ SameNews(q) /\ Kept(q, p)
<1>1. UNCHANGED <<entry, member, gone, queue, inbox>>
  BY DEF server
<1>2. q \in Peers \ {p} /\ entry[p][q] = k /\ tab[p].ws
  BY Busy
<1>3. PICK o : o = Head(pcs[p][k].chain)
  OBVIOUS
<1>4. /\ Shape(p, q, c.sig, c.remote, c.gather) /\ OtherLinks(p, q)
      /\ \A j \in DOMAIN pcs'[p] : \/ j = k /\ pcs'[p][j] = Link(p, q)'
                                   \/ j # k /\ j \in DOMAIN pcs[p] /\ pcs'[p][j] = pcs[p][j]
      /\ \A r \in Peers \ {p} : pcs'[r] = pcs[r]
  BY <1>1, <1>3, ActLink
<1>5. \A r \in Peers : SamePage(r) /\ tab'[r].ws = tab[r].ws
  <2>1. tab \in [Peers -> Tab]
    BY DEF Quiet, TypeInv, RestInv
  <2> QED
    BY <2>1, ErrorTab DEF SamePage, SameTab, Tab
<1>6. OwnStep(p, k)
  BY <1>1, <1>2, <1>4, <1>5 DEF OwnStep, Shape
<1> QED
  BY <1>1, <1>2, <1>4, <1>5, <1>6, ActRest

(* The last operation of a handler. *)
LEMMA EndLink ==
  ASSUME Quiet, NEW p \in Peers, NEW k \in DOMAIN pcs[p], pcs[p][k].chain # <<>>,
         NEW q, q = pcs[p][k].peer,
         NEW c \in SoundConn, c.chain = pcs[p][k].chain, c.peer = q, c.told = pcs[p][k].told,
         c.offered = pcs[p][k].offered, c.tracks = pcs[p][k].tracks,
         Performed(p, k, c, <<>>), entry' = entry,
         NEW o, o = Head(pcs[p][k].chain)
  PROVE  /\ Shape(p, q, c.sig, c.remote, c.gather) /\ OtherLinks(p, q) /\ o \in SoundOp
         /\ Ends(p, q, o)
         /\ \A j \in DOMAIN pcs'[p] : \/ j = k /\ pcs'[p][j] = Link(p, q)'
                                      \/ j # k /\ j \in DOMAIN pcs[p] /\ pcs'[p][j] = pcs[p][j]
         /\ \A r \in Peers \ {p} : pcs'[r] = pcs[r]
<1>1. PICK next : next = <<>>
  OBVIOUS
<1>2. next \in Seq(SoundOp) /\ Performed(p, k, c, next)
  BY <1>1
<1>3. /\ Shape(p, q, c.sig, c.remote, c.gather) /\ OtherLinks(p, q) /\ o \in SoundOp
      /\ next = <<>> => Ends(p, q, o)
      /\ \A j \in DOMAIN pcs'[p] : \/ j = k /\ pcs'[p][j] = Link(p, q)'
                                   \/ j # k /\ j \in DOMAIN pcs[p] /\ pcs'[p][j] = pcs[p][j]
      /\ \A r \in Peers \ {p} : pcs'[r] = pcs[r]
  BY <1>2, ActLink
<1> QED
  BY <1>1, <1>3

(* createOffer and createAnswer. *)
LEMMA CreatesViews ==
  ASSUME Quiet, NEW p \in Peers, NEW k \in DOMAIN pcs[p], CreateOffer(p, k) \/ CreateAnswer(p, k)
  PROVE  Views /\ OwnStep(p, k)
<1>1. PICK op, next : \/ op = "createOffer" /\ next = "setOffer" /\ CreateOffer(p, k)
                      \/ op = "createAnswer" /\ next = "setAnswer" /\ CreateAnswer(p, k)
  OBVIOUS
<1>2. /\ Performs(p, k, op) /\ Performed(p, k, pcs[p][k], Then(next))
      /\ UNCHANGED <<tab, entry, server, inbox, pages, faults>>
      /\ op = "createOffer" => pcs[p][k].sig \in {"stable", "offering"}
      /\ op = "createAnswer" => pcs[p][k].sig = "answering"
  BY <1>1 DEF CreateOffer, CreateAnswer
<1>3. PICK q, o : q = pcs[p][k].peer /\ o = Head(pcs[p][k].chain)
  OBVIOUS
<1>4. pcs[p][k].chain # <<>> /\ o.op = op
  BY <1>2, <1>3 DEF Performs
<1>5. /\ q \in Peers \ {p} /\ Link(p, q) = pcs[p][k] /\ pcs[p][k] \in SoundConn /\ pcs[p][k].sig # "closed"
  BY <1>3, <1>4, Busy
<1>6. Then(next) \in Seq(SoundOp)
  BY <1>1, ThenSound
<1>7. /\ OwnStep(p, k) /\ (Acts(p, q) => Views)
      /\ SamePage(p) /\ SameMail(p, q) /\ SameNews(q) /\ Kept(q, p)
  BY <1>2, <1>3, <1>4, <1>5, <1>6, QuietAct
<1>8. /\ Shape(p, q, Link(p, q).sig, Link(p, q).remote, Link(p, q).gather) /\ o \in SoundOp
      /\ Follows(p, q, o, next)
  BY <1>1, <1>2, <1>3, <1>4, <1>5, <1>6, ActLink
<1>9. Drafts(p, q, o) \/ Writes(p, q, o)
  BY <1>1, <1>2, <1>4, <1>5, <1>8 DEF Drafts, Writes
<1> QED
  BY <1>7, <1>8, <1>9 DEF Acts

(* setRemoteDescription of an offer. *)
LEMMA AdoptsViews ==
  ASSUME Quiet, NEW p \in Peers, NEW k \in DOMAIN pcs[p], SetRemoteOffer(p, k)
  PROVE  Views /\ OwnStep(p, k)
<1>1. PICK q, o : q = pcs[p][k].peer /\ o = Head(pcs[p][k].chain)
  OBVIOUS
<1>2. pcs[p][k].chain # <<>> /\ o.op = "setRemoteOffer" /\ Given(p, k) = o.desc /\ o.desc \in Description
  BY <1>1, GivenSound DEF SetRemoteOffer, Performs, Given, Quiet, Remote
<1>3. PICK c : c = [pcs[p][k] EXCEPT !.sig = "answering", !.remote = o.desc]
  OBVIOUS
<1>4. /\ q \in Peers \ {p} /\ Link(p, q) = pcs[p][k] /\ pcs[p][k] \in SoundConn /\ pcs[p][k].sig # "closed"
  BY <1>1, <1>2, Busy
<1>5. /\ c \in SoundConn /\ c.chain = pcs[p][k].chain /\ c.peer = q /\ c.told = pcs[p][k].told
      /\ c.offered = pcs[p][k].offered /\ c.tracks = pcs[p][k].tracks
      /\ c.sig = "answering" /\ c.remote = o.desc /\ c.gather = pcs[p][k].gather
  BY <1>1, <1>2, <1>3, <1>4 DEF SoundConn, Connection
<1>6. /\ Performed(p, k, c, Then("createAnswer")) /\ UNCHANGED <<tab, entry, server, inbox, pages, faults>>
      /\ Then("createAnswer") \in Seq(SoundOp)
  BY <1>2, <1>3, ThenSound DEF SetRemoteOffer
<1>7. /\ OwnStep(p, k) /\ (Acts(p, q) => Views)
      /\ SamePage(p) /\ SameMail(p, q) /\ SameNews(q) /\ Kept(q, p)
  BY <1>1, <1>2, <1>5, <1>6, QuietAct
<1>8. Shape(p, q, "answering", o.desc, Link(p, q).gather) /\ o \in SoundOp /\ Follows(p, q, o, "createAnswer")
  BY <1>1, <1>2, <1>4, <1>5, <1>6, ActLink
<1>9. Adopts(p, q, o)
  BY <1>2, <1>8 DEF Adopts
<1> QED
  BY <1>7, <1>8, <1>9 DEF Acts

(* setRemoteDescription of an answer. *)
LEMMA AgreesViews ==
  ASSUME Quiet, NEW p \in Peers, NEW k \in DOMAIN pcs[p], SetRemoteAnswer(p, k)
  PROVE  Views /\ OwnStep(p, k)
<1>1. PICK q, o : q = pcs[p][k].peer /\ o = Head(pcs[p][k].chain)
  OBVIOUS
<1>2. pcs[p][k].chain # <<>> /\ o.op = "setRemoteAnswer" /\ Given(p, k) = o.desc /\ o.desc \in Description
  BY <1>1, GivenSound DEF SetRemoteAnswer, Performs, Given, Quiet, Remote
<1>3. PICK c : c = [pcs[p][k] EXCEPT !.sig = "stable", !.remote = o.desc]
  OBVIOUS
<1>4. /\ q \in Peers \ {p} /\ Link(p, q) = pcs[p][k] /\ pcs[p][k] \in SoundConn /\ pcs[p][k].sig = "offering"
  BY <1>1, <1>2, Busy DEF SetRemoteAnswer
<1>5. /\ c \in SoundConn /\ c.chain = pcs[p][k].chain /\ c.peer = q /\ c.told = pcs[p][k].told
      /\ c.offered = pcs[p][k].offered /\ c.tracks = pcs[p][k].tracks
      /\ c.sig = "stable" /\ c.remote = o.desc /\ c.gather = pcs[p][k].gather
  BY <1>1, <1>2, <1>3, <1>4 DEF SoundConn, Connection
<1>6. /\ Performed(p, k, c, <<>>) /\ UNCHANGED <<tab, entry, server, inbox, pages, faults>>
      /\ <<>> \in Seq(SoundOp)
  BY <1>2, <1>3 DEF SetRemoteAnswer
<1>7. /\ OwnStep(p, k) /\ (Acts(p, q) => Views)
      /\ SamePage(p) /\ SameMail(p, q) /\ SameNews(q) /\ Kept(q, p)
  BY <1>1, <1>2, <1>5, <1>6, QuietAct
<1>8. Shape(p, q, "stable", o.desc, Link(p, q).gather) /\ o \in SoundOp /\ Ends(p, q, o)
  BY <1>1, <1>2, <1>4, <1>5, <1>6, EndLink
<1>9. Agrees(p, q, o)
  BY <1>2, <1>4, <1>8 DEF Agrees
<1> QED
  BY <1>7, <1>8, <1>9 DEF Acts

(* A candidate is added, or an operation refused. *)
LEMMA AddsViews ==
  ASSUME Quiet, NEW p \in Peers, NEW k \in DOMAIN pcs[p], AddCandidate(p, k) \/ WrongState(p, k)
  PROVE  Views /\ OwnStep(p, k)
<1>1. PICK q, o : q = pcs[p][k].peer /\ o = Head(pcs[p][k].chain)
  OBVIOUS
<1>2. /\ pcs[p][k].chain # <<>> /\ Performed(p, k, pcs[p][k], <<>>) /\ <<>> \in Seq(SoundOp)
      /\ UNCHANGED <<entry, server, inbox, pages, faults>>
      /\ tab' = tab \/ tab' = [tab EXCEPT ![p].error = "handler"]
  BY DEF AddCandidate, WrongState, Refused, Performs
<1>3. /\ q \in Peers \ {p} /\ Link(p, q) = pcs[p][k] /\ pcs[p][k] \in SoundConn /\ pcs[p][k].sig # "closed"
  BY <1>1, <1>2, Busy
<1>4. /\ OwnStep(p, k) /\ (Acts(p, q) => Views)
      /\ SamePage(p) /\ SameMail(p, q) /\ SameNews(q) /\ Kept(q, p)
  BY <1>1, <1>2, <1>3, QuietAct
<1>e. entry' = entry /\ Performed(p, k, pcs[p][k], <<>>) /\ <<>> \in Seq(SoundOp)
  BY <1>2
<1>5. /\ Shape(p, q, Link(p, q).sig, Link(p, q).remote, Link(p, q).gather) /\ o \in SoundOp /\ Ends(p, q, o)
  BY ONLY Quiet, p \in Peers, k \in DOMAIN pcs[p], <1>1, <1>2, <1>3, <1>e, EndLink
<1>6. Adds(p, q, o) \/ Fails(p, q, o)
  BY <1>1, <1>3, <1>5 DEF Adds, Fails, AddCandidate, WrongState, Performs, Fits, Given
<1> QED
  BY <1>4, <1>5, <1>6 DEF Acts

(* Operations that send. *)
LEMMA SendingAct ==
  ASSUME Quiet, faults' = 0, NEW p \in Peers, NEW k \in DOMAIN pcs[p],
         pcs[p][k].chain # <<>> \/ pcs[p][k].gather, NEW q, q = pcs[p][k].peer,
         OtherLinks(p, q), Link(p, q)'.sig # "closed",
         \A j \in DOMAIN pcs'[p] : \/ j = k /\ pcs'[p][j] = Link(p, q)'
                                   \/ j # k /\ j \in DOMAIN pcs[p] /\ pcs'[p][j] = pcs[p][j],
         \A r \in Peers \ {p} : pcs'[r] = pcs[r],
         UNCHANGED <<tab, entry, server>>,
         NEW type \in {"offer", "answer", "ice-candidate"}, NEW desc \in Description,
         Send(p, k, type, desc)
  PROVE  /\ OwnStep(p, k) /\ (Sends(p, q) => Views)
         /\ SamePage(p) /\ SameMail(p, q) /\ SameNews(q) /\ Posts(p, q, type, desc)
<1>1. UNCHANGED <<entry, member, gone, queue>>
  BY DEF server
<1>2. q \in Peers \ {p} /\ entry[p][q] = k /\ tab[p].ws
  BY Busy
<1>3. PICK m : m = [type |-> type, from |-> p, desc |-> desc]
  OBVIOUS
<1>4. /\ m \in Signal /\ IF tab[q].ws THEN inbox'[q] = Append(inbox[q], m) ELSE inbox'[q] = inbox[q]
      /\ \A r \in Peers \ {q} : inbox'[r] = inbox[r]
  BY <1>3, SentMail
<1>5. OwnStep(p, k)
  BY <1>1, <1>2, <1>3, <1>4 DEF OwnStep
<1> QED
  BY <1>1, <1>2, <1>5, PostRest

(* setLocalDescription of an offer, and the offer. *)
LEMMA OffersViews ==
  ASSUME Quiet, faults' = 0, NEW p \in Peers, NEW k \in DOMAIN pcs[p], SetOffer(p, k)
  PROVE  Views /\ OwnStep(p, k)
<1>1. PICK q, o : q = pcs[p][k].peer /\ o = Head(pcs[p][k].chain)
  OBVIOUS
<1>2. pcs[p][k].chain # <<>> /\ o.op = "setOffer" /\ pcs[p][k].sig \in {"stable", "offering"}
  BY <1>1 DEF SetOffer, Performs
<1>3. PICK c : c = [pcs[p][k] EXCEPT !.sig = "offering", !.gather = pcs[p][k].tracks]
  OBVIOUS
<1>4. /\ q \in Peers \ {p} /\ Link(p, q) = pcs[p][k] /\ pcs[p][k] \in SoundConn /\ entry[p][q] = k
  BY <1>1, <1>2, Busy
<1>5. /\ c \in SoundConn /\ c.chain = pcs[p][k].chain /\ c.peer = q /\ c.told = pcs[p][k].told
      /\ c.offered = pcs[p][k].offered /\ c.tracks = pcs[p][k].tracks
      /\ c.sig = "offering" /\ c.remote = pcs[p][k].remote /\ c.gather = pcs[p][k].tracks
  BY <1>1, <1>2, <1>3, <1>4 DEF SoundConn, Connection
<1>6. /\ Performed(p, k, c, <<>>) /\ UNCHANGED <<tab, entry, server>> /\ <<>> \in Seq(SoundOp)
      /\ Send(p, k, "offer", Offer(p, k))
  BY <1>2, <1>3 DEF SetOffer
<1>7. Offer(p, k) \in Description /\ Offer(p, k) = OfferOf(p, q)
  BY <1>4, OfferType DEF Quiet, Offer, OfferOf
<1>e. entry' = entry /\ Performed(p, k, c, <<>>) /\ <<>> \in Seq(SoundOp)
  BY <1>6
<1>8. /\ Shape(p, q, c.sig, c.remote, c.gather) /\ o \in SoundOp /\ Ends(p, q, o)
      /\ OtherLinks(p, q)
      /\ \A j \in DOMAIN pcs'[p] : \/ j = k /\ pcs'[p][j] = Link(p, q)'
                                   \/ j # k /\ j \in DOMAIN pcs[p] /\ pcs'[p][j] = pcs[p][j]
      /\ \A r \in Peers \ {p} : pcs'[r] = pcs[r]
  BY ONLY Quiet, p \in Peers, k \in DOMAIN pcs[p], <1>1, <1>2, <1>5, <1>e, EndLink
<1>s. Shape(p, q, "offering", Link(p, q).remote, Link(p, q).tracks) /\ Link(p, q)'.sig # "closed"
  BY <1>4, <1>5, <1>8 DEF Shape
<1>9. /\ OwnStep(p, k) /\ (Sends(p, q) => Views)
      /\ SamePage(p) /\ SameMail(p, q) /\ SameNews(q) /\ Posts(p, q, "offer", OfferOf(p, q))
  BY <1>1, <1>2, <1>6, <1>7, <1>8, <1>s, SendingAct
<1>10. Offers(p, q, o)
  BY <1>2, <1>4, <1>8, <1>s, <1>9 DEF Offers
<1> QED
  BY <1>8, <1>9, <1>10 DEF Sends

(* setLocalDescription of an answer, and the answer. *)
LEMMA AnswersViews ==
  ASSUME Quiet, faults' = 0, NEW p \in Peers, NEW k \in DOMAIN pcs[p], SetAnswer(p, k)
  PROVE  Views /\ OwnStep(p, k)
<1>1. PICK q, o : q = pcs[p][k].peer /\ o = Head(pcs[p][k].chain)
  OBVIOUS
<1>2. pcs[p][k].chain # <<>> /\ o.op = "setAnswer" /\ pcs[p][k].sig = "answering"
  BY <1>1 DEF SetAnswer, Performs
<1>3. PICK c : c = [pcs[p][k] EXCEPT !.sig = "stable", !.gather = pcs[p][k].remote.media]
  OBVIOUS
<1>4. /\ q \in Peers \ {p} /\ Link(p, q) = pcs[p][k] /\ pcs[p][k] \in SoundConn /\ entry[p][q] = k
  BY <1>1, <1>2, Busy
<1>m. pcs[p][k].remote.media \in BOOLEAN
  BY <1>2, <1>4 DEF SoundConn, Description
<1>5. /\ c \in SoundConn /\ c.chain = pcs[p][k].chain /\ c.peer = q /\ c.told = pcs[p][k].told
      /\ c.offered = pcs[p][k].offered /\ c.tracks = pcs[p][k].tracks
      /\ c.sig = "stable" /\ c.remote = pcs[p][k].remote /\ c.gather = pcs[p][k].remote.media
  BY <1>1, <1>2, <1>3, <1>4, <1>m DEF SoundConn, Connection
<1>6. /\ Performed(p, k, c, <<>>) /\ UNCHANGED <<tab, entry, server>> /\ <<>> \in Seq(SoundOp)
      /\ Send(p, k, "answer", Answer(p, k))
  BY <1>2, <1>3 DEF SetAnswer
<1>7. Answer(p, k) \in Description /\ Answer(p, k) = AnswerOf(p, q)
  BY <1>2, <1>4, OfferType DEF Quiet, Answer, AnswerOf
<1>e. entry' = entry /\ Performed(p, k, c, <<>>) /\ <<>> \in Seq(SoundOp)
  BY <1>6
<1>8. /\ Shape(p, q, c.sig, c.remote, c.gather) /\ o \in SoundOp /\ Ends(p, q, o)
      /\ OtherLinks(p, q)
      /\ \A j \in DOMAIN pcs'[p] : \/ j = k /\ pcs'[p][j] = Link(p, q)'
                                   \/ j # k /\ j \in DOMAIN pcs[p] /\ pcs'[p][j] = pcs[p][j]
      /\ \A r \in Peers \ {p} : pcs'[r] = pcs[r]
  BY ONLY Quiet, p \in Peers, k \in DOMAIN pcs[p], <1>1, <1>2, <1>5, <1>e, EndLink
<1>s. Shape(p, q, "stable", Link(p, q).remote, Link(p, q).remote.media) /\ Link(p, q)'.sig # "closed"
  BY <1>4, <1>5, <1>8 DEF Shape
<1>9. /\ OwnStep(p, k) /\ (Sends(p, q) => Views)
      /\ SamePage(p) /\ SameMail(p, q) /\ SameNews(q) /\ Posts(p, q, "answer", AnswerOf(p, q))
  BY <1>1, <1>2, <1>6, <1>7, <1>8, <1>s, SendingAct
<1>10. Answers(p, q, o)
  BY <1>2, <1>4, <1>8, <1>s, <1>9 DEF Answers
<1> QED
  BY <1>8, <1>9, <1>10 DEF Sends

(* A candidate is sent. *)
LEMMA TricklesViews ==
  ASSUME Quiet, faults' = 0, NEW p \in Peers, NEW k \in DOMAIN pcs[p], SendCandidate(p, k)
  PROVE  Views /\ OwnStep(p, k)
<1>1. PICK q : q = pcs[p][k].peer
  OBVIOUS
<1>2. pcs[p][k].gather
  BY DEF SendCandidate
<1>3. PICK c : c = [pcs[p][k] EXCEPT !.gather = FALSE]
  OBVIOUS
<1>4. /\ q \in Peers \ {p} /\ Link(p, q) = pcs[p][k] /\ pcs[p][k] \in SoundConn /\ entry[p][q] = k /\ tab[p].ws
      /\ pcs[p][k].sig # "closed" /\ k # 0
  BY <1>1, <1>2, Busy
<1>5. /\ c \in SoundConn /\ c.chain = pcs[p][k].chain /\ c.told = pcs[p][k].told
      /\ c.offered = pcs[p][k].offered /\ c.tracks = pcs[p][k].tracks
      /\ c.sig = pcs[p][k].sig /\ c.remote = pcs[p][k].remote /\ c.gather = FALSE
  BY <1>1, <1>2, <1>3, <1>4 DEF SoundConn, Connection
<1>6. /\ pcs' = [pcs EXCEPT ![p][k].gather = FALSE] /\ UNCHANGED <<tab, entry, server>>
      /\ Send(p, k, "ice-candidate", Offer(p, k))
  BY DEF SendCandidate
<1>e. pcs' = [pcs EXCEPT ![p][k] = c]
  BY <1>3, <1>6
<1>7. Offer(p, k) \in Description /\ Offer(p, k) = OfferOf(p, q)
  BY <1>4, OfferType DEF Quiet, Offer, OfferOf
<1>t. TypeInv /\ q \in Peers /\ entry' = entry
  BY <1>4, <1>6 DEF Quiet
<1>8. Link(p, q)' = c /\ OtherLinks(p, q)
  BY ONLY <1>t, p \in Peers, k \in DOMAIN pcs[p], <1>4, <1>5, <1>e, ChangedLink
<1>9. /\ \A j \in DOMAIN pcs'[p] : \/ j = k /\ pcs'[p][j] = Link(p, q)'
                                   \/ j # k /\ j \in DOMAIN pcs[p] /\ pcs'[p][j] = pcs[p][j]
      /\ \A r \in Peers \ {p} : pcs'[r] = pcs[r]
  <2>1. /\ DOMAIN pcs'[p] = DOMAIN pcs[p] /\ \A r \in Peers \ {p} : pcs'[r] = pcs[r]
        /\ \A j \in DOMAIN pcs[p] : pcs'[p][j] = IF j = k THEN c ELSE pcs[p][j]
    BY ONLY <1>t, p \in Peers, k \in DOMAIN pcs[p], <1>5, <1>e, OneChanged
  <2> QED
    BY <1>8, <2>1
<1>10. /\ Shape(p, q, Link(p, q).sig, Link(p, q).remote, FALSE) /\ Link(p, q)'.chain = Link(p, q).chain
       /\ Link(p, q)'.sig # "closed"
  BY <1>4, <1>5, <1>6, <1>8 DEF Shape
<1>11. /\ OwnStep(p, k) /\ (Sends(p, q) => Views)
       /\ SamePage(p) /\ SameMail(p, q) /\ SameNews(q) /\ Posts(p, q, "ice-candidate", OfferOf(p, q))
  BY <1>1, <1>2, <1>6, <1>7, <1>8, <1>9, <1>10, SendingAct
<1>12. Trickles(p, q)
  BY <1>2, <1>4, <1>10, <1>11 DEF Trickles
<1> QED
  BY <1>11, <1>12 DEF Sends

(* Any operation of a connection, as the two users see it. *)
LEMMA ActsViews ==
  ASSUME Quiet, faults' = 0, NEW p \in Peers, NEW k \in DOMAIN pcs[p], Perform(p, k) \/ SendCandidate(p, k)
  PROVE  Views /\ OwnStep(p, k)
BY CreatesViews, AdoptsViews, AgreesViews, AddsViews, OffersViews, AnswersViews, TricklesViews DEF Perform

--------------------------------------------------------------------------------
(* The base is kept.                                                        *)

(* The base when a connection does an operation. *)
LEMMA ActsBase ==
  ASSUME Quiet, TypeInv', NEW p \in Peers, NEW k \in DOMAIN pcs[p], OwnStep(p, k)
  PROVE  \A r \in Peers : Base(r)'
<1>1. PICK q \in Peers \ {p} :
    /\ q = pcs[p][k].peer /\ entry[p][q] = k /\ tab[p].ws
    /\ UNCHANGED <<entry, member, gone, queue>> /\ \A r \in Peers : tab'[r].ws = tab[r].ws
    /\ Link(p, q)'.sig # "closed"
    /\ \A j \in DOMAIN pcs'[p] : \/ j = k /\ pcs'[p][j] = Link(p, q)'
                                 \/ j # k /\ j \in DOMAIN pcs[p] /\ pcs'[p][j] = pcs[p][j]
    /\ \A r \in Peers \ {p} : pcs'[r] = pcs[r]
    /\ \A r \in Peers \ {q} : inbox'[r] = inbox[r]
    /\ \/ inbox'[q] = inbox[q]
       \/ tab[q].ws /\ \E m \in Signal : m.from = p /\ inbox'[q] = Append(inbox[q], m)
  BY Zenon DEF OwnStep
<1>2. \A r \in Peers : Base(r)
  BY DEF Quiet
<1>3. \A r \in Peers : inbox[r] \in Seq(Message)
  BY MailSound DEF Quiet
<1>others. \A r \in Peers \ {q} : inbox'[r] = inbox[r]
  BY <1>1, Zenon
<1>same. UNCHANGED <<entry, member, gone, queue>> /\ \A r \in Peers : tab'[r].ws = tab[r].ws
  BY <1>1, Zenon
<1>conns. \A r \in Peers \ {p} : pcs'[r] = pcs[r]
  BY <1>1, Zenon
<1>mail. \/ inbox'[q] = inbox[q]
         \/ tab[q].ws /\ \E m \in Signal : m.from = p /\ inbox'[q] = Append(inbox[q], m)
  BY <1>1, Zenon
<1>4. PICK m : \/ inbox'[q] = inbox[q]
               \/ m \in Signal /\ m.from = p /\ inbox'[q] = Append(inbox[q], m)
  <2>1. CASE inbox'[q] = inbox[q]
    BY <2>1, Zenon
  <2>2. CASE \E m \in Signal : m.from = p /\ inbox'[q] = Append(inbox[q], m)
    BY <2>2, Zenon
  <2> QED
    BY <1>mail, <2>1, <2>2, Zenon
<1>5. inbox'[q] # inbox[q] => /\ \A A : Some(inbox'[q], A) <=> Some(inbox[q], A) \/ m \in A
                              /\ \A A, B : NoneAfter(inbox[q], A, B) /\ (m \in B => ~Some(inbox[q], A))
                                             => NoneAfter(inbox'[q], A, B)
                              /\ \A r \in Peers : m \notin Left(r) /\ (m \in Post(r) <=> r = p)
  <2> SUFFICES ASSUME inbox'[q] # inbox[q]
               PROVE  /\ \A A : Some(inbox'[q], A) <=> Some(inbox[q], A) \/ m \in A
                      /\ \A A, B : NoneAfter(inbox[q], A, B) /\ (m \in B => ~Some(inbox[q], A))
                                     => NoneAfter(inbox'[q], A, B)
                      /\ \A r \in Peers : m \notin Left(r) /\ (m \in Post(r) <=> r = p)
    OBVIOUS
  <2>1. PICK s, t : s = inbox[q] /\ t = inbox'[q]
    OBVIOUS
  <2>2. m \in Signal /\ m \in Message /\ m.from = p /\ m.type \notin {"user-left"}
    BY <1>4, MailSound DEF Quiet
  <2>3. s \in Seq(Message) /\ t = Append(s, m) /\ m \in Message
    BY <1>3, <1>4, <2>1, <2>2
  <2>4. /\ \A A : Some(t, A) <=> Some(s, A) \/ m \in A
        /\ \A A, B : NoneAfter(s, A, B) /\ (m \in B => ~Some(s, A)) => NoneAfter(t, A, B)
    BY ONLY <2>3, AddedTo, Zenon
  <2>5. \A r \in Peers : m \notin Left(r) /\ (m \in Post(r) <=> r = p)
    BY <2>2, InPost
  <2> QED
    BY <2>1, <2>4, <2>5
<1>6. ~Some(inbox[q], Left(p))
  <2>1. tab[p].ws
    BY <1>1, Zenon
  <2> QED
    BY <2>1, OnlineKnown
<1>7. \A r, t \in Peers : Some(inbox'[r], Left(t)) <=> Some(inbox[r], Left(t))
  <2> SUFFICES ASSUME NEW r \in Peers, NEW t \in Peers PROVE Some(inbox'[r], Left(t)) <=> Some(inbox[r], Left(t))
    OBVIOUS
  <2>1. inbox'[r] # inbox[r] => r = q /\ m \notin Left(t)
    BY <1>others, <1>5
  <2> QED
    BY <1>5, <2>1
<1>8. \A r, t \in Peers : NoneAfter(inbox[r], Left(t), Post(t)) => NoneAfter(inbox'[r], Left(t), Post(t))
  <2> SUFFICES ASSUME NEW r \in Peers, NEW t \in Peers, inbox'[r] # inbox[r],
                      NoneAfter(inbox[r], Left(t), Post(t))
               PROVE  NoneAfter(inbox'[r], Left(t), Post(t))
    OBVIOUS
  <2>1. r = q
    BY <1>others
  <2>2. m \in Post(t) => ~Some(inbox[q], Left(t))
    BY <1>5, <1>6, <2>1
  <2> QED
    BY <1>5, <2>1, <2>2
<1>9. ASSUME NEW r \in Peers PROVE Base(r)'
  <2>1. Base(r)
    BY <1>2
  <2>2. Off(r)'
    <3>1. ~tab[r].ws => inbox'[r] = inbox[r] /\ r # p
      BY <1>1, Zenon
    <3> QED
      BY <1>same, <1>conns, <2>1, <3>1 DEF Base, Off
  <2>3. (Out(r) /\ EntryNews(r))'
    BY <1>same, <1>7, <2>1 DEF Base, Out, EntryNews, News
  <2>4. Others(r)'
    <3>1. ~Some(inbox[r], Post(r)) /\ entry'[r][r] = 0
      BY <1>same, <2>1 DEF Base, Others
    <3>2. inbox'[r] # inbox[r] => r = q /\ m \notin Post(r)
      BY <1>others, <1>5
    <3>3. ~Some(inbox'[r], Post(r))
      BY <1>5, <3>1, <3>2
    <3> QED
      BY <3>1, <3>3 DEF Others
  <2>5. Live(r)'
    <3>0. Live(r) /\ entry' = entry
      BY <1>same, <2>1 DEF Base
    <3>own. \A j \in DOMAIN pcs'[p] : \/ j = k /\ pcs'[p][j] = Link(p, q)'
                                      \/ j # k /\ j \in DOMAIN pcs[p] /\ pcs'[p][j] = pcs[p][j]
      BY <1>1, Zenon
    <3>open. Link(p, q)'.sig # "closed" /\ entry[p][q] = k
      BY <1>1, Zenon
    <3>1. CASE r = p
      <4>1. k # 0
        BY EntrySound DEF Quiet
      <4>2. pcs'[p][k].peer = q
        <5>1. EntryInv' /\ entry'[p][q] = k
          BY <3>0, <3>open DEF TypeInv
        <5> QED
          BY <4>1, <5>1 DEF EntryInv
      <4>3. ASSUME NEW j \in DOMAIN pcs'[p]
            PROVE  /\ pcs'[p][j].gather => entry[p][pcs'[p][j].peer] = j
                   /\ entry[p][pcs'[p][j].peer] = j => pcs'[p][j].sig # "closed"
        <5>1. CASE j = k
          <6>1. pcs'[p][k].sig # "closed"
            BY <3>own, <3>open, <4>3, <5>1
          <6> QED
            BY <3>open, <4>2, <5>1, <6>1
        <5>2. CASE j # k
          <6>1. j \in DOMAIN pcs[p] /\ pcs'[p][j] = pcs[p][j]
            BY <3>own, <4>3, <5>2
          <6> QED
            BY <3>0, <3>1, <6>1 DEF Live
        <5> QED
          BY <5>1, <5>2
      <4> QED
        BY <3>0, <3>1, <4>3 DEF Live
    <3>2. CASE r # p
      <4>1. pcs'[r] = pcs[r]
        BY <1>conns, <3>2
      <4> QED
        BY <3>0, <4>1 DEF Live
    <3> QED
      BY <3>1, <3>2
  <2>6. Farewell(r)'
    BY <1>same, <1>7, <1>8, <2>1 DEF Base, Farewell
  <2> QED
    BY <2>2, <2>3, <2>4, <2>5, <2>6 DEF Base
<1> QED
  BY <1>9

(* The base when the server broadcasts a notice. *)
LEMMA BroadcastBase ==
  ASSUME Quiet, faults' = 0, HubBroadcast
  PROVE  \A p \in Peers : Base(p)'
<1>1. PICK n : n = Head(queue)
  OBVIOUS
<1>2. /\ n \in Message /\ n.from \in Peers /\ n.type \in {"user-joined", "user-left"}
      /\ UNCHANGED <<tab, pcs, entry, member, gone>>
      /\ Shrank(queue, queue', n) /\ Some(queue, {n})
      /\ \A A, B : NoneAfter(queue, A, B) => NoneAfter(queue', A, B) /\ (n \in A => ~Some(queue', B))
      /\ \A p \in Peers : IF tab[p].ws /\ p # n.from THEN inbox'[p] = Append(inbox[p], n)
                                                    ELSE inbox'[p] = inbox[p]
  BY <1>1, Broadcasts
<1>3. \A p \in Peers : Base(p)
  BY DEF Quiet
<1>4. \A A : Some(queue, A) <=> Some(queue', A) \/ n \in A
  BY <1>2 DEF Shrank
<1>5. \A q \in Peers : /\ n \in Left(q) <=> n.from = q /\ n.type = "user-left"
                       /\ n \in Post(q) <=> n.from = q
  BY <1>2, InPost
<1>6. ASSUME NEW p \in Peers
      PROVE  /\ \A A : Some(inbox'[p], A) <=> Some(inbox[p], A) \/ (tab[p].ws /\ p # n.from /\ n \in A)
             /\ \A A, B : NoneAfter(inbox[p], A, B) /\ (n \in B => ~Some(inbox[p], A))
                            => NoneAfter(inbox'[p], A, B)
  <2>1. CASE tab[p].ws /\ p # n.from
    <3>1. PICK s, t : s = inbox[p] /\ t = inbox'[p]
      OBVIOUS
    <3>2. s \in Seq(Message) /\ t = Append(s, n) /\ n \in Message
      BY <1>2, <2>1, <3>1, MailSound DEF Quiet
    <3>3. /\ \A A : Some(t, A) <=> Some(s, A) \/ n \in A
          /\ \A A, B : NoneAfter(s, A, B) /\ (n \in B => ~Some(s, A)) => NoneAfter(t, A, B)
      BY ONLY <3>2, AddedTo
    <3> QED
      BY <2>1, <3>1, <3>3
  <2>2. CASE ~(tab[p].ws /\ p # n.from)
    BY <1>2, <2>2
  <2> QED
    BY <2>1, <2>2
<1>7. ASSUME NEW p \in Peers PROVE Base(p)'
  <2>1. Base(p)
    BY <1>3
  <2>2. (Off(p) /\ Out(p) /\ Live(p))'
    BY <1>2, <2>1 DEF Base, Off, Out, Live
  <2>3. Others(p)'
    BY <1>2, <1>5, <1>6, <2>1 DEF Base, Others
  <2>4. EntryNews(p)'
    <3>1. ASSUME NEW q \in Peers, entry[p][q] # 0 PROVE News(p, q)'
      <4>1. tab[p].ws /\ q # p /\ News(p, q)
        BY <2>1, <3>1 DEF Base, Off, Others, EntryNews
      <4>2. CASE Some(queue, Left(q))
        BY <1>4, <1>5, <1>6, <4>1, <4>2 DEF News
      <4>3. CASE ~Some(queue, Left(q))
        BY <1>2, <1>6, <4>1, <4>3 DEF News
      <4> QED
        BY <4>2, <4>3
    <3> QED
      BY <1>2, <3>1 DEF EntryNews
  <2>5. Farewell(p)'
    <3>1. Farewell(p)
      BY <2>1 DEF Base
    <3>2. member'[p] # 0 => ~Some(queue', Left(p)) /\ \A r \in Peers : ~Some(inbox'[r], Left(p))
      BY <1>2, <1>4, <1>6, <3>1 DEF Farewell
    <3>3. NoneAfter(queue', Left(p), Post(p))
      BY <1>2, <3>1 DEF Farewell
    <3>4. ASSUME NEW r \in Peers PROVE NoneAfter(inbox'[r], Left(p), Post(p))
      <4>1. n \in Post(p) => ~Some(inbox[r], Left(p))
        BY <1>4, <3>1 DEF Farewell
      <4> QED
        BY <1>6, <3>1, <4>1 DEF Farewell
    <3>5. ASSUME NEW r \in Peers, Some(inbox'[r], Left(p)) PROVE ~Some(queue', Post(p))
      <4>1. CASE Some(inbox[r], Left(p))
        BY <1>4, <3>1, <4>1 DEF Farewell
      <4>2. CASE n \in Left(p)
        BY <1>2, <3>1, <4>2 DEF Farewell
      <4> QED
        BY <1>6, <3>5, <4>1, <4>2
    <3> QED
      BY <3>2, <3>3, <3>4, <3>5 DEF Farewell
  <2> QED
    BY <2>2, <2>3, <2>4, <2>5 DEF Base
<1> QED
  BY <1>7

(* NewsKnown, after a step. *)
LEMMA NewsNext ==
  ASSUME TypeInv', NEW p \in Peers, NEW q \in Peers, NewsAfter(p, q, 0)'
  PROVE  News(p, q)'
<1>1. inbox'[p] \in Seq(Message) /\ queue' \in Seq(Message)
  BY DEF TypeInv, RestInv, Message
<1>2. /\ \A j \in DOMAIN queue' : queue'[j] \in Message
      /\ \A j \in DOMAIN inbox'[p] : inbox'[p][j] \in Message
  BY <1>1, SeqKeeps, ElementOfSeq
<1>3. LeftQueued(q)' => Some(queue', Left(q))
  BY <1>2, InPost DEF Some, LeftQueued, UserLeft
<1>4. LeftUnderWay(p, q, 0)' => Some(inbox'[p], Left(q))
  BY <1>2, InPost DEF Some, LeftUnderWay, UserLeft
<1> QED
  BY <1>3, <1>4 DEF News, NewsAfter, Known

(* A handler: only what the page has of the sender, and the mail, changes. *)
LEMMA HandlerBase ==
  ASSUME Quiet, NEW p \in Peers, NEW type, Told(p, type), Taken(p), UNCHANGED <<tab, member, gone, queue>>,
         NEW q, q = Head(inbox[p]).from, OtherLinks(p, q), \A r \in Peers \ {p} : pcs'[r] = pcs[r],
         Live(p)', q # p /\ entry'[p][q] # 0 => News(p, q)'
  PROVE  \A r \in Peers : Base(r)'
<1>1. \A r \in Peers : Base(r)
  BY DEF Quiet
<1>2. PICK m : m = Head(inbox[p])
  OBVIOUS
<1>3. /\ m \in Message /\ q \in Peers /\ tab[p].ws
      /\ inbox[p] \in Seq(Message) /\ inbox[p] # <<>> /\ inbox'[p] = Tail(inbox[p])
      /\ \A r \in Peers \ {p} : inbox'[r] = inbox[r]
  BY <1>2, TakenMail DEF Quiet
<1>4. /\ \A A : Some(inbox[p], A) <=> Some(inbox'[p], A) \/ m \in A
      /\ \A A, B : NoneAfter(inbox[p], A, B) => NoneAfter(inbox'[p], A, B)
  <2>1. PICK s, t : s = inbox[p] /\ t = inbox'[p]
    OBVIOUS
  <2>2. s \in Seq(Message) /\ s # <<>> /\ m = Head(s) /\ t = Tail(s)
    BY <1>2, <1>3, <2>1
  <2>3. /\ \A A : Some(s, A) <=> Some(t, A) \/ m \in A
        /\ \A A, B : NoneAfter(s, A, B) => NoneAfter(t, A, B)
    BY ONLY <2>2, TakenFrom
  <2> QED
    BY <2>1, <2>3
<1>5. q # p
  <2>1. m \in Post(p) => Some(inbox[p], Post(p))
    BY <1>4
  <2>2. m \in Post(p) <=> m.from = p
    BY <1>3, InPost
  <2> QED
    BY <1>1, <1>2, <2>1, <2>2 DEF Base, Others
<1>6. \A r, t \in Peers : r # p \/ t # q => entry'[r][t] = entry[r][t]
  BY DEF OtherLinks
<1>7. ASSUME NEW r \in Peers PROVE Base(r)'
  <2>1. Base(r)
    BY <1>1
  <2>2. Off(r)'
    <3>1. CASE r = p
      BY <1>3, <3>1 DEF Off
    <3>2. CASE r # p
      BY <1>3, <1>6, <2>1, <3>2 DEF Base, Off
    <3> QED
      BY <3>1, <3>2
  <2>3. Out(r)'
    BY <2>1 DEF Base, Out
  <2>4. Others(r)'
    <3>1. Some(inbox'[r], Post(r)) => Some(inbox[r], Post(r))
      BY <1>3, <1>4
    <3>2. entry'[r][r] = entry[r][r]
      BY <1>5, <1>6
    <3> QED
      BY <2>1, <3>1, <3>2 DEF Base, Others
  <2>5. Live(r)'
    <3>1. CASE r # p
      <4>1. pcs'[r] = pcs[r] /\ \A t \in Peers : entry'[r][t] = entry[r][t]
        BY <1>6, <3>1
      <4>2. \A k \in DOMAIN pcs[r] : pcs[r][k].peer \in Peers
        BY EntrySound DEF Quiet, SoundConn, Connection
      <4> QED
        BY <2>1, <4>1, <4>2 DEF Base, Live
    <3> QED
      BY <3>1
  <2>6. EntryNews(r)'
    <3>1. ASSUME NEW t \in Peers, entry'[r][t] # 0 PROVE News(r, t)'
      <4>1. CASE r = p /\ t = q
        BY <1>5, <3>1, <4>1
      <4>2. CASE r # p
        <5>1. News(r, t)
          BY <1>6, <2>1, <3>1, <4>2 DEF Base, EntryNews
        <5> QED
          BY <1>3, <4>2, <5>1 DEF News
      <4>3. CASE r = p /\ t # q
        <5>1. News(r, t)
          BY <1>6, <2>1, <3>1, <4>3 DEF Base, EntryNews
        <5>2. m \notin Left(t)
          BY <1>2, <1>3, <4>3, InPost
        <5> QED
          BY <1>4, <4>3, <5>1, <5>2 DEF News
      <4> QED
        BY <4>1, <4>2, <4>3
    <3> QED
      BY <3>1 DEF EntryNews
  <2>7. Farewell(r)'
    <3>1. \A t \in Peers : \A A : Some(inbox'[t], A) => Some(inbox[t], A)
      BY <1>3, <1>4
    <3>2. \A t \in Peers : \A A, B : NoneAfter(inbox[t], A, B) => NoneAfter(inbox'[t], A, B)
      BY <1>3, <1>4
    <3>3. Farewell(r)
      BY <2>1 DEF Base
    <3> QED
      BY <3>1, <3>2, <3>3 DEF Farewell
  <2> QED
    BY <2>2, <2>3, <2>4, <2>5, <2>6, <2>7 DEF Base
<1> QED
  BY <1>7

(* A connection asked for something: there is news of its peer. *)
LEMMA StartBase ==
  ASSUME Quiet, TypeInv', \A q \in Peers : PageInv(q)', NEW p \in Peers, NEW type, Told(p, type), Taken(p),
         UNCHANGED <<tab, member, gone, queue>>,
         NEW q, q = Head(inbox[p]).from, NEW op, NEW desc \in Description \cup {None},
         op \in {"createOffer", "setRemoteOffer"}, op # "createOffer" => desc \in Description,
         Start(p, q, op, desc)
  PROVE  \A r \in Peers : Base(r)'
<1>1. TypeInv /\ Live(p) /\ q \in Peers /\ tab[p].ws
  BY TakenMail DEF Quiet, Base
<1>2. /\ entry'[p][q] # 0 /\ entry[p][q] \in {0, entry'[p][q]} /\ OtherLinks(p, q) /\ LinkAsked(p, q, op, desc)
      /\ \A j \in DOMAIN pcs'[p] : \/ j = entry'[p][q] /\ pcs'[p][j] = Link(p, q)'
                                   \/ j # entry'[p][q] /\ j \in DOMAIN pcs[p] /\ pcs'[p][j] = pcs[p][j]
      /\ \A r \in Peers \ {p} : pcs'[r] = pcs[r]
  BY <1>1, StartLink
<1>3. PICK k : k = entry'[p][q]
  OBVIOUS
<1>4. k \in DOMAIN pcs'[p] /\ pcs'[p][k].peer = q
  BY <1>1, <1>2, <1>3 DEF TypeInv, EntryInv
<1>5. pcs'[p][k] = Link(p, q)'
  BY <1>2, <1>3, <1>4
<1>6. pcs'[p][k].chain # <<>>
  <2>1. Link(p, q).chain \in Seq(SoundOp)
    BY <1>1, LinkSound
  <2>2. \A s \in Seq(SoundOp) : \A e : Append(s, e) # <<>>
    OBVIOUS
  <2> QED
    BY <1>2, <1>5, <2>1, <2>2 DEF LinkAsked
<1>7. News(p, q)'
  <2>1. tab'[p].ws
    BY <1>1
  <2>2. NewsAfter(p, q, 0)'
    BY <1>1, <1>4, <1>6, <2>1 DEF PageInv, PageNews, ChainNews
  <2> QED
    BY <1>1, <2>2, NewsNext
<1>8. Live(p)'
  <2>1. ASSUME NEW j \in DOMAIN pcs'[p]
        PROVE  /\ pcs'[p][j].gather => entry'[p][pcs'[p][j].peer] = j
               /\ entry'[p][pcs'[p][j].peer] = j => pcs'[p][j].sig # "closed"
    <3>1. CASE j = k
      <4>1. Link(p, q).sig # "closed"
        <5>1. CASE entry[p][q] = 0
          BY <5>1 DEF Link, NoLink
        <5>2. CASE entry[p][q] # 0
          BY <1>1, <5>2, LinkSound DEF Live
        <5> QED
          BY <5>1, <5>2
      <4> QED
        BY <1>2, <1>3, <1>4, <1>5, <3>1, <4>1, Zenon DEF LinkAsked
    <3>2. CASE j # k
      <4>1. j \in DOMAIN pcs[p] /\ pcs'[p][j] = pcs[p][j] /\ j # 0 /\ pcs[p][j].peer \in Peers
        BY <1>1, <1>2, <1>3, <2>1, <3>2, EntrySound DEF SoundConn, Connection
      <4>2. pcs[p][j].peer # q => entry'[p][pcs[p][j].peer] = entry[p][pcs[p][j].peer]
        BY <1>2, <4>1 DEF OtherLinks
      <4>3. entry[p][q] # j
        BY <1>2, <1>3, <3>2, <4>1
      <4> QED
        BY <1>1, <1>3, <3>2, <4>1, <4>2, <4>3 DEF Live
    <3> QED
      BY <3>1, <3>2
  <2> QED
    BY <2>1 DEF Live
<1> QED
  BY <1>2, <1>7, <1>8, HandlerBase

(* The base when an answer or a candidate is handled. *)
LEMMA AsksBase ==
  ASSUME Quiet, TypeInv', NEW p \in Peers, NEW type, NEW op,
         \/ type = "answer" /\ op = "setRemoteAnswer"
         \/ type = "ice-candidate" /\ op = "addCandidate",
         Asks(p, type, op)
  PROVE  \A r \in Peers : Base(r)'
<1>1. PICK q : q = Head(inbox[p]).from
  OBVIOUS
<1>2. /\ Told(p, type) /\ Taken(p) /\ UNCHANGED <<tab, member, gone, queue>>
  BY DEF Asks, server
<1>3. TypeInv /\ Live(p) /\ Base(p)
  BY DEF Quiet, Base
<1>4. /\ q \in Peers /\ entry' = entry /\ OtherLinks(p, q)
      /\ IF entry[p][q] = 0 THEN Link(p, q)' = Link(p, q) ELSE LinkAsked(p, q, op, Head(inbox[p]).desc)
      /\ \A j \in DOMAIN pcs'[p] :
           \/ j # 0 /\ j = entry[p][q] /\ pcs'[p][j] = Link(p, q)'
           \/ j # entry[p][q] /\ j \in DOMAIN pcs[p] /\ pcs'[p][j] = pcs[p][j]
      /\ \A r \in Peers \ {p} : pcs'[r] = pcs[r]
  BY <1>1, <1>3, AsksLink
<1>5. Live(p)'
  <2>1. ASSUME NEW j \in DOMAIN pcs'[p]
        PROVE  /\ pcs'[p][j].gather => entry'[p][pcs'[p][j].peer] = j
               /\ entry'[p][pcs'[p][j].peer] = j => pcs'[p][j].sig # "closed"
    <3>1. CASE j = entry[p][q] /\ j # 0
      <4>1. pcs'[p][j].peer = q /\ pcs'[p][j] = Link(p, q)'
        BY <1>4, <2>1, <3>1 DEF TypeInv, EntryInv
      <4>2. Link(p, q).sig # "closed"
        BY <1>3, <1>4, <3>1, LinkSound DEF Live
      <4> QED
        BY <1>4, <3>1, <4>1, <4>2 DEF LinkAsked
    <3>2. CASE j # entry[p][q]
      <4>1. j \in DOMAIN pcs[p] /\ pcs'[p][j] = pcs[p][j]
        BY <1>4, <2>1, <3>2
      <4> QED
        BY <1>3, <1>4, <4>1 DEF Live
    <3> QED
      BY <1>4, <2>1, <3>1, <3>2
  <2> QED
    BY <2>1 DEF Live
<1>6. q # p /\ entry'[p][q] # 0 => News(p, q)'
  <2> SUFFICES ASSUME q # p, entry'[p][q] # 0 PROVE News(p, q)'
    OBVIOUS
  <2>1. News(p, q)
    BY <1>3, <1>4 DEF Base, EntryNews
  <2>2. Shrank(inbox[p], inbox'[p], Head(inbox[p])) /\ Head(inbox[p]).type = type
    BY <1>1, <1>2, <1>4, OtherHalf
  <2>3. Head(inbox[p]) \notin Left(q)
    BY <2>2 DEF Left, From
  <2> QED
    BY <1>2, <2>1, <2>2, <2>3 DEF News, Shrank
<1> QED
  BY <1>1, <1>2, <1>4, <1>5, <1>6, HandlerBase

(* The base when it is handled that a user left. *)
LEMMA LeftBase ==
  ASSUME Quiet, NEW p \in Peers, HandleUserLeft(p)
  PROVE  \A r \in Peers : Base(r)'
<1>1. PICK q : q = Head(inbox[p]).from
  OBVIOUS
<1>2. /\ Told(p, "user-left") /\ Taken(p) /\ UNCHANGED <<tab, member, gone, queue>>
  BY DEF HandleUserLeft, server
<1>3. TypeInv /\ Live(p)
  BY DEF Quiet, Base
<1>4. /\ q \in Peers /\ entry'[p][q] = 0 /\ OtherLinks(p, q)
      /\ DOMAIN pcs'[p] = DOMAIN pcs[p]
      /\ \A j \in DOMAIN pcs[p] : IF j = entry[p][q] THEN pcs'[p][j] = Closed(pcs[p][j])
                                                     ELSE pcs'[p][j] = pcs[p][j]
      /\ \A r \in Peers \ {p} : pcs'[r] = pcs[r]
  BY <1>1, <1>3, LeftLink
<1>5. Live(p)'
  <2>1. ASSUME NEW j \in DOMAIN pcs'[p]
        PROVE  /\ pcs'[p][j].gather => entry'[p][pcs'[p][j].peer] = j
               /\ entry'[p][pcs'[p][j].peer] = j => pcs'[p][j].sig # "closed"
    <3>1. j \in DOMAIN pcs[p] /\ j # 0 /\ pcs[p][j] \in Connection
      BY <1>3, <1>4, <2>1, EntrySound DEF SoundConn
    <3>2. CASE j = entry[p][q]
      <4>1. /\ pcs[p][j].peer = q
        BY <1>3, <1>4, <3>1, <3>2 DEF TypeInv, EntryInv
      <4>2. pcs'[p][j].gather = FALSE /\ pcs'[p][j].peer = q
        BY <1>4, <3>1, <3>2, <4>1, Zenon DEF Closed, Connection
      <4> QED
        BY <1>4, <3>1, <4>2
    <3>3. CASE j # entry[p][q]
      <4>1. pcs'[p][j] = pcs[p][j] /\ pcs[p][j].peer \in Peers
        BY <1>4, <3>1, <3>3 DEF Connection
      <4>2. pcs[p][j].peer # q => entry'[p][pcs[p][j].peer] = entry[p][pcs[p][j].peer]
        BY <1>4, <4>1 DEF OtherLinks
      <4> QED
        BY <1>3, <1>4, <3>1, <3>3, <4>1, <4>2 DEF Live
    <3> QED
      BY <3>2, <3>3
  <2> QED
    BY <2>1 DEF Live
<1> QED
  BY <1>1, <1>2, <1>4, <1>5, HandlerBase

(* The base when a message is handled. *)
LEMMA HandleBase ==
  ASSUME Quiet, TypeInv', \A q \in Peers : PageInv(q)', NEW p \in Peers, Handle(p)
  PROVE  \A r \in Peers : Base(r)'
<1>1. CASE HandleUserJoined(p)
  <2>1. /\ Told(p, "user-joined") /\ Taken(p) /\ UNCHANGED <<tab, member, gone, queue>>
        /\ Start(p, Head(inbox[p]).from, "createOffer", None)
    BY <1>1 DEF HandleUserJoined, server
  <2> QED
    BY <2>1, StartBase
<1>2. CASE HandleOffer(p)
  <2>1. /\ Told(p, "offer") /\ Taken(p) /\ UNCHANGED <<tab, member, gone, queue>>
        /\ Start(p, Head(inbox[p]).from, "setRemoteOffer", Head(inbox[p]).desc)
    BY <1>2 DEF HandleOffer, server
  <2>2. Head(inbox[p]).desc \in Description
    BY <2>1, TakenMail DEF Quiet, Signal
  <2> QED
    BY <2>1, <2>2, StartBase
<1>3. CASE HandleAnswer(p)
  BY <1>3, AsksBase DEF HandleAnswer
<1>4. CASE HandleIceCandidate(p)
  BY <1>4, AsksBase DEF HandleIceCandidate
<1>5. CASE HandleUserLeft(p)
  BY <1>5, LeftBase
<1> QED
  BY <1>1, <1>2, <1>3, <1>4, <1>5 DEF Handle

(* Without a fault, every step keeps all that, and is one of the moves. *)
LEMMA QuietStep ==
  ASSUME Quiet, [Next]_vars, faults' = 0
  PROVE  Quiet' /\ Views
<1>0. faults = 0 /\ Readable /\ TypeInv /\ TilesInv
  BY DEF Quiet, TilesInv
<1>1. TypeInv' /\ QueueNews' /\ \A p \in Peers : PageInv(p)'
  <2>1. TypeInv' /\ TilesInv'
    BY <1>0, TypeStep, TilesStep
  <2> QED
    BY <1>0, <2>1 DEF TilesInv
<1>2. SUFFICES (\A p \in Peers : Base(p)') /\ Views
  BY <1>0, <1>1 DEF Quiet
<1>3. CASE UNCHANGED vars
  <2>1. /\ UNCHANGED <<pcs, entry, inbox, queue, member, gone>>
        /\ \A p \in Peers : tab'[p].ws = tab[p].ws /\ SamePage(p)
    BY <1>3 DEF vars, browser, server, SamePage
  <2> QED
    BY <2>1, SameBase, IdleViews
<1>4. ASSUME NEW p \in Peers, PageStep(p) PROVE (\A q \in Peers : Base(q)') /\ Views
  <2>1. CASE OpenPage(p) \/ SocketFails(p) \/ MediaArrives(p) \/ MediaRefused(p)
    BY <2>1, OpenViews, SameBase
  <2>2. CASE SocketOpens(p)
    BY <2>2, OpensBase, ComesViews
  <2>3. CASE LoseSocket(p)
    <3>1. tab[p].ws => member[p] = tab[p].n
      BY DEF Quiet, PageInv, Registered
    <3> QED
      BY <1>0, <2>3, <3>1 DEF LoseSocket, Fault
  <2>4. CASE ClosePage(p)
    BY <2>4, ClosesBase, GoesViews
  <2> QED
    BY <1>4, <2>1, <2>2, <2>3, <2>4 DEF PageStep
<1>5. ASSUME NEW p \in Peers, Handle(p) PROVE (\A q \in Peers : Base(q)') /\ Views
  BY <1>1, <1>5, HandleBase, TakesViews
<1>6. ASSUME NEW p \in Peers, HubUnregister(p) PROVE (\A q \in Peers : Base(q)') /\ Views
  BY <1>6, UnregisterBase, UnregisterViews
<1>7. ASSUME NEW p \in Peers, NEW k \in DOMAIN pcs[p], Perform(p, k) \/ SendCandidate(p, k)
      PROVE  (\A q \in Peers : Base(q)') /\ Views
  BY <1>1, <1>7, ActsViews, ActsBase
<1>8. ASSUME NEW p \in Peers, NEW k \in DOMAIN pcs[p], ConnectionFails(p, k) PROVE FALSE
  BY <1>0, <1>8 DEF ConnectionFails, Fault
<1>9. CASE HubBroadcast
  BY <1>9, BroadcastBase, HearsViews
<1> QED
  BY <1>3, <1>4, <1>5, <1>6, <1>7, <1>8, <1>9 DEF Next

--------------------------------------------------------------------------------
(* Agreement: all that p has of q is of one connection of q, and answers are*)
(* to the connection of p.                                                  *)

(* What p has of q that is not of the connection x of q; what is no reply to  *)
(* the connection x.                                                        *)
Foreign(q, x) == {m \in Signal : m.from = q /\ m.desc.of # x}
Alien(x)      == {o \in SoundOp : o.op \in Remote /\ o.desc.of # x}
Strays(q, x)  == {m \in Signal : /\ m.from = q
                                 /\ \/ m.type = "answer" /\ m.desc.answers # x
                                    \/ m.type = "offer" /\ m.desc.answers # None}
StrayOps(x)   == {o \in SoundOp : \/ o.op = "setRemoteAnswer" /\ o.desc.answers # x
                                  \/ o.op = "setRemoteOffer" /\ o.desc.answers # None}

(* All that p has of q is of one connection, while q is there of the one that *)
(* q has for p; an answer is for the connection of p, an offer is no answer. *)
Holds(p, q, x) ==
  /\ ~Some(inbox[p], Foreign(q, x)) /\ ~Some(Link(p, q).chain, Alien(x))
  /\ Link(p, q).remote \in Description => Link(p, q).remote.of = x
Fitting(p, q, x) ==
  /\ ~Some(inbox[p], Strays(q, x)) /\ ~Some(Link(p, q).chain, StrayOps(x))
Same(p, q) == IF tab[q].ws THEN Holds(p, q, Me(q, entry[q][p])) ELSE \E x : Holds(p, q, x)
Replies(p, q) ==
  tab[p].ws => /\ Fitting(p, q, Me(p, entry[p][q]))
               /\ entry[p][q] = 0 => ~Gets(p, q, {"answer"})

(* Descriptions are talk. *)
LEMMA AboutTalk == \A q, x : Foreign(q, x) \subseteq Talk(q) /\ Strays(q, x) \subseteq Talk(q)
                             /\ From(q, {"answer"}) \subseteq Talk(q)
BY DEF Foreign, Strays, Talk, From, Signal, Message

(* Which messages are foreign, and which are strays. *)
LEMMA InForeign ==
  ASSUME NEW m \in Message
  PROVE  /\ \A q, x : m \in Foreign(q, x) <=> m \in Signal /\ m.from = q /\ m.desc.of # x
         /\ \A q, x : m \in Strays(q, x) <=> /\ m \in Signal /\ m.from = q
                                             /\ \/ m.type = "answer" /\ m.desc.answers # x
                                                \/ m.type = "offer" /\ m.desc.answers # None
BY DEF Foreign, Strays

(* Which operations are alien, and which are strays. *)
LEMMA InAlien ==
  ASSUME NEW o \in SoundOp
  PROVE  /\ \A x : o \in Alien(x) <=> o.op \in Remote /\ o.desc.of # x
         /\ \A x : o \in StrayOps(x) <=> \/ o.op = "setRemoteAnswer" /\ o.desc.answers # x
                                         \/ o.op = "setRemoteOffer" /\ o.desc.answers # None
BY DEF Alien, StrayOps

(* Who has no connection has sent nothing. *)
LEMMA Nothing ==
  ASSUME TypeInv, NEW p \in Peers, NEW q \in Peers, Holds(p, q, Me(q, 0))
  PROVE  \A x : Holds(p, q, x)
<1>1. \A y \in Party : y # Me(q, 0)
  BY DEF Party, Me
<1>2. \A x : Foreign(q, x) \subseteq Foreign(q, Me(q, 0))
  BY <1>1 DEF Foreign, Signal, Description
<1>3. \A x : Alien(x) \subseteq Alien(Me(q, 0))
  BY <1>1 DEF Alien, SoundOp, Description
<1>4. Link(p, q).remote \notin Description
  BY <1>1 DEF Holds, Description
<1> QED
  BY <1>2, <1>3, <1>4 DEF Holds, Some

(* What p has of q stays the same when nothing happens at p. *)
LEMMA KeptHolds ==
  ASSUME NEW p, NEW q, SameLink(p, q), SameMail(p, q), NEW x
  PROVE  /\ Holds(p, q, x) <=> Holds(p, q, x)'
         /\ Fitting(p, q, x) <=> Fitting(p, q, x)'
         /\ Gets(p, q, {"answer"}) <=> Gets(p, q, {"answer"})'
<1>1. /\ Some(inbox'[p], Foreign(q, x)) <=> Some(inbox[p], Foreign(q, x))
      /\ Some(inbox'[p], Strays(q, x)) <=> Some(inbox[p], Strays(q, x))
      /\ Some(inbox'[p], From(q, {"answer"})) <=> Some(inbox[p], From(q, {"answer"}))
  BY AboutTalk DEF SameMail, Alike
<1> QED
  BY <1>1 DEF Holds, Fitting, Gets, SameLink

(* The connection for q, and what is to do, by itself. *)
LEMMA OwnHolds ==
  ASSUME NEW p, NEW q, SameMail(p, q), NEW o \in SoundOp,
         \/ Drafts(p, q, o) \/ Adopts(p, q, o) \/ Writes(p, q, o) \/ Agrees(p, q, o) \/ Adds(p, q, o)
         \/ Fails(p, q, o) \/ Offers(p, q, o) \/ Answers(p, q, o),
         NEW x
  PROVE  /\ Holds(p, q, x) => Holds(p, q, x)' /\ (o.op \in Remote => o.desc.of = x)
         /\ Fitting(p, q, x) => Fitting(p, q, x)' /\ (o.op = "setRemoteAnswer" => o.desc.answers = x)
                                /\ (o.op = "setRemoteOffer" => o.desc.answers = None)
         /\ Gets(p, q, {"answer"}) <=> Gets(p, q, {"answer"})'
<1>1. /\ Some(inbox'[p], Foreign(q, x)) <=> Some(inbox[p], Foreign(q, x))
      /\ Some(inbox'[p], Strays(q, x)) <=> Some(inbox[p], Strays(q, x))
      /\ Some(inbox'[p], From(q, {"answer"})) <=> Some(inbox[p], From(q, {"answer"}))
  BY AboutTalk DEF SameMail, Alike
<1>2. \A A \in {Alien(x), StrayOps(x)} :
        /\ o \in A => Some(Link(p, q).chain, A)
        /\ Some(Link(p, q)'.chain, A) => Some(Link(p, q).chain, A)
  <2>1. CASE Ends(p, q, o)
    BY <2>1 DEF Ends, Shrank
  <2>2. ASSUME NEW op \in {"setOffer", "createAnswer", "setAnswer"}, Follows(p, q, o, op)
        PROVE  \A A \in {Alien(x), StrayOps(x)} : /\ o \in A => Some(Link(p, q).chain, A)
                                                  /\ Some(Link(p, q)'.chain, A) => Some(Link(p, q).chain, A)
    <3>1. [op |-> op, desc |-> None] \notin Alien(x) /\ [op |-> op, desc |-> None] \notin StrayOps(x)
      BY DEF Alien, StrayOps, Remote
    <3> QED
      BY <2>2, <3>1 DEF Follows, Shrank, Grew
  <2> QED
    BY <2>1, <2>2 DEF Drafts, Adopts, Writes, Agrees, Adds, Fails, Offers, Answers
<1>3. Link(p, q)'.remote = Link(p, q).remote \/ (Link(p, q)'.remote = o.desc /\ o.op \in Remote)
  BY DEF Drafts, Adopts, Writes, Agrees, Adds, Fails, Offers, Answers, Shape, Remote
<1>4. o \in Alien(x) <=> o.op \in Remote /\ o.desc.of # x
  BY InAlien
<1>5. o \in StrayOps(x) <=> \/ o.op = "setRemoteAnswer" /\ o.desc.answers # x
                            \/ o.op = "setRemoteOffer" /\ o.desc.answers # None
  BY InAlien
<1>6. Holds(p, q, x) => Holds(p, q, x)' /\ (o.op \in Remote => o.desc.of = x)
  BY <1>1, <1>2, <1>3, <1>4 DEF Holds
<1>7. Fitting(p, q, x) => Fitting(p, q, x)' /\ (o.op = "setRemoteAnswer" => o.desc.answers = x)
                          /\ (o.op = "setRemoteOffer" => o.desc.answers = None)
  BY <1>1, <1>2, <1>5 DEF Fitting
<1> QED
  BY <1>1, <1>6, <1>7 DEF Gets

(* A candidate of p's is no description of q's. *)
LEMMA TricklesHolds ==
  ASSUME NEW p, NEW q, SameMail(p, q), Trickles(p, q), NEW x
  PROVE  /\ Holds(p, q, x) => Holds(p, q, x)'
         /\ Fitting(p, q, x) => Fitting(p, q, x)'
         /\ Gets(p, q, {"answer"}) <=> Gets(p, q, {"answer"})'
<1>1. /\ Some(inbox'[p], Foreign(q, x)) <=> Some(inbox[p], Foreign(q, x))
      /\ Some(inbox'[p], Strays(q, x)) <=> Some(inbox[p], Strays(q, x))
      /\ Some(inbox'[p], From(q, {"answer"})) <=> Some(inbox[p], From(q, {"answer"}))
  BY AboutTalk DEF SameMail, Alike
<1> QED
  BY <1>1 DEF Holds, Fitting, Gets, Trickles, Shape

(* What p has of q stays of whose it was. *)
HoldsOn(p, q) ==
  /\ \A x : Holds(p, q, x) => Holds(p, q, x)'
  /\ \A x : Fitting(p, q, x) => Fitting(p, q, x)'
  /\ Gets(p, q, {"answer"})' => Gets(p, q, {"answer"})

(* The connections stay the same, and what is added is of them. *)
LEMMA SameOn ==
  ASSUME NEW p \in Peers, NEW q \in Peers, HoldsOn(p, q), SamePage(p), SamePage(q),
         entry'[p][q] = entry[p][q], entry'[q][p] = entry[q][p]
  PROVE  (Same(p, q) => Same(p, q)') /\ (Replies(p, q) => Replies(p, q)')
<1>1. ASSUME Same(p, q) PROVE Same(p, q)'
  <2>1. CASE tab[q].ws
    <3>1. PICK x : x = Me(q, entry[q][p])
      OBVIOUS
    <3>2. x = Me(q, entry[q][p])' /\ tab'[q].ws
      BY <2>1, <3>1 DEF Me, SamePage
    <3> QED
      BY <1>1, <2>1, <3>1, <3>2 DEF Same, HoldsOn
  <2>2. CASE ~tab[q].ws
    BY <1>1, <2>2 DEF Same, HoldsOn, SamePage
  <2> QED
    BY <2>1, <2>2
<1>2. ASSUME Replies(p, q) PROVE Replies(p, q)'
  <2>1. CASE tab[p].ws
    <3>1. PICK x : x = Me(p, entry[p][q])
      OBVIOUS
    <3>2. x = Me(p, entry[p][q])' /\ tab'[p].ws
      BY <2>1, <3>1 DEF Me, SamePage
    <3> QED
      BY <1>2, <2>1, <3>1, <3>2 DEF Replies, HoldsOn
  <2>2. CASE ~tab[p].ws
    BY <2>2 DEF Replies, SamePage
  <2> QED
    BY <2>1, <2>2
<1> QED
  BY <1>1, <1>2

(* Nothing is added when nothing happens at p. *)
LEMMA KeptOn == ASSUME NEW p, NEW q, SameLink(p, q), SameMail(p, q) PROVE HoldsOn(p, q)
BY KeptHolds DEF HoldsOn

(* Nothing at all. *)
Empty(p, q) == entry[p][q] = 0 /\ \A A \in SUBSET Talk(q) : ~Some(inbox[p], A)

(* Whoever has nothing of q has nothing wrong of q. *)
LEMMA EmptyHolds ==
  ASSUME NEW p \in Peers, NEW q \in Peers
  PROVE  /\ Empty(p, q) => Same(p, q) /\ Replies(p, q) /\ \A x : Holds(p, q, x) /\ Fitting(p, q, x)
         /\ Empty(p, q)' => Same(p, q)' /\ Replies(p, q)'
<1>1. \A x : Foreign(q, x) \subseteq Talk(q) /\ Strays(q, x) \subseteq Talk(q) /\ From(q, {"answer"}) \subseteq Talk(q)
  BY AboutTalk
<1>2. \A A : ~Some(<<>>, A)
  BY NothingIn
<1>3. Empty(p, q) => Link(p, q).chain = <<>> /\ Link(p, q).remote = None
  BY DEF Empty, Link, NoLink
<1>4. Empty(p, q)' => Link(p, q)'.chain = <<>> /\ Link(p, q)'.remote = None
  BY DEF Empty, Link, NoLink
<1>5. Empty(p, q) => \A x : Holds(p, q, x) /\ Fitting(p, q, x)
  BY <1>1, <1>2, <1>3, NoneAssumption DEF Empty, Holds, Fitting
<1>6. Empty(p, q)' => \A x : Holds(p, q, x)' /\ Fitting(p, q, x)'
  BY <1>1, <1>2, <1>4, NoneAssumption DEF Empty, Holds, Fitting
<1> QED
  BY <1>1, <1>5, <1>6 DEF Empty, Same, Replies, Gets

(* What p has of q is of one connection, and replies to the one p has.      *)
Agreed(p, q) == Same(p, q) /\ Replies(p, q)

(* A page that comes meets nothing of an earlier one. *)
LEMMA ComesAgreed ==
  ASSUME NEW p \in Peers, NEW q \in Peers \ {p}, Comes(p, q)
  PROVE  Agreed(p, q)' /\ Agreed(q, p)'
<1>1. Empty(p, q)'
  BY DEF Comes, Empty, SameLink
<1>2. Empty(q, p)'
  <2>1. \A A \in SUBSET Talk(p) : Some(inbox[q], A) => Some(inbox[q], Talk(p))
    BY DEF Some
  <2> QED
    BY <2>1 DEF Comes, Empty, SameLink
<1> QED
  BY <1>1, <1>2, EmptyHolds DEF Agreed

(* A page that goes leaves what was its own, and nothing else. *)
LEMMA GoesAgreed ==
  ASSUME NEW p \in Peers, NEW q \in Peers \ {p}, Agreed(q, p), Goes(p, q)
  PROVE  Agreed(p, q)' /\ Agreed(q, p)'
<1>1. Empty(p, q)'
  BY NothingIn DEF Goes, Empty
<1>2. HoldsOn(q, p) /\ SamePage(q) /\ entry'[q][p] = entry[q][p]
  BY KeptOn DEF Goes, Kept, SameLink
<1>3. Same(q, p)'
  <2>1. \E x : Holds(q, p, x)
    BY DEF Agreed, Same
  <2> QED
    BY <1>2, <2>1 DEF Goes, Same, HoldsOn
<1>4. Replies(q, p)'
  <2>1. CASE tab[q].ws
    <3>1. PICK x : x = Me(q, entry[q][p])
      OBVIOUS
    <3>2. x = Me(q, entry[q][p])' /\ tab'[q].ws
      BY <1>2, <2>1, <3>1 DEF Me, SamePage
    <3> QED
      BY <1>2, <2>1, <3>1, <3>2 DEF Agreed, Replies, HoldsOn
  <2>2. CASE ~tab[q].ws
    BY <1>2, <2>2 DEF Replies, SamePage
  <2> QED
    BY <2>1, <2>2
<1> QED
  BY <1>1, <1>3, <1>4, EmptyHolds DEF Agreed

(* Nothing happens. *)
LEMMA KeptAgreed ==
  ASSUME NEW p \in Peers, NEW q \in Peers \ {p}, Agreed(p, q), Kept(p, q), SamePage(q), entry'[q][p] = entry[q][p]
  PROVE  Agreed(p, q)'
BY KeptOn, SameOn DEF Agreed, Kept, SameLink

(* The notice that q joined carries no description. *)
LEMMA HearsAgreed ==
  ASSUME NEW p \in Peers, NEW q \in Peers \ {p}, Agreed(p, q), Agreed(q, p), Hears(p, q)
  PROVE  Agreed(p, q)' /\ Agreed(q, p)'
<1>1. PICK n \in From(q, {"user-joined"}) : IF tab[p].ws THEN Grew(inbox[p], inbox'[p], n) ELSE SameMail(p, q)
  BY DEF Hears
<1>2. /\ SamePage(p) /\ SamePage(q) /\ SameLink(p, q) /\ Kept(q, p)
      /\ entry'[p][q] = entry[p][q] /\ entry'[q][p] = entry[q][p]
  BY DEF Hears, Kept, SameLink
<1>3. HoldsOn(p, q)
  <2>1. CASE ~tab[p].ws
    BY <1>1, <1>2, <2>1, KeptOn
  <2>2. CASE tab[p].ws
    <3>1. n \notin Signal /\ n \notin From(q, {"answer"})
      BY DEF From, Signal
    <3>2. \A x : n \notin Foreign(q, x) /\ n \notin Strays(q, x)
      BY <3>1 DEF Foreign, Strays
    <3> QED
      BY <1>1, <1>2, <2>2, <3>1, <3>2 DEF Grew, HoldsOn, Holds, Fitting, Gets, SameLink
  <2> QED
    BY <2>1, <2>2
<1> QED
  BY <1>2, <1>3, SameOn, KeptAgreed DEF Agreed

(* An operation sets a description that was under way. *)
LEMMA ActsAgreed ==
  ASSUME NEW p \in Peers, NEW q \in Peers \ {p}, Agreed(p, q), Agreed(q, p), Acts(p, q)
  PROVE  Agreed(p, q)' /\ Agreed(q, p)'
<1>1. PICK o \in SoundOp : \/ Drafts(p, q, o) \/ Adopts(p, q, o) \/ Writes(p, q, o)
                           \/ Agrees(p, q, o) \/ Adds(p, q, o) \/ Fails(p, q, o)
  BY DEF Acts
<1>2. SamePage(p) /\ SamePage(q) /\ SameMail(p, q) /\ Kept(q, p) /\ entry'[q][p] = entry[q][p]
  BY DEF Acts, Kept, SameLink
<1>3. entry'[p][q] = entry[p][q]
  BY <1>1 DEF Drafts, Adopts, Writes, Agrees, Adds, Fails, Shape
<1>4. HoldsOn(p, q)
  BY <1>1, <1>2, OwnHolds DEF HoldsOn
<1> QED
  BY <1>2, <1>3, <1>4, SameOn, KeptAgreed DEF Agreed

(* Who drops a connection has nothing of the peer any more. *)
LEMMA DropsAgreed ==
  ASSUME Quiet, NEW p \in Peers, NEW q \in Peers \ {p}, Drops(p, q)
  PROVE  Agreed(p, q)' /\ Agreed(q, p)'
<1>1. Empty(p, q)'
  BY DEF Drops, Empty
<1>2. Empty(q, p)
  <2>1. inbox[q] = <<>> /\ entry[q][p] = 0
    BY DEF Quiet, Base, Off, Drops
  <2> QED
    BY <2>1, NothingIn DEF Empty
<1>3. Empty(q, p)'
  BY <1>2 DEF Drops, Kept, SameLink, SameMail, Alike, Empty
<1> QED
  BY <1>1, <1>3, EmptyHolds DEF Agreed

(* A page sends descriptions of the connection that it has for the peer,    *)
(* and answers the one it heard of.                                         *)
LEMMA SendsAgreed ==
  ASSUME Quiet, NEW p \in Peers, NEW q \in Peers \ {p}, Agreed(p, q), Agreed(q, p), Sends(p, q)
  PROVE  Agreed(p, q)' /\ Agreed(q, p)'
<1>1. PICK type, desc, x :
        /\ x = Me(p, entry[p][q]) /\ Posts(p, q, type, desc) /\ desc.of = x
        /\ \/ type = "offer" /\ desc.answers = None
           \/ type = "answer" /\ Link(p, q).sig = "answering" /\ desc.answers = Link(p, q).remote.of
           \/ type = "ice-candidate"
  <2>1. CASE Trickles(p, q)
    BY <2>1 DEF Trickles, OfferOf
  <2>2. ASSUME NEW o \in SoundOp, Offers(p, q, o)
        PROVE  Posts(p, q, "offer", OfferOf(p, q)) /\ OfferOf(p, q).of = Me(p, entry[p][q]) /\ OfferOf(p, q).answers = None
    BY <2>2 DEF Offers, OfferOf
  <2>3. ASSUME NEW o \in SoundOp, Answers(p, q, o)
        PROVE  /\ Posts(p, q, "answer", AnswerOf(p, q)) /\ AnswerOf(p, q).of = Me(p, entry[p][q])
               /\ Link(p, q).sig = "answering" /\ AnswerOf(p, q).answers = Link(p, q).remote.of
    BY <2>3 DEF Answers, AnswerOf
  <2> QED
    BY <2>1, <2>2, <2>3 DEF Sends
<1>2. /\ SamePage(p) /\ SamePage(q) /\ SameMail(p, q) /\ SameLink(q, p) /\ tab[p].ws
      /\ entry'[p][q] = entry[p][q] /\ entry'[q][p] = entry[q][p]
  BY <1>1 DEF Sends, Posts, SameLink, Offers, Answers, Trickles, Shape
<1>3. HoldsOn(p, q)
  BY <1>2, OwnHolds, TricklesHolds DEF HoldsOn, Sends
<1>4. Agreed(p, q)'
  BY <1>2, <1>3, SameOn DEF Agreed
<1>5. CASE ~tab[q].ws
  <2>1. SameMail(q, p)
    BY <1>1, <1>5 DEF Posts
  <2> QED
    BY <1>2, <1>4, <2>1, KeptOn, SameOn DEF Agreed
<1>6. CASE tab[q].ws
  <2>1. PICK m : m = [type |-> type, from |-> p, desc |-> desc] /\ Grew(inbox[q], inbox'[q], m)
    BY <1>1, <1>6 DEF Posts
  <2>2. m \in Signal /\ m \in Message
    BY <1>1, <2>1 DEF Posts, Signal, Message
  <2>3. PICK y : y = Me(q, entry[q][p])
    OBVIOUS
  <2>4. x = Me(p, entry[p][q])' /\ y = Me(q, entry[q][p])' /\ tab'[p].ws /\ tab'[q].ws
    BY <1>1, <1>2, <1>6, <2>3 DEF Me, SamePage
  <2>5. type = "answer" => desc.answers = y /\ entry[q][p] # 0
    <3> SUFFICES ASSUME type = "answer" PROVE desc.answers = y /\ entry[q][p] # 0
      OBVIOUS
    <3>1. Link(p, q).remote \in Description /\ desc.answers = Link(p, q).remote.of
      BY <1>1, LinkSound DEF Quiet
    <3>2. Holds(p, q, y)
      BY <1>6, <2>3 DEF Agreed, Same
    <3>3. y \in Party
      BY <3>1, <3>2 DEF Holds, Description
    <3> QED
      BY <2>3, <3>1, <3>2, <3>3 DEF Holds, Party, Me
  <2>6. m \notin Foreign(p, x) /\ m \notin Strays(p, y) /\ (m \in From(p, {"answer"}) <=> type = "answer")
    BY <1>1, <2>1, <2>2, <2>5, InForeign, InFrom
  <2>7. Holds(q, p, x)'
    <3>1. Holds(q, p, x)
      BY <1>1, <1>2 DEF Agreed, Same
    <3> QED
      BY <1>2, <2>1, <2>6, <3>1 DEF Holds, Grew, SameLink
  <2>8. Fitting(q, p, y)' /\ (entry'[q][p] = 0 => ~Gets(q, p, {"answer"})')
    <3>1. Fitting(q, p, y) /\ (entry[q][p] = 0 => ~Gets(q, p, {"answer"}))
      BY <1>6, <2>3 DEF Agreed, Replies
    <3> QED
      BY <1>2, <2>1, <2>5, <2>6, <3>1 DEF Fitting, Grew, SameLink, Gets
  <2> QED
    BY <1>4, <2>4, <2>7, <2>8 DEF Agreed, Same, Replies
<1> QED
  BY <1>5, <1>6

(* A handler asks the connection of the map for what the message says. *)
LEMMA TakesAgreed ==
  ASSUME Quiet, NEW p \in Peers, NEW q \in Peers \ {p}, Agreed(p, q), Agreed(q, p), Takes(p, q)
  PROVE  Agreed(p, q)' /\ Agreed(q, p)'
<1>1. PICK m, op, desc :
        /\ m \in Talk(q) /\ Shrank(inbox[p], inbox'[p], m)
        /\ \/ m.type = "user-joined" /\ op = "createOffer" /\ Asked1(p, q, op, desc)
           \/ m.type = "offer" /\ m \in Signal /\ desc = m.desc /\ op = "setRemoteOffer" /\ Asked1(p, q, op, desc)
           \/ m.type \in {"answer", "ice-candidate"} /\ m \in Signal /\ entry[p][q] = 0 /\ SameLink(p, q)
           \/ m.type = "answer" /\ m \in Signal /\ entry[p][q] # 0 /\ desc = m.desc
              /\ op = "setRemoteAnswer" /\ Asked1(p, q, op, desc)
           \/ m.type = "ice-candidate" /\ m \in Signal /\ entry[p][q] # 0 /\ desc = m.desc
              /\ op = "addCandidate" /\ Asked1(p, q, op, desc)
  BY DEF Takes
<1>2. /\ SamePage(p) /\ SamePage(q) /\ Kept(q, p) /\ tab[p].ws /\ tab'[p].ws /\ entry'[q][p] = entry[q][p]
  BY DEF Takes, Kept, SameLink, SamePage
<1>3. /\ \A A : Some(inbox'[p], A) => Some(inbox[p], A)
      /\ \A A : m \in A => Some(inbox[p], A)
      /\ m.from = q /\ m \in Message
  BY <1>1 DEF Shrank, Talk, From
<1>4. ASSUME NEW x, Holds(p, q, x) PROVE Holds(p, q, x)'
  <2>1. m \notin Foreign(q, x) /\ ~Some(inbox'[p], Foreign(q, x))
    BY <1>3, <1>4 DEF Holds
  <2>2. m \in Signal => m.desc.of = x
    BY <1>3, <2>1, InForeign
  <2>3. [op |-> op, desc |-> desc] \in Alien(x) => op \in Remote /\ desc.of # x
    BY DEF Alien
  <2>4. ~Some(Link(p, q)'.chain, Alien(x)) /\ Link(p, q)'.remote = Link(p, q).remote
    BY <1>1, <1>4, <2>2, <2>3 DEF Holds, SameLink, Asked1, LinkAsked, Grew, Remote
  <2> QED
    BY <1>4, <2>1, <2>4 DEF Holds
<1>5. Same(p, q)'
  <2>1. CASE tab[q].ws
    <3>1. PICK x : x = Me(q, entry[q][p])
      OBVIOUS
    <3>2. x = Me(q, entry[q][p])' /\ tab'[q].ws
      BY <1>2, <2>1, <3>1 DEF Me, SamePage
    <3> QED
      BY <1>4, <2>1, <3>1, <3>2 DEF Agreed, Same
  <2>2. CASE ~tab[q].ws
    BY <1>2, <1>4, <2>2 DEF Agreed, Same, SamePage
  <2> QED
    BY <2>1, <2>2
<1>6. PICK x, y : x = Me(p, entry[p][q]) /\ y = Me(p, entry[p][q])'
  OBVIOUS
<1>7. (entry'[p][q] = entry[p][q] => y = x) /\ (entry'[p][q] # entry[p][q] => entry[p][q] = 0 /\ x = Me(p, 0))
  BY <1>1, <1>2, <1>6 DEF Me, SamePage, Asked1, SameLink
<1>8. Fitting(p, q, x) /\ (entry[p][q] = 0 => ~Gets(p, q, {"answer"}))
  BY <1>2, <1>6 DEF Agreed, Replies
<1>9. ~Some(inbox[p], Strays(q, y)) /\ ~Some(Link(p, q).chain, StrayOps(y))
  <2>1. CASE y = x
    BY <1>8, <2>1 DEF Fitting
  <2>2. CASE y # x
    <3>1. entry[p][q] = 0
      BY <1>7, <2>2
    <3>2. Strays(q, y) \subseteq Strays(q, x) \cup From(q, {"answer"})
      BY DEF Strays, From, Signal, Message
    <3>3. ~Some(inbox[p], Strays(q, y))
      BY <1>8, <3>1, <3>2 DEF Fitting, Gets, Some
    <3>4. Link(p, q).chain = <<>>
      BY <3>1 DEF Link, NoLink
    <3> QED
      BY <3>3, <3>4, NothingIn
  <2> QED
    BY <2>1, <2>2
<1>10. Fitting(p, q, y)' /\ (entry'[p][q] = 0 => ~Gets(p, q, {"answer"})')
  <2>1. m \notin Strays(q, y) /\ ~Some(inbox'[p], Strays(q, y))
    BY <1>3, <1>9
  <2>2. m \in Signal => /\ m.type = "answer" => m.desc.answers = y
                        /\ m.type = "offer" => m.desc.answers = None
    BY <1>3, <2>1, InForeign
  <2>3. [op |-> op, desc |-> desc] \in StrayOps(y) => \/ op = "setRemoteAnswer" /\ desc.answers # y
                                                      \/ op = "setRemoteOffer" /\ desc.answers # None
    BY DEF StrayOps
  <2>4. ~Some(Link(p, q)'.chain, StrayOps(y))
    BY <1>1, <1>9, <2>2, <2>3 DEF SameLink, Asked1, Grew
  <2>5. entry'[p][q] = 0 => entry[p][q] = 0
    BY <1>1 DEF SameLink, Asked1
  <2> QED
    BY <1>3, <1>8, <2>1, <2>4, <2>5 DEF Fitting, Gets
<1>11. Agreed(p, q)'
  BY <1>5, <1>6, <1>10 DEF Agreed, Replies
<1>12. HoldsOn(q, p)
  BY KeptOn DEF Takes, Kept
<1>13. Agreed(q, p)'
  <2>1. CASE entry'[p][q] = entry[p][q]
    BY <1>2, <1>12, <2>1, SameOn DEF Agreed
  <2>2. CASE entry'[p][q] # entry[p][q]
    <3>1. Holds(q, p, Me(p, 0))
      BY <1>2, <1>6, <1>7, <2>2 DEF Agreed, Same
    <3>2. Holds(q, p, y)
      BY <3>1, Nothing DEF Quiet
    <3>3. Same(q, p)'
      BY <1>2, <1>6, <1>12, <3>2 DEF Same, HoldsOn
    <3>4. Replies(q, p)'
      <4>1. CASE tab[q].ws
        <5>1. PICK z : z = Me(q, entry[q][p])
          OBVIOUS
        <5>2. z = Me(q, entry[q][p])' /\ tab'[q].ws
          BY <1>2, <4>1, <5>1 DEF Me, SamePage
        <5> QED
          BY <1>2, <1>12, <4>1, <5>1, <5>2 DEF Agreed, Replies, HoldsOn
      <4>2. CASE ~tab[q].ws
        BY <1>2, <4>2 DEF Replies, SamePage
      <4> QED
        BY <4>1, <4>2
    <3> QED
      BY <3>3, <3>4 DEF Agreed
  <2> QED
    BY <2>1, <2>2
<1> QED
  BY <1>11, <1>13

(* Whatever happens between two users, they agree afterwards. *)
LEMMA MovesAgreed ==
  ASSUME Quiet, NEW p \in Peers, NEW q \in Peers \ {p}, Agreed(p, q), Agreed(q, p), Moves(p, q)
  PROVE  Agreed(p, q)' /\ Agreed(q, p)'
BY ComesAgreed, GoesAgreed, HearsAgreed, ActsAgreed, DropsAgreed, SendsAgreed, TakesAgreed DEF Moves

(* Every pair of users agrees after every step without a fault. *)
LEMMA AgreedStep ==
  ASSUME Quiet, Views, \A p, q \in Peers : p # q => Agreed(p, q)
  PROVE  \A p, q \in Peers : p # q => Agreed(p, q)'
<1> SUFFICES ASSUME NEW p \in Peers, NEW q \in Peers, p # q PROVE Agreed(p, q)'
  OBVIOUS
<1>1. View(p, q) /\ Agreed(p, q) /\ Agreed(q, p)
  BY DEF Views
<1>2. CASE Kept(p, q) /\ Kept(q, p)
  BY <1>1, <1>2, KeptAgreed DEF Kept, SameLink
<1> QED
  BY <1>1, <1>2, MovesAgreed DEF View

--------------------------------------------------------------------------------
(* Descriptions are set only by setRemoteDescription.                       *)

(* Only a description of the peer gives a connection a partner. *)
LEMMA RemoteStep ==
  ASSUME Quiet, [Next]_vars, NEW r \in Peers, NEW j \in DOMAIN pcs[r], j \in DOMAIN pcs'[r],
         pcs'[r][j].remote # pcs[r][j].remote
  PROVE  SetRemoteOffer(r, j) \/ SetRemoteAnswer(r, j)
<1>0. TypeInv /\ pcs \in [Peers -> Seq(SoundConn)] /\ j # 0
  BY EntrySound DEF Quiet, TypeInv, PcsInv
<1>1. CASE UNCHANGED vars
  BY <1>1 DEF vars, browser
<1>2. ASSUME NEW p \in Peers, PageStep(p) PROVE FALSE
  <2>1. pcs' = pcs \/ ClosePage(p)
    BY <1>2 DEF PageStep, OpenPage, SocketOpens, SocketFails, MediaArrives, MediaRefused, LoseSocket
  <2>2. ClosePage(p) => pcs' = [pcs EXCEPT ![p] = <<>>]
    BY DEF ClosePage
  <2> QED
    BY <1>0, <2>1, <2>2
<1>3. ASSUME NEW p \in Peers, Handle(p) PROVE FALSE
  <2>1. PICK q : q = Head(inbox[p]).from
    OBVIOUS
  <2>2. ASSUME NEW op, NEW desc \in Description \cup {None}, q \in Peers,
               op \in {"createOffer", "setRemoteOffer"}, op # "createOffer" => desc \in Description,
               Start(p, q, op, desc)
        PROVE  FALSE
    <3>1. /\ entry[p][q] \in {0, entry'[p][q]} /\ (entry[p][q] = 0 => entry'[p][q] \notin DOMAIN pcs[p])
          /\ LinkAsked(p, q, op, desc)
          /\ \A i \in DOMAIN pcs'[p] : \/ i = entry'[p][q] /\ pcs'[p][i] = Link(p, q)'
                                       \/ i # entry'[p][q] /\ i \in DOMAIN pcs[p] /\ pcs'[p][i] = pcs[p][i]
          /\ \A s \in Peers \ {p} : pcs'[s] = pcs[s]
      BY <1>0, <2>2, StartLink
    <3>2. r = p /\ j = entry'[p][q] /\ pcs'[p][j] = Link(p, q)'
      BY <3>1
    <3>3. Link(p, q) = pcs[p][j]
      BY <1>0, <3>1, <3>2 DEF Link
    <3> QED
      BY <3>1, <3>2, <3>3 DEF LinkAsked
  <2>3. CASE HandleUserJoined(p)
    <3>1. q \in Peers /\ Start(p, q, "createOffer", None)
      BY <1>0, <2>1, <2>3, TakenMail DEF HandleUserJoined
    <3> QED
      BY <2>2, <3>1
  <2>4. CASE HandleOffer(p)
    <3>1. q \in Peers /\ Head(inbox[p]).desc \in Description /\ Start(p, q, "setRemoteOffer", Head(inbox[p]).desc)
      BY <1>0, <2>1, <2>4, TakenMail DEF HandleOffer, Signal
    <3> QED
      BY <2>2, <3>1
  <2>5. ASSUME NEW type, NEW op, \/ type = "answer" /\ op = "setRemoteAnswer"
                                 \/ type = "ice-candidate" /\ op = "addCandidate",
               Asks(p, type, op)
        PROVE  FALSE
    <3>1. /\ entry' = entry
          /\ IF entry[p][q] = 0 THEN Link(p, q)' = Link(p, q) ELSE LinkAsked(p, q, op, Head(inbox[p]).desc)
          /\ \A i \in DOMAIN pcs'[p] : \/ i # 0 /\ i = entry[p][q] /\ pcs'[p][i] = Link(p, q)'
                                       \/ i # entry[p][q] /\ i \in DOMAIN pcs[p] /\ pcs'[p][i] = pcs[p][i]
          /\ \A s \in Peers \ {p} : pcs'[s] = pcs[s]
      BY <1>0, <2>1, <2>5, AsksLink
    <3>2. r = p /\ j = entry[p][q] /\ pcs'[p][j] = Link(p, q)'
      BY <3>1
    <3>3. Link(p, q) = pcs[p][j]
      BY <1>0, <3>2 DEF Link
    <3> QED
      BY <1>0, <3>1, <3>2, <3>3 DEF LinkAsked
  <2>6. CASE HandleUserLeft(p)
    <3>1. /\ \A i \in DOMAIN pcs[p] : IF i = entry[p][q] THEN pcs'[p][i] = Closed(pcs[p][i])
                                                         ELSE pcs'[p][i] = pcs[p][i]
          /\ \A s \in Peers \ {p} : pcs'[s] = pcs[s]
      BY <1>0, <2>1, <2>6, LeftLink
    <3>2. \A c \in Connection : Closed(c).remote = c.remote
      BY DEF Closed, Connection
    <3>3. pcs[r][j] \in Connection
      BY <1>0, EntrySound DEF SoundConn
    <3> QED
      BY <3>1, <3>2, <3>3
  <2> QED
    BY <1>3, <2>3, <2>4, <2>5, <2>6 DEF Handle, HandleAnswer, HandleIceCandidate
<1>4. ASSUME NEW p \in Peers, HubUnregister(p) PROVE FALSE
  BY <1>4 DEF HubUnregister, browser
<1>5. CASE HubBroadcast
  BY <1>5 DEF HubBroadcast, browser
<1>6. ASSUME NEW p \in Peers, NEW k \in DOMAIN pcs[p], NEW x \in SoundConn, x.remote = pcs[p][k].remote,
             pcs' = [pcs EXCEPT ![p][k] = x]
      PROVE  FALSE
  <2>1. /\ \A q \in Peers \ {p} : pcs'[q] = pcs[q]
        /\ \A i \in DOMAIN pcs[p] : pcs'[p][i] = IF i = k THEN x ELSE pcs[p][i]
    BY ONLY <1>0, <1>6, OneChanged
  <2> QED
    BY <1>6, <2>1
<1>7. ASSUME NEW p \in Peers, NEW k \in DOMAIN pcs[p], SendCandidate(p, k) \/ ConnectionFails(p, k)
      PROVE  FALSE
  <2>1. pcs[p][k] \in SoundConn /\ pcs[p][k] \in Connection
    BY <1>0, EntrySound DEF SoundConn
  <2>2. PICK x : /\ x = [pcs[p][k] EXCEPT !.gather = FALSE] \/ x = [pcs[p][k] EXCEPT !.failed = TRUE]
                 /\ pcs' = [pcs EXCEPT ![p][k] = x]
    BY <1>7 DEF SendCandidate, ConnectionFails
  <2>3. x \in SoundConn /\ x.remote = pcs[p][k].remote
    BY <2>1, <2>2 DEF SoundConn, Connection
  <2> QED
    BY <1>6, <2>2, <2>3
<1>8. ASSUME NEW p \in Peers, NEW k \in DOMAIN pcs[p], Perform(p, k), ~SetRemoteOffer(p, k), ~SetRemoteAnswer(p, k)
      PROVE  FALSE
  <2>0. pcs[p][k] \in SoundConn /\ pcs[p][k] \in Connection
    BY <1>0, EntrySound DEF SoundConn
  <2>1. PICK c, next :
          /\ Performed(p, k, c, next) /\ next \in Seq(SoundOp) /\ pcs[p][k].chain # <<>> /\ entry' = entry
          /\ \/ c = pcs[p][k]
             \/ c = [pcs[p][k] EXCEPT !.sig = "offering", !.gather = pcs[p][k].tracks]
             \/ /\ c = [pcs[p][k] EXCEPT !.sig = "stable", !.gather = pcs[p][k].remote.media]
                /\ pcs[p][k].remote \in Description
    <3>1. <<>> \in Seq(SoundOp)
      OBVIOUS
    <3>2. CASE CreateOffer(p, k) \/ CreateAnswer(p, k)
      BY <3>2, ThenSound DEF CreateOffer, CreateAnswer, Performs
    <3>3. CASE AddCandidate(p, k) \/ WrongState(p, k)
      BY <3>1, <3>3 DEF AddCandidate, WrongState, Refused, Performs
    <3>4. CASE SetOffer(p, k)
      BY <3>1, <3>4 DEF SetOffer, Performs
    <3>5. CASE SetAnswer(p, k)
      BY <2>0, <3>1, <3>5 DEF SetAnswer, Performs, SoundConn
    <3> QED
      BY <1>8, <3>2, <3>3, <3>4, <3>5 DEF Perform
  <2>2. c \in SoundConn /\ c.chain = pcs[p][k].chain /\ c.peer = pcs[p][k].peer /\ c.remote = pcs[p][k].remote
        /\ c.told = pcs[p][k].told /\ c.offered = pcs[p][k].offered /\ c.tracks = pcs[p][k].tracks
    BY <2>0, <2>1 DEF SoundConn, Connection, Description
  <2>3. PICK q, o : q = pcs[p][k].peer /\ o = Head(pcs[p][k].chain)
    OBVIOUS
  <2>4. /\ Shape(p, q, c.sig, c.remote, c.gather)
        /\ \A i \in DOMAIN pcs'[p] : \/ i = k /\ pcs'[p][i] = Link(p, q)'
                                     \/ i # k /\ i \in DOMAIN pcs[p] /\ pcs'[p][i] = pcs[p][i]
        /\ \A s \in Peers \ {p} : pcs'[s] = pcs[s]
    BY ONLY Quiet, p \in Peers, k \in DOMAIN pcs[p], <2>1, <2>2, <2>3, ActLink
  <2> QED
    BY <2>2, <2>4 DEF Shape
<1>9. ASSUME NEW p \in Peers, NEW k \in DOMAIN pcs[p], SetRemoteOffer(p, k) \/ SetRemoteAnswer(p, k),
             r # p \/ j # k
      PROVE  FALSE
  <2>1. OwnStep(p, k)
    BY <1>9, AdoptsViews, AgreesViews
  <2> QED
    BY <1>9, <2>1, Zenon DEF OwnStep
<1> QED
  BY <1>1, <1>2, <1>3, <1>4, <1>5, <1>7, <1>8, <1>9 DEF Next

(* The connection is given a description of the partner it has. *)
LEMMA RemoteOfPartner ==
  ASSUME Quiet, NEW p \in Peers, NEW k \in DOMAIN pcs[p], \A q \in Peers \ {p} : Agreed(p, q),
         SetRemoteOffer(p, k) \/ SetRemoteAnswer(p, k), NEW r, r = pcs'[p][k].remote
  PROVE  /\ pcs[p][k].remote # None => r.of = pcs[p][k].remote.of
         /\ r.answers \in {None, Me(p, k)}
<1>1. PICK q, o : q = pcs[p][k].peer /\ o = Head(pcs[p][k].chain)
  OBVIOUS
<1>2. pcs[p][k].chain # <<>> /\ pcs[p][k].chain \in Seq(SoundOp)
  BY EntrySound DEF SetRemoteOffer, SetRemoteAnswer, Performs, Quiet, SoundConn
<1>3. o \in SoundOp /\ o.op \in {"setRemoteOffer", "setRemoteAnswer"} /\ Given(p, k) = o.desc
  BY <1>1, <1>2, SeqKeeps DEF SetRemoteOffer, SetRemoteAnswer, Performs, Given
<1>4. /\ q \in Peers \ {p} /\ entry[p][q] = k /\ tab[p].ws /\ Link(p, q) = pcs[p][k]
      /\ pcs[p][k] \in SoundConn
  BY <1>1, <1>2, Busy
<1>5. PICK c, next :
        /\ Performed(p, k, c, next) /\ next \in Seq(SoundOp) /\ entry' = entry
        /\ c = [pcs[p][k] EXCEPT !.sig = "answering", !.remote = o.desc]
           \/ c = [pcs[p][k] EXCEPT !.sig = "stable", !.remote = o.desc]
  <2>1. <<>> \in Seq(SoundOp)
    OBVIOUS
  <2> QED
    BY <1>3, <2>1, ThenSound DEF SetRemoteOffer, SetRemoteAnswer
<1>6. o.desc \in Description
  BY <1>3 DEF SoundOp, Remote
<1>7. c \in SoundConn /\ c.chain = pcs[p][k].chain /\ c.peer = q /\ c.remote = o.desc
      /\ c.told = pcs[p][k].told /\ c.offered = pcs[p][k].offered /\ c.tracks = pcs[p][k].tracks
  BY <1>1, <1>4, <1>5, <1>6 DEF SoundConn, Connection
<1>8. /\ Shape(p, q, c.sig, c.remote, c.gather) /\ k \in DOMAIN pcs'[p]
      /\ \A i \in DOMAIN pcs'[p] : \/ i = k /\ pcs'[p][i] = Link(p, q)'
                                   \/ i # k /\ i \in DOMAIN pcs[p] /\ pcs'[p][i] = pcs[p][i]
  <2>1. /\ Shape(p, q, c.sig, c.remote, c.gather)
        /\ \A i \in DOMAIN pcs'[p] : \/ i = k /\ pcs'[p][i] = Link(p, q)'
                                     \/ i # k /\ i \in DOMAIN pcs[p] /\ pcs'[p][i] = pcs[p][i]
    BY ONLY Quiet, p \in Peers, k \in DOMAIN pcs[p], <1>1, <1>2, <1>5, <1>7, ActLink
  <2>2. k \in DOMAIN pcs'[p]
    <3>1. PICK x \in SoundConn : pcs' = [pcs EXCEPT ![p][k] = x]
      BY <1>1, <1>2, <1>5, <1>7, PerformedConn DEF Quiet
    <3> QED
      BY <3>1, OneChanged DEF Quiet
  <2> QED
    BY <2>1, <2>2
<1>9. r = o.desc
  BY <1>7, <1>8 DEF Shape
<1>10. \A A : o \in A => Some(Link(p, q).chain, A)
  <2>1. Link(p, q).chain[1] = o /\ 1 \in DOMAIN Link(p, q).chain
    BY <1>1, <1>2, <1>4, SeqKeeps
  <2> QED
    BY <2>1 DEF Some
<1>11. Agreed(p, q)
  BY <1>4
<1>12. PICK x : Holds(p, q, x)
  BY <1>11 DEF Agreed, Same
<1>13. o.desc.of = x
  <2>1. o \in Alien(x) <=> o.op \in Remote /\ o.desc.of # x
    BY <1>3, InAlien
  <2> QED
    BY <1>3, <1>10, <1>12, <2>1 DEF Holds, Remote
<1>14. pcs[p][k].remote # None => pcs[p][k].remote.of = x
  <2>1. pcs[p][k].remote \in Description \cup {None}
    BY <1>4, LinkSound DEF Quiet
  <2> QED
    BY <1>4, <1>12, <2>1 DEF Holds
<1>15. r.answers \in {None, Me(p, k)}
  <2>1. Fitting(p, q, Me(p, k))
    BY <1>4, <1>11 DEF Agreed, Replies
  <2>2. o \in StrayOps(Me(p, k)) <=> \/ o.op = "setRemoteAnswer" /\ o.desc.answers # Me(p, k)
                                     \/ o.op = "setRemoteOffer" /\ o.desc.answers # None
    BY <1>3, InAlien
  <2> QED
    BY <1>3, <1>9, <1>10, <2>1, <2>2 DEF Fitting
<1> QED
  BY <1>9, <1>13, <1>14, <1>15

(* Faults are never forgotten. *)
LEMMA NoFaultBefore == TypeInv /\ [Next]_vars /\ faults' = 0 => faults = 0
<1> SUFFICES ASSUME TypeInv, [Next]_vars, faults' = 0 PROVE faults = 0
  OBVIOUS
<1>1. faults' = faults \/ faults' = faults + 1
  BY FaultsGrow, ConnFaultsGrow, HubFaultsGrow DEF Next, vars
<1> QED
  BY <1>1 DEF TypeInv, RestInv

--------------------------------------------------------------------------------
(* The exchange of offer and answer is counted: messages and operations of a*)
(* kind, and how many there are of them.                                    *)

(* The kinds of messages and of operations an exchange consists of. *)
Joining   == {"user-joined"}
Offering  == {"createOffer", "setOffer"}
OfferSent == {"offer"}
Adopting  == {"setRemoteOffer"}
Answering == {"createAnswer", "setAnswer"}
AnswerSent == {"answer"}
Agreeing  == {"setRemoteAnswer"}

(* Whether the server has still to say that q joined; and that there is at  *)
(* most one such notice, one such message, one such operation.              *)
Joins(q)         == Queued(q, Joining)
OneJoins(q)      == Once(queue, From(q, Joining))
OneGets(p, q, T) == Once(inbox[p], From(q, T))
OneDoes(p, q, O) == Once(Link(p, q).chain, Ops(O))

(* The kinds that are counted.                                              *)
Mails == {Joining, OfferSent, AnswerSent}
Works == {Offering, Adopting, Answering, Agreeing}

(* How what p gets from q changes: not at all, by one more, by one less. *)
MailKept(p, q) == \A T \in Mails : /\ Gets(p, q, T)' <=> Gets(p, q, T)
                                   /\ OneGets(p, q, T) => OneGets(p, q, T)'
MailMore(p, q, t) == \A T \in Mails : /\ Gets(p, q, T)' <=> Gets(p, q, T) \/ t \in T
                                      /\ OneGets(p, q, T) /\ (t \in T => ~Gets(p, q, T)) => OneGets(p, q, T)'
MailLess(p, q, t) == \A T \in Mails : /\ Gets(p, q, T) <=> Gets(p, q, T)' \/ t \in T
                                      /\ OneGets(p, q, T) => OneGets(p, q, T)' /\ (t \in T => ~Gets(p, q, T)')

(* What the connection of p for q has to do. *)
WorkKept(p, q) == \A O \in Works : /\ Does(p, q, O)' <=> Does(p, q, O)
                                   /\ OneDoes(p, q, O) => OneDoes(p, q, O)'
WorkMore(p, q, op) == \A O \in Works : /\ Does(p, q, O)' <=> Does(p, q, O) \/ op \in O
                                       /\ OneDoes(p, q, O) /\ (op \in O => ~Does(p, q, O)) => OneDoes(p, q, O)'
WorkLess(p, q, op) == \A O \in Works : /\ Does(p, q, O) <=> Does(p, q, O)' \/ op \in O
                                       /\ OneDoes(p, q, O) => OneDoes(p, q, O)' /\ (op \in O => ~Does(p, q, O)')
WorkTurns(p, q) ==
  /\ \A O \in Works \ {Adopting, Answering} : /\ Does(p, q, O)' <=> Does(p, q, O)
                                              /\ OneDoes(p, q, O) => OneDoes(p, q, O)'
  /\ Does(p, q, Adopting) /\ (OneDoes(p, q, Adopting) => ~Does(p, q, Adopting)' /\ OneDoes(p, q, Adopting)')
  /\ Does(p, q, Answering)' /\ (OneDoes(p, q, Answering) /\ ~Does(p, q, Answering) => OneDoes(p, q, Answering)')

(* What the server has to say of q. *)
JoinsKept(q) == (Joins(q)' <=> Joins(q)) /\ (OneJoins(q) => OneJoins(q)')
JoinsLess(q) == Joins(q) /\ (OneJoins(q) => ~Joins(q)' /\ OneJoins(q)')

(* Counting, when nothing happens. *)
LEMMA KeptFacts ==
  ASSUME NEW p, NEW q
  PROVE  /\ SameMail(p, q) => MailKept(p, q)
         /\ SameLink(p, q) => WorkKept(p, q)
         /\ SameNews(q) => JoinsKept(q)
<1>1. \A T \in Mails : From(q, T) \subseteq Talk(q)
  BY DEF Mails, Joining, OfferSent, AnswerSent, Talk, From
<1>2. From(q, Joining) \subseteq Talk(q)
  BY DEF Joining, Talk, From
<1>3. SameMail(p, q) => MailKept(p, q)
  BY <1>1 DEF SameMail, Alike, MailKept, Gets, OneGets
<1>4. SameLink(p, q) => WorkKept(p, q)
  BY DEF SameLink, WorkKept, Does, OneDoes
<1>5. SameNews(q) => JoinsKept(q)
  BY <1>2 DEF SameNews, Alike, JoinsKept, Joins, Queued, OneJoins
<1> QED
  BY <1>3, <1>4, <1>5

(* Counting messages: one more, one less. *)
LEMMA MailFacts ==
  ASSUME NEW p, NEW q, NEW m \in Message, m.from = q
  PROVE  /\ Grew(inbox[p], inbox'[p], m) => MailMore(p, q, m.type)
         /\ Shrank(inbox[p], inbox'[p], m) => MailLess(p, q, m.type)
<1>1. \A T : m \in From(q, T) <=> m.type \in T
  BY InFrom
<1> QED
  BY <1>1 DEF Grew, Shrank, MailMore, MailLess, Gets, OneGets

(* Counting operations: one more, one less, or one for another. *)
LEMMA WorkFacts ==
  ASSUME NEW p, NEW q, NEW o \in SoundOp
  PROVE  /\ Grew(Link(p, q).chain, Link(p, q)'.chain, o) => WorkMore(p, q, o.op)
         /\ Ends(p, q, o) => WorkLess(p, q, o.op)
         /\ o.op = "createOffer" /\ Follows(p, q, o, "setOffer") => WorkKept(p, q)
         /\ o.op = "createAnswer" /\ Follows(p, q, o, "setAnswer") => WorkKept(p, q)
         /\ o.op = "setRemoteOffer" /\ Follows(p, q, o, "createAnswer") => WorkTurns(p, q)
<1>1. \A O : o \in Ops(O) <=> o.op \in O
  BY InOps
<1>2. Grew(Link(p, q).chain, Link(p, q)'.chain, o) => WorkMore(p, q, o.op)
  BY <1>1 DEF Grew, WorkMore, Does, OneDoes
<1>3. Ends(p, q, o) => WorkLess(p, q, o.op)
  BY <1>1 DEF Ends, Shrank, WorkLess, Does, OneDoes
<1>4. ASSUME NEW op \in {"setOffer", "createAnswer", "setAnswer"}, Follows(p, q, o, op)
      PROVE  \A O : /\ Does(p, q, O)' => Does(p, q, O) \/ op \in O
                    /\ op \in O => Does(p, q, O)'
                    /\ Does(p, q, O) => Does(p, q, O)' \/ o.op \in O
                    /\ o.op \in O => Does(p, q, O)
                    /\ OneDoes(p, q, O) /\ o.op \in O /\ op \notin O => OneDoes(p, q, O)' /\ ~Does(p, q, O)'
                    /\ OneDoes(p, q, O) /\ (op \in O => o.op \in O \/ ~Does(p, q, O)) => OneDoes(p, q, O)'
  <2>1. PICK e : e = [op |-> op, desc |-> None]
    OBVIOUS
  <2>2. e \in SoundOp
    BY <2>1 DEF SoundOp, Operation, Remote
  <2>3. \A O : e \in Ops(O) <=> op \in O
    BY <2>1, <2>2, InOps
  <2>4. PICK mid : Shrank(Link(p, q).chain, mid, o) /\ Grew(mid, Link(p, q)'.chain, e)
    BY <1>4, <2>1 DEF Follows
  <2>5. ASSUME NEW O
        PROVE  /\ Does(p, q, O) <=> Some(mid, Ops(O)) \/ o.op \in O
               /\ OneDoes(p, q, O) => Once(mid, Ops(O)) /\ (o.op \in O => ~Some(mid, Ops(O)))
               /\ Does(p, q, O)' <=> Some(mid, Ops(O)) \/ op \in O
               /\ OneDoes(p, q, O)' <=> Once(mid, Ops(O)) /\ (op \in O => ~Some(mid, Ops(O)))
    BY <1>1, <2>3, <2>4 DEF Shrank, Grew, Does, OneDoes
  <2> QED
    BY <2>5
<1>5. o.op = "createOffer" /\ Follows(p, q, o, "setOffer") => WorkKept(p, q)
  BY <1>4 DEF WorkKept, Works, Offering, Adopting, Answering, Agreeing
<1>6. o.op = "createAnswer" /\ Follows(p, q, o, "setAnswer") => WorkKept(p, q)
  BY <1>4 DEF WorkKept, Works, Offering, Adopting, Answering, Agreeing
<1>7. o.op = "setRemoteOffer" /\ Follows(p, q, o, "createAnswer") => WorkTurns(p, q)
  <2> SUFFICES ASSUME o.op = "setRemoteOffer", Follows(p, q, o, "createAnswer") PROVE WorkTurns(p, q)
    OBVIOUS
  <2>1. "createAnswer" \in Answering /\ "createAnswer" \notin Adopting /\ o.op \in Adopting /\ o.op \notin Answering
    BY DEF Answering, Adopting
  <2>2. \A O \in Works \ {Adopting, Answering} : o.op \notin O /\ "createAnswer" \notin O
    BY DEF Works, Offering, Agreeing
  <2> QED
    BY <1>4, <2>1, <2>2 DEF WorkTurns
<1> QED
  BY <1>2, <1>3, <1>5, <1>6, <1>7

(* Nothing to do, and nothing from q. *)
LEMMA EmptyFacts ==
  ASSUME NEW p, NEW q
  PROVE  /\ entry[p][q] = 0 => \A O : ~Does(p, q, O) /\ OneDoes(p, q, O)
         /\ (entry[p][q] = 0)' => \A O : ~Does(p, q, O)' /\ OneDoes(p, q, O)'
<1>1. \A A : ~Some(<<>>, A) /\ Once(<<>>, A)
  BY NothingIn
<1> QED
  BY <1>1 DEF Does, OneDoes, Link, NoLink

(* Who has nothing of q has no message of q. *)
LEMMA SilentFacts ==
  ASSUME NEW p, NEW q
  PROVE  /\ (\A A \in SUBSET Talk(q) : ~Some(inbox[p], A)) => \A T \in Mails : ~Gets(p, q, T) /\ OneGets(p, q, T)
         /\ (\A A \in SUBSET Talk(q) : ~Some(inbox'[p], A)) => \A T \in Mails : ~Gets(p, q, T)' /\ OneGets(p, q, T)'
<1>1. \A T \in Mails : From(q, T) \subseteq Talk(q)
  BY DEF Mails, Joining, OfferSent, AnswerSent, Talk, From
<1>2. \A s, A : ~Some(s, A) => Once(s, A)
  BY DEF Some, Once
<1> QED
  BY <1>1, <1>2 DEF Gets, OneGets

--------------------------------------------------------------------------------
(* The pact: where an exchange is, and what state the connections are in.   *)

(* The exchange that p starts with q when it is told that q joined is at one *)
(* place at a time: the notice, the offer, the answer, or an operation.      *)
Exchange(p, q) ==
  /\ OneJoins(q) /\ OneGets(p, q, Joining) /\ OneDoes(p, q, Offering) /\ OneGets(q, p, OfferSent)
  /\ OneDoes(q, p, Adopting) /\ OneDoes(q, p, Answering) /\ OneGets(p, q, AnswerSent) /\ OneDoes(p, q, Agreeing)
  /\ Joins(q) => ~Gets(p, q, Joining)
  /\ Joins(q) \/ Gets(p, q, Joining) => ~Does(p, q, Offering)
  /\ Joins(q) \/ Gets(p, q, Joining) \/ Does(p, q, Offering) => ~Gets(q, p, OfferSent)
  /\ Joins(q) \/ Gets(p, q, Joining) \/ Does(p, q, Offering) \/ Gets(q, p, OfferSent) => ~Does(q, p, Adopting)
  /\ Joins(q) \/ Gets(p, q, Joining) \/ Does(p, q, Offering) \/ Gets(q, p, OfferSent) \/ Does(q, p, Adopting)
       => ~Does(q, p, Answering)
  /\ Joins(q) \/ Gets(p, q, Joining) \/ Does(p, q, Offering) \/ Gets(q, p, OfferSent) \/ Does(q, p, Adopting)
       \/ Does(q, p, Answering) => ~Gets(p, q, AnswerSent)
  /\ Joins(q) \/ Gets(p, q, Joining) \/ Does(p, q, Offering) \/ Gets(q, p, OfferSent) \/ Does(q, p, Adopting)
       \/ Does(q, p, Answering) \/ Gets(p, q, AnswerSent) => ~Does(p, q, Agreeing)

(* The state of the connection of p for q fits what it has to do. *)
Local(p, q) ==
  /\ Does(p, q, Answering) <=> Link(p, q).sig = "answering"
  /\ Does(p, q, Adopting) \/ Does(p, q, Answering) => Link(p, q).offered
  /\ Does(p, q, Offering) => Link(p, q).told
  /\ entry[p][q] # 0 => Link(p, q).told \/ Link(p, q).offered

(* Who has an offer or an answer for p was told of, and unless he was offered *)
(* to meanwhile, p is still waiting for the answer.                         *)
HadOffer(p, q) == Link(q, p).offered \/ Gets(q, p, OfferSent) \/ Gets(p, q, AnswerSent) \/ Does(p, q, Agreeing)
Underway(p, q) == \/ Gets(q, p, OfferSent) \/ Does(q, p, Adopting) \/ Does(q, p, Answering)
                  \/ Gets(p, q, AnswerSent) \/ Does(p, q, Agreeing)
Asking(p, q) ==
  /\ tab[p].ws /\ HadOffer(p, q) => Link(p, q).told
  /\ entry[p][q] # 0 /\ ~Link(p, q).offered /\ Underway(p, q) => Link(p, q).sig = "offering"

(* Of two pages in the room, one tells of the other, and an exchange that     *)
(* was started is under way or has been agreed on.                          *)
Tidings(p, q) == Joins(q) \/ Gets(p, q, Joining) \/ Link(p, q).told
Settles(p, q) == Link(p, q).sig = "stable" /\ Link(p, q).remote # None
Going(p, q) ==
  tab[p].ws /\ tab[q].ws =>
    /\ Tidings(p, q) \/ Tidings(q, p)
    /\ Link(p, q).told => \/ Does(p, q, Offering) \/ Gets(q, p, OfferSent)
                          \/ Link(q, p).offered \/ Link(p, q).offered
    /\ Link(p, q).told /\ ~Link(p, q).offered => Does(p, q, Offering) \/ Underway(p, q) \/ Settles(p, q)
    /\ Link(p, q).offered /\ ~Link(p, q).told =>
         Does(p, q, Adopting) \/ Does(p, q, Answering) \/ Settles(p, q)

(* The exchange that p starts with q, and where it is.                      *)
Pact(p, q) == Exchange(p, q) /\ Local(p, q) /\ Asking(p, q) /\ Going(p, q)

(* Nothing happens between p and q. *)
LEMMA KeptExchange ==
  ASSUME NEW p, NEW q, Exchange(p, q), JoinsKept(q), MailKept(p, q), MailKept(q, p), WorkKept(p, q), WorkKept(q, p)
  PROVE  Exchange(p, q)'
<1>1. Joining \in Mails /\ OfferSent \in Mails /\ AnswerSent \in Mails
  BY DEF Mails
<1> QED
  BY <1>1 DEF Exchange, JoinsKept, MailKept, WorkKept, Works

(* Nothing happens, and the pact stands. *)
LEMMA KeptPact ==
  ASSUME NEW p \in Peers, NEW q \in Peers, Pact(p, q), Kept(p, q), Kept(q, p)
  PROVE  Pact(p, q)'
<1>1. Joining \in Mails /\ OfferSent \in Mails /\ AnswerSent \in Mails
  BY DEF Mails
<1>2. /\ JoinsKept(q) /\ JoinsKept(p) /\ MailKept(p, q) /\ MailKept(q, p) /\ WorkKept(p, q) /\ WorkKept(q, p)
      /\ SameLink(p, q) /\ SameLink(q, p) /\ SamePage(p) /\ SamePage(q)
  BY KeptFacts DEF Kept
<1>3. Exchange(p, q)'
  BY <1>2, KeptExchange DEF Pact
<1>4. Local(p, q)'
  BY <1>2 DEF Pact, Local, WorkKept, Works, SameLink
<1>5. Asking(p, q)'
  BY <1>1, <1>2 DEF Pact, Asking, HadOffer, Underway, WorkKept, Works, MailKept, SameLink, SamePage
<1>6. Going(p, q)'
  BY <1>1, <1>2 DEF Pact, Going, Tidings, Settles, Underway, WorkKept, Works, MailKept, JoinsKept, SameLink, SamePage
<1> QED
  BY <1>3, <1>4, <1>5, <1>6 DEF Pact

(* The kinds are different, and which one each operation and message is of. *)
LEMMA Kinds ==
  /\ Joining \in Mails /\ OfferSent \in Mails /\ AnswerSent \in Mails
  /\ Offering \in Works /\ Adopting \in Works /\ Answering \in Works /\ Agreeing \in Works
  /\ Offering \notin {Adopting, Answering, Agreeing} /\ Agreeing \notin {Adopting, Answering}
  /\ Adopting # Answering /\ Joining # OfferSent /\ Joining # AnswerSent /\ OfferSent # AnswerSent
  /\ "createOffer" \in Offering /\ "setRemoteOffer" \in Adopting /\ "setRemoteAnswer" \in Agreeing
  /\ \A O \in Works : /\ "createOffer" \in O <=> O = Offering
                      /\ "setOffer" \in O <=> O = Offering
                      /\ "setRemoteOffer" \in O <=> O = Adopting
                      /\ "createAnswer" \in O <=> O = Answering
                      /\ "setAnswer" \in O <=> O = Answering
                      /\ "setRemoteAnswer" \in O <=> O = Agreeing
                      /\ "addCandidate" \notin O
  /\ \A T \in Mails : /\ "user-joined" \in T <=> T = Joining
                      /\ "offer" \in T <=> T = OfferSent
                      /\ "answer" \in T <=> T = AnswerSent
                      /\ "ice-candidate" \notin T
<1>1. /\ Offering \notin {Adopting, Answering, Agreeing} /\ Agreeing \notin {Adopting, Answering}
      /\ Adopting # Answering /\ Joining # OfferSent /\ Joining # AnswerSent /\ OfferSent # AnswerSent
  <2>1. "setOffer" \in Offering /\ "setOffer" \notin Adopting /\ "setOffer" \notin Answering /\ "setOffer" \notin Agreeing
        /\ "setAnswer" \in Answering /\ "setAnswer" \notin Adopting
        /\ "setRemoteAnswer" \in Agreeing /\ "setRemoteAnswer" \notin Adopting /\ "setRemoteAnswer" \notin Answering
    BY DEF Offering, Adopting, Answering, Agreeing
  <2>2. "offer" \in OfferSent /\ "offer" \notin Joining /\ "offer" \notin AnswerSent
        /\ "answer" \in AnswerSent /\ "answer" \notin Joining
    BY DEF Joining, OfferSent, AnswerSent
  <2> QED
    BY <2>1, <2>2
<1> QED
  BY <1>1 DEF Mails, Works, Joining, OfferSent, AnswerSent, Offering, Adopting, Answering, Agreeing

(* What p does by itself. *)
ByItself(p, q) ==
  /\ SamePage(p) /\ SamePage(q) /\ MailKept(p, q) /\ MailKept(q, p) /\ JoinsKept(p) /\ JoinsKept(q)
  /\ WorkKept(q, p) /\ SameLink(q, p)

(* The offer is set: the exchange goes on with the answer. *)
LEMMA AdoptsPact ==
  ASSUME NEW p \in Peers, NEW q \in Peers, Pact(p, q), Pact(q, p), ByItself(p, q), NEW o \in SoundOp,
         Adopts(p, q, o)
  PROVE  Pact(p, q)' /\ Pact(q, p)'
<1>1. WorkTurns(p, q) /\ Shape(p, q, "answering", o.desc, Link(p, q).gather) /\ entry'[q][p] = entry[q][p]
  BY WorkFacts DEF Adopts, ByItself, SameLink
<1>2. Exchange(p, q)'
  BY <1>1, Kinds DEF Exchange, Pact, WorkTurns, WorkKept, MailKept, JoinsKept, ByItself
<1>3. Exchange(q, p)'
  BY <1>1, Kinds DEF Exchange, Pact, WorkTurns, WorkKept, MailKept, JoinsKept, ByItself
<1>4. Local(p, q)' /\ Local(q, p)'
  BY <1>1, Kinds DEF Pact, Local, WorkTurns, WorkKept, Shape, ByItself, SameLink
<1>5. Asking(p, q)' /\ Asking(q, p)'
  BY <1>1, Kinds DEF Pact, Asking, Local, HadOffer, Underway, WorkTurns, WorkKept, MailKept, Shape, ByItself,
     SameLink, SamePage
<1>6. Going(p, q)' /\ Going(q, p)'
  BY <1>1, Kinds DEF Pact, Local, Going, Tidings, Settles, Underway, WorkTurns, WorkKept, MailKept, JoinsKept,
     Shape, ByItself, SameLink, SamePage
<1> QED
  BY <1>2, <1>3, <1>4, <1>5, <1>6 DEF Pact

(* Operations that change neither the state nor what there is to do. *)
SameState(p, q) ==
  /\ Link(p, q)'.told = Link(p, q).told /\ Link(p, q)'.offered = Link(p, q).offered
  /\ Link(p, q)'.sig = Link(p, q).sig /\ Link(p, q)'.remote = Link(p, q).remote
  /\ entry'[p][q] = entry[p][q]

(* An operation without consequences for the exchange. *)
LEMMA StaysPact ==
  ASSUME NEW p \in Peers, NEW q \in Peers, Pact(p, q), Pact(q, p), ByItself(p, q), WorkKept(p, q),
         SameState(p, q)
  PROVE  Pact(p, q)' /\ Pact(q, p)'
<1>1. SameState(p, q) /\ entry'[q][p] = entry[q][p]
  BY DEF ByItself, SameLink
<1>2. Exchange(p, q)'
  BY <1>1, Kinds DEF Exchange, Pact, WorkKept, MailKept, JoinsKept, ByItself
<1>3. Exchange(q, p)'
  BY <1>1, Kinds DEF Exchange, Pact, WorkKept, MailKept, JoinsKept, ByItself
<1>4. Local(p, q)' /\ Local(q, p)'
  BY <1>1, Kinds DEF Pact, Local, WorkKept, SameState, ByItself, SameLink
<1>5. Asking(p, q)' /\ Asking(q, p)'
  BY <1>1, Kinds DEF Pact, Asking, Local, HadOffer, Underway, WorkKept, MailKept, SameState, ByItself, SameLink,
     SamePage
<1>6. Going(p, q)' /\ Going(q, p)'
  BY <1>1, Kinds DEF Pact, Local, Going, Tidings, Settles, Underway, WorkKept, MailKept, JoinsKept, SameState,
     ByItself, SameLink, SamePage
<1> QED
  BY <1>2, <1>3, <1>4, <1>5, <1>6 DEF Pact

(* The answer is set: the exchange is over. *)
LEMMA AgreesPact ==
  ASSUME NEW p \in Peers, NEW q \in Peers, Pact(p, q), Pact(q, p), ByItself(p, q), NEW o \in SoundOp,
         Agrees(p, q, o)
  PROVE  Pact(p, q)' /\ Pact(q, p)'
<1>1. /\ WorkLess(p, q, "setRemoteAnswer") /\ Shape(p, q, "stable", o.desc, Link(p, q).gather)
      /\ Link(p, q).sig = "offering" /\ entry'[q][p] = entry[q][p] /\ o.desc # None
  BY WorkFacts, NoneAssumption DEF Agrees, ByItself, SameLink, SoundOp, Remote
<1>2. Exchange(p, q)'
  BY <1>1, Kinds DEF Exchange, Pact, WorkLess, WorkKept, MailKept, JoinsKept, ByItself
<1>3. Exchange(q, p)'
  BY <1>1, Kinds DEF Exchange, Pact, WorkLess, WorkKept, MailKept, JoinsKept, ByItself
<1>4. Local(p, q)' /\ Local(q, p)'
  BY <1>1, Kinds DEF Pact, Local, WorkLess, WorkKept, Shape, ByItself, SameLink
<1>5. Asking(p, q)' /\ Asking(q, p)'
  BY <1>1, Kinds DEF Pact, Exchange, Asking, Local, HadOffer, Underway, WorkLess, WorkKept, MailKept, Shape,
     ByItself, SameLink, SamePage
<1>6. Going(p, q)' /\ Going(q, p)'
  <2>1. Settles(p, q)' /\ (Settles(q, p) <=> Settles(q, p)')
    BY <1>1 DEF Settles, Shape, ByItself, SameLink
  <2> QED
    BY <1>1, <2>1, Kinds DEF Pact, Going, Tidings, Underway, WorkLess, WorkKept, MailKept, JoinsKept, Shape,
       ByItself, SameLink, SamePage
<1> QED
  BY <1>2, <1>3, <1>4, <1>5, <1>6 DEF Pact

(* An operation is refused: only in a glare, and the exchange is given up. *)
LEMMA FailsPact ==
  ASSUME NEW p \in Peers, NEW q \in Peers, Pact(p, q), Pact(q, p), ByItself(p, q), NEW o \in SoundOp,
         Fails(p, q, o)
  PROVE  Pact(p, q)' /\ Pact(q, p)'
<1>0. WorkLess(p, q, o.op) /\ Shape(p, q, Link(p, q).sig, Link(p, q).remote, Link(p, q).gather)
  BY WorkFacts DEF Fails
<1>1. CASE o.op = "addCandidate"
  <2>1. WorkKept(p, q)
    BY <1>0, <1>1, Kinds DEF WorkLess, WorkKept
  <2> QED
    BY <1>0, <2>1, StaysPact DEF Shape, SameState
<1>2. CASE o.op \in {"createAnswer", "setAnswer"}
  BY <1>0, <1>2, Kinds DEF Fails, Pact, Local, WorkLess
<1>3. CASE o.op \in {"createOffer", "setOffer"}
  <2>1. /\ WorkLess(p, q, o.op) /\ Shape(p, q, Link(p, q).sig, Link(p, q).remote, Link(p, q).gather)
        /\ Link(p, q).sig = "answering" /\ entry'[q][p] = entry[q][p] /\ o.op \in {"createOffer", "setOffer"}
    BY <1>0, <1>3 DEF ByItself, SameLink, Fails
<2>2. Exchange(p, q)'
  BY <2>1, Kinds DEF Exchange, Pact, WorkLess, WorkKept, MailKept, JoinsKept, ByItself
<2>3. Exchange(q, p)'
  BY <2>1, Kinds DEF Exchange, Pact, WorkLess, WorkKept, MailKept, JoinsKept, ByItself
<2>4. Local(p, q)' /\ Local(q, p)'
  BY <2>1, Kinds DEF Pact, Local, WorkLess, WorkKept, Shape, ByItself, SameLink
<2>5. Asking(p, q)' /\ Asking(q, p)'
  BY <2>1, Kinds DEF Pact, Exchange, Asking, Local, HadOffer, Underway, WorkLess, WorkKept, MailKept, Shape,
     ByItself, SameLink, SamePage
<2>6. Going(p, q)' /\ Going(q, p)'
  BY <2>1, Kinds DEF Pact, Local, Asking, HadOffer, Going, Tidings, Settles, Underway, WorkLess, WorkKept,
     MailKept, JoinsKept, Shape, ByItself, SameLink, SamePage
<2> QED
  BY <2>2, <2>3, <2>4, <2>5, <2>6 DEF Pact

<1>4. CASE o.op = "setRemoteAnswer"
  <2>1. /\ WorkLess(p, q, "setRemoteAnswer") /\ Shape(p, q, Link(p, q).sig, Link(p, q).remote, Link(p, q).gather)
        /\ Link(p, q).sig # "offering" /\ entry'[q][p] = entry[q][p]
    BY <1>0, <1>4 DEF ByItself, SameLink, Fails
<2>2. Exchange(p, q)'
  BY <2>1, Kinds DEF Exchange, Pact, WorkLess, WorkKept, MailKept, JoinsKept, ByItself
<2>3. Exchange(q, p)'
  BY <2>1, Kinds DEF Exchange, Pact, WorkLess, WorkKept, MailKept, JoinsKept, ByItself
<2>4. Local(p, q)' /\ Local(q, p)'
  BY <2>1, Kinds DEF Pact, Local, WorkLess, WorkKept, Shape, ByItself, SameLink
<2>5. Asking(p, q)' /\ Asking(q, p)'
  BY <2>1, Kinds DEF Pact, Exchange, Asking, Local, HadOffer, Underway, WorkLess, WorkKept, MailKept, Shape,
     ByItself, SameLink, SamePage
<2>6. Going(p, q)' /\ Going(q, p)'
  BY <2>1, Kinds DEF Pact, Local, Asking, HadOffer, Going, Tidings, Settles, Underway, WorkLess, WorkKept,
     MailKept, JoinsKept, Shape, ByItself, SameLink, SamePage
<2> QED
  BY <2>2, <2>3, <2>4, <2>5, <2>6 DEF Pact

<1> QED
  BY <1>1, <1>2, <1>3, <1>4 DEF Fails

(* Any operation that sends nothing. *)
LEMMA ActsPact ==
  ASSUME NEW p \in Peers, NEW q \in Peers, Pact(p, q), Pact(q, p), Acts(p, q)
  PROVE  Pact(p, q)' /\ Pact(q, p)'
<1>1. ByItself(p, q)
  BY KeptFacts DEF Acts, Kept, ByItself
<1>2. PICK o \in SoundOp : \/ Drafts(p, q, o) \/ Adopts(p, q, o) \/ Writes(p, q, o)
                           \/ Agrees(p, q, o) \/ Adds(p, q, o) \/ Fails(p, q, o)
  BY DEF Acts
<1>3. CASE Drafts(p, q, o) \/ Writes(p, q, o) \/ Adds(p, q, o)
  <2>1. SameState(p, q)
    BY <1>3 DEF Drafts, Writes, Adds, Shape, SameState
  <2>2. CASE Drafts(p, q, o) \/ Writes(p, q, o)
    BY <1>1, <2>1, <2>2, WorkFacts, StaysPact DEF Drafts, Writes
  <2>3. CASE Adds(p, q, o)
    <3>1. WorkKept(p, q)
      BY <2>3, Kinds, WorkFacts DEF WorkLess, WorkKept, Adds
    <3> QED
      BY <1>1, <2>1, <3>1, StaysPact
  <2> QED
    BY <1>3, <2>2, <2>3
<1> QED
  BY <1>1, <1>2, <1>3, AdoptsPact, AgreesPact, FailsPact

(* Counting, when p sends q a message. *)
LEMMA PostsFacts ==
  ASSUME NEW p \in Peers, NEW q \in Peers, NEW type \in {"offer", "answer", "ice-candidate"}, NEW desc,
         Posts(p, q, type, desc)
  PROVE  /\ SamePage(q) /\ SameLink(q, p) /\ WorkKept(q, p) /\ JoinsKept(p)
         /\ IF tab[q].ws THEN MailMore(q, p, type) ELSE MailKept(q, p)
<1>1. PICK m : m = [type |-> type, from |-> p, desc |-> desc]
  OBVIOUS
<1>2. m \in Message /\ m.from = p /\ m.type = type
  BY <1>1 DEF Posts, Message, Signal
<1>3. IF tab[q].ws THEN Grew(inbox[q], inbox'[q], m) ELSE SameMail(q, p)
  BY <1>1 DEF Posts
<1> QED
  BY <1>2, <1>3, MailFacts, KeptFacts DEF Posts

(* What p does, but for what it sends. *)
Sending(p, q) ==
  /\ SamePage(p) /\ SamePage(q) /\ MailKept(p, q) /\ JoinsKept(p) /\ JoinsKept(q)
  /\ WorkKept(q, p) /\ SameLink(q, p)

(* The offer is sent: the exchange goes on at the peer. *)
LEMMA OffersPact ==
  ASSUME NEW p \in Peers, NEW q \in Peers, Pact(p, q), Pact(q, p), Sending(p, q), NEW o \in SoundOp,
         Offers(p, q, o)
  PROVE  Pact(p, q)' /\ Pact(q, p)'
<1>1. /\ WorkLess(p, q, "setOffer") /\ Shape(p, q, "offering", Link(p, q).remote, Link(p, q).tracks)
      /\ entry'[q][p] = entry[q][p]
  BY WorkFacts DEF Offers, Sending, SameLink
<1>2. IF tab[q].ws THEN MailMore(q, p, "offer") ELSE MailKept(q, p)
  BY PostsFacts DEF Offers
<1>3. Exchange(p, q)'
  BY <1>1, <1>2, Kinds DEF Exchange, Pact, WorkLess, WorkKept, MailKept, MailMore, JoinsKept, Sending
<1>4. Exchange(q, p)'
  BY <1>1, <1>2, Kinds DEF Exchange, Pact, WorkLess, WorkKept, MailKept, MailMore, JoinsKept, Sending
<1>5. Local(p, q)' /\ Local(q, p)'
  BY <1>1, <1>2, Kinds DEF Pact, Local, Offers, WorkLess, WorkKept, Shape, Sending, SameLink
<1>6. Asking(p, q)' /\ Asking(q, p)'
  BY <1>1, <1>2, Kinds DEF Pact, Asking, Local, HadOffer, Underway, WorkLess, WorkKept, MailKept, MailMore,
     Shape, Sending, SameLink, SamePage
<1>7. Going(p, q)' /\ Going(q, p)'
  BY <1>1, <1>2, Kinds DEF Pact, Local, Going, Tidings, Settles, Underway, WorkLess, WorkKept, MailKept,
     MailMore, JoinsKept, Shape, Sending, SameLink, SamePage
<1> QED
  BY <1>3, <1>4, <1>5, <1>6, <1>7 DEF Pact

(* The answer is sent: the peer's exchange comes back to it. *)
LEMMA AnswersPact ==
  ASSUME TypeInv, NEW p \in Peers, NEW q \in Peers, Pact(p, q), Pact(q, p), Sending(p, q), NEW o \in SoundOp,
         Answers(p, q, o)
  PROVE  Pact(p, q)' /\ Pact(q, p)'
<1>1. /\ WorkLess(p, q, "setAnswer") /\ Shape(p, q, "stable", Link(p, q).remote, Link(p, q).remote.media)
      /\ entry'[q][p] = entry[q][p] /\ Link(p, q).remote # None
  BY WorkFacts, LinkSound, NoneAssumption DEF Answers, Sending, SameLink
<1>2. IF tab[q].ws THEN MailMore(q, p, "answer") ELSE MailKept(q, p)
  BY PostsFacts DEF Answers
<1>3. Exchange(p, q)'
  BY <1>1, <1>2, Kinds DEF Exchange, Pact, WorkLess, WorkKept, MailKept, MailMore, JoinsKept, Sending
<1>4. Exchange(q, p)'
  BY <1>1, <1>2, Kinds DEF Exchange, Pact, WorkLess, WorkKept, MailKept, MailMore, JoinsKept, Sending
<1>5. Local(p, q)' /\ Local(q, p)'
  BY <1>1, <1>2, Kinds DEF Exchange, Pact, Local, Answers, WorkLess, WorkKept, Shape, Sending, SameLink
<1>6. Asking(p, q)' /\ Asking(q, p)'
  BY <1>1, <1>2, Kinds DEF Pact, Asking, Local, HadOffer, Underway, WorkLess, WorkKept, MailKept, MailMore,
     Shape, Sending, SameLink, SamePage
<1>7. Going(p, q)' /\ Going(q, p)'
  BY <1>1, <1>2, Kinds DEF Pact, Local, Going, Tidings, Settles, Underway, WorkLess, WorkKept, MailKept,
     MailMore, JoinsKept, Shape, Sending, SameLink, SamePage
<1> QED
  BY <1>3, <1>4, <1>5, <1>6, <1>7 DEF Pact

(* Any operation that sends something. *)
LEMMA SendsPact ==
  ASSUME TypeInv, NEW p \in Peers, NEW q \in Peers, Pact(p, q), Pact(q, p), Sends(p, q)
  PROVE  Pact(p, q)' /\ Pact(q, p)'
<1>1. ASSUME NEW type \in {"offer", "answer", "ice-candidate"}, NEW desc, Posts(p, q, type, desc)
      PROVE  Sending(p, q)
  BY <1>1, PostsFacts, KeptFacts DEF Sends, Sending
<1>2. ASSUME NEW o \in SoundOp, Offers(p, q, o) PROVE Pact(p, q)' /\ Pact(q, p)'
  BY <1>1, <1>2, OffersPact DEF Offers
<1>3. ASSUME NEW o \in SoundOp, Answers(p, q, o) PROVE Pact(p, q)' /\ Pact(q, p)'
  BY <1>1, <1>3, AnswersPact DEF Answers
<1>4. CASE Trickles(p, q)
  <2>1. Posts(p, q, "ice-candidate", OfferOf(p, q))
    BY <1>4 DEF Trickles
  <2>2. MailKept(q, p)
    BY <2>1, PostsFacts, Kinds DEF MailMore, MailKept
  <2>3. WorkKept(p, q)
    BY <1>4 DEF Trickles, WorkKept, Does, OneDoes
  <2>4. ByItself(p, q)
    BY <1>1, <2>1, <2>2 DEF Sending, ByItself
  <2> QED
    BY <1>4, <2>3, <2>4, StaysPact DEF Trickles, Shape, SameState
<1> QED
  BY <1>2, <1>3, <1>4 DEF Sends

(* What p does when it takes a message. *)
Taking(p, q) ==
  /\ tab[p].ws /\ SamePage(p) /\ SamePage(q) /\ MailKept(q, p) /\ JoinsKept(p) /\ JoinsKept(q)
  /\ WorkKept(q, p) /\ SameLink(q, p)

(* The connection of p for q is asked for op, and made if there was none.   *)
AskedFor(p, q, op) ==
  /\ WorkMore(p, q, op) /\ entry'[p][q] # 0
  /\ Link(p, q)'.told = (Link(p, q).told \/ op = "createOffer")
  /\ Link(p, q)'.offered = (Link(p, q).offered \/ op = "setRemoteOffer")
  /\ Link(p, q)'.sig = Link(p, q).sig /\ Link(p, q)'.remote = Link(p, q).remote

(* The notice that q joined is handled: the exchange starts. *)
LEMMA TakesJoinPact ==
  ASSUME NEW p \in Peers, NEW q \in Peers, Pact(p, q), Pact(q, p), Taking(p, q), MailLess(p, q, "user-joined"),
         AskedFor(p, q, "createOffer")
  PROVE  Pact(p, q)' /\ Pact(q, p)'
<1>1. /\ WorkMore(p, q, "createOffer") /\ entry'[q][p] = entry[q][p] /\ entry'[p][q] # 0
      /\ Link(p, q)'.told = TRUE /\ Link(p, q)'.offered = (Link(p, q).offered \/ FALSE)
      /\ Link(p, q)'.sig = Link(p, q).sig /\ Link(p, q)'.remote = Link(p, q).remote
  BY DEF AskedFor, Taking, SameLink
<1>3. Exchange(p, q)'
  BY <1>1, Kinds DEF Exchange, Pact, WorkMore, WorkKept, MailKept, MailLess, JoinsKept, Taking
<1>4. Exchange(q, p)'
  BY <1>1, Kinds DEF Exchange, Pact, WorkMore, WorkKept, MailKept, MailLess, JoinsKept, Taking
<1>5. Local(p, q)' /\ Local(q, p)'
  BY <1>1, Kinds DEF Pact, Local, WorkMore, WorkKept, Taking, SameLink
<1>6. Asking(p, q)' /\ Asking(q, p)'
  BY <1>1, Kinds DEF Pact, Exchange, Asking, Local, HadOffer, Underway, WorkMore, WorkKept, MailKept, MailLess,
     Taking, SameLink, SamePage
<1>7. Going(p, q)' /\ Going(q, p)'
  BY <1>1, Kinds DEF Pact, Local, Going, Tidings, Settles, Underway, WorkMore, WorkKept, MailKept, MailLess,
     JoinsKept, Taking, SameLink, SamePage
<1> QED
  BY <1>3, <1>4, <1>5, <1>6, <1>7 DEF Pact

(* An offer is handled. *)
LEMMA TakesOfferPact ==
  ASSUME NEW p \in Peers, NEW q \in Peers, Pact(p, q), Pact(q, p), Taking(p, q), MailLess(p, q, "offer"),
         AskedFor(p, q, "setRemoteOffer")
  PROVE  Pact(p, q)' /\ Pact(q, p)'
<1>1. /\ WorkMore(p, q, "setRemoteOffer") /\ entry'[q][p] = entry[q][p] /\ entry'[p][q] # 0
      /\ Link(p, q)'.offered = TRUE /\ Link(p, q)'.told = (Link(p, q).told \/ FALSE)
      /\ Link(p, q)'.sig = Link(p, q).sig /\ Link(p, q)'.remote = Link(p, q).remote
  BY DEF AskedFor, Taking, SameLink
<1>3. Exchange(p, q)'
  BY <1>1, Kinds DEF Exchange, Pact, WorkMore, WorkKept, MailKept, MailLess, JoinsKept, Taking
<1>4. Exchange(q, p)'
  BY <1>1, Kinds DEF Exchange, Pact, WorkMore, WorkKept, MailKept, MailLess, JoinsKept, Taking
<1>5. Local(p, q)' /\ Local(q, p)'
  BY <1>1, Kinds DEF Pact, Local, WorkMore, WorkKept, Taking, SameLink
<1>6. Asking(p, q)' /\ Asking(q, p)'
  BY <1>1, Kinds DEF Pact, Exchange, Asking, Local, HadOffer, Underway, WorkMore, WorkKept, MailKept, MailLess,
     Taking, SameLink, SamePage
<1>7. Going(p, q)' /\ Going(q, p)'
  BY <1>1, Kinds DEF Pact, Local, Going, Tidings, Settles, Underway, WorkMore, WorkKept, MailKept, MailLess,
     JoinsKept, Taking, SameLink, SamePage
<1> QED
  BY <1>3, <1>4, <1>5, <1>6, <1>7 DEF Pact

(* An answer is handled. *)
LEMMA TakesAnswerPact ==
  ASSUME NEW p \in Peers, NEW q \in Peers, Pact(p, q), Pact(q, p), Taking(p, q), MailLess(p, q, "answer"),
         AskedFor(p, q, "setRemoteAnswer"), entry[p][q] # 0
  PROVE  Pact(p, q)' /\ Pact(q, p)'
<1>1. /\ WorkMore(p, q, "setRemoteAnswer") /\ entry'[q][p] = entry[q][p] /\ entry'[p][q] # 0 /\ entry[p][q] # 0
      /\ Link(p, q)'.told = (Link(p, q).told \/ FALSE) /\ Link(p, q)'.offered = (Link(p, q).offered \/ FALSE)
      /\ Link(p, q)'.sig = Link(p, q).sig /\ Link(p, q)'.remote = Link(p, q).remote
  BY DEF AskedFor, Taking, SameLink
<1>3. Exchange(p, q)'
  BY <1>1, Kinds DEF Exchange, Pact, WorkMore, WorkKept, MailKept, MailLess, JoinsKept, Taking
<1>4. Exchange(q, p)'
  BY <1>1, Kinds DEF Exchange, Pact, WorkMore, WorkKept, MailKept, MailLess, JoinsKept, Taking
<1>5. Local(p, q)' /\ Local(q, p)'
  BY <1>1, Kinds DEF Pact, Local, WorkMore, WorkKept, Taking, SameLink
<1>6. Asking(p, q)' /\ Asking(q, p)'
  BY <1>1, Kinds DEF Pact, Exchange, Asking, Local, HadOffer, Underway, WorkMore, WorkKept, MailKept, MailLess,
     Taking, SameLink, SamePage
<1>7. Going(p, q)' /\ Going(q, p)'
  BY <1>1, Kinds DEF Pact, Local, Going, Tidings, Settles, Underway, WorkMore, WorkKept, MailKept, MailLess,
     JoinsKept, Taking, SameLink, SamePage
<1> QED
  BY <1>3, <1>4, <1>5, <1>6, <1>7 DEF Pact

(* An answer without a connection. *)
LEMMA MissesPact ==
  ASSUME NEW p \in Peers, NEW q \in Peers, Pact(p, q), Pact(q, p), Taking(p, q), MailLess(p, q, "answer"),
         entry[p][q] = 0, SameLink(p, q)
  PROVE  Pact(p, q)' /\ Pact(q, p)'
<1>1. /\ WorkKept(p, q) /\ entry'[q][p] = entry[q][p] /\ entry'[p][q] = 0
      /\ Link(p, q)' = Link(p, q) /\ ~Link(p, q).told /\ ~Link(p, q).offered
  BY KeptFacts DEF Taking, SameLink, Link, NoLink
<1>3. Exchange(p, q)'
  BY <1>1, Kinds DEF Exchange, Pact, WorkKept, MailKept, MailLess, JoinsKept, Taking
<1>4. Exchange(q, p)'
  BY <1>1, Kinds DEF Exchange, Pact, WorkKept, MailKept, MailLess, JoinsKept, Taking
<1>5. Local(p, q)' /\ Local(q, p)'
  BY <1>1, Kinds DEF Pact, Local, WorkKept, Taking, SameLink
<1>6. Asking(p, q)' /\ Asking(q, p)'
  BY <1>1, Kinds DEF Pact, Exchange, Asking, Local, HadOffer, Underway, WorkKept, MailKept, MailLess, Taking,
     SameLink, SamePage
<1>7. Going(p, q)' /\ Going(q, p)'
  BY <1>1, Kinds DEF Pact, Local, Going, Tidings, Settles, Underway, WorkKept, MailKept, MailLess, JoinsKept,
     Taking, SameLink, SamePage
<1> QED
  BY <1>3, <1>4, <1>5, <1>6, <1>7 DEF Pact

(* Any message is handled. *)
LEMMA TakesPact ==
  ASSUME TypeInv, NEW p \in Peers, NEW q \in Peers, Pact(p, q), Pact(q, p), Takes(p, q)
  PROVE  Pact(p, q)' /\ Pact(q, p)'
<1>1. PICK m :
        /\ m \in Talk(q) /\ Shrank(inbox[p], inbox'[p], m)
        /\ \/ m.type = "user-joined" /\ Asked1(p, q, "createOffer", None)
           \/ m.type = "offer" /\ m \in Signal /\ Asked1(p, q, "setRemoteOffer", m.desc)
           \/ m.type \in {"answer", "ice-candidate"} /\ m \in Signal /\ entry[p][q] = 0 /\ SameLink(p, q)
           \/ m.type = "answer" /\ m \in Signal /\ entry[p][q] # 0 /\ Asked1(p, q, "setRemoteAnswer", m.desc)
           \/ m.type = "ice-candidate" /\ m \in Signal /\ entry[p][q] # 0 /\ Asked1(p, q, "addCandidate", m.desc)
  BY DEF Takes
<1>2. m \in Message /\ m.from = q
  BY <1>1 DEF Talk, From
<1>3. MailLess(p, q, m.type)
  BY <1>1, <1>2, MailFacts
<1>4. Taking(p, q)
  BY KeptFacts DEF Takes, Kept, Taking
<1>5. ASSUME NEW op, NEW desc, [op |-> op, desc |-> desc] \in SoundOp, Asked1(p, q, op, desc)
      PROVE  AskedFor(p, q, op)
  <2>1. PICK o : o = [op |-> op, desc |-> desc]
    OBVIOUS
  <2>2. o \in SoundOp /\ o.op = op /\ Grew(Link(p, q).chain, Link(p, q)'.chain, o)
    BY <1>5, <2>1 DEF Asked1
  <2> QED
    BY <1>5, <2>2, WorkFacts DEF AskedFor, Asked1, LinkAsked
<1>6. /\ [op |-> "createOffer", desc |-> None] \in SoundOp
      /\ m \in Signal => \A op \in Remote : [op |-> op, desc |-> m.desc] \in SoundOp
  BY DEF SoundOp, Operation, Remote, Signal
<1>7. CASE m.type = "user-joined" /\ Asked1(p, q, "createOffer", None)
  BY <1>3, <1>4, <1>5, <1>6, <1>7, TakesJoinPact
<1>8. CASE m.type = "offer" /\ m \in Signal /\ Asked1(p, q, "setRemoteOffer", m.desc)
  BY <1>3, <1>4, <1>5, <1>6, <1>8, TakesOfferPact DEF Remote
<1>9. CASE m.type = "answer" /\ m \in Signal /\ entry[p][q] # 0 /\ Asked1(p, q, "setRemoteAnswer", m.desc)
  BY <1>3, <1>4, <1>5, <1>6, <1>9, TakesAnswerPact DEF Remote
<1>10. CASE m.type = "answer" /\ entry[p][q] = 0 /\ SameLink(p, q)
  BY <1>3, <1>4, <1>10, MissesPact
<1>11. ASSUME m.type = "ice-candidate" PROVE MailKept(p, q) /\ ByItself(p, q)
  <2>1. MailKept(p, q)
    BY <1>3, <1>11, Kinds DEF MailLess, MailKept
  <2> QED
    BY <1>4, <2>1 DEF Taking, ByItself
<1>12. CASE m.type = "ice-candidate" /\ entry[p][q] = 0 /\ SameLink(p, q)
  <2>1. WorkKept(p, q) /\ SameState(p, q)
    BY <1>12, KeptFacts DEF SameLink, SameState
  <2> QED
    BY <1>11, <1>12, <2>1, StaysPact
<1>13. CASE m.type = "ice-candidate" /\ m \in Signal /\ entry[p][q] # 0 /\ Asked1(p, q, "addCandidate", m.desc)
  <2>1. AskedFor(p, q, "addCandidate")
    BY <1>5, <1>6, <1>13 DEF Remote
  <2>2. WorkKept(p, q)
    BY <2>1, Kinds DEF AskedFor, WorkMore, WorkKept
  <2>3. Link(p, q).told \in BOOLEAN /\ Link(p, q).offered \in BOOLEAN
    BY LinkSound
  <2>4. Link(p, q)'.told = (Link(p, q).told \/ FALSE) /\ Link(p, q)'.offered = (Link(p, q).offered \/ FALSE)
        /\ Link(p, q)'.sig = Link(p, q).sig /\ Link(p, q)'.remote = Link(p, q).remote /\ entry'[p][q] = entry[p][q]
    BY <1>13, <2>1 DEF AskedFor, Asked1
  <2>5. SameState(p, q)
    BY <2>3, <2>4 DEF SameState
  <2> QED
    BY <1>11, <1>13, <2>2, <2>5, StaysPact
<1> QED
  BY <1>1, <1>7, <1>8, <1>9, <1>10, <1>12, <1>13

(* p hears that q joined. *)
LEMMA HearsPact ==
  ASSUME Quiet, NEW p \in Peers, NEW q \in Peers \ {p}, Pact(p, q), Pact(q, p), Hears(p, q)
  PROVE  Pact(p, q)' /\ Pact(q, p)'
<1>1. PICK n \in From(q, {"user-joined"}) :
        /\ Shrank(queue, queue', n)
        /\ IF tab[p].ws THEN Grew(inbox[p], inbox'[p], n) ELSE SameMail(p, q)
  BY DEF Hears
<1>2. n \in Message /\ n.from = q /\ n.type = "user-joined" /\ n \in From(q, Joining) /\ n \notin From(p, Joining)
  BY <1>1 DEF From, Joining
<1>3. JoinsLess(q)
  BY <1>1, <1>2 DEF Shrank, JoinsLess, Joins, Queued, OneJoins
<1>4. IF tab[p].ws THEN MailMore(p, q, "user-joined") ELSE MailKept(p, q)
  BY <1>1, <1>2, MailFacts, KeptFacts
<1>5. /\ SamePage(p) /\ SamePage(q) /\ MailKept(q, p) /\ JoinsKept(p) /\ WorkKept(p, q) /\ WorkKept(q, p)
      /\ SameLink(p, q) /\ SameLink(q, p) /\ entry'[p][q] = entry[p][q] /\ entry'[q][p] = entry[q][p]
      /\ Link(p, q)' = Link(p, q) /\ Link(q, p)' = Link(q, p)
  BY KeptFacts DEF Hears, Kept, SameLink
<1>6. Exchange(p, q)'
  BY <1>3, <1>4, <1>5, Kinds DEF Exchange, Pact, WorkKept, MailKept, MailMore, JoinsLess
<1>7. Exchange(q, p)'
  BY <1>3, <1>4, <1>5, Kinds DEF Exchange, Pact, WorkKept, MailKept, MailMore, JoinsKept
<1>8. Local(p, q)' /\ Local(q, p)'
  BY <1>5, Kinds DEF Pact, Local, WorkKept
<1>9. Asking(p, q)' /\ Asking(q, p)'
  BY <1>4, <1>5, Kinds DEF Pact, Asking, HadOffer, Underway, WorkKept, MailKept, MailMore, SamePage
<1>10. Going(p, q)' /\ Going(q, p)'
  BY <1>3, <1>4, <1>5, Kinds DEF Pact, Going, Tidings, Settles, Underway, WorkKept, MailKept, MailMore,
     JoinsKept, JoinsLess, SamePage
<1> QED
  BY <1>6, <1>7, <1>8, <1>9, <1>10 DEF Pact

(* A page without anything of the other. *)
BlankPair(p, q) ==
  /\ \A T \in Mails : ~Gets(p, q, T) /\ OneGets(p, q, T)
  /\ \A O \in Works : ~Does(p, q, O) /\ OneDoes(p, q, O)
  /\ ~Link(p, q).told /\ ~Link(p, q).offered /\ Link(p, q).sig = "stable" /\ entry[p][q] = 0

(* Who has nothing of q is blank. *)
LEMMA BlankEmpty == ASSUME NEW p, NEW q PROVE Empty(p, q) => BlankPair(p, q)
BY EmptyFacts, SilentFacts DEF Empty, BlankPair, Link, NoLink

(* BlankEmpty, after a step. *)
LEMMA BlankEmptyNext == ASSUME NEW p, NEW q PROVE Empty(p, q)' => BlankPair(p, q)'
BY EmptyFacts, SilentFacts DEF Empty, BlankPair, Link, NoLink

(* Nobody is left who knows of an exchange, but what the server has to say. *)
LEMMA BlankPact ==
  ASSUME NEW p \in Peers, NEW q \in Peers, BlankPair(p, q)', BlankPair(q, p)', OneJoins(p)', OneJoins(q)',
         tab'[p].ws /\ tab'[q].ws => Joins(p)' \/ Joins(q)'
  PROVE  Pact(p, q)' /\ Pact(q, p)'
<1>1. Exchange(p, q)' /\ Exchange(q, p)'
  BY Kinds DEF BlankPair, Exchange
<1>2. Local(p, q)' /\ Local(q, p)'
  BY Kinds DEF BlankPair, Local
<1>3. Asking(p, q)' /\ Asking(q, p)'
  BY Kinds DEF BlankPair, Asking, HadOffer, Underway
<1>4. Going(p, q)' /\ Going(q, p)'
  BY Kinds DEF BlankPair, Going, Tidings
<1> QED
  BY <1>1, <1>2, <1>3, <1>4 DEF Pact

(* A page that comes has a notice under way to everybody, and no exchange   *)
(* yet.                                                                     *)
LEMMA ComesPact ==
  ASSUME NEW p \in Peers, NEW q \in Peers \ {p}, Pact(p, q), Comes(p, q)
  PROVE  Pact(p, q)' /\ Pact(q, p)'
<1>1. PICK n : n = [type |-> "user-joined", from |-> p] /\ Grew(queue, queue', n)
  BY DEF Comes
<1>2. n \in From(p, Joining) /\ n \notin From(q, Joining)
  BY <1>1 DEF From, Joining, Message, Notice
<1>3. Joins(p)' /\ OneJoins(p)' /\ OneJoins(q)'
  <2>1. ~Joins(p)
    <3>1. From(p, Joining) \subseteq Talk(p)
      BY DEF Joining, Talk, From
    <3> QED
      BY <3>1 DEF Comes, Joins, Queued, Some
  <2>2. OneJoins(p)
    BY <2>1 DEF Joins, Queued, OneJoins, Some, Once
  <2>3. OneJoins(q)
    BY DEF Pact, Exchange
  <2> QED
    BY <1>1, <1>2, <2>1, <2>2, <2>3 DEF Grew, Joins, Queued, OneJoins
<1>4. Empty(p, q)' /\ Empty(q, p)'
  <2>1. \A A \in SUBSET Talk(p) : Some(inbox[q], A) => Some(inbox[q], Talk(p))
    BY DEF Some
  <2> QED
    BY <2>1 DEF Comes, Empty, SameLink
<1> QED
  BY <1>3, <1>4, BlankEmptyNext, BlankPact

(* One of the two has nothing any more, and is not there. *)
LEMMA GonePact ==
  ASSUME NEW p \in Peers, NEW q \in Peers, Pact(p, q), Pact(q, p), BlankPair(p, q)', ~tab'[p].ws, SamePage(q),
         MailKept(q, p), WorkKept(q, p), SameLink(q, p), JoinsKept(p), JoinsKept(q)
  PROVE  Pact(p, q)' /\ Pact(q, p)'
<1>1. Exchange(p, q)' /\ Exchange(q, p)'
  BY Kinds DEF BlankPair, Exchange, Pact, MailKept, WorkKept, JoinsKept
<1>2. Local(p, q)' /\ Local(q, p)'
  BY Kinds DEF BlankPair, Local, Pact, WorkKept, SameLink
<1>3. Asking(p, q)' /\ Asking(q, p)'
  BY Kinds DEF BlankPair, Asking, HadOffer, Underway, Pact, WorkKept, MailKept, SameLink, SamePage
<1>4. Going(p, q)' /\ Going(q, p)'
  BY DEF Going
<1> QED
  BY <1>1, <1>2, <1>3, <1>4 DEF Pact

(* A page that goes takes its exchanges with it. *)
LEMMA GoesPact ==
  ASSUME NEW p \in Peers, NEW q \in Peers \ {p}, Pact(p, q), Pact(q, p), Goes(p, q)
  PROVE  Pact(p, q)' /\ Pact(q, p)'
<1>1. Empty(p, q)'
  BY NothingIn DEF Goes, Empty
<1>2. /\ ~tab'[p].ws /\ SamePage(q) /\ MailKept(q, p) /\ WorkKept(q, p) /\ SameLink(q, p)
      /\ JoinsKept(p) /\ JoinsKept(q)
  BY KeptFacts DEF Goes, Kept
<1> QED
  BY <1>1, <1>2, BlankEmptyNext, GonePact

(* A page drops the connection for a peer who has gone. *)
LEMMA DropsPact ==
  ASSUME Quiet, NEW p \in Peers, NEW q \in Peers \ {p}, Pact(p, q), Pact(q, p), Drops(p, q)
  PROVE  Pact(p, q)' /\ Pact(q, p)'
<1>1. Empty(p, q)'
  BY DEF Drops, Empty
<1>2. Empty(q, p)
  <2>1. inbox[q] = <<>> /\ entry[q][p] = 0
    BY DEF Quiet, Base, Off, Drops
  <2> QED
    BY <2>1, NothingIn DEF Empty
<1>3. Empty(q, p)'
  BY <1>2 DEF Drops, Kept, SameLink, SameMail, Alike, Empty
<1>4. ~tab'[q].ws /\ JoinsKept(p) /\ JoinsKept(q)
  BY KeptFacts DEF Drops, Kept, SamePage
<1>5. OneJoins(p)' /\ OneJoins(q)'
  BY <1>4 DEF JoinsKept, Pact, Exchange
<1> QED
  BY <1>1, <1>3, <1>4, <1>5, BlankEmptyNext, BlankPact

(* Whatever happens between two users, the pact stands. *)
LEMMA MovesPact ==
  ASSUME Quiet, NEW p \in Peers, NEW q \in Peers \ {p}, Pact(p, q), Pact(q, p), Moves(p, q)
  PROVE  Pact(p, q)' /\ Pact(q, p)'
<1>1. TypeInv
  BY DEF Quiet
<1> QED
  BY <1>1, ComesPact, GoesPact, HearsPact, ActsPact, DropsPact, SendsPact, TakesPact DEF Moves

(* The pact of every pair stands after every step without a fault. *)
LEMMA PactStep ==
  ASSUME Quiet, Views, \A p, q \in Peers : p # q => Pact(p, q)
  PROVE  \A p, q \in Peers : p # q => Pact(p, q)'
<1> SUFFICES ASSUME NEW p \in Peers, NEW q \in Peers, p # q PROVE Pact(p, q)'
  OBVIOUS
<1>1. View(p, q) /\ Pact(p, q) /\ Pact(q, p)
  BY DEF Views
<1>2. CASE Kept(p, q) /\ Kept(q, p)
  BY <1>1, <1>2, KeptPact
<1> QED
  BY <1>1, <1>2, MovesPact DEF View

--------------------------------------------------------------------------------
(* Candidates come after descriptions.                                      *)

(* A candidate comes after a description of its connection: in the chain, on  *)
(* the way, and when it is sent; or the connection had the description.       *)
Descriptions == {"offer", "answer"}
Candidates   == {"ice-candidate"}
Describing   == {"setRemoteOffer", "setRemoteAnswer"}
Adding       == {"addCandidate"}

(* p has a description of q, or a glare; or it is about to have one; no     *)
(* candidate comes before a description in the chain, or on the way.        *)
Heard(p, q)   == Link(p, q).remote # None \/ (Link(p, q).told /\ Link(p, q).offered)
Expects(p, q) == Heard(p, q) \/ Does(p, q, Describing)
ChainOrder(p, q) == Preceded(Link(p, q).chain, Ops(Adding), Ops(Describing))
MailOrder(p, q)  == Preceded(inbox[p], From(q, Candidates), From(q, Descriptions))
Ordered(p, q) ==
  /\ Heard(p, q) \/ ChainOrder(p, q)
  /\ Expects(p, q) \/ MailOrder(p, q)
  /\ tab[p].ws /\ Link(q, p).gather => Expects(p, q) \/ Gets(p, q, Descriptions)

(* What stays true of p's side. *)
ChainOn(p, q) ==
  /\ Heard(p, q) => Heard(p, q)'
  /\ Expects(p, q) => Expects(p, q)'
  /\ ChainOrder(p, q) => Heard(p, q)' \/ ChainOrder(p, q)'
MailOn(p, q) ==
  /\ MailOrder(p, q) => MailOrder(p, q)'
  /\ Gets(p, q, Descriptions) => Gets(p, q, Descriptions)'

(* Order is kept when nothing gets in between. *)
LEMMA OrderedOn ==
  ASSUME NEW p, NEW q, Ordered(p, q), ChainOn(p, q), MailOn(p, q), SamePage(p),
         Link(q, p)'.gather => Link(q, p).gather
  PROVE  Ordered(p, q)'
BY DEF Ordered, ChainOn, MailOn, SamePage

(* Nothing gets in between when nothing happens. *)
LEMMA OrderFacts ==
  ASSUME NEW p, NEW q
  PROVE  /\ SameLink(p, q) => ChainOn(p, q)
         /\ SameMail(p, q) => MailOn(p, q)
<1>1. From(q, Candidates) \subseteq Talk(q) /\ From(q, Descriptions) \subseteq Talk(q)
  BY DEF Candidates, Descriptions, Talk, From
<1> QED
  BY <1>1 DEF SameLink, ChainOn, Heard, Expects, Does, ChainOrder, SameMail, Alike, MailOn, MailOrder, Gets

(* Who has nothing of q has nothing out of order. *)
LEMMA EmptyOrder ==
  ASSUME NEW p \in Peers, NEW q \in Peers, Empty(p, q)', ~tab'[p].ws \/ entry'[q][p] = 0
  PROVE  Ordered(p, q)'
<1>1. From(q, Candidates) \subseteq Talk(q)
  BY DEF Candidates, Talk, From
<1>2. MailOrder(p, q)'
  BY <1>1 DEF Empty, MailOrder, Preceded, Some
<1>3. Link(p, q)'.chain = <<>>
  BY DEF Empty, Link, NoLink
<1>4. ChainOrder(p, q)'
  BY <1>3, NothingIn DEF ChainOrder
<1>5. entry'[q][p] = 0 => ~Link(q, p)'.gather
  BY DEF Link, NoLink
<1> QED
  BY <1>2, <1>4, <1>5 DEF Ordered

(* An operation that gives no description. *)
LEMMA PlainOrder ==
  ASSUME NEW p, NEW q, NEW o \in SoundOp, o.op \notin Describing,
         NEW sig, NEW g, Shape(p, q, sig, Link(p, q).remote, g),
         Ends(p, q, o) \/ \E op \in {"setOffer", "setAnswer"} : Follows(p, q, o, op)
  PROVE  ChainOn(p, q)
<1>1. o \notin Ops(Describing)
  BY InOps
<1>2. Heard(p, q) <=> Heard(p, q)'
  BY DEF Heard, Shape
<1>3. CASE Ends(p, q, o)
  BY <1>1, <1>2, <1>3 DEF Ends, Shrank, ChainOn, Expects, Does, ChainOrder
<1>4. ASSUME NEW op \in {"setOffer", "setAnswer"}, Follows(p, q, o, op) PROVE ChainOn(p, q)
  <2>1. PICK e : e = [op |-> op, desc |-> None]
    OBVIOUS
  <2>2. e \notin Ops(Adding)
    BY <2>1 DEF Ops, Adding
  <2>3. PICK mid : Shrank(Link(p, q).chain, mid, o) /\ Grew(mid, Link(p, q)'.chain, e)
    BY <1>4, <2>1 DEF Follows
  <2> QED
    BY <1>1, <1>2, <2>2, <2>3 DEF Shrank, Grew, ChainOn, Expects, Does, ChainOrder
<1> QED
  BY <1>3, <1>4

(* An operation that sends nothing: a candidate is not added before its     *)
(* description.                                                             *)
LEMMA ActsOrder ==
  ASSUME TypeInv, NEW p \in Peers, NEW q \in Peers \ {p}, Pact(p, q), Ordered(p, q), Ordered(q, p), Acts(p, q)
  PROVE  Ordered(p, q)' /\ Ordered(q, p)'
<1>1. PICK o \in SoundOp : \/ Drafts(p, q, o) \/ Adopts(p, q, o) \/ Writes(p, q, o)
                           \/ Agrees(p, q, o) \/ Adds(p, q, o) \/ Fails(p, q, o)
  BY DEF Acts
<1>2. SamePage(p) /\ SamePage(q) /\ SameMail(p, q) /\ SameMail(q, p) /\ SameLink(q, p)
  BY DEF Acts, Kept
<1>3. Link(p, q)'.gather = Link(p, q).gather /\ tab[p].ws
  BY <1>1 DEF Drafts, Adopts, Writes, Agrees, Adds, Fails, Shape
<1>4. ChainOn(p, q)
  <2>1. CASE Adopts(p, q, o) \/ Agrees(p, q, o)
    <3>1. Link(p, q)'.remote = o.desc /\ o.desc \in Description
      BY <2>1 DEF Adopts, Agrees, Shape, SoundOp, Remote
    <3> QED
      BY <3>1, NoneAssumption DEF ChainOn, Heard, Expects
  <2>2. CASE Fails(p, q, o) /\ o.op = "setRemoteAnswer"
    <3>1. WorkLess(p, q, "setRemoteAnswer") /\ Link(p, q).sig # "offering" /\ entry[p][q] # 0
      BY <2>2, WorkFacts DEF Fails, Shape
    <3>2. Does(p, q, Agreeing)
      BY <3>1, Kinds DEF WorkLess
    <3>3. Link(p, q).told /\ Link(p, q).offered
      BY <1>3, <3>1, <3>2 DEF Pact, Asking, HadOffer, Underway
    <3>4. Link(p, q)'.told = Link(p, q).told /\ Link(p, q)'.offered = Link(p, q).offered
      BY <2>2 DEF Fails, Shape
    <3> QED
      BY <3>3, <3>4 DEF ChainOn, Heard, Expects
  <2>3. CASE Drafts(p, q, o) \/ Writes(p, q, o) \/ Adds(p, q, o) \/ (Fails(p, q, o) /\ o.op # "setRemoteAnswer")
    <3>1. o.op \notin Describing
      BY <2>3 DEF Drafts, Writes, Adds, Fails, Describing
    <3>2. Ends(p, q, o) \/ \E op \in {"setOffer", "setAnswer"} : Follows(p, q, o, op)
      BY <2>3 DEF Drafts, Writes, Adds, Fails
    <3>3. Shape(p, q, Link(p, q).sig, Link(p, q).remote, Link(p, q).gather)
      BY <2>3 DEF Drafts, Writes, Adds, Fails
    <3> QED
      BY <3>1, <3>2, <3>3, PlainOrder
  <2> QED
    BY <1>1, <2>1, <2>2, <2>3
<1>5. Link(q, p)' = Link(q, p) /\ ChainOn(q, p) /\ MailOn(p, q) /\ MailOn(q, p)
  BY <1>2, OrderFacts DEF SameLink
<1> QED
  BY <1>2, <1>3, <1>4, <1>5, OrderedOn

(* A candidate is sent after the description that it goes with. *)
LEMMA SendsOrder ==
  ASSUME NEW p \in Peers, NEW q \in Peers \ {p}, Ordered(p, q), Ordered(q, p), Sends(p, q)
  PROVE  Ordered(p, q)' /\ Ordered(q, p)'
<1>1. PICK type, desc :
        /\ type \in {"offer", "answer", "ice-candidate"} /\ Posts(p, q, type, desc)
        /\ type = "ice-candidate" => Link(p, q).gather /\ ~Link(p, q)'.gather
  BY DEF Sends, Offers, Answers, Trickles, Shape
<1>2. SamePage(p) /\ SamePage(q) /\ SameMail(p, q) /\ SameLink(q, p) /\ Link(q, p)' = Link(q, p)
  BY <1>1 DEF Sends, Posts, SameLink
<1>3. ChainOn(p, q)
  <2>1. ASSUME NEW o \in SoundOp, Offers(p, q, o) \/ Answers(p, q, o) PROVE ChainOn(p, q)
    <3>1. o.op \notin Describing /\ Ends(p, q, o)
      BY <2>1 DEF Offers, Answers, Describing
    <3>2. PICK sig, g : Shape(p, q, sig, Link(p, q).remote, g)
      BY <2>1 DEF Offers, Answers
    <3> QED
      BY <3>1, <3>2, PlainOrder
  <2>2. CASE Trickles(p, q)
    BY <2>2 DEF Trickles, Shape, ChainOn, Heard, Expects, Does, ChainOrder
  <2> QED
    BY <2>1, <2>2 DEF Sends
<1>4. Ordered(p, q)'
  BY <1>2, <1>3, OrderFacts, OrderedOn
<1>5. ChainOn(q, p)
  BY <1>2, OrderFacts
<1>6. CASE ~tab[q].ws
  <2>1. MailOn(q, p)
    BY <1>1, <1>6, OrderFacts DEF Posts
  <2> QED
    BY <1>2, <1>4, <1>5, <1>6, <2>1 DEF Ordered, ChainOn, MailOn, SamePage
<1>7. CASE tab[q].ws
  <2>1. PICK m : m = [type |-> type, from |-> p, desc |-> desc] /\ Grew(inbox[q], inbox'[q], m)
    BY <1>1, <1>7 DEF Posts
  <2>2. /\ m \in From(p, Candidates) <=> type = "ice-candidate"
        /\ m \in From(p, Descriptions) <=> type # "ice-candidate"
    <3>1. m \in Message /\ m.from = p /\ m.type = type
      BY <1>1, <2>1 DEF Posts, Message, Signal
    <3> QED
      BY <1>1, <3>1, InFrom DEF Candidates, Descriptions
  <2>3. Gets(q, p, Descriptions)' <=> Gets(q, p, Descriptions) \/ type # "ice-candidate"
    BY <2>1, <2>2 DEF Grew, Gets
  <2>4. MailOrder(q, p) /\ (type = "ice-candidate" => Gets(q, p, Descriptions)) => MailOrder(q, p)'
    BY <2>1, <2>2 DEF Grew, Gets, MailOrder
  <2>5. Ordered(q, p)'
    BY <1>1, <1>2, <1>5, <1>7, <2>3, <2>4 DEF Ordered, ChainOn, SamePage
  <2> QED
    BY <1>4, <2>5
<1> QED
  BY <1>6, <1>7

(* Messages become operations in the order in which they arrive. *)
LEMMA TakesOrder ==
  ASSUME TypeInv, NEW p \in Peers, NEW q \in Peers \ {p}, Agreed(p, q), Ordered(p, q), Ordered(q, p), Takes(p, q)
  PROVE  Ordered(p, q)' /\ Ordered(q, p)'
<1>1. PICK m, op, desc :
        /\ m \in Talk(q) /\ Shrank(inbox[p], inbox'[p], m)
        /\ \/ m.type = "user-joined" /\ desc = None /\ op = "createOffer" /\ Asked1(p, q, op, desc)
           \/ m.type = "offer" /\ m \in Signal /\ desc = m.desc /\ op = "setRemoteOffer" /\ Asked1(p, q, op, desc)
           \/ m.type \in {"answer", "ice-candidate"} /\ m \in Signal /\ entry[p][q] = 0 /\ SameLink(p, q)
           \/ m.type = "answer" /\ m \in Signal /\ entry[p][q] # 0 /\ desc = m.desc
              /\ op = "setRemoteAnswer" /\ Asked1(p, q, op, desc)
           \/ m.type = "ice-candidate" /\ m \in Signal /\ entry[p][q] # 0 /\ desc = m.desc
              /\ op = "addCandidate" /\ Asked1(p, q, op, desc)
  BY DEF Takes
<1>2. SamePage(p) /\ SamePage(q) /\ SameMail(q, p) /\ SameLink(q, p) /\ tab[p].ws /\ Link(q, p)' = Link(q, p)
  BY DEF Takes, Kept, SameLink
<1>3. Link(p, q)'.gather = Link(p, q).gather
  BY <1>1 DEF SameLink, Asked1, LinkAsked
<1>4. Ordered(q, p)'
  BY <1>2, <1>3, OrderFacts, OrderedOn
<1>5. /\ m \in From(q, Candidates) <=> m.type = "ice-candidate"
      /\ m \in From(q, Descriptions) <=> m.type \in {"offer", "answer"}
      /\ m \in Message /\ m.from = q
  <2>1. m \in Message /\ m.from = q
    BY <1>1 DEF Talk, From
  <2> QED
    BY <2>1, InFrom DEF Candidates, Descriptions
<1>6. /\ Gets(p, q, Descriptions) <=> Gets(p, q, Descriptions)' \/ m.type \in {"offer", "answer"}
      /\ MailOrder(p, q) => m.type # "ice-candidate" /\ (m.type \in {"offer", "answer"} \/ MailOrder(p, q)')
  BY <1>1, <1>5 DEF Shrank, Gets, MailOrder
<1>7. CASE m.type \in {"answer", "ice-candidate"} /\ entry[p][q] = 0 /\ SameLink(p, q)
  <2>1. ~Expects(p, q)
    BY <1>7, EmptyFacts DEF Expects, Heard, Link, NoLink
  <2>2. m.type = "answer" => Gets(p, q, {"answer"})
    BY <1>1, <1>5, InFrom DEF Shrank, Gets
  <2>3. m.type = "ice-candidate"
    BY <1>2, <1>7, <2>2 DEF Agreed, Replies
  <2> QED
    BY <1>6, <2>1, <2>3 DEF Ordered
<1>8. CASE /\ Asked1(p, q, op, desc)
           /\ \/ m.type = "user-joined" /\ desc = None /\ op = "createOffer"
              \/ m.type = "offer" /\ desc \in Description /\ op = "setRemoteOffer"
              \/ m.type = "answer" /\ desc \in Description /\ op = "setRemoteAnswer"
              \/ m.type = "ice-candidate" /\ desc \in Description /\ op = "addCandidate"
  <2>1. PICK o : o = [op |-> op, desc |-> desc]
    OBVIOUS
  <2>2. o \in SoundOp /\ Grew(Link(p, q).chain, Link(p, q)'.chain, o)
    BY <1>8, <2>1 DEF Asked1, SoundOp, Operation, Remote
  <2>3. (o \in Ops(Adding) <=> m.type = "ice-candidate") /\ (o \in Ops(Describing) <=> m.type \in {"offer", "answer"})
    BY <1>8, <2>1, <2>2, InOps DEF Adding, Describing
  <2>4. /\ Does(p, q, Describing)' <=> Does(p, q, Describing) \/ m.type \in {"offer", "answer"}
        /\ ChainOrder(p, q) /\ (m.type = "ice-candidate" => Does(p, q, Describing)) => ChainOrder(p, q)'
    BY <2>2, <2>3 DEF Grew, Does, ChainOrder
  <2>5. Heard(p, q) => Heard(p, q)'
    BY <1>8 DEF Heard, Asked1, LinkAsked
  <2>6. Link(q, p)'.gather = Link(q, p).gather
    BY <1>2
  <2>7. Ordered(p, q)'
    BY <1>2, <1>6, <2>4, <2>5, <2>6 DEF Ordered, Expects
  <2> QED
    BY <1>4, <2>7
<1>9. m \in Signal => m.desc \in Description
  BY DEF Signal
<1> QED
  BY <1>1, <1>7, <1>8, <1>9

(* A notice is no candidate. *)
LEMMA HearsOrder ==
  ASSUME NEW p \in Peers, NEW q \in Peers \ {p}, Ordered(p, q), Ordered(q, p), Hears(p, q)
  PROVE  Ordered(p, q)' /\ Ordered(q, p)'
<1>1. PICK n \in From(q, {"user-joined"}) : IF tab[p].ws THEN Grew(inbox[p], inbox'[p], n) ELSE SameMail(p, q)
  BY DEF Hears
<1>2. n \notin From(q, Candidates) /\ n \notin From(q, Descriptions)
  BY DEF From, Candidates, Descriptions
<1>3. MailOn(p, q)
  BY <1>1, <1>2, OrderFacts DEF Grew, MailOn, MailOrder, Gets
<1>4. /\ SamePage(p) /\ SamePage(q) /\ ChainOn(p, q) /\ ChainOn(q, p) /\ MailOn(q, p)
      /\ Link(p, q)' = Link(p, q) /\ Link(q, p)' = Link(q, p)
  BY OrderFacts DEF Hears, Kept, SameLink
<1> QED
  BY <1>3, <1>4, OrderedOn

(* Whatever happens between two users, candidates come after descriptions. *)
LEMMA MovesOrder ==
  ASSUME Quiet, NEW p \in Peers, NEW q \in Peers \ {p}, Agreed(p, q), Pact(p, q),
         Ordered(p, q), Ordered(q, p), Moves(p, q)
  PROVE  Ordered(p, q)' /\ Ordered(q, p)'
<1>1. CASE Comes(p, q)
  <2>1. \A A \in SUBSET Talk(p) : Some(inbox[q], A) => Some(inbox[q], Talk(p))
    BY DEF Some
  <2>2. Empty(p, q)' /\ Empty(q, p)' /\ entry'[p][q] = 0 /\ entry'[q][p] = 0
    BY <1>1, <2>1 DEF Comes, Empty, SameLink
  <2> QED
    BY <2>2, EmptyOrder
<1>2. CASE Goes(p, q)
  <2>1. Empty(p, q)' /\ ~tab'[p].ws
    BY <1>2, NothingIn DEF Goes, Empty
  <2>2. Ordered(p, q)'
    BY <2>1, EmptyOrder
  <2>3. SamePage(q) /\ ChainOn(q, p) /\ MailOn(q, p)
    BY <1>2, OrderFacts DEF Goes, Kept
  <2>4. ~Link(p, q)'.gather
    BY <1>2 DEF Goes, Link, NoLink
  <2> QED
    BY <2>2, <2>3, <2>4, OrderedOn
<1>3. CASE Drops(p, q)
  <2>1. Empty(p, q)' /\ entry'[p][q] = 0
    BY <1>3 DEF Drops, Empty
  <2>2. inbox[q] = <<>> /\ entry[q][p] = 0
    BY <1>3 DEF Quiet, Base, Off, Drops
  <2>3. Empty(q, p)
    BY <2>2, NothingIn DEF Empty
  <2>4. Empty(q, p)'
    BY <1>3, <2>3 DEF Drops, Kept, SameLink, SameMail, Alike, Empty
  <2>5. entry'[q][p] = 0
    BY <2>4 DEF Empty
  <2> QED
    BY <2>1, <2>4, <2>5, EmptyOrder
<1> QED
  BY <1>1, <1>2, <1>3, ActsOrder, SendsOrder, TakesOrder, HearsOrder DEF Moves, Quiet

(* Candidates come after descriptions for every pair, after every step      *)
(* without a fault.                                                         *)
LEMMA OrderStep ==
  ASSUME Quiet, Views, \A p, q \in Peers : p # q => Agreed(p, q) /\ Pact(p, q) /\ Ordered(p, q)
  PROVE  \A p, q \in Peers : p # q => Ordered(p, q)'
<1> SUFFICES ASSUME NEW p \in Peers, NEW q \in Peers, p # q PROVE Ordered(p, q)'
  OBVIOUS
<1>1. View(p, q) /\ Agreed(p, q) /\ Agreed(q, p) /\ Pact(p, q) /\ Pact(q, p) /\ Ordered(p, q) /\ Ordered(q, p)
  BY DEF Views
<1>2. CASE Kept(p, q) /\ Kept(q, p)
  <2>1. SamePage(p) /\ ChainOn(p, q) /\ MailOn(p, q) /\ Link(q, p)' = Link(q, p)
    BY <1>2, OrderFacts DEF Kept, SameLink
  <2> QED
    BY <1>1, <2>1, OrderedOn
<1> QED
  BY <1>1, <1>2, MovesOrder DEF View

--------------------------------------------------------------------------------
(* Descriptions without tracks, and the tiles.                              *)

(* What p has of q that offers no tracks: then one of the two had no camera   *)
(* when it made its connection.                                             *)
DarkMail(q) == {m \in Signal : m.from = q /\ ~m.desc.media}
DarkOps     == {o \in SoundOp : o.op \in Remote /\ ~o.desc.media}
Dark(p, q) == \/ Some(inbox[p], DarkMail(q)) \/ Some(Link(p, q).chain, DarkOps)
              \/ Link(p, q).remote \in Description /\ ~Link(p, q).remote.media
Lit(p, q) ==
  tab[q].ws /\ Dark(p, q) => ~Link(q, p).tracks \/ (entry[p][q] # 0 /\ ~Link(p, q).tracks)

(* A description without tracks is talk. *)
LEMMA DarkTalk == \A q : DarkMail(q) \subseteq Talk(q)
BY DEF DarkMail, Talk, From, Message, Signal

(* Nothing happens, and nobody is darker. *)
LEMMA KeptDark == ASSUME NEW p, NEW q, SameLink(p, q), SameMail(p, q) PROVE Dark(p, q)' => Dark(p, q)
BY DarkTalk DEF SameLink, SameMail, Alike, Dark

(* Who has nothing of q has nothing dark of q. *)
LEMMA EmptyDark == ASSUME NEW p, NEW q PROVE Empty(p, q)' => ~Dark(p, q)'
BY DarkTalk, NothingIn, NoneAssumption DEF Empty, Dark, Link, NoLink

(* Who has no connection is dark to nobody. *)
LEMMA NothingDark ==
  ASSUME TypeInv, NEW p \in Peers, NEW q \in Peers, Same(p, q), tab[q].ws, entry[q][p] = 0
  PROVE  ~Dark(p, q)
<1>1. Holds(p, q, Me(q, 0))
  BY DEF Same
<1>2. \A x : Holds(p, q, x)
  BY <1>1, Nothing
<1>3. \A y \in Party : y # Me(q, 0)
  BY DEF Party, Me
<1>4. DarkMail(q) \subseteq Foreign(q, Me(q, 0)) /\ DarkOps \subseteq Alien(Me(q, 0))
  BY <1>3 DEF DarkMail, Foreign, DarkOps, Alien, Signal, SoundOp, Description
<1>5. Link(p, q).remote \notin Description
  BY <1>1, <1>3 DEF Holds, Description
<1> QED
  BY <1>1, <1>4, <1>5 DEF Holds, Dark, Some

(* An operation of p's brings nothing dark of q that was not there. *)
LEMMA OwnDark ==
  ASSUME NEW p, NEW q, SameMail(p, q), NEW o \in SoundOp,
         \/ Drafts(p, q, o) \/ Adopts(p, q, o) \/ Writes(p, q, o) \/ Agrees(p, q, o) \/ Adds(p, q, o)
         \/ Fails(p, q, o) \/ Offers(p, q, o) \/ Answers(p, q, o)
  PROVE  Dark(p, q)' => Dark(p, q)
<1>1. Some(inbox'[p], DarkMail(q)) <=> Some(inbox[p], DarkMail(q))
  BY DarkTalk DEF SameMail, Alike
<1>2. /\ o \in DarkOps => Some(Link(p, q).chain, DarkOps)
      /\ Some(Link(p, q)'.chain, DarkOps) => Some(Link(p, q).chain, DarkOps)
  <2>1. CASE Ends(p, q, o)
    BY <2>1 DEF Ends, Shrank
  <2>2. ASSUME NEW op \in {"setOffer", "createAnswer", "setAnswer"}, Follows(p, q, o, op)
        PROVE  /\ o \in DarkOps => Some(Link(p, q).chain, DarkOps)
               /\ Some(Link(p, q)'.chain, DarkOps) => Some(Link(p, q).chain, DarkOps)
    <3>1. [op |-> op, desc |-> None] \notin DarkOps
      BY DEF DarkOps, Remote
    <3> QED
      BY <2>2, <3>1 DEF Follows, Shrank, Grew
  <2> QED
    BY <2>1, <2>2 DEF Drafts, Adopts, Writes, Agrees, Adds, Fails, Offers, Answers
<1>3. Link(p, q)'.remote = Link(p, q).remote \/ (Link(p, q)'.remote = o.desc /\ o.op \in Remote)
  BY DEF Drafts, Adopts, Writes, Agrees, Adds, Fails, Offers, Answers, Shape, Remote
<1> QED
  BY <1>1, <1>2, <1>3 DEF Dark, DarkOps

(* An operation that sends nothing. *)
LEMMA ActsLit ==
  ASSUME NEW p \in Peers, NEW q \in Peers \ {p}, Lit(p, q), Lit(q, p), Acts(p, q)
  PROVE  Lit(p, q)' /\ Lit(q, p)'
<1>1. PICK o \in SoundOp : \/ Drafts(p, q, o) \/ Adopts(p, q, o) \/ Writes(p, q, o)
                           \/ Agrees(p, q, o) \/ Adds(p, q, o) \/ Fails(p, q, o)
  BY DEF Acts
<1>2. SamePage(p) /\ SamePage(q) /\ SameMail(p, q) /\ SameMail(q, p) /\ SameLink(q, p)
  BY DEF Acts, Kept
<1>3. Link(p, q)'.tracks = Link(p, q).tracks /\ entry'[p][q] = entry[p][q]
  BY <1>1 DEF Drafts, Adopts, Writes, Agrees, Adds, Fails, Shape
<1>4. (Dark(p, q)' => Dark(p, q)) /\ (Dark(q, p)' => Dark(q, p))
  BY <1>1, <1>2, OwnDark, KeptDark
<1> QED
  BY <1>2, <1>3, <1>4 DEF Lit, SamePage, SameLink

(* A description without tracks is sent only by who has none, or answers    *)
(* who has none.                                                            *)
LEMMA SendsLit ==
  ASSUME TypeInv, NEW p \in Peers, NEW q \in Peers \ {p}, Agreed(p, q), Lit(p, q), Lit(q, p), Sends(p, q)
  PROVE  Lit(p, q)' /\ Lit(q, p)'
<1>1. PICK type, desc :
        /\ Posts(p, q, type, desc)
        /\ \/ desc.media = Link(p, q).tracks
           \/ desc.media = (Link(p, q).tracks /\ Link(p, q).remote.media) /\ Link(p, q).sig = "answering"
        /\ Link(p, q)'.tracks = Link(p, q).tracks /\ entry'[p][q] = entry[p][q] /\ entry[p][q] # 0
  BY DEF Sends, Offers, Answers, Trickles, Shape, OfferOf, AnswerOf
<1>2. SamePage(p) /\ SamePage(q) /\ SameMail(p, q) /\ SameLink(q, p)
  BY <1>1 DEF Sends, Posts
<1>3. Dark(p, q)' => Dark(p, q)
  <2>1. CASE Trickles(p, q)
    BY <1>2, <2>1, DarkTalk DEF Trickles, Shape, Dark, SameMail, Alike
  <2> QED
    BY <1>2, <2>1, OwnDark DEF Sends
<1>4. Lit(p, q)'
  BY <1>1, <1>2, <1>3 DEF Lit, SamePage, SameLink
<1>5. tab[q].ws /\ ~desc.media => ~Link(p, q).tracks \/ (entry[q][p] # 0 /\ ~Link(q, p).tracks)
  <2> SUFFICES ASSUME tab[q].ws, Link(p, q).sig = "answering", ~Link(p, q).remote.media, Link(p, q).tracks
               PROVE  entry[q][p] # 0 /\ ~Link(q, p).tracks
    BY <1>1
  <2>1. Dark(p, q)
    BY LinkSound DEF Dark
  <2> QED
    BY <2>1, NothingDark DEF Agreed, Lit
<1>6. Dark(q, p)' => Dark(q, p) \/ (tab[q].ws /\ ~desc.media)
  <2>1. CASE ~tab[q].ws
    BY <1>1, <1>2, <2>1, KeptDark DEF Posts
  <2>2. CASE tab[q].ws
    <3>1. PICK m : m = [type |-> type, from |-> p, desc |-> desc] /\ Grew(inbox[q], inbox'[q], m)
      BY <1>1, <2>2 DEF Posts
    <3>2. m \in DarkMail(p) => ~desc.media
      BY <3>1 DEF DarkMail
    <3> QED
      BY <1>2, <2>2, <3>1, <3>2 DEF Grew, Dark, SameLink
  <2> QED
    BY <2>1, <2>2
<1>7. Lit(q, p)'
  BY <1>1, <1>2, <1>5, <1>6 DEF Lit, SamePage, SameLink
<1> QED
  BY <1>4, <1>7

(* A connection made by a handler has the tracks the page has. *)
LEMMA TakesLit ==
  ASSUME TypeInv, NEW p \in Peers, NEW q \in Peers \ {p}, Agreed(q, p), Lit(p, q), Lit(q, p), Takes(p, q)
  PROVE  Lit(p, q)' /\ Lit(q, p)'
<1>1. PICK m, op, desc :
        /\ m \in Talk(q) /\ Shrank(inbox[p], inbox'[p], m)
        /\ \/ m.type = "user-joined" /\ op = "createOffer" /\ Asked1(p, q, op, desc)
           \/ m \in Signal /\ desc = m.desc /\ op \in Remote /\ Asked1(p, q, op, desc)
           \/ SameLink(p, q)
  BY DEF Takes, Remote
<1>2. /\ SamePage(p) /\ SamePage(q) /\ SameMail(q, p) /\ SameLink(q, p) /\ tab[p].ws
      /\ entry'[q][p] = entry[q][p] /\ Link(q, p)' = Link(q, p)
  BY DEF Takes, Kept, SameLink
<1>3. Dark(p, q)' => Dark(p, q)
  <2>1. /\ Some(inbox'[p], DarkMail(q)) => Some(inbox[p], DarkMail(q))
        /\ m \in DarkMail(q) => Some(inbox[p], DarkMail(q))
    BY <1>1 DEF Shrank
  <2>2. [op |-> op, desc |-> desc] \in DarkOps => op \in Remote /\ ~desc.media
    BY DEF DarkOps
  <2>3. m \in Signal /\ ~m.desc.media => m \in DarkMail(q)
    BY <1>1 DEF DarkMail, Talk, From
  <2>4. /\ Some(Link(p, q)'.chain, DarkOps) => \/ Some(Link(p, q).chain, DarkOps)
                                               \/ m \in Signal /\ ~m.desc.media
        /\ Link(p, q)'.remote = Link(p, q).remote
    BY <1>1, <2>2 DEF SameLink, Asked1, LinkAsked, Grew, Remote
  <2> QED
    BY <2>1, <2>3, <2>4 DEF Dark
<1>4. \/ entry'[p][q] = entry[p][q] /\ Link(p, q)'.tracks = Link(p, q).tracks
      \/ entry[p][q] = 0
  BY <1>1 DEF SameLink, Asked1, LinkAsked
<1>5. Lit(p, q)'
  BY <1>2, <1>3, <1>4 DEF Lit, SamePage
<1>6. Dark(q, p)' => Dark(q, p)
  BY <1>2, KeptDark
<1>7. entry[p][q] = 0 => ~Dark(q, p)
  BY <1>2, NothingDark DEF Agreed
<1>8. Lit(q, p)'
  BY <1>2, <1>4, <1>6, <1>7 DEF Lit, SamePage
<1> QED
  BY <1>5, <1>8

(* A notice is no description. *)
LEMMA HearsLit ==
  ASSUME NEW p \in Peers, NEW q \in Peers \ {p}, Lit(p, q), Lit(q, p), Hears(p, q)
  PROVE  Lit(p, q)' /\ Lit(q, p)'
<1>1. PICK n \in From(q, {"user-joined"}) : IF tab[p].ws THEN Grew(inbox[p], inbox'[p], n) ELSE SameMail(p, q)
  BY DEF Hears
<1>2. n \notin DarkMail(q)
  BY DEF DarkMail, Signal, From
<1>3. SamePage(p) /\ SamePage(q) /\ SameLink(p, q) /\ SameLink(q, p) /\ SameMail(q, p)
  BY DEF Hears, Kept
<1>4. Dark(p, q)' => Dark(p, q)
  BY <1>1, <1>2, <1>3, KeptDark DEF Grew, Dark, SameLink
<1>5. Dark(q, p)' => Dark(q, p)
  BY <1>3, KeptDark
<1> QED
  BY <1>3, <1>4, <1>5 DEF Lit, SamePage, SameLink

(* Whatever happens between two users, dark descriptions have their reason. *)
LEMMA MovesLit ==
  ASSUME Quiet, NEW p \in Peers, NEW q \in Peers \ {p}, Agreed(p, q), Agreed(q, p), Lit(p, q), Lit(q, p), Moves(p, q)
  PROVE  Lit(p, q)' /\ Lit(q, p)'
<1>1. CASE Comes(p, q)
  <2>1. \A A \in SUBSET Talk(p) : Some(inbox[q], A) => Some(inbox[q], Talk(p))
    BY DEF Some
  <2>2. Empty(p, q)' /\ Empty(q, p)'
    BY <1>1, <2>1 DEF Comes, Empty, SameLink
  <2> QED
    BY <2>2, EmptyDark DEF Lit
<1>2. CASE Goes(p, q)
  <2>1. Empty(p, q)' /\ ~tab'[p].ws
    BY <1>2, NothingIn DEF Goes, Empty
  <2> QED
    BY <2>1, EmptyDark DEF Lit
<1>3. CASE Drops(p, q)
  <2>1. Empty(p, q)'
    BY <1>3 DEF Drops, Empty
  <2>2. ~tab'[q].ws
    BY <1>3 DEF Drops, Kept, SamePage
  <2>3. inbox[q] = <<>> /\ entry[q][p] = 0
    BY <1>3 DEF Quiet, Base, Off, Drops
  <2>4. Empty(q, p)
    BY <2>3, NothingIn DEF Empty
  <2>5. Empty(q, p)'
    BY <1>3, <2>4 DEF Drops, Kept, SameLink, SameMail, Alike, Empty
  <2> QED
    BY <2>1, <2>5, EmptyDark DEF Lit
<1> QED
  BY <1>1, <1>2, <1>3, ActsLit, SendsLit, TakesLit, HearsLit DEF Moves, Quiet

(* Dark descriptions have their reason for every pair, after every step     *)
(* without a fault.                                                         *)
LEMMA LitStep ==
  ASSUME Quiet, Views, \A p, q \in Peers : p # q => Agreed(p, q) /\ Lit(p, q)
  PROVE  \A p, q \in Peers : p # q => Lit(p, q)'
<1> SUFFICES ASSUME NEW p \in Peers, NEW q \in Peers, p # q PROVE Lit(p, q)'
  OBVIOUS
<1>1. View(p, q) /\ Agreed(p, q) /\ Agreed(q, p) /\ Lit(p, q) /\ Lit(q, p)
  BY DEF Views
<1>2. CASE Kept(p, q) /\ Kept(q, p)
  BY <1>1, <1>2, KeptDark DEF Kept, SameLink, SamePage, Lit
<1> QED
  BY <1>1, <1>2, MovesLit DEF View

(* The video of whom a connection has a description with tracks is shown. *)
ShownOf(p, q) ==
  tab[q].ws /\ Link(p, q).remote \in Description /\ Link(p, q).remote.media => q \in tiles[p]

(* A connection is new, or is the one it was. *)
LEMMA LinkView ==
  ASSUME NEW p \in Peers, NEW q \in Peers \ {p}, View(p, q)
  PROVE  /\ \/ entry'[p][q] = 0 \/ entry'[p][q] = entry[p][q]
            \/ Link(p, q)'.remote = Link(p, q).remote
         /\ tab'[q].ws /\ entry'[p][q] # 0 => tab[q].ws
<1>1. CASE Kept(p, q) /\ Kept(q, p)
  BY <1>1 DEF Kept, SameLink, SamePage
<1>2. CASE Moves(p, q)
  <2>1. CASE Acts(p, q)
    BY <2>1 DEF Acts, Kept, SamePage, Drafts, Adopts, Writes, Agrees, Adds, Fails, Shape
  <2>2. CASE Sends(p, q)
    BY <2>2 DEF Sends, Offers, Answers, Trickles, Posts, Shape, SamePage
  <2>3. CASE Takes(p, q)
    BY <2>3 DEF Takes, Kept, SamePage, SameLink, Asked1, LinkAsked
  <2>4. CASE Comes(p, q) \/ Goes(p, q) \/ Hears(p, q) \/ Drops(p, q)
    BY <2>4 DEF Comes, Goes, Hears, Drops, Kept, SamePage, SameLink
  <2> QED
    BY <1>2, <2>1, <2>2, <2>3, <2>4 DEF Moves
<1>3. CASE Moves(q, p)
  BY <1>3 DEF Moves, Comes, Goes, Hears, Takes, Drops, Acts, Sends, Posts, Offers, Answers, Trickles, Kept,
     SameLink, SamePage
<1> QED
  BY <1>1, <1>2, <1>3 DEF View

(* A tile goes with the connection. *)
LEMMA TilesStay ==
  ASSUME TypeInv, [Next]_vars, NEW p \in Peers, NEW q \in tiles[p], q \notin tiles'[p]
  PROVE  entry'[p][q] = 0
<1>1. tiles \in [Peers -> SUBSET Peers] /\ entry \in [Peers -> [Peers -> Nat]]
  BY DEF TypeInv, RestInv, EntryInv
<1>2. ASSUME NEW r \in Peers, PageStep(r) PROVE entry'[p][q] = 0
  <2>1. CASE ClosePage(r)
    <3>1. r = p
      BY <1>1, <2>1 DEF ClosePage
    <3> QED
      BY <1>1, <2>1, <3>1 DEF ClosePage
  <2> QED
    BY <1>2, <2>1 DEF PageStep, OpenPage, SocketOpens, SocketFails, MediaArrives, MediaRefused, LoseSocket
<1>3. ASSUME NEW r \in Peers, Handle(r) PROVE entry'[p][q] = 0
  <2>1. CASE HandleUserLeft(r)
    BY <1>1, <2>1 DEF HandleUserLeft
  <2> QED
    BY <1>3, <2>1 DEF Handle, HandleUserJoined, HandleOffer, HandleAnswer, HandleIceCandidate, Asks
<1>4. ASSUME NEW r \in Peers, NEW k, Perform(r, k) \/ SendCandidate(r, k) \/ ConnectionFails(r, k) PROVE FALSE
  <2>1. ASSUME SetRemoteOffer(r, k) \/ SetRemoteAnswer(r, k) PROVE FALSE
    BY <1>1, <2>1 DEF SetRemoteOffer, SetRemoteAnswer, Shown
  <2> QED
    BY <1>4, <2>1 DEF Perform, CreateOffer, SetOffer, CreateAnswer, SetAnswer, AddCandidate, WrongState, Refused,
                     SendCandidate, ConnectionFails
<1>5. ASSUME NEW r \in Peers, HubUnregister(r) PROVE FALSE
  BY <1>5 DEF HubUnregister, browser
<1>6. CASE HubBroadcast
  BY <1>6 DEF HubBroadcast, browser
<1>7. CASE UNCHANGED vars
  BY <1>7 DEF vars, browser
<1> QED
  BY <1>2, <1>3, <1>4, <1>5, <1>6, <1>7 DEF Next

(* A description that is set shows its peer. *)
LEMMA SetShows ==
  ASSUME TypeInv, NEW p \in Peers, NEW k \in DOMAIN pcs[p], SetRemoteOffer(p, k) \/ SetRemoteAnswer(p, k),
         pcs'[p][k].remote.media
  PROVE  pcs[p][k].peer \in tiles'[p]
<1>1. pcs \in [Peers -> Seq(SoundConn)] /\ tiles \in [Peers -> SUBSET Peers] /\ pcs[p][k] \in SoundConn
  BY EntrySound DEF TypeInv, RestInv, PcsInv
<1>2. PICK c, next : Performed(p, k, c, next) /\ c \in Connection /\ c.remote = Given(p, k)
  <2>1. Given(p, k) \in Description
    BY GivenSound DEF SetRemoteOffer, SetRemoteAnswer, Performs, Remote
  <2>2. /\ [pcs[p][k] EXCEPT !.sig = "answering", !.remote = Given(p, k)] \in Connection
        /\ [pcs[p][k] EXCEPT !.sig = "answering", !.remote = Given(p, k)].remote = Given(p, k)
        /\ [pcs[p][k] EXCEPT !.sig = "stable", !.remote = Given(p, k)] \in Connection
        /\ [pcs[p][k] EXCEPT !.sig = "stable", !.remote = Given(p, k)].remote = Given(p, k)
    BY <1>1, <2>1 DEF SoundConn, Connection
  <2> QED
    BY <2>2 DEF SetRemoteOffer, SetRemoteAnswer
<1>3. pcs'[p][k].remote = Given(p, k)
  BY <1>1, <1>2 DEF Performed, Connection
<1> QED
  BY <1>1, <1>3 DEF SetRemoteOffer, SetRemoteAnswer, Shown

(* The tiles agree with the descriptions for every pair, after every step   *)
(* without a fault.                                                         *)
LEMMA ShownStep ==
  ASSUME Quiet, Quiet', Views, [Next]_vars, \A p, q \in Peers : p # q => ShownOf(p, q)
  PROVE  \A p, q \in Peers : p # q => ShownOf(p, q)'
<1> SUFFICES ASSUME NEW p \in Peers, NEW q \in Peers, p # q,
                    tab'[q].ws, Link(p, q)'.remote \in Description, Link(p, q)'.remote.media
             PROVE  q \in tiles'[p]
  BY DEF ShownOf
<1>1. entry'[p][q] # 0
  BY NoneAssumption DEF Link, NoLink
<1>2. tab[q].ws /\ (entry'[p][q] = entry[p][q] \/ Link(p, q)'.remote = Link(p, q).remote)
  BY <1>1, LinkView DEF Views
<1>3. CASE Link(p, q)'.remote = Link(p, q).remote
  <2>1. q \in tiles[p]
    BY <1>2, <1>3 DEF ShownOf
  <2> QED
    BY <1>1, <2>1, TilesStay DEF Quiet
<1>4. CASE Link(p, q)'.remote # Link(p, q).remote
  <2>1. PICK k : k = entry[p][q] /\ k = entry'[p][q] /\ k # 0
    BY <1>1, <1>2, <1>4
  <2>2. k \in DOMAIN pcs[p] /\ Link(p, q) = pcs[p][k] /\ pcs[p][k].peer = q
    <3>1. TypeInv /\ entry[p][q] # 0
      BY <2>1 DEF Quiet
    <3>2. /\ entry[p][q] \in DOMAIN pcs[p] /\ Link(p, q) = pcs[p][entry[p][q]]
          /\ pcs[p][entry[p][q]].peer = q
      BY ONLY <3>1, LinkSound, p \in Peers, q \in Peers
    <3> QED
      BY <2>1, <3>2
  <2>3. k \in DOMAIN pcs'[p]
    BY <2>1 DEF Quiet, TypeInv, EntryInv
  <2>4. Link(p, q)' = pcs'[p][k]
    BY <2>1 DEF Link
  <2>5. SetRemoteOffer(p, k) \/ SetRemoteAnswer(p, k)
    BY <1>4, <2>2, <2>3, <2>4, RemoteStep
  <2> QED
    BY <2>2, <2>4, <2>5, SetShows DEF Quiet
<1> QED
  BY <1>3, <1>4

--------------------------------------------------------------------------------
(* The invariant of pairs, and what follows from it.                        *)

(* While nothing is lost, the pages of any two users agree. *)
Pair(p, q) == Agreed(p, q) /\ Pact(p, q) /\ Ordered(p, q) /\ Lit(p, q) /\ ShownOf(p, q)
Accord  == \A p, q \in Peers : p # q => Pair(p, q)
PairInv == TypeInv /\ TilesInv /\ (Readable /\ faults = 0 => Quiet /\ Accord)

(* Before anything has happened everything agrees. *)
LEMMA PairInit == Init => PairInv
<1> SUFFICES ASSUME Init PROVE PairInv
  OBVIOUS
<1>1. TypeInv /\ TilesInv
  BY TypeInit, TilesInit
<1>2. \A s : s = <<>> => \A A, B : ~Some(s, A) /\ Once(s, A) /\ Preceded(s, A, B) /\ NoneAfter(s, A, B)
  BY NothingIn
<1>3. ASSUME NEW p \in Peers PROVE Base(p)
  <2>1. /\ tab[p] = NoTab /\ pcs[p] = <<>> /\ member[p] = 0 /\ gone[p] = 0 /\ queue = <<>>
        /\ \A q \in Peers : inbox[q] = <<>> /\ entry[p][q] = 0
    BY DEF Init
  <2>2. Off(p) /\ Out(p) /\ Live(p) /\ EntryNews(p)
    BY <2>1 DEF Off, Out, Live, EntryNews
  <2>3. Others(p) /\ Farewell(p)
    BY <1>2, <2>1 DEF Others, Farewell
  <2> QED
    BY <2>2, <2>3 DEF Base
<1>4. ASSUME NEW p \in Peers, NEW q \in Peers PROVE Empty(p, q) /\ ~tab[p].ws
  <2>1. entry[p][q] = 0 /\ inbox[p] = <<>> /\ tab[p] = NoTab
    BY DEF Init
  <2> QED
    BY <1>2, <2>1 DEF Empty, NoTab
<1>5. ASSUME NEW p \in Peers, NEW q \in Peers PROVE Pair(p, q)
  <2>1. Empty(p, q) /\ Empty(q, p) /\ ~tab[p].ws /\ ~tab[q].ws
    BY <1>4
  <2>2. BlankPair(p, q) /\ BlankPair(q, p)
    BY <2>1, BlankEmpty
  <2>3. OneJoins(q) /\ ~Joins(q)
    BY <1>2 DEF Init, OneJoins, Joins, Queued
  <2>4. Agreed(p, q)
    BY <2>1, EmptyHolds DEF Agreed
  <2>5. Pact(p, q)
    <3>1. Exchange(p, q) /\ Local(p, q)
      BY <2>2, <2>3, Kinds DEF BlankPair, Exchange, Local
    <3>2. Asking(p, q) /\ Going(p, q)
      BY <2>1, <2>2 DEF BlankPair, Asking, Going
    <3> QED
      BY <3>1, <3>2 DEF Pact
  <2>6. Ordered(p, q)
    <3>1. Link(p, q).chain = <<>> /\ inbox[p] = <<>>
      BY <2>1 DEF Empty, Link, NoLink, Init
    <3> QED
      BY <1>2, <2>1, <3>1 DEF Ordered, ChainOrder, MailOrder
  <2>7. Lit(p, q) /\ ShownOf(p, q)
    BY <2>1 DEF Lit, ShownOf
  <2> QED
    BY <2>4, <2>5, <2>6, <2>7 DEF Pair
<1> QED
  BY <1>1, <1>3, <1>5 DEF PairInv, Quiet, Accord, TilesInv

(* Everything still agrees after a step, or something was lost. *)
LEMMA PairStep == Readable /\ PairInv /\ [Next]_vars => PairInv'
<1> SUFFICES ASSUME Readable, PairInv, [Next]_vars PROVE PairInv'
  OBVIOUS
<1>1. TypeInv' /\ TilesInv'
  BY TypeStep, TilesStep DEF PairInv
<1>2. ASSUME faults' = 0 PROVE Quiet' /\ Accord'
  <2>1. Quiet /\ \A p, q \in Peers : p # q => Agreed(p, q) /\ Pact(p, q) /\ Ordered(p, q) /\ Lit(p, q) /\ ShownOf(p, q)
    BY <1>2, NoFaultBefore DEF PairInv, Accord, Pair
  <2>2. Quiet' /\ Views
    BY <1>2, <2>1, QuietStep
  <2>3. \A p, q \in Peers : p # q => Agreed(p, q)'
    BY <2>1, <2>2, AgreedStep
  <2>4. \A p, q \in Peers : p # q => Pact(p, q)'
    BY <2>1, <2>2, PactStep
  <2>5. \A p, q \in Peers : p # q => Ordered(p, q)'
    BY <2>1, <2>2, OrderStep
  <2>6. \A p, q \in Peers : p # q => Lit(p, q)'
    BY <2>1, <2>2, LitStep
  <2>7. \A p, q \in Peers : p # q => ShownOf(p, q)'
    BY <2>1, <2>2, ShownStep
  <2>8. Accord'
    BY <2>3, <2>4, <2>5, <2>6, <2>7 DEF Accord, Pair
  <2> QED
    BY <2>2, <2>8
<1> QED
  BY <1>1, <1>2 DEF PairInv

(* handleOffer and handleAnswer of WebRTCManager never hand a connection to *)
(* another partner: for any users and any number of pages opened and        *)
(* closed, while nothing is lost, a description that they set is of the     *)
(* party whose description the connection had, and is no answer to another  *)
(* connection.                                                              *)
THEOREM OnePartnerHolds == Spec => OnePartner
<1> DEFINE Partner ==
      \A p \in Peers : Here(p) /\ tab'[p].n = tab[p].n =>
        \A k \in DOMAIN pcs[p] \cap DOMAIN pcs'[p] :
          LET r == pcs'[p][k].remote
          IN  r # pcs[p][k].remote =>
                /\ pcs[p][k].remote # None => r.of = pcs[p][k].remote.of
                /\ r.answers \in {None, Me(p, k)}
<1>1. CASE Readable
  <2>1. Init => PairInv
    BY PairInit
  <2>2. PairInv /\ [Next]_vars => PairInv'
    BY <1>1, PairStep
  <2>3. PairInv /\ [Next]_vars => Partner
    <3> SUFFICES ASSUME PairInv, [Next]_vars, NEW p \in Peers, faults = 0,
                        NEW k \in DOMAIN pcs[p] \cap DOMAIN pcs'[p], NEW r, r = pcs'[p][k].remote,
                        r # pcs[p][k].remote
                 PROVE  /\ pcs[p][k].remote # None => r.of = pcs[p][k].remote.of
                        /\ r.answers \in {None, Me(p, k)}
      BY DEF Here
    <3>1. Quiet /\ \A q \in Peers \ {p} : Agreed(p, q)
      BY <1>1 DEF PairInv, Accord, Pair
    <3>2. SetRemoteOffer(p, k) \/ SetRemoteAnswer(p, k)
      BY <3>1, RemoteStep
    <3> QED
      BY <3>1, <3>2, RemoteOfPartner
  <2> QED
    BY <2>1, <2>2, <2>3, PTL DEF Spec, OnePartner
<1>2. CASE ~Readable
  <2>1. Spec => []Alone
    BY <1>2, NobodyIsConnected
  <2>2. Alone => Partner
    BY DEF Alone
  <2> QED
    BY <2>1, <2>2, PTL DEF Spec, OnePartner
<1> QED
  BY <1>1, <1>2, ReadableAssumption

(* Only an operation in the wrong state sets the error of a handler. *)
LEMMA ErrorStep ==
  ASSUME TypeInv, [Next]_vars, NEW p \in Peers, tab[p].error # "handler", tab'[p].error = "handler"
  PROVE  \E k \in DOMAIN pcs[p] : WrongState(p, k)
<1>1. tab \in [Peers -> Tab] /\ \A r \in Peers : tab[r] \in Tab
  BY DEF TypeInv, RestInv
<1>2. ASSUME NEW r \in Peers, PageStep(r) PROVE FALSE
  <2>1. r = p
    BY <1>1, <1>2 DEF PageStep, OpenPage, SocketOpens, SocketFails, MediaArrives, MediaRefused, LoseSocket, ClosePage
  <2>2. CASE OpenPage(p) \/ ClosePage(p)
    BY <1>1, <2>2 DEF OpenPage, ClosePage, NoTab
  <2>3. CASE SocketOpens(p) \/ MediaArrives(p) \/ LoseSocket(p)
    BY <1>1, <2>3 DEF SocketOpens, MediaArrives, LoseSocket, Tab
  <2>4. CASE SocketFails(p) \/ MediaRefused(p)
    BY <1>1, <2>4 DEF SocketFails, MediaRefused, Tab
  <2> QED
    BY <1>2, <2>1, <2>2, <2>3, <2>4 DEF PageStep
<1>3. ASSUME tab' = tab PROVE FALSE
  BY <1>3
<1>4. ASSUME NEW r \in Peers, NEW k \in DOMAIN pcs[r], WrongState(r, k) PROVE r = p
  BY <1>1, <1>4 DEF WrongState, Refused
<1>5. ASSUME NEW r \in Peers, NEW k, Perform(r, k), ~WrongState(r, k) PROVE tab' = tab
  BY <1>5 DEF Perform, CreateOffer, SetOffer, SetRemoteOffer, CreateAnswer, SetAnswer, SetRemoteAnswer, AddCandidate
<1>6. ASSUME NEW r \in Peers, NEW k, SendCandidate(r, k) \/ ConnectionFails(r, k) PROVE tab' = tab
  BY <1>6 DEF SendCandidate, ConnectionFails
<1>7. ASSUME NEW r \in Peers, Handle(r) \/ HubUnregister(r) PROVE tab' = tab
  BY <1>7, Zenon DEF Handle, HandleUserJoined, HandleOffer, HandleAnswer, HandleIceCandidate, Asks,
     HandleUserLeft, HubUnregister, browser
<1>8. HubBroadcast \/ UNCHANGED vars => tab' = tab
  BY DEF HubBroadcast, vars, browser
<1> QED
  BY <1>2, <1>3, <1>4, <1>5, <1>6, <1>7, <1>8 DEF Next

(* A refused operation is off the chain. *)
LEMMA RefusedChanges ==
  ASSUME TypeInv, NEW p \in Peers, NEW k \in DOMAIN pcs[p], WrongState(p, k)
  PROVE  pcs'[p][k] # pcs[p][k]
<1>1. pcs \in [Peers -> Seq(SoundConn)] /\ pcs[p][k] \in SoundConn
  BY EntrySound DEF TypeInv, PcsInv
<1>2. pcs[p][k].chain \in Seq(SoundOp) /\ pcs[p][k].chain # <<>> /\ pcs[p][k] \in Connection
  BY <1>1 DEF SoundConn, WrongState
<1>3. pcs'[p][k].chain = Tail(pcs[p][k].chain) \o <<>>
  BY <1>1, <1>2 DEF WrongState, Refused, Performed, Connection
<1>4. Len(Tail(pcs[p][k].chain) \o <<>>) # Len(pcs[p][k].chain)
  BY <1>2
<1> QED
  BY <1>3, <1>4

(* An operation is refused only after a glare. *)
LEMMA RefusedInGlare ==
  ASSUME Quiet, Accord, NEW p \in Peers, NEW k \in DOMAIN pcs[p], WrongState(p, k)
  PROVE  pcs[p][k].told /\ pcs[p][k].offered
<1>1. PICK q, o : q = pcs[p][k].peer /\ o = Head(pcs[p][k].chain)
  OBVIOUS
<1>2. pcs[p][k].chain # <<>>
  BY DEF WrongState
<1>3. /\ q \in Peers /\ q # p /\ tab[p].ws /\ Link(p, q) = pcs[p][k] /\ entry[p][q] # 0
      /\ pcs[p][k].chain \in Seq(SoundOp)
  BY <1>1, <1>2, Busy DEF SoundConn
<1>4. Agreed(p, q) /\ Pact(p, q) /\ Ordered(p, q)
  BY <1>3 DEF Accord, Pair
<1>5. o \in SoundOp /\ \A O : o.op \in O => Does(p, q, O)
  <2>1. o \in SoundOp /\ 1 \in DOMAIN pcs[p][k].chain /\ pcs[p][k].chain[1] = o
    BY <1>1, <1>2, <1>3
  <2> QED
    BY <1>3, <2>1, InOps DEF Does, Some
<1>6. CASE o.op \in Offering /\ pcs[p][k].sig = "answering"
  BY <1>3, <1>4, <1>5, <1>6 DEF Pact, Local
<1>7. CASE o.op \in Answering /\ pcs[p][k].sig # "answering"
  BY <1>3, <1>4, <1>5, <1>7 DEF Pact, Local
<1>8. CASE o.op \in Agreeing /\ pcs[p][k].sig # "offering"
  BY <1>3, <1>4, <1>5, <1>8 DEF Pact, Asking, HadOffer, Underway
<1>9. CASE o.op \in Adding /\ ~Fits(p, k)
  <2>1. ~ChainOrder(p, q)
    <3>1. o \in Ops(Adding)
      BY <1>5, <1>9, InOps
    <3>2. pcs[p][k].chain[1] = o /\ 1 \in DOMAIN pcs[p][k].chain /\ DOMAIN pcs[p][k].chain \subseteq Nat \ {0}
      BY <1>1, <1>2, <1>3, SeqKeeps
    <3>3. \A i \in DOMAIN pcs[p][k].chain : ~(i < 1)
      BY <3>2
    <3> QED
      BY <1>3, <3>1, <3>2, <3>3 DEF ChainOrder, Preceded
  <2>2. Heard(p, q)
    BY <1>4, <2>1 DEF Ordered
  <2>3. CASE Link(p, q).remote # None
    <3>1. PICK x : Holds(p, q, x)
      BY <1>4 DEF Agreed, Same
    <3>2. Link(p, q).remote \in Description
      BY <1>3, <2>3, LinkSound DEF Quiet
    <3>3. o.op \in Remote
      BY <1>9 DEF Adding, Remote
    <3>4. o \notin Alien(x)
      BY <1>1, <1>2, <1>3, <3>1 DEF Holds, Some
    <3>5. o.desc.of = x /\ Link(p, q).remote.of = x
      BY <1>5, <3>1, <3>2, <3>3, <3>4 DEF Holds, Alien
    <3> QED
      BY <1>1, <1>3, <1>9, <2>3, <3>5 DEF Fits, Given
  <2> QED
    BY <1>3, <2>2, <2>3 DEF Heard
<1> QED
  BY <1>1, <1>6, <1>7, <1>8, <1>9 DEF WrongState, Performs, Offering, Answering, Agreeing, Adding

(* A page shows the error screen for a signaling message only in a glare,   *)
(* or once something was lost or the peer has left its page: otherwise no   *)
(* interleaving of the awaits in the handlers of WebRTCManager makes a      *)
(* connection refuse an operation.                                          *)
THEOREM ErrorsHaveReasonsHold == Spec => ErrorsHaveReasons
<1> DEFINE Reasons ==
      \A p \in Peers : tab[p].error # "handler" /\ tab'[p].error = "handler" =>
        \E k \in DOMAIN pcs[p] :
          /\ pcs'[p][k] # pcs[p][k]
          /\ \/ pcs[p][k].told /\ pcs[p][k].offered
             \/ ~Here(p) \/ ~Here(pcs[p][k].peer)
<1>1. CASE Readable
  <2>1. Init => PairInv
    BY PairInit
  <2>2. PairInv /\ [Next]_vars => PairInv'
    BY <1>1, PairStep
  <2>3. PairInv /\ [Next]_vars => Reasons
    <3> SUFFICES ASSUME PairInv, [Next]_vars, NEW p \in Peers,
                        tab[p].error # "handler", tab'[p].error = "handler"
                 PROVE  \E k \in DOMAIN pcs[p] :
                          /\ pcs'[p][k] # pcs[p][k]
                          /\ \/ pcs[p][k].told /\ pcs[p][k].offered
                             \/ ~Here(p) \/ ~Here(pcs[p][k].peer)
      OBVIOUS
    <3>1. PICK k \in DOMAIN pcs[p] : WrongState(p, k)
      BY ErrorStep DEF PairInv
    <3>2. pcs'[p][k] # pcs[p][k]
      BY <3>1, RefusedChanges DEF PairInv
    <3>3. CASE faults = 0
      BY <1>1, <3>1, <3>2, <3>3, RefusedInGlare DEF PairInv
    <3> QED
      BY <3>2, <3>3 DEF Here
  <2> QED
    BY <2>1, <2>2, <2>3, PTL DEF Spec, ErrorsHaveReasons
<1>2. CASE ~Readable
  <2>1. Spec => []Alone
    BY <1>2, NobodyIsConnected
  <2>2. Init => TypeInv
    BY TypeInit
  <2>3. TypeInv /\ [Next]_vars => TypeInv'
    BY TypeStep
  <2>4. TypeInv /\ Alone /\ [Next]_vars => Reasons
    <3> SUFFICES ASSUME TypeInv, Alone, [Next]_vars, NEW p \in Peers,
                        tab[p].error # "handler", tab'[p].error = "handler"
                 PROVE  FALSE
      OBVIOUS
    <3>1. PICK k \in DOMAIN pcs[p] : WrongState(p, k)
      BY ErrorStep
    <3> QED
      BY <3>1 DEF Alone
  <2> QED
    BY <2>1, <2>2, <2>3, <2>4, PTL DEF Spec, ErrorsHaveReasons
<1> QED
  BY <1>1, <1>2, ReadableAssumption

(* Nothing is under way between settled pages. *)
LEMMA SettledFacts ==
  ASSUME Settled, TypeInv, NEW p \in Peers, NEW q \in Peers
  PROVE  ~Joins(q) /\ (\A T : ~Gets(p, q, T)) /\ \A O : ~Does(p, q, O)
<1>1. queue = <<>> /\ inbox[p] = <<>>
  BY DEF Settled
<1>2. Link(p, q).chain = <<>>
  <2>1. entry[p][q] # 0 => entry[p][q] \in DOMAIN pcs[p] /\ Link(p, q) = pcs[p][entry[p][q]]
    BY LinkSound
  <2> QED
    BY <2>1 DEF Settled, Link, NoLink
<1> QED
  BY <1>1, <1>2, NothingIn DEF Joins, Queued, Gets, Does

(* Settled pages have connections to each other. *)
LEMMA SettledEntries ==
  ASSUME Settled, TypeInv, NEW p \in Peers, NEW q \in Peers, tab[p].ws, tab[q].ws, Pact(p, q), Pact(q, p)
  PROVE  entry[p][q] # 0
<1>1. /\ ~Joins(q) /\ (\A T : ~Gets(p, q, T)) /\ \A O : ~Does(p, q, O)
      /\ ~Joins(p) /\ (\A T : ~Gets(q, p, T)) /\ \A O : ~Does(q, p, O)
  BY SettledFacts
<1>2. Link(p, q).told \/ Link(q, p).told
  BY <1>1 DEF Pact, Going, Tidings
<1>3. Link(p, q).offered \/ Link(q, p).offered
  BY <1>1, <1>2 DEF Pact, Going
<1>4. (Link(p, q).offered => Link(q, p).told) /\ (Link(q, p).offered => Link(p, q).told)
  BY DEF Pact, Asking, HadOffer
<1> QED
  BY <1>2, <1>3, <1>4 DEF Link, NoLink

(* With everything settled, all that was under way between two pages has    *)
(* been agreed on.                                                          *)
LEMMA SettledLinked ==
  ASSUME Settled, Quiet, Accord, NEW p \in Peers, NEW q \in Peers, p # q, tab[p].ws, tab[q].ws
  PROVE  entry[p][q] # 0 /\ (Linked(p, q) \/ Glare(p, q))
<1>1. TypeInv /\ Pair(p, q) /\ Pair(q, p)
  BY DEF Quiet, Accord
<1>2. entry[p][q] # 0 /\ entry[q][p] # 0
  BY <1>1, SettledEntries DEF Pair
<1>3. Link(p, q) = pcs[p][entry[p][q]] /\ Link(q, p) = pcs[q][entry[q][p]]
  BY <1>2 DEF Link
<1>4. /\ \A O : ~Does(p, q, O) /\ ~Does(q, p, O)
      /\ \A T : ~Gets(p, q, T) /\ ~Gets(q, p, T)
  BY <1>1, SettledFacts
<1>5. ASSUME ~(Link(p, q).told /\ Link(p, q).offered) PROVE Settles(p, q)
  BY <1>1, <1>2, <1>4, <1>5 DEF Pair, Pact, Local, Going, Underway
<1>6. ASSUME Settles(p, q) PROVE Linked(p, q)
  <2>1. Link(p, q).remote \in Description
    BY <1>1, <1>6, LinkSound DEF Settles
  <2>2. Link(p, q).remote.of = Me(q, entry[q][p])
    BY <1>1, <2>1 DEF Pair, Agreed, Same, Holds
  <2>3. ASSUME Link(p, q).tracks, Link(q, p).tracks PROVE q \in tiles[p]
    <3>1. Link(p, q).remote.media
      BY <1>1, <1>2, <2>1, <2>3 DEF Pair, Lit, Dark
    <3> QED
      BY <1>1, <2>1, <3>1 DEF Pair, ShownOf
  <2> QED
    BY <1>3, <1>6, <2>2, <2>3 DEF Linked, Settles
<1> QED
  BY <1>2, <1>3, <1>5, <1>6 DEF Glare

(* Once every handler of WebRTCManager has come to its end, nothing is      *)
(* under way and nothing was lost, any two pages in the room have           *)
(* connections to each other, agreed on by both and with both videos shown, *)
(* except after a glare.                                                    *)
THEOREM SettledHold == Spec => []SettledPagesAreLinked
<1>1. CASE Readable
  <2>1. Init => PairInv
    BY PairInit
  <2>2. PairInv /\ [Next]_vars => PairInv'
    BY <1>1, PairStep
  <2>3. PairInv => SettledPagesAreLinked
    <3> SUFFICES ASSUME PairInv, Settled, NEW p \in Peers, NEW q \in Peers, p # q, tab[p].ws, tab[q].ws
                 PROVE  entry[p][q] # 0 /\ (Linked(p, q) \/ Glare(p, q))
      BY DEF SettledPagesAreLinked
    <3>1. Quiet /\ Accord
      BY DEF PairInv, Settled
    <3> QED
      BY <3>1, SettledLinked
  <2> QED
    BY <2>1, <2>2, <2>3, PTL DEF Spec
<1>2. CASE ~Readable
  <2>1. SettledPagesAreLinked
    BY <1>2 DEF SettledPagesAreLinked, Settled
  <2> QED
    BY <2>1, PTL
<1> QED
  BY <1>1, <1>2, ReadableAssumption
================================================================================
