# Verification of Go-Next-WebRTC

TLA+ models of the voice-chat service in `src/`: a Go server (HTTP API over
MySQL, a WebSocket signaling hub, recordings turned into minutes) and a Next.js
browser client. TLC checks the models on small instances, and TLAPS proves the
most important properties for every value of their constants. The models follow
the code, also where it differs from what the documentation says; such places
are runs of their own (*Disagreements*, below).

`PROJECT.json` lists components, runs, hazards and theorems, and maps every
definition to its source lines.

    tlc -workers 2 -config MCCallRooms.cfg MCCallRooms     # one run
    tlapm CallRooms_proofs.tla                             # one set of proofs

Contents: [the system](#1-the-system), [the modules](#2-the-modules),
[the runs](#3-the-runs), [the proofs](#4-the-proofs),
[disagreements](#5-disagreements-between-the-code-and-what-is-said-of-it),
[limits](#6-limits), [the plan](#7-the-plan).

## 1. The system

Paths below `src/backend/internal/` are shortened to `adapter/...`,
`application/...` and so on; the browser is under `src/frontend/`.

| Part | State | Operations | Talks to | Model |
|---|---|---|---|---|
| **Call-room API** `adapter/http/handler/call_handler.go`, `application/usecase/call_usecase.go`, `adapter/repository/call_*` | tables `call_rooms`, `call_participants`; per request, the structs it read | create, join, leave, delete (list and get only read) | MySQL, one autocommitted statement at a time | `CallRooms`, `Membership` |
| **Signaling hub** `adapter/websocket/signaling.go`, `HandleSignaling` | rooms and their clients, channels `register`, `unregister`, `broadcast`, a channel `Send` and two goroutines per connection, the lock `mu` | connect, register, forward a signal, leave, disconnect, notify | the call-room API (status of the room), browsers | `SignalingHub` |
| **Accounts and sessions** `application/usecase/auth_usecase.go`, `mysql_user_repository.go`, `mysql_auth_repository.go`, `app/cleanup.go` | tables `users`, `refresh_tokens`; tokens in browsers | register, login, refresh, logout, profile, password, hourly cleanup | MySQL | `AuthSessions` |
| **Recordings and minutes** `application/usecase/recording_usecase.go`, its repositories | objects in storage, `call_recordings`, `call_transcriptions`, `call_minutes`, mails | upload, transcribe (speech, batch, minutes, mail, mark) | MySQL, object storage, speech-to-text, SMTP | `Recording` |
| **WebRTC mesh** `lib/webrtc/*.ts`, `app/calls/[roomId]/page.tsx` | per tab, one `RTCPeerConnection` per peer | user-joined, offer, answer, candidate, user-left, connect, disconnect | the hub, other tabs | `WebRTCMesh` |
| **Auth client** `lib/api/client.ts`, `lib/stores/authStore.ts` | tokens in `localStorage`, a retry mark per request | request, refresh on 401, sign-out | accounts and sessions | `TodoApp` |
| **Todos** `todo_usecase.go`, `mysql_todo_repository.go`, `lib/hooks/useTodos.ts` | table `todos`; the cached list of the browser | list, create, update, delete, optimistic toggle | MySQL | `TodoTable`, `Todos`, `TodoApp` |
| **Migration tool** `src/backend/cmd/migrate/main.go` | the schema, `schema_migrations`, files | up, create (status, down and a dry run change nothing) | MySQL | `Migrate` |
| **Router, middlewares, JSON shapes** | none | dispatch, token check, body limit, headers | the handlers | guards of the other modules |
| **Lifecycle, wiring, configuration** `app/*.go`, `config/` | the process | start, cleanup every hour, stop | all of the above | `Restart` in each module over tables, cleanup in `AuthSessions` |
| **Pages and route guards** | forms | send requests | the API | inputs of the other modules |
| **External services**, the packages of `backend/pkg/` (not in the repository) | – | – | – | a call works or fails; a failed write may have happened |

### What is hard here

- **Handlers interleave between statements.** Every HTTP request has a goroutine,
  no handler opens a transaction over its reads and writes (the one transaction
  of the code inserts a batch of transcriptions), and `UPDATE`s write whole
  rows from structs read earlier. What saves the tables, when something does,
  is a unique key.
- **Statements fail, and processes stop, between two steps.** Some errors are
  returned, some are logged, some are dropped; the client retries.
- **The hub talks to itself.** One goroutine receives from `broadcast` and also
  sends to it, holding a lock; connections are named by user, so two tabs share
  a name; `Send` channels are closed by one goroutine and used by others.
- **The browser interleaves too.** Signaling messages are handled without waiting
  for the handler of the message before, so two handlers of one connection meet
  at every `await`. Fetches of the todo list overlap edits that have already
  changed it on the page, and refused requests refresh the same token.
- **Time.** Tokens expire while they are being used; an object is named by the
  second of its upload.
- **DDL.** MySQL commits it at once, whatever transaction was opened around it.

What makes each part correct:

- *Call rooms*: a user has at most one active participation; nobody is put back
  who left; joining opens the room; ended rooms stay ended once those who were
  let in are done; status and timestamps agree.
- *Hub*: signals stay in their room; nothing is sent on a closed channel; rooms
  exist exactly while somebody is in them; whoever connects is registered, whoever
  goes is released.
- *Sessions*: one account per address; a refresh token is spent by its use; a
  user who signed out needs the password again, but for refreshes in flight by then;
  nobody loses a session without a reason; only a password request changes the
  password.
- *Recordings*: a row has its file; the minutes are a transcription that was
  saved, are written once, and are mailed once.
- *Mesh*: once messages have settled, every two pages in the room have connections
  to each other that both agreed on and show each other's video; a page that
  left is not shown; a handler throws for a reason.
- *Todo page*: a page at rest shows what the table holds; deleted stays deleted;
  the tokens in the browser and on the server agree about being signed in.
- *Migrations*: the schema is never more than one migration ahead of its record.

## 2. The modules

### CallRooms (with Membership, MCCallRooms, CallRooms_proofs)

`room[r]` is the row of `call_rooms` (status, creator, capacity, and whether
`started_at` and `ended_at` are NULL), `rows[r][u]` the sequence of `is_active`
values of the user's rows in `call_participants`, `req[p]` a handler: where it
is, the `CallRoom` struct it read (`snap`), the participant row it found. Each
action is one SQL statement and the code up to the next one:

| Action | Code |
|---|---|
| `CreateRoom` | `CreateRoom`, default capacity 10 |
| `JoinReadRoom`, `JoinFindParticipant`, `JoinCreateParticipant`, `JoinActivateRoom` | `JoinRoom`: read and check the room, look for an active participant (an error counts as none), insert under the unique key, then write the struct back as active if it was *read* as waiting |
| `LeaveReadRoom`, `LeaveFindParticipant`, `LeaveUpdateParticipant` | `LeaveRoom`; the update is refused when the user already has a departed row, because `unique_active_participant` of migration 008 covers `is_active = FALSE` too |
| `DeleteReadRoom`, `DeleteUpdateRoom` | `DeleteRoom`, by the creator |
| `Restart` | the process stops, requests in flight are lost |

`JoinRoom` also has a branch that makes a departed participant active again
(`call_usecase.go:66-73`). It is dead: `FindByRoomIDAndUserID` returns active rows
only, so whoever returns gets a new row, and the model has no such branch.

Every statement may fail (`MaxFaults`); a failed write has happened or not.
`Overwritten` is the heart of the room half: `UPDATE call_rooms` writes status
and both timestamps from the struct, whatever the row holds by then.

`Membership` is what this promises of one user and one room, without requests
and rows: never in, present, gone, back - and no further, as the unique key
leaves no second departure. `ImplementsMembership` is the refinement, the last
element of the row sequence being the mapping.

### SignalingHub (with MCSignalingHub, SignalingHub_proofs)

`conn[c]` is the handler and then the readPump of a connection, `writer[c]` its
writePump, `send[c]` and `closed` its `Send` channel, `member[r][u]` the map
`Clients` of a room, `live` the keys of `s.rooms`, `queue` the channel
`broadcast`, and `hub` the goroutine `Run`: in its `select`, in the handler of a
case, or at the send `s.broadcast <- ...` while it holds `s.mu` (`Unlocked` is
false then, and `ReadSignal` cannot look up a room).

The capacity of `broadcast` is a constant. `NewSignalingServer` makes the channel
unbuffered, so the program is the module with `BroadcastCap = 0`, and in it the
hub stops at its first registration. Everything behind that point - forwarding,
tabs of one user, leaving twice, the ways to panic - would then never happen and
would remain unchecked; with `BroadcastCap > 0` it does. No property but
`UnbufferedServesOne` depends on the capacity being 0, and the theorems hold for
every capacity.

A panic that nothing recovers ends the process: `panicked` stops `Next`. The hub
dies at once when it closes a channel twice. A readPump that sends on a closed
channel (`ForwardPanics`) does not: the panic first runs its deferred function, which
unregisters and so waits for the hub (`panicking`); only when the hub has received
that does the process end (`dying`, `Die`), and until then everybody else goes on.
Behind a wedged hub it never does.
`string(rune(n))` is modelled by what it does: below 48 participants the notice
is not JSON, `json.Marshal` fails, the error is dropped and an empty message goes
out (`Body`).

### AuthSessions (with MCAuthSessions, AuthSessions_proofs)

`users[u]` is the row of an address (password and name), `stored` the refresh
tokens that have a row, `owner` their users, `handed` the tokens a client got,
`expired` those past `expires_at`, `access` the users of whom a client holds a
live access token. Tokens are numbered as they are generated (the code draws
random ones). A password stands for its hash.

Register, login and refresh are several actions each (find, create, purge expired,
delete the user's tokens, save); logout, and the two statements of the profile
and password requests; `Expire` and `ExpireAccess` for time; `CleanupExpiredTokens`
for the hourly task; `Restart`. Whoever holds a token that was handed out may
present it at any time, so clients that lost a race or kept an old token are
included. Two requests of one client need no access token each, one is enough.

### Recording (with Recording_proofs)

One room, since rooms share none of this. `objects`, `recordings`, `batches`
(each a set of recordings whose transcription was saved in one transaction),
`minutes`, `mails`; texts are the set of recordings they come from. Upload is two
actions (storage, row), transcription six: read the recordings, ask the speech
service (some may fail, not all), save the batch, insert the minutes under the
unique `room_id`, mail, mark. `hasMail` is chosen at the start: the mail client
may not be configured, and then its call counts as a success. `joined` says
whether anybody ever took part; without participants there is nobody to mail.

### WebRTCMesh (with WebRTCMesh_proofs)

One tab per user. `tab[p]` is the call page (its number, the phase of
`initializeCall`, the socket, the attempts of `connect`, the error screen),
`pcs[p]` the `RTCPeerConnection`s its manager made, `entry[p][q]` the map
`peerConnections`, `tiles[p]` the remote videos on the page.

The heart is how handlers wait. A connection performs its operations one at a
time, in the order in which they were asked for, and every `await` of
`handleUserJoined`, `handleOffer`, `handleAnswer` and `handleIceCandidate` is such
an operation. So a handler that waits is an element of the connection's `chain`:
`Handle...` is its synchronous beginning, and `CreateOffer`, `SetOffer`,
`SetRemoteOffer`, `CreateAnswer`, `SetAnswer`, `SetRemoteAnswer` and
`AddCandidate` perform the operation and go on to the next `await`. `WrongState`
is an operation the browser refuses: the handler throws, and the page shows it.

The server is `SignalingHub` seen from outside: who is registered (`member`),
whose sockets are still to be unregistered (`gone`), the notices not yet broadcast
(`queue`), the messages under way (`inbox`). `SignalingHub` owes its wedge and its
panics to the channels inside; here the hub works, as otherwise there would be
nothing to see. Likewise `Readable`: the notices are JSON only from 48
participants on (`Body` in `SignalingHub`), so the program in a small room is the
module with `Readable = FALSE`, and the theorem `NobodyIsConnected` says what that
comes to. `Readable = TRUE` is a room of 48 seen from two of its tabs, or the
program with the count printed as digits.

Faults are a message lost in a full `Send` channel, a broken socket, a connection
that fails, and a user who returns while messages about the last visit are still
under way. Pages and faults have one bound together, `MaxEvents`.

### TodoTable, Todos, TodoApp (with MCTodoApp, Todos_proofs, TodoApp_proofs)

`TodoTable` has what the server and the page share: rows and changes. `Todos` is
the server: `todos` the table, `last` the AUTO_INCREMENT, `work[c]` a handler, one
action per statement. An update that changes nothing counts as zero rows, which
the code takes for a missing todo.

`TodoApp` is the browser over it, and composes two servers: `Todos` (instance `T`)
and `AuthSessions` (instance `A`, of one user). `call[c]` is a request of the page, `cache`
the list of React Query with the fetch it waits for, `store` the pair of tokens in
`localStorage`, `old` the pairs whose access token has expired. `Edit`, `Toggle`,
`Logout` and `Fetch` send; `Arrive` and `Refuse` are the middleware; `Serve` and
`ServeRefresh` the statements; `Answered` what `onMutate`, `onError`, `onSettled` and
`invalidateQueries` do; `GiveUp`, `Refresh`, `Refreshed` the response interceptor of
`client.ts`; `Unload` the reload that follows a refused refresh.

The page cannot know whether an edit that was answered with an error has been done.
Nor does it see the todo of a create answered while the first list is on its way:
without data `invalidateQueries` joins the fetch under way (`FirstLoad` in `Invalidate`).
`missed` notes both while a fetch is under way, and `doubt` while data
fetched before it are shown. One flag would not do: a fetch that fails leaves the old
data on the page, and with them the doubt about them.

### Migrate (with Migrate_proofs)

`files` the number of migration files, `applied` the versions the schema has,
`recorded` the table `schema_migrations`, `run[r]` a run of the tool.
`MigrateUp` reads the directory and the record once; `Execute` and `Record` are two
steps, because MySQL commits DDL by itself and the transaction around both does
not hold. Runs overlap and stop anywhere. `Once` are the migrations whose SQL fails
on a schema that has the change: 006, the `ALTER TABLE`; the others say `IF NOT
EXISTS`.

## 3. The runs

| Run | Instance | States | Time |
|---|---|---|---|
| `call_rooms` | 2 users, 1 room, 2 concurrent requests, 1 fault | 429,457 | 90 s |
| `hub_buffered` | 2 connections, any assignment to 2 users and 2 rooms, buffer 2, Send of 1 | 276,226 | 10 s |
| `hub_liveness` | 2 connections of one user, buffer 4 | 138,708 | 90 s |
| `auth` | 1 account, 2 passwords, 2 names, 2 requests, 3 tokens, 1 fault | 431,847 | 55 s |
| `recording` | 1 uploader, 2 requests, 2 recordings, 2 batches, 2 seconds, 1 fault | 166,126 | 17 s |
| `mesh` | 2 users, 3 pages or faults together | 1.0 million | 60–95 s |
| `todo_app` | 2 calls, 1 title, 2 todos, 3 token pairs, 2 clicks, 1 fault | 2,082,991 | 55 s |
| `migrate` | 2 runs of the tool, 3 migrations and one created, the second not repeatable | 12,408 | 2 s |
| four `violation` runs | see section 5 | | < 10 s |

What they show, for their instance and for every interleaving of it:

**call_rooms.** `RowHistory`: the rows of a user are one of four sequences,
however joins and leaves race. `RowsAreALog`: rows are never removed and a
departed row never becomes active. `LeaveTookEffect`: a successful leave stays
effective on the row it found. `JoinMeansPresent`: a join succeeds only when the
user is in. `EnteredRoomOpens` (liveness): without
faults, a room somebody entered opens; when the update that opens it fails, the room
stays waiting, and no property covers that. `StatusTimestamps`:
blind writes never separate status and timestamps. `SettledForGood`: a room that
ended, with no join left in flight, stays ended and only empties. `StartIsKept`:
only a delete that read the room before its start can lose the start.
`ImplementsMembership`: the refinement.

**hub_buffered.** `RegisteredChannelsOpen`, `LiveRooms`, `SignalsStayInRoom` as in
section 1. `KnownPanics`: the process dies in two ways and no other - a signal
forwarded to a channel closed after the lookup, and a second close for a
connection that said "leave" and then went away after its user had registered
another tab; the first only after the hub has let the readPump unregister.
`WedgedForGood`: a hub that has a notice and no room for it never moves again, nobody
is looked up to be sent to, and no panic gets as far as ending the process. What still
goes on are a send whose lookup was made before and the writes of what channels hold.

**hub_liveness.** With room for the at most two notices of each connection in the
buffer (a second `leave` of one connection finds nothing registered and is
silent, so two tabs make at most four notices before one is taken),
`ConnectionsAreServed`, `ClosedConnectionsEnd`, and `PanicsEnd`: a readPump that panics
is let go by the hub, and the process ends.

**auth.** `RegisterOnce`; `RefreshRotates`, with faults excluded because an error
of the delete is only printed; `GrantsSpent`: while a user has no live token, after a
logout say, no token gets a refresh going, and a session comes only from a refresh that
had read its token before, one from each, or from the password or a registration - so
a logout can be outlived, but only that way; `SessionsEndForAReason`:
concurrent refreshes may strand one client, never all clients of a user;
`PasswordKept`: a stale profile request is the only other way to replace a
password.

**recording.** `RecordingsHaveFiles`; `MinutesWereSaved`; `OneMail`: at most one mail,
of the minutes, minutes marked as sent were mailed, and unless something failed those
that were mailed are marked; `MinutesAreFinal`. That a mail is sent in the end is not
claimed: the call of the mail client has no deadline.

**mesh.** `SettledPagesAreLinked`: when nothing is under way and nothing was lost,
every two pages have connections to each other that both agreed on, whoever
joined, left and returned meanwhile - except after a glare, when both made an
offer. `TilesAreOfMembers`: an offer cannot bring back the tile of a page that
left. `ErrorsHaveReasons`: a handler throws only in a glare, after a loss, or for a
peer who left; no order of offers, answers and candidates at awaiting handlers
makes one throw otherwise. `OnePartner`: a connection is never handed to another
page of its peer.

**todo_app.** `QuietCacheIsTrue`: a page at rest shows what the table holds, unless
a create, update or delete was answered with an error after being done, or a create
was answered while the first list was loading: `invalidateQueries` then joins the fetch
under way, and the list it brings is held as fresh without the new todo.
`TokensTellTheTruth`: a page at rest is signed in with tokens the server has, or
signed out with none, unless refreshes overlapped each other or a logout.
`DeletedForGood`: no update that found a todo before its deletion brings it back.

**migrate.** `OneAhead`: the record has no gap, and the schema is at most one
migration ahead of it. `StrandedForGood`: a run that stops between an `ALTER TABLE`
and its record ends all progress of the tool. Both are about runs of
the tool. Where somebody applies files by hand, as `docs/backend-implementation-summary.md`
(lines 136-146) has it for 007 to 011, the schema gets ahead of the record by more; these
files say `IF NOT EXISTS`, and a later `up` records them.

`call_rooms`, `hub_buffered`, `auth`, `recording` and `todo_app` also check the
module's `TypeOK`; those of `WebRTCMesh` and `Migrate` are proved, and no run repeats
them. The unbuffered hub of the program has `hub_second_connection` and a theorem for
what it does instead, `UnbufferedHubServesOne`.

### Why the bounds are enough

Two requests are what it takes for every race of this code: each is between one
handler's read and its write, with one other write in between; a handler's slot
is free again after its answer, so the number of requests in a behaviour is not
bounded. The rows of two users, or of two rooms, never meet in one statement;
two users are there because the status of a room is shared by them, and two
rooms in the hub because a lookup could reach the wrong one. One fault puts a
failure, or a restart, at every place of every behaviour; the properties that
assume none say so (`faults = 0`). Three tokens give each of two refreshes a
token and a third one to be lost. `SendCap = 1` makes the full channel common.
`Capacities` has a negative value, zero and one: the default and its boundary.

In `mesh`, three pages or faults are two users of whom one leaves and returns, or
two users and one loss: a connection belongs to two tabs, and a third tab shares
nothing with it but the server. In `todo_app`, two calls at a time are what it takes for an edit to
meet a fetch, an edit or a refresh; a slot is free again after its answer, and
only clicks are bounded, not calls. Three pairs give each of two refreshes a pair.

Symmetry is used in `auth`, `hub_buffered` and `todo_app`, which check no liveness.

Two runs of `migrate` meet at every pair of statements; a third could only repeat what
one of them does. Four files are enough to have one behind the stranded one.

The runs check for deadlock except three kinds. In those of the hub the process may
have died (`panicked`), all connections may be gone, and the wedge is the subject. In
`mesh` everybody may have left with all pages used, and in `todo_app` the user may
have signed out, or all clicks are used.

### Fairness

- `CallRooms`: weak fairness for each request in flight. Its handlers give every
  statement a context that times out after 5 seconds, and none waits for another
  request. Nobody is obliged to send one.
- `SignalingHub`: weak fairness for the hub's own code, the forwarding and the
  end of a readPump, by an error or a panic - goroutines that can run do. Strong fairness for each of
  the hub's receives: Go's `select` picks among the ready cases at random and a
  channel serves its blocked senders in order, so a sender that is ready again
  and again is served. None for peers, and none for `WriteMessage`, which writes
  to a socket without a deadline and may wait for the peer for ever.
- `AuthSessions`, `Recording`, `WebRTCMesh`, `TodoApp`, `Migrate`: none, and no liveness. The
  calls `Recording` makes to mail and speech services may never return. Users owe
  nothing, messages may be lost, and what pages come to is stated of the states in
  which nothing is under way.

## 4. The proofs

All theorems are of `Spec` (no fairness), for every value of the constants that
satisfies the assumptions the modules name.

**CallRooms_proofs** - any users, rooms, requests, faults:

- `TypeCorrect`: `[]TypeOK`. `TypeOK` is inductive by itself; lemmas
  say what each way of writing `req`, `room` and `rows` returns.
- `RowHistoryHolds`: `[]RowHistory`. Not inductive: a leave writes to a row index
  it found earlier. `RowInv` adds that this index is still a row of the user.
  `RowsStep` says that the table changes by an `Admission` or a `Departure`, and
  `HistoryAfterInsert`, `HistoryAfterDeparture` that these keep the four shapes.
- `RefinesMembership`: `Spec => ImplementsMembership`. Each admission maps to `Enter` or
  `Return`, each departure to `Leave`, every other step to a stutter
  (`AdmissionMoves`, `DepartureMoves`).
- `RowsLogHolds`: the action property `RowsAreALog`.
- `StatusTimestampsHold`: `[]StatusTimestamps`. `SnapInv` adds that every struct a
  handler holds is consistent, however old it is, and that a join about to open a
  room read it as waiting: that is why writing it back blindly is harmless.
- `LeaveTookEffectHolds`: `[]LeaveTookEffect`. `OpInv` adds which operation a handler is in
  at each point of its code, and that it has no answer before it ends; `RequestStep`
  says all that a step can be to a request.
- `JoinMeansPresentHolds`, `SettledForGoodHolds`, `StartIsKeptHolds`: the other action
  properties. `RoomWrites` lists who writes a room, and with what; that ended rooms
  stay ended (`EndedStays`) and nobody enters them (`NobodyEnters`) follows once no join
  is in flight, and `DeletesKnow` is about the struct a delete holds.

**SignalingHub_proofs** - any connections, users, rooms, capacities:

- `HubTypeCorrect`: `[]TypeOK`, with the capacities of the channels. `HubWorks`
  strengthens it: whom the hub is working for, and whom a readPump forwards to.
- `RegisteredChannelsStayOpen`: `[]RegisteredChannelsOpen`. `ChannelInv` adds that only
  accepted connections are closed, and that the one about to be registered is
  not.
- `WedgeLasts`: `Spec => WedgedForGood`, at every capacity.
- `UnbufferedHubServesOne`: `[]UnbufferedServesOne`. `ServesOneInv` adds that nobody
  forwards.
- `LiveRoomsHold`: `[]LiveRooms`. `RoomsInv` adds that the room the hub is about to delete
  is empty. A room has finitely many clients, so the count the code compares with
  zero tells.
- `SignalsStay`: `[]SignalsStayInRoom`. `SignalInv` follows a signal from the readPump
  that chose its target to the channels it lies in.
- `PanicsAreKnown`: `Spec => KnownPanics`, from `ChannelInv` and `DoomInv`: the target of
  a readPump that panics stays closed, and in its room, while it waits for the hub.

**AuthSessions_proofs** - any accounts, passwords, requests, tokens, faults; every
property of the run `auth`:

- `SessionsTypeCorrect`: `[]TypeOK`. `TypeInv` splits it into `TablesOK` (a stored token was
  generated and has an owner, ...) and `ReqsOK`, what a request knows at each point of
  its code; a request that waits relies on what others cannot take from it.
- `RegisterOnceHolds`: `OneRegistered` adds that whoever registered has a row.
- `RefreshRotatesHolds`: `Spends` follows a token from the read to the delete and
  `SpentIsGone` keeps it out of the table.
- `GrantsAreSpent`, `PasswordKeptHolds`, `SessionsEndForAReasonHolds`: action
  properties, by one lemma per action. For the first, `NothingGranted` says which
  requests may come to give a session, and `SavedByOne` which one did.

**Recording_proofs** - any users, requests, seconds and bounds; every property of the run
`recording`:

- `RecordingTypeCorrect`, `RecordingsHaveFilesHolds`, `MinutesWereSavedHolds`: `TypeInv` is the
  types together with what a request may rely on at each point: its file is in
  storage, its batch is saved.
- `OneMailHolds`: the unique `room_id` decides who mails. `MailInv` says that at most one
  request is mailing, and that nothing has been mailed until it is; `SentInv` that the
  request which mailed goes on to the mark, unless something failed.
- `MinutesAreFinalHolds`: an action property, from `TypeInv`.

**Todos_proofs** - any requests, titles, todos, faults:

- `TodosTypeCorrect`: `[]TypeOK`.
- `DeletedStaysDeleted`: `DeletedForGood` of the server alone, whatever its clients do.
  `UPDATE ... WHERE id = ? AND user_id = ?` changes rows that exist, and
  AUTO_INCREMENT never gives an ID again.

**TodoApp_proofs** - any calls, titles, todos, token pairs, clicks, faults; every
property of the run `todo_app`. The module composes two servers, and so do the proofs:
`Todos_proofs` and `AuthSessions_proofs` are instances (`TP`, `AP`) with the handlers of
each named after the calls of the page, and `SameTodos`, `SameHandlers` and
`SameSessions` carry their lemmas over. What a step of the browser can do to the two
servers is `Moves` and `ServerStep`.

- `AppTypeCorrect`: `[]TypeOK`. `TypeInv` is the invariants of both servers, the types
  of the browser, what a call has at each point (`CallOK`), and that the fetch the
  cache waits for is under way.
- `AppDeletedForGood`: from the step of `DeletedStaysDeleted`, for every step of the browser.
- `AppQuietCacheIsTrue`: `[]QuietCacheIsTrue`. `TrueInv` says which of the server's answers
  are under way. A list that was read is the table, or a write has happened since whose
  answer is still to come (`Editing`) or was an error, or a create of the first load
  (`missed`); the data shown are
  the table, or stale, or in doubt, or somebody is editing.
- `AppTokensTellTheTruth`: `[]TokensTellTheTruth`. While no refresh has been overtaken
  (`Calm`), at most one call is refreshing, a request of the server that makes or
  spends a pair is that of a refreshing call, and the pair in `localStorage` is in the
  table unless a logout or the refresh that spends it is under way.

**Migrate_proofs** - any runs, files, and sets of migrations that cannot be repeated:

- `MigrateTypeCorrect`: `[]TypeOK`.
- `SchemaIsOneAhead`: `[]OneAhead`, the schema has the recorded migrations and at most
  one more. `PassedIsRecorded` adds that whatever lies before the migration a run has
  reached is recorded, and `RecordsApplied` that what a run is about to record is
  applied.
- `StrandedStays`: `StrandedForGood`, a run that stops between an `ALTER TABLE` and its record ends
  all progress of the tool.

**WebRTCMesh_proofs** - any users and any number of pages and faults:

- `NobodyIsConnected`: `~Readable` implies that no page ever has a connection or a tile,
  in no behaviour of the mesh: the program as written in rooms below 48 participants.
- `MeshTypeCorrect`: `[]TypeOK`. `TypeInv` adds that a page that does anything has
  been opened, that a connecting page has attempts left, that an operation on a
  remote description has one, and that an answering connection has a remote
  description.
- `TilesHold`: `[]TilesAreOfMembers`. Where notices are unreadable there is no tile
  (`NobodyIsConnected`). Where they are readable and nothing was lost, `TilesInv`
  says of every page with a socket that the server has a page of each peer that is
  shown, that a connection has something to do for, or that has sent something still
  under way; or else that news of the peer's leaving is in the server's queue or
  comes after that message. It needs three more facts: a page with a socket is the one
  registered (`Registered`), a page that connects has no connections left (`Blank`),
  and a connection with something to do is the one in the map (`Current`), so that
  `user-left` closes it and no awaiting handler is left to show the tile again.
- `OnePartnerHolds`: `Spec => OnePartner`; `ErrorsHaveReasonsHold`: `Spec =>
  ErrorsHaveReasons`; `SettledHold`: `[]SettledPagesAreLinked`. Where notices are
  unreadable, no connection exists. Where they are readable, the three follow from
  one invariant, `PairInv`, which holds of any two users while nothing was lost:

  1. `Quiet` is what holds of a page whoever it talks to (`Base`: a page without a socket
     has nothing; candidates are only sent by open connections of the map; that
     somebody left is the last there is of him), with `TypeInv` and `TilesInv`.
     `QuietStep` keeps it, and shows that every step of the system is, for two users
     `p` and `q`, nothing or one of a few moves (`View`): one comes, goes, hears of the
     other, takes a message, drops a connection, does an operation, or sends. All that
     follows is about these moves and no longer about the actions.
  2. `Agreed`: all that `p` has of `q` - its remote description, operations in the chain,
     messages - is of one connection of `q`, which is the one `q` has for `p` as long as
     `q` is there (`Same`), and every answer is to the connection `p` has for `q` (`Replies`).
     `OnePartnerHolds` is this, and that descriptions are set by two operations only.
  3. `Pact`: the exchange that `p` starts when it hears of `q` is a token that is at one
     place at a time (`Exchange`: the notice, the offer to make, the offer, the operation
     that sets it, the answer to make, the answer, the operation that sets it); the
     state of a connection fits its operations (`Local`); somebody who was not offered to
     is still waiting for the answer that is under way (`Asking`); and for two pages in
     the room the token is somewhere or the exchange is over (`Going`).
  4. `Ordered`: in a chain and in an inbox a candidate comes after a description, or the
     connection has one. A refused candidate is therefore one of a glare.
  5. `Lit`, `ShownOf`: a description without tracks is there because one of the two had no
     camera when it made its connection, and whoever set a description with tracks shows
     its peer.

  In a settled state the token can be nowhere, so by `Going` the exchange is over, by
  `Agreed` the two connections are each other's, and by `Lit` and `ShownOf` the tile is
  there. An operation in the wrong state contradicts `Local`, `Asking` or `Ordered`, unless
  the connection was told of the peer and offered to as well.

Assumptions: `NoUser` is no user, `NoRow` no account, `NoTodo` no todo; users and rooms
exist; capacities are integers; bounds are natural numbers; `BroadcastCap` is a natural
number and `SendCap` a positive one; `None` is none of the things it stands
against (in the mesh, no description); there is a title. `Provided` of `Migrate` is a natural number (a hypothesis of its theorems).

What stays with TLC:

- Liveness and fairness (`EnteredRoomOpens`, `ConnectionsAreServed`,
  `ClosedConnectionsEnd`, `PanicsEnd`): `ENABLED` and fairness are beyond the
  prover.

Every invariant and every action property of a run that is expected to pass is proved.

No module has a `RECURSIVE` operator, and nothing rests on induction over data.

## 5. Disagreements between the code and what is said of it

Each is a run that TLC must find violated, and the counterexample is a run of the
code.

1. `call_rooms_opensonlywaitingrooms`. A comment at the end of `JoinRoom` says the room is
   opened if it is still waiting. The status was read before three other
   statements: a room deleted meanwhile becomes active again, its end erased.
2. `call_rooms_foundrowcanleave`. The API document promises that leaving succeeds. The
   unique key allows one departed row per user and room: whoever joins again can
   never be recorded as leaving.
3. `hub_second_connection`. Several users can join a room, says
   `WEBRTC_IMPLEMENTATION.md`; the second connection is never registered.
4. `auth_profile_keeps_password`. A profile update "updates the profile information"; one
   that overlaps a password change restores the old password.

Two more need no run, since theorems say what holds instead:

- The `user-joined` notice on which the whole mesh rests is unreadable in every room
  of fewer than 48 (`NobodyIsConnected`).
- Point 3 of the notes in the migrations' README has each migration run in a
  transaction. The DDL commits it, and a stop before the record leaves the change
  without one; `SchemaIsOneAhead` and `StrandedStays` say what remains.

## 6. Limits

Not modelled, with the reason:

- *Mute, camera, screen share, local recording*: they switch or read the tracks of
  connections that exist; the signaling they might need is not in the code.
- *The forms for login, registration and profile*: `AuthSessions` has their requests.
  The store that keeps the user's name beside the tokens is left out.
- *Todos*: the description (handled as the title is), other users' todos (every
  statement names the user) and inputs refused for their form.
- *Migrations*: `down` is a message, `status` and a dry run only read.
- *Several tabs of one user in the mesh*: `SignalingHub` has them, as the confusion
  is in its maps.
- *Password reset, list of sessions, revoking all sessions*: use cases and
  handlers exist, but the router has no path to them.
- *The capacity of a room*: stored by `CreateRoom`, read by nobody. The model
  stores it too; there is no admission rule to check.
- *Limits the specification document lists* (requests per minute, connections
  per user): not in the code.
- *Statuses and texts of answers*: an answer is success, an error or lost.
- *Password strength, bcrypt's length limit, sizes of uploads, JSON shapes,
  logging, headers, rendering*: data the properties do not tell apart, or pure
  conversions.
- *Reads* (`GetRoom`, `GetActiveRooms`, `GetMinutes`, `GetCurrentUser`): they change
  nothing.
- *The isolation of single statements*: each statement is atomic, as an
  autocommitted InnoDB statement on one row is.
- *Memory-model effects in the hub*: its maps are under locks in the code, so the
  actions are atomic between lock and unlock; the send after an unlock is an
  action of its own (`ForwardSend`).

## 7. The plan

In order of importance; all modules of the plan are built.

| # | Module | Question | State |
|---|---|---|---|
| 1 | `CallRooms`, `Membership` | what races do to rooms and participants; implements membership | checked, 9 theorems |
| 2 | `SignalingHub` | does the hub serve, and how can it die | checked, 7 theorems |
| 3 | `AuthSessions` | sessions and passwords under races and faults | checked, 6 theorems |
| 4 | `Recording` | files, minutes and mail under retries and faults | checked, 5 theorems |
| 5 | `WebRTCMesh` | do tabs that stay get connected, or which order prevents it | checked, 6 theorems |
| 6 | `TodoApp` over `AuthSessions` | the interceptor's refresh with requests in flight | checked, 1 theorem |
| 7 | `Todos`, `TodoApp` | lost updates, optimistic rollback, what the page shows | checked, 5 theorems |
| 8 | `Migrate` | a stop between DDL and record, overlapping runs | checked, 3 theorems |

What is left are the parts under *Limits*, and the liveness of rooms and hub, which stays
with TLC.
