-------------------------------- MODULE TodoApp --------------------------------
(***************************************************************************)
(* The todo page of a signed-in browser, over the handlers of Todos and of *)
(* AuthSessions: the calls of the page, the interceptor of apiClient that  *)
(* refreshes the tokens after a 401 and sends the call again, the tokens in *)
(* localStorage, and the list that React Query caches.                     *)
(*                                                                         *)
(* One user on one page, from a login on; refresh tokens outlive the visit. *)
(***************************************************************************)
EXTENDS TodoTable

CONSTANTS
  Calls,      \* slots for concurrent calls of the page
  MaxTokens,  \* bound on token pairs generated
  MaxClicks,  \* bound on edits and logouts
  User,
  None        \* no account, no list, no call

ASSUME AppBounds == MaxTodos > 0 /\ MaxTokens \in Nat \ {0} /\ MaxClicks \in Nat
ASSUME TitlesAssumption == Titles # {}
ASSUME NoneAssumption ==
  None \notin Calls \cup Table \cup {User} \cup [password: {"password"}, name: {"name"}]

VARIABLES
  todos, last, work,                                          \* Todos
  users, stored, owner, issued, handed, expired, access, req, \* AuthSessions
  faults,  \* of both
  store,   \* the pair of tokens in localStorage, by number, or 0
  old,     \* pairs whose access token has expired
  call,    \* the calls of the page
  cache,   \* the list of React Query
  page,    \* where the browser is
  clicks,  \* edits and logouts so far
  raced    \* a refresh has overlapped another one or a logout, or the access
           \* token it got has expired before the call was sent again

table   == <<todos, last, work>>
session == <<users, stored, owner, issued, handed, expired, access, req>>
browser == <<store, old, call, cache, page, clicks, raced>>
vars    == <<table, session, faults, browser>>

T == INSTANCE Todos WITH Requests <- Calls
A == INSTANCE AuthSessions WITH Users <- {User}, Passwords <- {"password"}, Names <- {"name"},
       Requests <- Calls, NoRow <- None, NoUser <- None

--------------------------------------------------------------------------------
(* A call: tok is the pair it was sent with, or got; before the list that a *)
(* toggle replaced; tries the attempts of the query before this one.        *)
Call == [op: {"none", "list", "create", "update", "toggle", "delete", "logout"},
         pc: {"idle", "sent", "served", "refused", "refresh"},
         id: Ids \cup {0}, change: Changes \cup {None}, tok: 0..MaxTokens,
         retried: BOOLEAN, before: Table \cup {None}, tries: 0..1]

NoCall == [op |-> "none", pc |-> "idle", id |-> 0, change |-> None, tok |-> 0,
           retried |-> FALSE, before |-> None, tries |-> 0]

(* For the properties: since the request for the data was sent (doubt), or   *)
(* the one under way (missed), a create, update or delete was rejected, or   *)
(* was done without a fetch of its own, during the first load.              *)
Cache == [data: Table \cup {None}, stale: BOOLEAN, fetch: Calls \cup {None},
          doubt: BOOLEAN, missed: BOOLEAN]

NoCache == [data |-> None, stale |-> FALSE, fetch |-> None, doubt |-> FALSE, missed |-> FALSE]

(* Types; the tokens kept or attached were handed out, and the fetch the     *)
(* cache waits for is a call for the list.                                  *)
TypeOK ==
  /\ T!TypeOK /\ A!TypeOK
  /\ store \in handed \cup {0}
  /\ old \subseteq 1..issued
  /\ call \in [Calls -> Call]
  /\ \A c \in Calls : call[c].tok \in handed \cup {0}
  /\ cache \in Cache
  /\ page = "todos" /\ cache.fetch # None => call[cache.fetch].op = "list"
  /\ page \in {"todos", "leaving", "login"}
  /\ clicks \in 0..MaxClicks
  /\ raced \in BOOLEAN

(* Signed in with the first pair, which the server has, and with a todo of   *)
(* an earlier visit.                                                        *)
Init ==
  /\ last = 1
  /\ todos = [Empty EXCEPT ![1] = CHOOSE t \in Todo : ~t.completed]
  /\ work = [c \in Calls |-> T!Idle]
  /\ faults = 0
  /\ users = [u \in {User} |-> [password |-> "password", name |-> "name"]]
  /\ owner = [t \in A!Tokens |-> IF t = 1 THEN User ELSE None]
  /\ issued = 1 /\ stored = {1} /\ handed = {1} /\ expired = {} /\ access = {User}
  /\ req = [c \in Calls |-> A!Idle]
  /\ store = 1 /\ old = {}
  /\ call = [c \in Calls |-> NoCall]
  /\ cache = NoCache
  /\ page = "todos" /\ clicks = 0 /\ raced = FALSE

Idle(c) == call[c].pc = "idle"

Refreshing(c) == call[c].pc = "refresh"
LogsOut(c)    == call[c].op = "logout"

(* apiClient: the request interceptor attaches the access token. *)
Sent(op, i, change) ==
  [NoCall EXCEPT !.op = op, !.pc = "sent", !.id = i, !.change = change, !.tok = store]

--------------------------------------------------------------------------------
(* useTodos: what the page asks for. *)

Listed(i) == cache.data # None /\ i \in Ids /\ cache.data[i] # NoTodo

(* useQuery fetches on the first mount, and on a later one if it is due. *)
Fetch(c) ==
  /\ page = "todos" /\ Idle(c) /\ cache.fetch = None
  /\ call' = [call EXCEPT ![c] = Sent("list", 0, None)]
  /\ cache' = [cache EXCEPT !.fetch = c, !.missed = FALSE]
  /\ UNCHANGED <<table, session, faults, store, old, page, clicks, raced>>

Click(c, k) ==
  /\ page = "todos" /\ Idle(c) /\ clicks < MaxClicks
  /\ clicks' = clicks + 1
  /\ call' = [call EXCEPT ![c] = k]
  /\ UNCHANGED <<table, session, faults, store, old, page>>

Edit(c) ==
  /\ \/ \E t \in Titles : Click(c, Sent("create", 0, Titled(t)))
     \/ \E i \in Ids : /\ Listed(i)
                         /\ \/ Click(c, Sent("delete", i, None))
                            \/ \E t \in Titles : Click(c, Sent("update", i, Titled(t)))
  /\ UNCHANGED <<cache, raced>>

(* onMutate: the fetch is cancelled and the list changed before the call. *)
Toggle(c, i) ==
  LET b == ~cache.data[i].completed
  IN  /\ Listed(i)
      /\ Click(c, [Sent("toggle", i, Completed(b)) EXCEPT !.before = cache.data])
      /\ cache' = [cache EXCEPT !.data[i].completed = b, !.stale = FALSE, !.fetch = None]
      /\ UNCHANGED raced

Logout(c) ==
  /\ Click(c, Sent("logout", 0, None))
  /\ raced' = (raced \/ \E d \in Calls : Refreshing(d))
  /\ UNCHANGED cache

--------------------------------------------------------------------------------
(* The server. *)

(* The middleware lets a call through to its handler's first statement. *)
Handled(c) ==
  LET k == call[c]
  IN  \/ /\ \/ k.op = "list" /\ T!ListTodos(c)
            \/ k.op = "create" /\ T!CreateTodo(c, k.change.value)
            \/ k.op \in {"update", "toggle"} /\ T!UpdateFindTodo(c, k.id, k.change)
            \/ k.op = "delete" /\ T!DeleteFindTodo(c, k.id)
         /\ UNCHANGED session
      \/ k.op = "logout" /\ A!Logout(c, User) /\ UNCHANGED table

Arrive(c) ==
  /\ call[c].pc = "sent"
  /\ call[c].tok \notin old \cup {0}
  /\ Handled(c)
  /\ call' = [call EXCEPT ![c].pc = "served"]
  /\ UNCHANGED <<store, old, cache, page, clicks, raced>>

Refuse(c) ==
  /\ call[c].pc = "sent"
  /\ call[c].tok \in old \cup {0}
  /\ call' = [call EXCEPT ![c].pc = "refused"]
  /\ UNCHANGED <<table, session, faults, store, old, cache, page, clicks, raced>>

Serve(c) == T!Continue(c) /\ UNCHANGED <<session, browser>>

(* The statements of a refresh; its answer carries the pair generated. *)
ServeRefresh(c) ==
  /\ \/ (A!RefreshFindUser(c) \/ A!RefreshDeleteTokens(c)) /\ UNCHANGED call
     \/ /\ A!SaveRefreshToken(c)
        /\ call' = [call EXCEPT ![c].tok = IF Refreshing(c) /\ handed' # handed
                                             THEN issued' ELSE @]
  /\ UNCHANGED <<table, store, old, cache, page, clicks, raced>>

(* Bound: the last pair does not expire, so that no refresh needs another. *)
ExpireAccess(t) ==
  /\ t \in (1..issued) \ old /\ t < MaxTokens
  /\ old' = old \cup {t}
  /\ UNCHANGED <<table, session, faults, store, call, cache, page, clicks, raced>>

--------------------------------------------------------------------------------
(* useTodos: what the page does with the outcome of a call. *)

Done(c, k) == call' = [call EXCEPT ![c] = NoCall] /\ cache' = k

(* invalidateQueries: another fetch cancels the one under way, if there is a *)
(* list.  During the first load the one under way is joined, and its answer *)
(* counts as fresh.  Nothing is fetched for a page that is not shown.      *)
FirstLoad(k) == k.data = None /\ k.fetch # None

Invalidate(c, k) ==
  \/ page # "todos" /\ Done(c, k)
  \/ /\ page = "todos" /\ FirstLoad(k)
     /\ Done(c, [k EXCEPT !.stale = TRUE, !.missed = TRUE])
  \/ /\ page = "todos" /\ ~FirstLoad(k)
     /\ call' = [call EXCEPT ![c] = Sent("list", 0, None)]
     /\ cache' = [k EXCEPT !.stale = TRUE, !.fetch = c, !.missed = FALSE]

(* Mutant: the fetch is not marked as ended. *)
ListOkFetching(c) ==
  Done(c, IF cache.fetch = c
          THEN [cache EXCEPT !.data = work[c].found, !.stale = FALSE, !.doubt = cache.missed]
          ELSE cache)

(* The query's data, unless the fetch was cancelled or superseded. *)
ListOk(c) ==
  Done(c, IF cache.fetch = c
          THEN [cache EXCEPT !.data = work[c].found, !.stale = FALSE, !.fetch = None,
                             !.doubt = cache.missed]
          ELSE cache)

(* retry: 1 *)
ListFailed(c) ==
  IF cache.fetch = c /\ call[c].tries = 0
  THEN /\ call' = [call EXCEPT ![c] = [Sent("list", 0, None) EXCEPT !.tries = 1]]
       /\ cache' = [cache EXCEPT !.missed = FALSE]
  ELSE Done(c, IF cache.fetch = c THEN [cache EXCEPT !.fetch = None] ELSE cache)

(* Mutant: invalidation on success alone, as in the other mutations. *)
ToggleSucceeded(c, ok) ==
  IF ok THEN Invalidate(c, cache)
  ELSE Done(c, [cache EXCEPT !.data = call[c].before, !.stale = FALSE])

(* onSettled, after onError has put the list back. *)
ToggleSettled(c, ok) ==
  Invalidate(c, IF ok \/ page # "todos" THEN cache
                ELSE [cache EXCEPT !.data = call[c].before, !.stale = FALSE])

Settled(c, ok) ==
  \/ call[c].op = "list" /\ IF ok THEN ListOk(c) ELSE ListFailed(c)
  \/ call[c].op = "toggle" /\ ToggleSettled(c, ok)
  \/ /\ call[c].op \in {"create", "update", "delete"}
     /\ IF ok THEN Invalidate(c, cache) ELSE Done(c, [cache EXCEPT !.doubt = TRUE, !.missed = TRUE])

(* useAuth: clearAuth and queryClient.clear, whatever the answer was. *)
LoggedOut(c) ==
  /\ LogsOut(c)
  /\ store' = 0
  /\ page' = IF page = "todos" THEN "login" ELSE page
  /\ Done(c, NoCache)

Rejected(c) == \/ LoggedOut(c)
               \/ ~LogsOut(c) /\ Settled(c, FALSE) /\ UNCHANGED <<store, page>>

Answered(c) ==
  /\ call[c].pc = "served"
  /\ \/ ~LogsOut(c) /\ T!Taken(c) /\ Settled(c, work[c].ans = "ok") /\ UNCHANGED <<store, page>>
     \/ LoggedOut(c) /\ UNCHANGED work
  /\ UNCHANGED <<todos, last, session, faults, old, clicks, raced>>

--------------------------------------------------------------------------------
(* The response interceptor. *)

(* The refresh failed: the tokens go and the browser loads the login page. *)
SignOut(c) == store' = 0 /\ page' = "leaving" /\ Done(c, cache)

GiveUp(c) ==
  /\ call[c].pc = "refused"
  /\ \/ call[c].retried /\ Rejected(c) /\ raced' = TRUE
     \/ ~call[c].retried /\ store = 0 /\ SignOut(c) /\ raced' = raced
  /\ UNCHANGED <<table, session, faults, old, clicks>>

Refresh(c) ==
  /\ call[c].pc = "refused" /\ ~call[c].retried /\ store # 0
  /\ A!RefreshGetToken(c, store)
  /\ call' = [call EXCEPT ![c].pc = "refresh", ![c].retried = TRUE]
  /\ raced' = (raced \/ \E d \in Calls \ {c} : Refreshing(d) \/ LogsOut(d))
  /\ UNCHANGED <<table, store, old, cache, page, clicks>>

(* Mutant: the new pair is only used to send the call again. *)
RefreshedOnce(c) ==
  /\ Refreshing(c) /\ A!At(c, "done")
  /\ \/ /\ req[c].ans = "ok"
        /\ call' = [call EXCEPT ![c].pc = "sent"]
        /\ UNCHANGED <<store, cache, page>>
     \/ req[c].ans # "ok" /\ SignOut(c)
  /\ UNCHANGED <<table, session, faults, old, clicks, raced>>

(* The new pair is stored, and the call sent again. *)
Refreshed(c) ==
  /\ Refreshing(c) /\ A!At(c, "done")
  /\ \/ /\ req[c].ans = "ok"
        /\ store' = call[c].tok
        /\ call' = [call EXCEPT ![c].pc = "sent"]
        /\ UNCHANGED <<cache, page>>
     \/ req[c].ans # "ok" /\ SignOut(c)
  /\ UNCHANGED <<table, session, faults, old, clicks, raced>>

(* The new page has none of the state of the old one; the handlers go on. *)
Unload ==
  /\ page = "leaving"
  /\ page' = "login"
  /\ call' = [c \in Calls |-> NoCall]
  /\ cache' = NoCache
  /\ UNCHANGED <<table, session, faults, store, old, clicks, raced>>

Step(c) ==
  \/ Fetch(c) \/ Edit(c) \/ (\E i \in Ids : Toggle(c, i)) \/ Logout(c)
  \/ Arrive(c) \/ Refuse(c) \/ Serve(c) \/ ServeRefresh(c)
  \/ Answered(c) \/ GiveUp(c) \/ Refresh(c) \/ Refreshed(c)

Next ==
  \/ \E c \in Calls : Step(c)
  \/ \E t \in A!Tokens : ExpireAccess(t)
  \/ Unload

Spec == Init /\ [][Next]_vars

--------------------------------------------------------------------------------
(* No call of the page is under way. *)
Quiet == \A c \in Calls : Idle(c)

(***************************************************************************)
(* When nothing is under way and the list is not due to be fetched, it is  *)
(* what the table holds: no order in which edits, toggles, rollbacks and    *)
(* fetches overlap leaves a list from before an edit on a page that had     *)
(* one.  The two ways to a wrong list both pass through an edit that had no *)
(* fetch of its own since: a create, update or delete that was rejected,    *)
(* and may have been done, since only a toggle has the list fetched after   *)
(* a rejection; and a create answered while the first list was on its way,  *)
(* which the program shows without the new todo and holds to be fresh.      *)
(***************************************************************************)
QuietCacheIsTrue ==
  Quiet /\ page = "todos" /\ cache.data # None /\ ~cache.stale /\ ~cache.doubt
    => cache.data = todos

(***************************************************************************)
(* When nothing is under way, the page is signed in with tokens that can be *)
(* refreshed, or it has none and neither has the server: however many calls *)
(* are refused, wait for refreshes one after the other and are sent again.  *)
(* Only a failure, or refreshes that overlap each other or a logout, sign   *)
(* the user out, leave dead tokens, or sign the user in again.              *)
(***************************************************************************)
TokensTellTheTruth ==
  Quiet /\ ~raced /\ faults = 0 =>
    IF page = "todos" THEN store \in stored ELSE store = 0 /\ stored = {}

(***************************************************************************)
(* A deleted todo stays deleted in the table, whatever calls of the page    *)
(* found it before and are still to write, or are sent again.              *)
(***************************************************************************)
DeletedForGood ==
  [][\A i \in Ids : i <= last /\ todos[i] = NoTodo => todos'[i] = NoTodo]_vars
================================================================================
