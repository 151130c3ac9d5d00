----------------------------- MODULE AuthSessions -----------------------------
(***************************************************************************)
(* Accounts and sessions: the tables users and refresh_tokens, and the     *)
(* routed handlers register, login, refresh, logout, profile and password. *)
(* As in CallRooms each action is one MySQL statement with the code up to  *)
(* the next one, and the statements of concurrent requests interleave: no  *)
(* handler uses a transaction.  A request runs under r.Context(), so it    *)
(* also fails when its client goes away.                                   *)
(*                                                                         *)
(* Rejections that depend on the form of the input alone change nothing    *)
(* and are left out.  So are the handlers no route reaches (password       *)
(* reset, session list, revocation).                                       *)
(***************************************************************************)
EXTENDS Integers, FiniteSets

CONSTANTS
  Users,      \* e-mail addresses, one account each
  Passwords,
  Names,
  Requests,   \* slots for concurrent HTTP requests
  MaxTokens,  \* bound on refresh tokens generated
  MaxFaults,  \* bound on failed statements and restarts
  NoRow,      \* the account of an address that has none
  NoUser      \* the owner of a token not generated yet

ASSUME BoundsAssumption == MaxTokens \in Nat /\ MaxFaults \in Nat
ASSUME NoUserAssumption == NoUser \notin Users

(* The columns of users that handlers write: a password stands for its hash. *)
Row == [password: Passwords, name: Names]

ASSUME NoRowAssumption == NoRow \notin Row
ASSUME InhabitedAssumption == Users # {}

VARIABLES
  users,    \* the table users
  stored,   \* the table refresh_tokens: the tokens that have a row
  owner,    \* the user a token was generated for (its column user_id)
  issued,   \* tokens generated so far: 1, 2, ..., issued
  handed,   \* tokens that reached a client
  expired,  \* tokens past their expires_at
  access,   \* users of whom a client holds a valid access token
  req,      \* the requests
  faults    \* failed statements and restarts so far

tables == <<users, stored, owner, issued, handed, expired, access>>
vars   == <<tables, req, faults>>

Tokens == 1..MaxTokens

(* row: the User struct to be written; token: the one presented (0: none). *)
Request == [op: {"none", "register", "login", "refresh", "logout", "profile", "password"},
            pc: {"idle", "create", "purge", "find", "delete", "save", "update", "done"},
            user: Users, row: Row \cup {NoRow}, token: Tokens \cup {0},
            ans: {"none", "ok", "error", "lost"}]

Idle == [op |-> "none", pc |-> "idle", user |-> CHOOSE u \in Users : TRUE,
         row |-> NoRow, token |-> 0, ans |-> "none"]

(* The tables and the handlers' variables keep their types; only tokens    *)
(* that were generated are stored, held or expired; and only users with an *)
(* account have sessions or access (user_id references users).             *)
TypeOK ==
  /\ users \in [Users -> Row \cup {NoRow}]
  /\ owner \in [Tokens -> Users \cup {NoUser}]
  /\ issued \in 0..MaxTokens
  /\ \A t \in 1..issued : owner[t] \in Users
  /\ stored \subseteq 1..issued
  /\ handed \subseteq 1..issued
  /\ expired \subseteq 1..issued
  /\ access \subseteq Users
  /\ \A u \in access \cup {owner[t] : t \in stored} : users[u] \in Row
  /\ req \in [Requests -> Request]
  /\ faults \in Nat

Init ==
  /\ users = [u \in Users |-> NoRow]
  /\ owner = [t \in Tokens |-> NoUser]
  /\ issued = 0
  /\ stored = {} /\ handed = {} /\ expired = {} /\ access = {}
  /\ req = [p \in Requests |-> Idle]
  /\ faults = 0

--------------------------------------------------------------------------------
(* Requests and statements. *)

Free(p)  == req[p].pc \in {"idle", "done"}
At(p, l) == req[p].pc = l

Goto(p, l)   == req' = [req EXCEPT ![p].pc = l]
Answer(p, a) == req' = [req EXCEPT ![p].pc = "done", ![p].row = NoRow, ![p].ans = a]

(* A request whose first statement let it go on, or answered it. *)
Arrive(p, op, u, l, row, t) ==
  req' = [req EXCEPT ![p] = [op |-> op, pc |-> l, user |-> u, row |-> row,
                             token |-> t, ans |-> "none"]]

Reply(p, op, u, t, a) ==
  req' = [req EXCEPT ![p] = [op |-> op, pc |-> "done", user |-> u, row |-> NoRow,
                             token |-> t, ans |-> a]]

Works == faults' = faults
Fails == faults < MaxFaults /\ faults' = faults + 1

Sessions(u) == {t \in stored : owner[t] = u}

(* DELETE ... WHERE user_id = ?.  (Mutant: the call is missing.) *)
Kept(u)    == stored
Revoked(u) == stored \ Sessions(u)

(* DELETE ... WHERE expires_at < NOW().  (Mutant: > instead of <.) *)
PurgedLive == stored \cap expired
Purged     == stored \ expired

(* SELECT ... WHERE token = ? AND expires_at > NOW().  (Mutant: a token    *)
(* that was handed out is trusted without a look at the table.)            *)
Unchecked(t) == t \notin expired
Valid(t)     == t \in stored \ expired

--------------------------------------------------------------------------------
(* POST /api/auth/register *)

(* The finder misses the account of an address with spaces around it, which *)
(* only the row to be created drops; and an error of it counts as a miss.   *)
RegisterFindUser(p, u, row) ==
  /\ Free(p)
  /\ \/ (Works \/ Fails) /\ Arrive(p, "register", u, "create", row, 0)
     \/ Works /\ users[u] # NoRow /\ Reply(p, "register", u, 0, "error")
  /\ UNCHANGED tables

(* The unique key on email.  (Mutant: the table without the key.) *)
NoEmailKey(u) == TRUE
EmailFree(u)  == users[u] = NoRow

(* (Mutant: an error of Create is ignored.) *)
ErrorIgnored(p) == Goto(p, "purge")
CreateFailed(p) == Answer(p, "error")

RegisterCreateUser(p) ==
  LET u == req[p].user
      created == [users EXCEPT ![u] = req[p].row]
  IN  /\ At(p, "create")
      /\ \/ Works /\ EmailFree(u) /\ users' = created /\ Goto(p, "purge")
         \/ Works /\ ~EmailFree(u) /\ users' = users /\ CreateFailed(p)
         \/ /\ Fails
            /\ users' = users \/ (EmailFree(u) /\ users' = created)
            /\ CreateFailed(p)
      /\ UNCHANGED <<stored, owner, issued, handed, expired, access>>

--------------------------------------------------------------------------------
(* POST /api/auth/login *)

(* FindByEmail, then CheckPassword on the row that was read. *)
LoginFindUser(p, u, password) ==
  LET ok == users[u] # NoRow /\ users[u].password = password
  IN  /\ Free(p)
      /\ \/ Works /\ ok /\ Arrive(p, "login", u, "purge", NoRow, 0)
         \/ Works /\ ~ok /\ Reply(p, "login", u, 0, "error")
         \/ Fails /\ Reply(p, "login", u, 0, "error")
      /\ UNCHANGED tables

(* Register and login delete expired tokens, and ignore an error. *)
DeleteExpiredTokens(p) ==
  /\ At(p, "purge")
  /\ \/ Works /\ stored' = Purged
     \/ Fails /\ stored' \in {stored, Purged}
  /\ Goto(p, "save")
  /\ UNCHANGED <<users, owner, issued, handed, expired, access>>

(* generateTokens: the INSERT of a new random token, and the answer. *)
SaveRefreshToken(p) ==
  LET t == issued + 1
  IN  /\ At(p, "save")
      /\ t \in Tokens
      /\ issued' = t
      /\ owner' = [owner EXCEPT ![t] = req[p].user]
      /\ \/ /\ Works
            /\ stored' = stored \cup {t}
            /\ handed' = handed \cup {t}
            /\ access' = access \cup {req[p].user}
            /\ Answer(p, "ok")
         \/ /\ Fails
            /\ stored' \in {stored, stored \cup {t}}
            /\ UNCHANGED <<handed, access>>
            /\ Answer(p, "error")
      /\ UNCHANGED <<users, expired>>

--------------------------------------------------------------------------------
(* POST /api/auth/refresh *)

RefreshGetToken(p, t) ==
  LET u == owner[t]
  IN  /\ Free(p)
      /\ t \in handed
      /\ \/ Works /\ Valid(t) /\ Arrive(p, "refresh", u, "find", NoRow, t)
         \/ Works /\ ~Valid(t) /\ Reply(p, "refresh", u, t, "error")
         \/ Fails /\ Reply(p, "refresh", u, t, "error")
      /\ UNCHANGED tables

(* The token read may expire before IsExpired looks at it: then expired    *)
(* tokens are deleted.  Otherwise FindByID, which finds the user.          *)
RefreshFindUser(p) ==
  LET late == req[p].token \in expired
  IN  /\ At(p, "find")
      /\ \/ Works /\ late /\ stored' = Purged /\ Answer(p, "error")
         \/ Fails /\ late /\ stored' \in {stored, Purged} /\ Answer(p, "error")
         \/ Works /\ ~late /\ stored' = stored /\ Goto(p, "delete")
         \/ Fails /\ ~late /\ stored' = stored /\ Answer(p, "error")
      /\ UNCHANGED <<users, owner, issued, handed, expired, access>>

(* All the tokens of the user go; an error is only printed. *)
RefreshDeleteTokens(p) ==
  /\ At(p, "delete")
  /\ \/ Works /\ stored' = Revoked(req[p].user)
     \/ Fails /\ stored' \in {stored, Revoked(req[p].user)}
  /\ Goto(p, "save")
  /\ UNCHANGED <<users, owner, issued, handed, expired, access>>

--------------------------------------------------------------------------------
(* Behind the access token: POST logout, PUT profile, PUT password *)

Logout(p, u) ==
  /\ Free(p)
  /\ u \in access
  /\ \/ Works /\ stored' = Revoked(u) /\ Reply(p, "logout", u, 0, "ok")
     \/ Fails /\ stored' \in {stored, Revoked(u)} /\ Reply(p, "logout", u, 0, "error")
  /\ UNCHANGED <<users, owner, issued, handed, expired, access>>

ProfileFindUser(p, u, name) ==
  /\ Free(p)
  /\ u \in access
  /\ \/ Works /\ Arrive(p, "profile", u, "update", [users[u] EXCEPT !.name = name], 0)
     \/ Fails /\ Reply(p, "profile", u, 0, "error")
  /\ UNCHANGED tables

(* CheckPassword on the row that was read. *)
PasswordFindUser(p, u, old, new) ==
  LET ok == users[u].password = old
  IN  /\ Free(p)
      /\ u \in access
      /\ old # new
      /\ \/ /\ Works /\ ok
            /\ Arrive(p, "password", u, "update", [users[u] EXCEPT !.password = new], 0)
         \/ Works /\ ~ok /\ Reply(p, "password", u, 0, "error")
         \/ Fails /\ Reply(p, "password", u, 0, "error")
      /\ UNCHANGED tables

(* UPDATE users writes every column from the struct read earlier.  A row   *)
(* that already holds these values, with an updated_at of the same second, *)
(* counts as not found.                                                    *)
UpdateUser(p) ==
  LET u == req[p].user
      written == [users EXCEPT ![u] = req[p].row]
  IN  /\ At(p, "update")
      /\ \/ Works /\ users' = written /\ Answer(p, "ok")
         \/ Works /\ users' = users /\ written = users /\ Answer(p, "error")
         \/ Fails /\ users' \in {users, written} /\ Answer(p, "error")
      /\ UNCHANGED <<stored, owner, issued, handed, expired, access>>

--------------------------------------------------------------------------------
(* Time, the hourly cleanup, and restarts. *)

Expire(t) ==
  /\ t \in (1..issued) \ expired
  /\ expired' = expired \cup {t}
  /\ UNCHANGED <<users, stored, owner, issued, handed, access, req, faults>>

ExpireAccess(u) ==
  /\ u \in access
  /\ access' = access \ {u}
  /\ UNCHANGED <<users, stored, owner, issued, handed, expired, req, faults>>

CleanupExpiredTokens ==
  /\ stored' = Purged
  /\ UNCHANGED <<users, owner, issued, handed, expired, access, req, faults>>

Restart ==
  /\ Fails
  /\ \E p \in Requests : ~Free(p)
  /\ req' = [p \in Requests |-> IF Free(p) THEN req[p]
                                ELSE [req[p] EXCEPT !.pc = "done", !.row = NoRow, !.ans = "lost"]]
  /\ UNCHANGED tables

Begin(p) ==
  \/ \E t \in Tokens : RefreshGetToken(p, t)
  \/ \E u \in Users :
       \/ \E row \in Row : RegisterFindUser(p, u, row)
       \/ \E password \in Passwords : LoginFindUser(p, u, password)
       \/ Logout(p, u)
       \/ \E name \in Names : ProfileFindUser(p, u, name)
       \/ \E old, new \in Passwords : PasswordFindUser(p, u, old, new)

Continue(p) ==
  \/ RegisterCreateUser(p)
  \/ DeleteExpiredTokens(p)
  \/ SaveRefreshToken(p)
  \/ RefreshFindUser(p)
  \/ RefreshDeleteTokens(p)
  \/ UpdateUser(p)

Next ==
  \/ \E p \in Requests : Begin(p) \/ Continue(p)
  \/ \E t \in Tokens : Expire(t)
  \/ \E u \in Users : ExpireAccess(u)
  \/ CleanupExpiredTokens
  \/ Restart

Spec == Init /\ [][Next]_vars

--------------------------------------------------------------------------------
(* Safety. *)

(***************************************************************************)
(* However registrations of an address race, and although the finder's     *)
(* errors are ignored, at most one of them answers success.                *)
(***************************************************************************)
RegisterOnce ==
  \A p, q \in Requests :
    /\ req[p].op = "register" /\ req[p].ans = "ok"
    /\ req[q].op = "register" /\ req[q].ans = "ok"
    /\ req[p].user = req[q].user
    => p = q

(***************************************************************************)
(* A refresh token is spent: unless a statement failed, the token of a     *)
(* refresh that answered success is gone, and no request that read it      *)
(* before brings it back.                                                  *)
(***************************************************************************)
RefreshRotates ==
  \A p \in Requests :
    faults = 0 /\ req[p].op = "refresh" /\ req[p].ans = "ok"
      => req[p].token \notin stored

(***************************************************************************)
(* What a sign-out leaves.  While a user has no live token, after a logout *)
(* say, no token gets a refresh going, whoever holds it: the requests that *)
(* may give the user a session are those that had got past the read of     *)
(* their token before, and those that have the password or register.  A    *)
(* live token comes only from one of them, which then can give no more.    *)
(* So what outlives a logout is one new session for each refresh that was  *)
(* in flight, which lives on as any session does; with none in flight, the *)
(* user is out until the password is given again.                          *)
(***************************************************************************)
Granting(p, u) == req[p].user = u /\ req[p].pc \in {"create", "purge", "find", "delete", "save"}

SignedOut(u) == Sessions(u) \subseteq expired

GrantsSpent ==
  [][\A u \in Users : SignedOut(u) =>
       /\ \A p \in Requests :
            Granting(p, u)' => Granting(p, u) \/ req'[p].op \in {"register", "login"}
       /\ SignedOut(u)' \/ \E p \in Requests : Granting(p, u) /\ ~Granting(p, u)']_vars

(***************************************************************************)
(* A user who has a live token, or a request about to save one, loses the  *)
(* last of them only to a logout, to time or to a failure.  So concurrent  *)
(* refreshes, each deleting all the tokens of the user, may leave one of   *)
(* the clients with a dead token, but never all of them.                   *)
(***************************************************************************)
Alive(u) ==
  \/ \E t \in Sessions(u) : t \notin expired
  \/ \E p \in Requests : At(p, "save") /\ req[p].user = u

LogsOut(u) == \E p \in Requests : Logout(p, u)

SessionsEndForAReason ==
  [][\A u \in Users : Alive(u) /\ ~Alive(u)'
       => LogsOut(u) \/ expired' # expired \/ faults' # faults]_vars

(***************************************************************************)
(* The password of an account is replaced only by a password request, or   *)
(* by a profile request that read the account before such a replacement:   *)
(* no registration of the same address, and no profile request that read   *)
(* the password in force, replaces it.                                     *)
(***************************************************************************)
Updating(p, op, u) == At(p, "update") /\ req[p].op = op /\ req[p].user = u

StaleProfile(u) ==
  \E p \in Requests : Updating(p, "profile", u) /\ req[p].row.password # users[u].password

NewPassword(u) ==
  users[u] # NoRow /\ users'[u] # users[u] /\ users'[u].password # users[u].password

PasswordKept ==
  [][\A u \in Users : NewPassword(u)
       => StaleProfile(u) \/ \E p \in Requests : Updating(p, "password", u)]_vars

--------------------------------------------------------------------------------
(* What documentation says, and the code does not do. *)

(* auth_handler.go:187 "update the profile information of the user": only  *)
(* a password request replaces a password.                                 *)
ProfileKeepsPassword ==
  [][\A u \in Users : NewPassword(u)
       => \E p \in Requests : Updating(p, "password", u)]_vars
===============================================================================
