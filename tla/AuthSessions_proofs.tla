-------------------------- MODULE AuthSessions_proofs --------------------------
(***************************************************************************)
(* Proofs about AuthSessions, for any users, passwords, names, requests,    *)
(* tokens and faults.                                                      *)
(***************************************************************************)
EXTENDS AuthSessions, TLAPS

(***************************************************************************)
(* TypeOK is not inductive: a request saves a token, or writes a row, for   *)
(* the account that an earlier statement found.  ReqOK adds what a handler  *)
(* knows of its account and of its token; accounts are never removed, and   *)
(* the owner of a token never changes, so it stays true.                   *)
(***************************************************************************)
HasAccount(u, us) == us[u] \in Row

ReqOK(x, us, n, ow) ==
  /\ x \in Request
  /\ x.pc \in {"create", "update"} => x.row \in Row
  /\ x.pc \in {"purge", "find", "delete", "save", "update"} => HasAccount(x.user, us)
  /\ x.token \in 0..n
  /\ x.pc \in {"find", "delete"} =>
       x.op = "refresh" /\ x.token \in 1..n /\ ow[x.token] = x.user
  /\ x.pc = "create" => x.op = "register"
  /\ x.pc = "purge" => x.op \in {"register", "login"}
  /\ x.pc = "update" => x.op \in {"profile", "password"}
  /\ x.ans # "none" => x.pc = "done"

TablesOK ==
  /\ users \in [Users -> Row \cup {NoRow}]
  /\ owner \in [Tokens -> Users \cup {NoUser}]
  /\ issued \in 0..MaxTokens
  /\ \A t \in 1..issued : owner[t] \in Users
  /\ stored \subseteq 1..issued
  /\ handed \subseteq 1..issued
  /\ expired \subseteq 1..issued
  /\ access \subseteq Users
  /\ \A u \in access : HasAccount(u, users)
  /\ \A t \in stored : HasAccount(owner[t], users)

ReqsOK ==
  /\ req \in [Requests -> Request]
  /\ \A p \in Requests : ReqOK(req[p], users, issued, owner)

TypeInv == TablesOK /\ ReqsOK /\ faults \in Nat

(* The invariant has the types in it. *)
LEMMA TypeInvTypes == TypeInv => TypeOK
BY DEF TypeInv, TablesOK, ReqsOK, TypeOK, HasAccount

(* A slot without a request. *)
LEMMA IdleOK == ASSUME NEW us, NEW n \in Nat, NEW ow PROVE ReqOK(Idle, us, n, ow)
<1>1. (CHOOSE u \in Users : TRUE) \in Users
  BY InhabitedAssumption
<1>2. Idle \in Request
  BY <1>1 DEF Idle, Request
<1>3. Idle.pc = "idle" /\ Idle.token = 0 /\ Idle.ans = "none"
  BY DEF Idle
<1> QED
  BY <1>2, <1>3 DEF ReqOK

(* No account and no session at first. *)
LEMMA TypeInit == Init => TypeInv
<1> SUFFICES ASSUME Init PROVE TypeInv
  OBVIOUS
<1>1. TablesOK
  BY BoundsAssumption DEF Init, TablesOK, HasAccount
<1>2. \A p \in Requests : req[p] = Idle /\ ReqOK(req[p], users, issued, owner)
  BY IdleOK DEF Init
<1>3. req \in [Requests -> Request]
  BY <1>2 DEF Init, ReqOK
<1> QED
  BY <1>1, <1>2, <1>3 DEF Init, TypeInv, ReqsOK

(* Accounts stay, and tokens keep their owners. *)
Grows ==
  /\ \A u \in Users : HasAccount(u, users) => HasAccount(u, users')
  /\ issued' >= issued
  /\ \A t \in 1..issued : owner'[t] = owner[t]

(* What a handler knows stays true. *)
LEMMA ReqFrame ==
  ASSUME Grows, issued \in Nat, issued' \in Nat, NEW x, ReqOK(x, users, issued, owner)
  PROVE  ReqOK(x, users', issued', owner')
<1>1. x.user \in Users
  BY DEF ReqOK, Request
<1>2. x.token \in 0..issued' /\ (x.token \in 1..issued => x.token \in 1..issued')
  BY DEF ReqOK, Grows
<1>3. x.token \in 1..issued => owner'[x.token] = owner[x.token]
  BY DEF Grows
<1> QED
  BY <1>1, <1>2, <1>3 DEF ReqOK, Grows

(* A step of one handler. *)
LEMMA ReqStep ==
  ASSUME TypeInv, TablesOK', Grows, NEW p \in Requests, NEW x,
         req' = [req EXCEPT ![p] = x], ReqOK(x, users', issued', owner')
  PROVE  ReqsOK'
<1>1. issued \in Nat /\ issued' \in Nat
  BY BoundsAssumption DEF TypeInv, TablesOK
<1>2. req \in [Requests -> Request] /\ x \in Request
  BY DEF TypeInv, ReqsOK, ReqOK
<1>3. req'[p] = x /\ \A q \in Requests \ {p} : req'[q] = req[q]
  BY <1>2
<1>4. \A q \in Requests : ReqOK(req'[q], users', issued', owner')
  BY <1>1, <1>3, ReqFrame DEF TypeInv, ReqsOK
<1>5. req' \in [Requests -> Request]
  BY <1>2
<1> QED
  BY <1>4, <1>5 DEF ReqsOK

(* The counter of faults. *)
LEMMA FaultsStep == ASSUME faults \in Nat, Works \/ Fails PROVE faults' \in Nat
BY DEF Works, Fails

--------------------------------------------------------------------------------
(* The ways in which a statement changes the tables. *)

(* Rows of refresh_tokens are deleted, access tokens expire. *)
LEMMA TablesShrink ==
  ASSUME TypeInv, stored' \subseteq stored, access' \subseteq access,
         UNCHANGED <<users, owner, issued, handed, expired>>
  PROVE  TablesOK' /\ Grows
BY DEF TypeInv, TablesOK, Grows, HasAccount

(* An account is created, or written. *)
LEMMA TablesUser ==
  ASSUME TypeInv, NEW u \in Users, NEW row \in Row,
         users' = users \/ users' = [users EXCEPT ![u] = row],
         UNCHANGED <<stored, owner, issued, handed, expired, access>>
  PROVE  TablesOK' /\ Grows
<1>1. users \in [Users -> Row \cup {NoRow}]
  BY DEF TypeInv, TablesOK
<1>2. users' \in [Users -> Row \cup {NoRow}]
  BY <1>1
<1>3. \A v \in Users : HasAccount(v, users) => HasAccount(v, users')
  BY <1>1 DEF HasAccount
<1>4. \A t \in stored : owner[t] \in Users
  BY DEF TypeInv, TablesOK
<1> QED
  BY <1>2, <1>3, <1>4 DEF TypeInv, TablesOK, Grows

(* A token is generated for a user with an account, and saved or not. *)
LEMMA TablesIssue ==
  ASSUME TypeInv, NEW u \in Users, HasAccount(u, users), issued + 1 \in Tokens,
         issued' = issued + 1, owner' = [owner EXCEPT ![issued + 1] = u],
         stored' \in {stored, stored \cup {issued + 1}},
         handed' \in {handed, handed \cup {issued + 1}},
         access' \in {access, access \cup {u}},
         UNCHANGED <<users, expired>>
  PROVE  TablesOK' /\ Grows
<1>1. /\ issued \in Nat /\ owner \in [Tokens -> Users \cup {NoUser}]
      /\ \A t \in 1..issued : owner[t] \in Users
      /\ stored \subseteq 1..issued /\ handed \subseteq 1..issued /\ expired \subseteq 1..issued
  BY BoundsAssumption DEF TypeInv, TablesOK
<1>2. issued' \in 0..MaxTokens /\ issued' >= issued
  BY <1>1, BoundsAssumption DEF Tokens
<1>3. \A t \in 1..issued : t \in Tokens /\ t # issued + 1 /\ owner'[t] = owner[t]
  BY <1>1, <1>2, BoundsAssumption DEF Tokens
<1>4. owner'[issued + 1] = u /\ owner' \in [Tokens -> Users \cup {NoUser}]
  BY <1>1
<1>5. \A t \in 1..issued' : t \in 1..issued \/ t = issued + 1
  BY <1>1
<1>6. /\ stored' \subseteq 1..issued' /\ handed' \subseteq 1..issued' /\ expired' \subseteq 1..issued'
      /\ \A t \in 1..issued' : owner'[t] \in Users
  BY <1>1, <1>3, <1>4, <1>5
<1>7. \A t \in stored' : HasAccount(owner'[t], users')
  BY <1>1, <1>3, <1>4 DEF TypeInv, TablesOK
<1>8. \A v \in access' : HasAccount(v, users')
  BY DEF TypeInv, TablesOK
<1> QED
  BY <1>2, <1>3, <1>4, <1>6, <1>7, <1>8 DEF TypeInv, TablesOK, Grows

--------------------------------------------------------------------------------
(* What a handler goes on with. *)

(* It answers, keeping its token. *)
LEMMA AnswerOK ==
  ASSUME NEW us, NEW n \in Nat, NEW ow, NEW x, ReqOK(x, us, n, ow),
         NEW a \in {"ok", "error", "lost"}
  PROVE  ReqOK([x EXCEPT !.pc = "done", !.row = NoRow, !.ans = a], us, n, ow)
BY DEF ReqOK, Request

(* Its first statement answers. *)
LEMMA ReplyOK ==
  ASSUME NEW us, NEW n \in 0..MaxTokens, NEW ow, NEW op \in {"register", "login", "refresh", "logout", "profile", "password"},
         NEW u \in Users, NEW t \in 0..n, NEW a \in {"ok", "error"}
  PROVE  ReqOK([op |-> op, pc |-> "done", user |-> u, row |-> NoRow, token |-> t, ans |-> a],
               us, n, ow)
<1>1. t \in Tokens \cup {0}
  BY BoundsAssumption DEF Tokens
<1> QED
  BY <1>1 DEF ReqOK, Request

(* Its first statement lets it go on. *)
LEMMA ArriveOK ==
  ASSUME NEW us, NEW n \in 0..MaxTokens, NEW ow, NEW op \in {"register", "login", "refresh", "profile", "password"},
         NEW u \in Users, NEW t \in 0..n, NEW l \in {"create", "purge", "find", "update"},
         NEW row \in Row \cup {NoRow},
         l \in {"create", "update"} => row \in Row,
         l # "create" => HasAccount(u, us),
         l = "create" => op = "register",
         l = "purge" => op \in {"register", "login"},
         l = "update" => op \in {"profile", "password"},
         l = "find" => op = "refresh" /\ t \in 1..n /\ ow[t] = u
  PROVE  ReqOK([op |-> op, pc |-> l, user |-> u, row |-> row, token |-> t, ans |-> "none"],
               us, n, ow)
<1>1. t \in Tokens \cup {0}
  BY BoundsAssumption DEF Tokens
<1> QED
  BY <1>1 DEF ReqOK, Request

(* A later statement lets it go on. *)
LEMMA GotoOK ==
  ASSUME NEW us, NEW n \in Nat, NEW ow, NEW x, ReqOK(x, us, n, ow), x.pc # "done",
         NEW l \in {"purge", "delete", "save"}, HasAccount(x.user, us),
         l = "delete" => x.pc = "find", l = "purge" => x.op = "register"
  PROVE  ReqOK([x EXCEPT !.pc = l], us, n, ow)
BY DEF ReqOK, Request

(***************************************************************************)
(* Handlers at their first statement.                                      *)
(***************************************************************************)
LEMMA ReplyStep ==
  ASSUME TypeInv, TablesOK', Grows, Works \/ Fails, NEW p \in Requests,
         NEW op \in {"register", "login", "refresh", "logout", "profile", "password"},
         NEW u \in Users, NEW t \in 0..issued', NEW a \in {"ok", "error"}, Reply(p, op, u, t, a)
  PROVE  TypeInv'
<1> DEFINE x == [op |-> op, pc |-> "done", user |-> u, row |-> NoRow, token |-> t, ans |-> a]
<1>1. issued' \in 0..MaxTokens
  BY DEF TablesOK
<1>2. ReqOK(x, users', issued', owner')
  BY <1>1, ReplyOK
<1>3. req' = [req EXCEPT ![p] = x]
  BY DEF Reply
<1> HIDE DEF x
<1>4. ReqsOK'
  BY <1>2, <1>3, ReqStep
<1> QED
  BY <1>4, FaultsStep DEF TypeInv

(* The first statement leaves the tables and lets the request go on. *)
LEMMA ArriveStep ==
  ASSUME TypeInv, UNCHANGED tables, Works \/ Fails, NEW p \in Requests,
         NEW op \in {"register", "login", "refresh", "profile", "password"},
         NEW u \in Users, NEW t \in 0..issued, NEW l \in {"create", "purge", "find", "update"},
         NEW row \in Row \cup {NoRow}, Arrive(p, op, u, l, row, t),
         l \in {"create", "update"} => row \in Row,
         l # "create" => HasAccount(u, users),
         l = "create" => op = "register",
         l = "purge" => op \in {"register", "login"},
         l = "update" => op \in {"profile", "password"},
         l = "find" => op = "refresh" /\ t \in 1..issued /\ owner[t] = u
  PROVE  TypeInv'
<1> DEFINE x == [op |-> op, pc |-> l, user |-> u, row |-> row, token |-> t, ans |-> "none"]
<1>1. issued \in 0..MaxTokens
  BY DEF TypeInv, TablesOK
<1>2. ReqOK(x, users, issued, owner)
  BY <1>1, ArriveOK
<1>3. req' = [req EXCEPT ![p] = x]
  BY DEF Arrive
<1> HIDE DEF x
<1>4. TablesOK' /\ Grows
  BY TablesShrink DEF tables
<1>5. ReqOK(x, users', issued', owner')
  BY <1>2 DEF tables
<1>6. ReqsOK'
  BY <1>3, <1>4, <1>5, ReqStep
<1> QED
  BY <1>4, <1>6, FaultsStep DEF TypeInv

(* A later statement answers, or lets the request go on. *)
LEMMA AnswerStep ==
  ASSUME TypeInv, TablesOK', Grows, Works \/ Fails, NEW p \in Requests,
         NEW a \in {"ok", "error"}, Answer(p, a)
  PROVE  TypeInv'
<1>1. issued \in Nat /\ issued' \in Nat /\ ReqOK(req[p], users, issued, owner)
  BY BoundsAssumption DEF TypeInv, TablesOK, ReqsOK
<1>2. ReqOK(req[p], users', issued', owner')
  BY <1>1, ReqFrame
<1> DEFINE x == [req[p] EXCEPT !.pc = "done", !.row = NoRow, !.ans = a]
<1>3. ReqOK(x, users', issued', owner')
  BY <1>1, <1>2, AnswerOK
<1>4. req' = [req EXCEPT ![p] = x]
  BY DEF Answer
<1> HIDE DEF x
<1>5. ReqsOK'
  BY <1>3, <1>4, ReqStep
<1> QED
  BY <1>5, FaultsStep DEF TypeInv

(* It goes on, with an account. *)
LEMMA GotoStep ==
  ASSUME TypeInv, TablesOK', Grows, Works \/ Fails, NEW p \in Requests, req[p].pc # "done",
         NEW l \in {"purge", "delete", "save"}, Goto(p, l), HasAccount(req[p].user, users'),
         l = "delete" => req[p].pc = "find", l = "purge" => req[p].op = "register"
  PROVE  TypeInv'
<1>1. issued \in Nat /\ issued' \in Nat /\ ReqOK(req[p], users, issued, owner)
  BY BoundsAssumption DEF TypeInv, TablesOK, ReqsOK
<1>2. ReqOK(req[p], users', issued', owner')
  BY <1>1, ReqFrame
<1> DEFINE x == [req[p] EXCEPT !.pc = l]
<1>3. ReqOK(x, users', issued', owner')
  BY <1>1, <1>2, GotoOK
<1>4. req' = [req EXCEPT ![p] = x]
  BY DEF Goto
<1> HIDE DEF x
<1>5. ReqsOK'
  BY <1>3, <1>4, ReqStep
<1> QED
  BY <1>5, FaultsStep DEF TypeInv

(* An unchanged table, in the form that the steps above ask for. *)
LEMMA TablesSame == ASSUME TypeInv, UNCHANGED tables PROVE TablesOK' /\ Grows
BY TablesShrink DEF tables

(***************************************************************************)
(* The first statements of the handlers.                                   *)
(***************************************************************************)
LEMMA TypeBegin ==
  ASSUME TypeInv, NEW p \in Requests, Begin(p) PROVE TypeInv'
<1>t. /\ \A u \in access : u \in Users /\ users[u] \in Row
      /\ \A t \in handed : t \in 1..issued /\ owner[t] \in Users
      /\ \A t \in stored : users[owner[t]] \in Row
      /\ users \in [Users -> Row \cup {NoRow}] /\ issued \in Nat
  BY BoundsAssumption DEF TypeInv, TablesOK, HasAccount
<1>n. NoRow \in Row \cup {NoRow} /\ 0 \in 0..issued
  BY <1>t
<1>1. ASSUME NEW t \in Tokens, RefreshGetToken(p, t) PROVE TypeInv'
  <2>1. UNCHANGED tables /\ owner[t] \in Users /\ t \in 0..issued /\ t \in 1..issued
    BY <1>1, <1>t DEF RefreshGetToken
  <2>2. TablesOK' /\ Grows /\ issued' = issued
    BY <2>1, TablesSame DEF tables
  <2>3. CASE Works /\ Valid(t) /\ Arrive(p, "refresh", owner[t], "find", NoRow, t)
    <3>1. HasAccount(owner[t], users)
      BY <2>3, <1>t DEF Valid, HasAccount
    <3> QED
      BY <2>1, <2>3, <3>1, <1>n, ArriveStep
  <2>4. CASE (Works \/ Fails) /\ Reply(p, "refresh", owner[t], t, "error")
    BY <2>1, <2>2, <2>4, ReplyStep
  <2> QED
    BY <1>1, <2>3, <2>4 DEF RefreshGetToken
<1>2. ASSUME NEW u \in Users, NEW row \in Row, RegisterFindUser(p, u, row) PROVE TypeInv'
  <2>1. UNCHANGED tables
    BY <1>2 DEF RegisterFindUser
  <2>2. TablesOK' /\ Grows /\ 0 \in 0..issued'
    BY <2>1, <1>n, TablesSame DEF tables
  <2>3. CASE (Works \/ Fails) /\ Arrive(p, "register", u, "create", row, 0)
    BY <2>1, <2>3, <1>n, ArriveStep
  <2>4. CASE Works /\ Reply(p, "register", u, 0, "error")
    BY <2>2, <2>4, ReplyStep
  <2> QED
    BY <1>2, <2>3, <2>4 DEF RegisterFindUser
<1>3. ASSUME NEW u \in Users, NEW password \in Passwords, LoginFindUser(p, u, password)
      PROVE  TypeInv'
  <2>1. UNCHANGED tables
    BY <1>3 DEF LoginFindUser
  <2>2. TablesOK' /\ Grows /\ 0 \in 0..issued'
    BY <2>1, <1>n, TablesSame DEF tables
  <2>3. CASE Works /\ users[u] # NoRow /\ Arrive(p, "login", u, "purge", NoRow, 0)
    <3>1. HasAccount(u, users)
      BY <2>3, <1>t DEF HasAccount
    <3> QED
      BY <2>1, <2>3, <3>1, <1>n, ArriveStep
  <2>4. CASE (Works \/ Fails) /\ Reply(p, "login", u, 0, "error")
    BY <2>2, <2>4, ReplyStep
  <2> QED
    BY <1>3, <2>3, <2>4 DEF LoginFindUser
<1>4. ASSUME NEW u \in Users, Logout(p, u) PROVE TypeInv'
  <2>1. stored' \subseteq stored /\ UNCHANGED <<users, owner, issued, handed, expired, access>>
    BY <1>4 DEF Logout, Revoked
  <2>2. TablesOK' /\ Grows /\ 0 \in 0..issued'
    BY <2>1, <1>n, TablesShrink
  <2>3. PICK a \in {"ok", "error"} : (Works \/ Fails) /\ Reply(p, "logout", u, 0, a)
    BY <1>4 DEF Logout
  <2> QED
    BY <2>2, <2>3, ReplyStep
<1>5. ASSUME NEW u \in Users, NEW name \in Names, ProfileFindUser(p, u, name) PROVE TypeInv'
  <2>1. UNCHANGED tables /\ HasAccount(u, users)
    BY <1>5, <1>t DEF ProfileFindUser, HasAccount
  <2>2. TablesOK' /\ Grows /\ 0 \in 0..issued'
    BY <2>1, <1>n, TablesSame DEF tables
  <2>3. CASE Works /\ Arrive(p, "profile", u, "update", [users[u] EXCEPT !.name = name], 0)
    <3>1. [users[u] EXCEPT !.name = name] \in Row
      BY <2>1 DEF HasAccount, Row
    <3> QED
      BY <2>1, <2>3, <3>1, <1>n, ArriveStep
  <2>4. CASE Fails /\ Reply(p, "profile", u, 0, "error")
    BY <2>2, <2>4, ReplyStep
  <2> QED
    BY <1>5, <2>3, <2>4 DEF ProfileFindUser
<1>6. ASSUME NEW u \in Users, NEW old \in Passwords, NEW new \in Passwords,
             PasswordFindUser(p, u, old, new)
      PROVE  TypeInv'
  <2>1. UNCHANGED tables /\ HasAccount(u, users)
    BY <1>6, <1>t DEF PasswordFindUser, HasAccount
  <2>2. TablesOK' /\ Grows /\ 0 \in 0..issued'
    BY <2>1, <1>n, TablesSame DEF tables
  <2>3. CASE Works /\ Arrive(p, "password", u, "update", [users[u] EXCEPT !.password = new], 0)
    <3>1. [users[u] EXCEPT !.password = new] \in Row
      BY <2>1 DEF HasAccount, Row
    <3> QED
      BY <2>1, <2>3, <3>1, <1>n, ArriveStep
  <2>4. CASE (Works \/ Fails) /\ Reply(p, "password", u, 0, "error")
    BY <2>2, <2>4, ReplyStep
  <2> QED
    BY <1>6, <2>3, <2>4 DEF PasswordFindUser
<1> QED
  BY <1>1, <1>2, <1>3, <1>4, <1>5, <1>6 DEF Begin

(***************************************************************************)
(* The later statements.                                                   *)
(***************************************************************************)
LEMMA TypeContinue ==
  ASSUME TypeInv, NEW p \in Requests, Continue(p) PROVE TypeInv'
<1> DEFINE u == req[p].user
<1>r. /\ ReqOK(req[p], users, issued, owner) /\ u \in Users
      /\ users \in [Users -> Row \cup {NoRow}]
  BY DEF TypeInv, ReqsOK, TablesOK, ReqOK, Request
<1>1. CASE RegisterCreateUser(p)
  <2>1. req[p].row \in Row /\ req[p].pc = "create" /\ req[p].op = "register"
    BY <1>1, <1>r DEF RegisterCreateUser, At, ReqOK
  <2>2. /\ users' = users \/ users' = [users EXCEPT ![u] = req[p].row]
        /\ UNCHANGED <<stored, owner, issued, handed, expired, access>>
    BY <1>1 DEF RegisterCreateUser
  <2>3. TablesOK' /\ Grows
    BY <1>r, <2>1, <2>2, TablesUser
  <2>4. CASE Works /\ users' = [users EXCEPT ![u] = req[p].row] /\ Goto(p, "purge")
    <3>1. HasAccount(u, users')
      BY <1>r, <2>1, <2>4 DEF HasAccount
    <3> QED
      BY <2>1, <2>3, <2>4, <3>1, GotoStep
  <2>5. CASE (Works \/ Fails) /\ Answer(p, "error")
    BY <2>3, <2>5, AnswerStep
  <2> QED
    BY <1>1, <2>4, <2>5 DEF RegisterCreateUser, CreateFailed
<1>2. CASE DeleteExpiredTokens(p) \/ RefreshDeleteTokens(p)
  <2>1. req[p].pc \in {"purge", "delete"} /\ HasAccount(u, users) /\ Goto(p, "save")
        /\ (Works \/ Fails)
    BY <1>2, <1>r DEF DeleteExpiredTokens, RefreshDeleteTokens, At, ReqOK
  <2>2. stored' \subseteq stored /\ UNCHANGED <<users, owner, issued, handed, expired, access>>
    BY <1>2 DEF DeleteExpiredTokens, RefreshDeleteTokens, Purged, Revoked
  <2>3. TablesOK' /\ Grows
    BY <2>2, TablesShrink
  <2> QED
    BY <2>1, <2>2, <2>3, GotoStep
<1>3. CASE SaveRefreshToken(p)
  <2>1. req[p].pc = "save" /\ HasAccount(u, users)
    BY <1>3, <1>r DEF SaveRefreshToken, At, ReqOK
  <2>2. /\ issued + 1 \in Tokens /\ issued' = issued + 1
        /\ owner' = [owner EXCEPT ![issued + 1] = u]
        /\ stored' \in {stored, stored \cup {issued + 1}}
        /\ handed' \in {handed, handed \cup {issued + 1}}
        /\ access' \in {access, access \cup {u}}
        /\ UNCHANGED <<users, expired>>
    BY <1>3 DEF SaveRefreshToken
  <2>3. TablesOK' /\ Grows
    BY <1>r, <2>1, <2>2, TablesIssue
  <2>4. PICK a \in {"ok", "error"} : (Works \/ Fails) /\ Answer(p, a)
    BY <1>3 DEF SaveRefreshToken
  <2> QED
    BY <2>3, <2>4, AnswerStep
<1>4. CASE RefreshFindUser(p)
  <2>1. req[p].pc = "find" /\ HasAccount(u, users)
    BY <1>4, <1>r DEF RefreshFindUser, At, ReqOK
  <2>2. stored' \subseteq stored /\ UNCHANGED <<users, owner, issued, handed, expired, access>>
    BY <1>4 DEF RefreshFindUser, Purged
  <2>3. TablesOK' /\ Grows
    BY <2>2, TablesShrink
  <2>4. CASE Works /\ Goto(p, "delete")
    BY <2>1, <2>2, <2>3, <2>4, GotoStep
  <2>5. CASE (Works \/ Fails) /\ Answer(p, "error")
    BY <2>3, <2>5, AnswerStep
  <2> QED
    BY <1>4, <2>4, <2>5 DEF RefreshFindUser
<1>5. CASE UpdateUser(p)
  <2>1. req[p].row \in Row
    BY <1>5, <1>r DEF UpdateUser, At, ReqOK
  <2>2. /\ users' = users \/ users' = [users EXCEPT ![u] = req[p].row]
        /\ UNCHANGED <<stored, owner, issued, handed, expired, access>>
    BY <1>5 DEF UpdateUser
  <2>3. TablesOK' /\ Grows
    BY <1>r, <2>1, <2>2, TablesUser
  <2>4. PICK a \in {"ok", "error"} : (Works \/ Fails) /\ Answer(p, a)
    BY <1>5 DEF UpdateUser
  <2> QED
    BY <2>3, <2>4, AnswerStep
<1> QED
  BY <1>1, <1>2, <1>3, <1>4, <1>5 DEF Continue

(***************************************************************************)
(* Time, the cleanup and a restart; the requests stay or are lost.          *)
(***************************************************************************)
LEMMA TypeRest ==
  ASSUME TypeInv,
         \/ \E t \in Tokens : Expire(t)
         \/ \E u \in Users : ExpireAccess(u)
         \/ CleanupExpiredTokens \/ Restart \/ UNCHANGED vars
  PROVE  TypeInv'
<1>i. issued \in Nat
  BY BoundsAssumption DEF TypeInv, TablesOK
<1>1. ASSUME UNCHANGED <<users, owner, issued, req, faults>>, TablesOK' PROVE TypeInv'
  BY <1>1 DEF TypeInv, ReqsOK
<1>2. ASSUME NEW t \in Tokens, Expire(t) PROVE TypeInv'
  <2>1. TablesOK'
    BY <1>2 DEF Expire, TypeInv, TablesOK, HasAccount
  <2> QED
    BY <1>1, <1>2, <2>1 DEF Expire
<1>3. ASSUME NEW u \in Users, ExpireAccess(u) PROVE TypeInv'
  <2>1. access' \subseteq access
    BY <1>3 DEF ExpireAccess
  <2> QED
    BY <1>1, <1>3, <2>1, TablesShrink DEF ExpireAccess
<1>4. CASE CleanupExpiredTokens
  <2>1. stored' \subseteq stored
    BY <1>4 DEF CleanupExpiredTokens, Purged
  <2> QED
    BY <1>1, <1>4, <2>1, TablesShrink DEF CleanupExpiredTokens
<1>5. CASE Restart
  <2>1. TablesOK' /\ UNCHANGED <<users, issued, owner>> /\ faults' \in Nat
    BY <1>5, TablesSame, FaultsStep DEF Restart, tables, TypeInv
  <2>2. \A p \in Requests :
          req'[p] \in {req[p], [req[p] EXCEPT !.pc = "done", !.row = NoRow, !.ans = "lost"]}
    BY <1>5 DEF Restart
  <2>3. \A p \in Requests : ReqOK(req'[p], users, issued, owner)
    <3> SUFFICES ASSUME NEW p \in Requests PROVE ReqOK(req'[p], users, issued, owner)
      OBVIOUS
    <3>1. ReqOK(req[p], users, issued, owner)
      BY DEF TypeInv, ReqsOK
    <3>2. ReqOK([req[p] EXCEPT !.pc = "done", !.row = NoRow, !.ans = "lost"],
                users, issued, owner)
      BY <1>i, <3>1, AnswerOK
    <3> QED
      BY <2>2, <3>1, <3>2
  <2>4. req' \in [Requests -> Request]
    <3>1. req' = [p \in Requests |-> req'[p]]
      BY <1>5 DEF Restart
    <3>2. \A p \in Requests : req'[p] \in Request
      BY <2>3 DEF ReqOK
    <3> QED
      BY <3>1, <3>2
  <2> QED
    BY <2>1, <2>3, <2>4 DEF TypeInv, ReqsOK
<1>6. CASE UNCHANGED vars
  BY <1>1, <1>6, TablesSame DEF vars, tables
<1> QED
  BY <1>2, <1>3, <1>4, <1>5, <1>6

(* Every step keeps the invariant. *)
LEMMA TypeStep == TypeInv /\ [Next]_vars => TypeInv'
BY TypeBegin, TypeContinue, TypeRest DEF Next

(* The tables and the handlers' variables keep their types, and only users   *)
(* with an account have sessions.                                          *)
THEOREM SessionsTypeCorrect == Spec => []TypeOK
BY TypeInit, TypeStep, TypeInvTypes, PTL DEF Spec

--------------------------------------------------------------------------------
(***************************************************************************)
(* RegisterOnce says something of answers.  Inductive is: at most one       *)
(* request has registered an address, from its row to its answer, and then  *)
(* the address has an account.                                             *)
(***************************************************************************)
Registered(x) == x.op = "register" /\ (x.pc \in {"purge", "save"} \/ x.ans = "ok")

OneRegistered ==
  \A p \in Requests : Registered(req[p]) =>
    /\ HasAccount(req[p].user, users)
    /\ \A q \in Requests : Registered(req[q]) /\ req[q].user = req[p].user => p = q

(* A request whose registration is not new. *)
NotNew(x, y) == Registered(x) => Registered(y) /\ x.user = y.user

(* No account goes. *)
LEMMA AccountsStay == TypeInv /\ [Next]_vars => \A u \in Users :
                        HasAccount(u, users) => HasAccount(u, users')
<1> SUFFICES ASSUME TypeInv, [Next]_vars, NEW u \in Users, HasAccount(u, users)
             PROVE  HasAccount(u, users')
  OBVIOUS
<1>1. CASE users' = users
  BY <1>1
<1>2. ASSUME NEW p \in Requests, RegisterCreateUser(p) \/ UpdateUser(p) PROVE HasAccount(u, users')
  <2>1. req[p].row \in Row
    BY <1>2 DEF TypeInv, ReqsOK, ReqOK, RegisterCreateUser, UpdateUser, At
  <2>2. users' = users \/ users' = [users EXCEPT ![req[p].user] = req[p].row]
    BY <1>2 DEF RegisterCreateUser, UpdateUser
  <2> QED
    BY <2>1, <2>2 DEF HasAccount, TypeInv, TablesOK
<1>3. ASSUME NEW p \in Requests, Begin(p) PROVE users' = users
  BY <1>3 DEF Begin, tables, RegisterFindUser, LoginFindUser, RefreshGetToken, Logout,
              ProfileFindUser, PasswordFindUser
<1>4. ASSUME NEW p \in Requests, Continue(p), ~RegisterCreateUser(p), ~UpdateUser(p)
      PROVE  users' = users
  BY <1>4 DEF Continue, DeleteExpiredTokens, SaveRefreshToken, RefreshFindUser, RefreshDeleteTokens
<1>5. CASE Restart \/ UNCHANGED vars
  BY <1>5 DEF Restart, tables, vars
<1>6. CASE CleanupExpiredTokens \/ (\E t \in Tokens : Expire(t)) \/ (\E v \in Users : ExpireAccess(v))
  BY <1>6 DEF CleanupExpiredTokens, Expire, ExpireAccess
<1> QED
  BY <1>1, <1>2, <1>3, <1>4, <1>5, <1>6 DEF Next

(* Steps that register nobody keep OneRegistered. *)
LEMMA NotNewKeeps ==
  ASSUME TypeInv, [Next]_vars, OneRegistered, \A q \in Requests : NotNew(req'[q], req[q])
  PROVE  OneRegistered'
<1>1. \A q \in Requests : req[q].user \in Users
  BY DEF TypeInv, ReqsOK, Request
<1> QED
  BY <1>1, AccountsStay DEF OneRegistered, NotNew

(* A step of one handler that does not create an account registers nobody. *)
LEMMA OneHandler ==
  ASSUME TypeInv, NEW p \in Requests, NEW x, req' = [req EXCEPT ![p] = x], NotNew(x, req[p])
  PROVE  \A q \in Requests : NotNew(req'[q], req[q])
BY DEF TypeInv, ReqsOK, NotNew

(* The first statements register nobody. *)
LEMMA BeginNotNew ==
  ASSUME TypeInv, NEW p \in Requests, Begin(p)
  PROVE  \A q \in Requests : NotNew(req'[q], req[q])
<1>1. ASSUME NEW op, NEW u, NEW l, NEW row, NEW t, Arrive(p, op, u, l, row, t),
             op # "register" \/ l = "create"
      PROVE  \A q \in Requests : NotNew(req'[q], req[q])
  <2> DEFINE x == [op |-> op, pc |-> l, user |-> u, row |-> row, token |-> t, ans |-> "none"]
  <2>1. req' = [req EXCEPT ![p] = x]
    BY <1>1 DEF Arrive
  <2>2. NotNew(x, req[p])
    BY <1>1 DEF NotNew, Registered
  <2> HIDE DEF x
  <2> QED
    BY <2>1, <2>2, OneHandler
<1>2. ASSUME NEW op, NEW u, NEW t, NEW a, Reply(p, op, u, t, a), op # "register" \/ a = "error"
      PROVE  \A q \in Requests : NotNew(req'[q], req[q])
  <2> DEFINE x == [op |-> op, pc |-> "done", user |-> u, row |-> NoRow, token |-> t, ans |-> a]
  <2>1. req' = [req EXCEPT ![p] = x]
    BY <1>2 DEF Reply
  <2>2. NotNew(x, req[p])
    BY <1>2 DEF NotNew, Registered
  <2> HIDE DEF x
  <2> QED
    BY <2>1, <2>2, OneHandler
<1>3. ASSUME NEW t \in Tokens, RefreshGetToken(p, t)
      PROVE  \A q \in Requests : NotNew(req'[q], req[q])
  BY <1>1, <1>2, <1>3 DEF RefreshGetToken
<1>4. ASSUME NEW u \in Users, NEW row \in Row, RegisterFindUser(p, u, row)
      PROVE  \A q \in Requests : NotNew(req'[q], req[q])
  BY <1>1, <1>2, <1>4 DEF RegisterFindUser
<1>5. ASSUME NEW u \in Users, NEW password \in Passwords, LoginFindUser(p, u, password)
      PROVE  \A q \in Requests : NotNew(req'[q], req[q])
  BY <1>1, <1>2, <1>5 DEF LoginFindUser
<1>6. ASSUME NEW u \in Users, Logout(p, u)
      PROVE  \A q \in Requests : NotNew(req'[q], req[q])
  BY <1>2, <1>6 DEF Logout
<1>7. ASSUME NEW u \in Users, NEW name \in Names, ProfileFindUser(p, u, name)
      PROVE  \A q \in Requests : NotNew(req'[q], req[q])
  BY <1>1, <1>2, <1>7 DEF ProfileFindUser
<1>8. ASSUME NEW u \in Users, NEW old \in Passwords, NEW new \in Passwords,
             PasswordFindUser(p, u, old, new)
      PROVE  \A q \in Requests : NotNew(req'[q], req[q])
  BY <1>1, <1>2, <1>8 DEF PasswordFindUser
<1> QED
  BY <1>3, <1>4, <1>5, <1>6, <1>7, <1>8 DEF Begin

(* Of the later statements only one registers, and it needs a free address. *)
LEMMA ContinueNotNew ==
  ASSUME TypeInv, NEW p \in Requests, Continue(p)
  PROVE  \/ \A q \in Requests : NotNew(req'[q], req[q])
         \/ /\ EmailFree(req[p].user) /\ HasAccount(req[p].user, users')
            /\ req'[p].user = req[p].user
            /\ \A q \in Requests \ {p} : req'[q] = req[q]
<1>r. /\ req[p] \in Request /\ req \in [Requests -> Request]
      /\ users \in [Users -> Row \cup {NoRow}]
      /\ req[p].pc \in {"find", "delete"} => req[p].op # "register"
      /\ req[p].pc = "update" => req[p].op # "register"
      /\ req[p].pc \in {"create", "update"} => req[p].row \in Row
  BY DEF TypeInv, ReqsOK, ReqOK, TablesOK
<1>1. ASSUME NEW a, Answer(p, a),
             a = "error" \/ req[p].op # "register" \/ req[p].pc = "save"
      PROVE  \A q \in Requests : NotNew(req'[q], req[q])
  <2> DEFINE x == [req[p] EXCEPT !.pc = "done", !.row = NoRow, !.ans = a]
  <2>1. req' = [req EXCEPT ![p] = x]
    BY <1>1 DEF Answer
  <2>2. x.op = req[p].op /\ x.pc = "done" /\ x.ans = a /\ x.user = req[p].user
    BY <1>r DEF Request
  <2> HIDE DEF x
  <2>3. NotNew(x, req[p])
    BY <1>1, <2>2 DEF NotNew, Registered
  <2> QED
    BY <2>1, <2>3, OneHandler
<1>2. ASSUME NEW l, Goto(p, l), req[p].op # "register" \/ req[p].pc = "purge"
      PROVE  \A q \in Requests : NotNew(req'[q], req[q])
  <2> DEFINE x == [req[p] EXCEPT !.pc = l]
  <2>1. req' = [req EXCEPT ![p] = x]
    BY <1>2 DEF Goto
  <2>2. x.op = req[p].op /\ x.ans = req[p].ans /\ x.user = req[p].user
    BY <1>r DEF Request
  <2> HIDE DEF x
  <2>3. NotNew(x, req[p])
    BY <1>2, <2>2 DEF NotNew, Registered
  <2> QED
    BY <2>1, <2>3, OneHandler
<1>3. CASE RegisterCreateUser(p)
  <2>1. CASE /\ EmailFree(req[p].user) /\ users' = [users EXCEPT ![req[p].user] = req[p].row]
             /\ Goto(p, "purge")
    <3>1. req[p].user \in Users /\ req[p].row \in Row
      BY <1>3, <1>r DEF Request, RegisterCreateUser, At
    <3>2. HasAccount(req[p].user, users')
      BY <2>1, <3>1, <1>r DEF HasAccount
    <3>3. req'[p].user = req[p].user /\ \A q \in Requests \ {p} : req'[q] = req[q]
      BY <2>1, <1>r DEF Goto, Request
    <3> QED
      BY <2>1, <3>2, <3>3
  <2>2. CASE Answer(p, "error")
    BY <2>2, <1>1
  <2> QED
    BY <1>3, <2>1, <2>2 DEF RegisterCreateUser, CreateFailed
<1>4. CASE DeleteExpiredTokens(p)
  BY <1>4, <1>2 DEF DeleteExpiredTokens, At
<1>5. CASE SaveRefreshToken(p)
  <2>1. PICK a \in {"ok", "error"} : Answer(p, a) /\ req[p].pc = "save"
    BY <1>5 DEF SaveRefreshToken, At
  <2> QED
    BY <2>1, <1>1
<1>6. CASE RefreshFindUser(p)
  BY <1>6, <1>r, <1>1, <1>2 DEF RefreshFindUser, At
<1>7. CASE RefreshDeleteTokens(p)
  BY <1>7, <1>r, <1>2 DEF RefreshDeleteTokens, At
<1>8. CASE UpdateUser(p)
  BY <1>8, <1>r, <1>1 DEF UpdateUser, At
<1> QED
  BY <1>3, <1>4, <1>5, <1>6, <1>7, <1>8 DEF Continue

(* Every step keeps OneRegistered. *)
LEMMA OneRegisteredStep == TypeInv /\ OneRegistered /\ [Next]_vars => OneRegistered'
<1> SUFFICES ASSUME TypeInv, OneRegistered, [Next]_vars PROVE OneRegistered'
  OBVIOUS
<1>1. ASSUME \A q \in Requests : NotNew(req'[q], req[q]) PROVE OneRegistered'
  BY <1>1, NotNewKeeps
<1>2. ASSUME NEW p \in Requests, Begin(p) PROVE OneRegistered'
  BY <1>1, <1>2, BeginNotNew
<1>3. ASSUME NEW p \in Requests, Continue(p) PROVE OneRegistered'
  <2>1. CASE /\ EmailFree(req[p].user) /\ HasAccount(req[p].user, users')
             /\ req'[p].user = req[p].user
             /\ \A q \in Requests \ {p} : req'[q] = req[q]
    <3>1. ~HasAccount(req[p].user, users)
      BY <2>1, NoRowAssumption DEF EmailFree, HasAccount
    <3>2. \A q \in Requests : Registered(req[q]) => req[q].user # req[p].user
      BY <3>1 DEF OneRegistered
    <3>3. \A q \in Requests : req[q].user \in Users
      BY DEF TypeInv, ReqsOK, Request
    <3>4. \A q \in Requests \ {p} : Registered(req'[q]) => HasAccount(req'[q].user, users')
      BY <2>1, <3>3, AccountsStay DEF OneRegistered
    <3> QED
      BY <2>1, <3>2, <3>4 DEF OneRegistered
  <2> QED
    BY <1>1, <1>3, <2>1, ContinueNotNew
<1>4. CASE Restart
  <2>1. req \in [Requests -> Request]
    BY DEF TypeInv, ReqsOK
  <2>2. \A q \in Requests : \/ req'[q] = req[q]
                            \/ req'[q] = [req[q] EXCEPT !.pc = "done", !.row = NoRow, !.ans = "lost"]
    BY <1>4 DEF Restart
  <2>3. \A q \in Requests : NotNew(req'[q], req[q])
    BY <2>1, <2>2 DEF NotNew, Registered, Request
  <2> QED
    BY <2>3, <1>1
<1>5. CASE UNCHANGED req
  BY <1>1, <1>5 DEF NotNew
<1> QED
  BY <1>2, <1>3, <1>4, <1>5 DEF Next, Expire, ExpireAccess, CleanupExpiredTokens, vars

(***************************************************************************)
(* However registrations of an address race, and although the finder's     *)
(* errors are ignored, at most one of them answers success.                *)
(***************************************************************************)
THEOREM RegisterOnceHolds == Spec => []RegisterOnce
<1>1. Init => OneRegistered
  BY DEF Init, OneRegistered, Registered, Idle
<1>2. OneRegistered => RegisterOnce
  BY DEF OneRegistered, RegisterOnce, Registered
<1> QED
  BY <1>1, <1>2, TypeInit, TypeStep, OneRegisteredStep, PTL DEF Spec

--------------------------------------------------------------------------------
(* What each way of leaving a handler does to its fields. *)
Others(p) == \A q \in Requests \ {p} : req'[q] = req[q]

(* Arrive. *)
LEMMA ArriveFields ==
  ASSUME TypeInv, NEW p \in Requests, NEW op, NEW u, NEW l, NEW row, NEW t,
         Arrive(p, op, u, l, row, t)
  PROVE  /\ Others(p)
         /\ req'[p].op = op /\ req'[p].user = u /\ req'[p].pc = l /\ req'[p].token = t
         /\ req'[p].ans = "none"
BY DEF TypeInv, ReqsOK, Arrive, Others

(* Reply. *)
LEMMA ReplyFields ==
  ASSUME TypeInv, NEW p \in Requests, NEW op, NEW u, NEW t, NEW a, Reply(p, op, u, t, a)
  PROVE  /\ Others(p)
         /\ req'[p].op = op /\ req'[p].user = u /\ req'[p].pc = "done" /\ req'[p].token = t
         /\ req'[p].ans = a
BY DEF TypeInv, ReqsOK, Reply, Others

(* Goto. *)
LEMMA GotoFields ==
  ASSUME TypeInv, NEW p \in Requests, NEW l, Goto(p, l)
  PROVE  /\ Others(p)
         /\ req'[p].op = req[p].op /\ req'[p].user = req[p].user /\ req'[p].pc = l
         /\ req'[p].token = req[p].token /\ req'[p].ans = req[p].ans
<1>1. req[p] \in Request /\ req \in [Requests -> Request]
  BY DEF TypeInv, ReqsOK
<1> QED
  BY <1>1 DEF Goto, Others, Request

(* Answer. *)
LEMMA AnswerFields ==
  ASSUME TypeInv, NEW p \in Requests, NEW a, Answer(p, a)
  PROVE  /\ Others(p)
         /\ req'[p].op = req[p].op /\ req'[p].user = req[p].user /\ req'[p].pc = "done"
         /\ req'[p].token = req[p].token /\ req'[p].ans = a
<1>1. req[p] \in Request /\ req \in [Requests -> Request]
  BY DEF TypeInv, ReqsOK
<1> QED
  BY <1>1 DEF Answer, Others, Request

(* Restart. *)
LEMMA RestartFields ==
  ASSUME TypeInv, Restart, NEW p \in Requests
  PROVE  req'[p] = req[p] \/ (req'[p].pc = "done" /\ req'[p].ans = "lost")
<1>1. req[p] \in Request /\ req \in [Requests -> Request]
  BY DEF TypeInv, ReqsOK
<1> QED
  BY <1>1 DEF Restart, Request

(***************************************************************************)
(* Only a save adds a row of refresh_tokens.                               *)
(***************************************************************************)
LEMMA OnlySaveStores ==
  ASSUME TypeInv, [Next]_vars, \A p \in Requests : ~SaveRefreshToken(p)
  PROVE  stored' \subseteq stored /\ UNCHANGED <<owner, issued>>
<1>1. ASSUME NEW p \in Requests, Begin(p)
      PROVE  stored' \subseteq stored /\ UNCHANGED <<owner, issued>>
  BY <1>1 DEF Begin, tables, RegisterFindUser, LoginFindUser, RefreshGetToken, Logout, Revoked,
              ProfileFindUser, PasswordFindUser
<1>2. ASSUME NEW p \in Requests, Continue(p)
      PROVE  stored' \subseteq stored /\ UNCHANGED <<owner, issued>>
  BY <1>2 DEF Continue, DeleteExpiredTokens, RegisterCreateUser, RefreshFindUser,
              RefreshDeleteTokens, UpdateUser, Purged, Revoked
<1>3. CASE Restart \/ UNCHANGED vars
  BY <1>3 DEF Restart, tables, vars
<1>4. CASE CleanupExpiredTokens \/ (\E t \in Tokens : Expire(t)) \/ (\E v \in Users : ExpireAccess(v))
  BY <1>4 DEF CleanupExpiredTokens, Expire, ExpireAccess, Purged
<1> QED
  BY <1>1, <1>2, <1>3, <1>4 DEF Next

(* And it adds a token of its own. *)
LEMMA StoredStep ==
  ASSUME TypeInv, [Next]_vars
  PROVE  \/ stored' \subseteq stored /\ UNCHANGED <<owner, issued>>
         \/ \E p \in Requests :
              /\ req[p].pc = "save" /\ stored' \subseteq stored \cup {issued + 1}
              /\ owner' = [owner EXCEPT ![issued + 1] = req[p].user]
<1>1. ASSUME NEW p \in Requests, SaveRefreshToken(p)
      PROVE  /\ req[p].pc = "save" /\ stored' \subseteq stored \cup {issued + 1}
             /\ owner' = [owner EXCEPT ![issued + 1] = req[p].user]
  BY <1>1 DEF SaveRefreshToken, At
<1> QED
  BY <1>1, OnlySaveStores

--------------------------------------------------------------------------------
(***************************************************************************)
(* RefreshRotates begins with the deletion: from then on the token is gone. *)
(***************************************************************************)
Spends(x) == x.op = "refresh" /\ (x.pc = "save" \/ x.ans = "ok")

SpentIsGone == faults = 0 => \A p \in Requests : Spends(req[p]) => req[p].token \notin stored

(* Only the deletion spends a token. *)
LEMMA SpendsStep ==
  ASSUME TypeInv, [Next]_vars, faults' = faults, NEW p \in Requests, Spends(req'[p])
  PROVE  \/ Spends(req[p]) /\ req'[p].token = req[p].token
         \/ req'[p].token \in 1..issued /\ req'[p].token \notin stored'
<1>f. ~Fails
  BY DEF Fails, TypeInv
<1>r. \A q \in Requests : ReqOK(req[q], users, issued, owner)
  BY DEF TypeInv, ReqsOK
<1> USE DEF Spends
<1>o. ASSUME NEW q \in Requests, Others(q), ~Spends(req'[q])
      PROVE  Spends(req[p]) /\ req'[p].token = req[p].token
  BY <1>o DEF Others
<1>1. ASSUME NEW q \in Requests, Begin(q)
      PROVE  Spends(req[p]) /\ req'[p].token = req[p].token
  <2>1. ASSUME NEW op, NEW u, NEW l, NEW row, NEW t, Arrive(q, op, u, l, row, t), l # "save"
        PROVE  Spends(req[p]) /\ req'[p].token = req[p].token
    BY <2>1, <1>o, ArriveFields
  <2>2. ASSUME NEW op, NEW u, NEW t, NEW a, Reply(q, op, u, t, a), op # "refresh" \/ a = "error"
        PROVE  Spends(req[p]) /\ req'[p].token = req[p].token
    BY <2>2, <1>o, ReplyFields
  <2>3. CASE \E t \in Tokens : RefreshGetToken(q, t)
    BY <2>1, <2>2, <2>3 DEF RefreshGetToken
  <2>4. CASE \E u \in Users, row \in Row : RegisterFindUser(q, u, row)
    BY <2>1, <2>2, <2>4 DEF RegisterFindUser
  <2>5. CASE \E u \in Users, password \in Passwords : LoginFindUser(q, u, password)
    BY <2>1, <2>2, <2>5 DEF LoginFindUser
  <2>6. CASE \E u \in Users : Logout(q, u)
    BY <2>2, <2>6 DEF Logout
  <2>7. CASE \E u \in Users, name \in Names : ProfileFindUser(q, u, name)
    BY <2>1, <2>2, <2>7 DEF ProfileFindUser
  <2>8. CASE \E u \in Users, old, new \in Passwords : PasswordFindUser(q, u, old, new)
    BY <2>1, <2>2, <2>8 DEF PasswordFindUser
  <2> QED
    BY <1>1, <2>3, <2>4, <2>5, <2>6, <2>7, <2>8 DEF Begin
<1>2. ASSUME NEW q \in Requests, Continue(q)
      PROVE  \/ Spends(req[p]) /\ req'[p].token = req[p].token
             \/ req'[p].token \in 1..issued /\ req'[p].token \notin stored'
  <2>1. CASE RegisterCreateUser(q)
    <3>1. req[q].op = "register"
      BY <2>1, <1>r DEF RegisterCreateUser, At, ReqOK
    <3>2. Goto(q, "purge") \/ Answer(q, "error")
      BY <2>1 DEF RegisterCreateUser, CreateFailed
    <3> QED
      BY <3>1, <3>2, <1>o, GotoFields, AnswerFields
  <2>2. CASE DeleteExpiredTokens(q)
    <3>1. req[q].pc = "purge" /\ Goto(q, "save")
      BY <2>2 DEF DeleteExpiredTokens, At
    <3>2. req[q].op # "refresh"
      BY <3>1, <1>r DEF ReqOK
    <3> QED
      BY <3>1, <3>2, <1>o, GotoFields
  <2>3. CASE SaveRefreshToken(q)
    <3>1. req[q].pc = "save" /\ \E a \in {"ok", "error"} : Answer(q, a)
      BY <2>3 DEF SaveRefreshToken, At
    <3>2. Others(q) /\ req'[q].op = req[q].op /\ req'[q].token = req[q].token
      BY <3>1, AnswerFields
    <3> QED
      BY <3>1, <3>2 DEF Others
  <2>4. CASE RefreshFindUser(q)
    <3>1. Goto(q, "delete") \/ Answer(q, "error")
      BY <2>4 DEF RefreshFindUser
    <3>2. req[q].ans = "none"
      BY <2>4, <1>r DEF RefreshFindUser, At, ReqOK
    <3> QED
      BY <3>1, <3>2, <1>o, GotoFields, AnswerFields
  <2>5. CASE RefreshDeleteTokens(q)
    <3>1. Goto(q, "save") /\ stored' = Revoked(req[q].user)
      BY <2>5, <1>f DEF RefreshDeleteTokens
    <3>2. req[q].token \in 1..issued /\ owner[req[q].token] = req[q].user
      BY <2>5, <1>r DEF RefreshDeleteTokens, At, ReqOK
    <3>3. req[q].token \notin stored'
      BY <3>1, <3>2 DEF Revoked, Sessions
    <3> QED
      BY <3>1, <3>2, <3>3, GotoFields DEF Others
  <2>6. CASE UpdateUser(q)
    <3>1. req[q].pc = "update" /\ \E a \in {"ok", "error"} : Answer(q, a)
      BY <2>6 DEF UpdateUser, At
    <3> QED
      BY <3>1, <1>r, <1>o, AnswerFields DEF ReqOK
  <2> QED
    BY <1>2, <2>1, <2>2, <2>3, <2>4, <2>5, <2>6 DEF Continue
<1>3. CASE Restart
  BY <1>3, <1>f DEF Restart
<1>4. CASE UNCHANGED req
  BY <1>4
<1> QED
  BY <1>1, <1>2, <1>3, <1>4 DEF Next, Expire, ExpireAccess, CleanupExpiredTokens, vars

(* A restart counts as a fault. *)
LEMMA RestartFails == Restart => Fails
BY DEF Restart

(* Every step keeps SpentIsGone. *)
LEMMA SpentStep == TypeInv /\ SpentIsGone /\ [Next]_vars => SpentIsGone'
<1> SUFFICES ASSUME TypeInv, TypeInv', SpentIsGone, [Next]_vars, faults' = 0,
                    NEW p \in Requests, Spends(req'[p])
             PROVE  req'[p].token \notin stored'
  BY TypeStep DEF SpentIsGone
<1>1. faults = 0
  <2>1. ASSUME NEW q \in Requests, Begin(q) PROVE faults' = faults \/ faults' = faults + 1
    BY <2>1 DEF Begin, Works, Fails, RegisterFindUser, LoginFindUser, RefreshGetToken, Logout,
                ProfileFindUser, PasswordFindUser
  <2>2. ASSUME NEW q \in Requests, Continue(q) PROVE faults' = faults \/ faults' = faults + 1
    BY <2>2 DEF Continue, Works, Fails, RegisterCreateUser, DeleteExpiredTokens,
                SaveRefreshToken, RefreshFindUser, RefreshDeleteTokens, UpdateUser
  <2>3. Restart \/ UNCHANGED vars => faults' = faults \/ faults' = faults + 1
    BY RestartFails DEF Fails, vars
  <2>4. CleanupExpiredTokens \/ (\E t \in Tokens : Expire(t)) \/ (\E v \in Users : ExpireAccess(v))
          => faults' = faults
    BY DEF CleanupExpiredTokens, Expire, ExpireAccess
  <2>5. faults' = faults \/ faults' = faults + 1
    BY <2>1, <2>2, <2>3, <2>4 DEF Next
  <2> QED
    BY <2>5 DEF TypeInv
<1>2. CASE Spends(req[p]) /\ req'[p].token = req[p].token
  <2>1. req[p].token \notin stored /\ req[p].token \in 0..issued /\ issued \in Nat
    BY <1>1, <1>2, BoundsAssumption DEF SpentIsGone, TypeInv, ReqsOK, ReqOK, TablesOK
  <2>2. stored' \subseteq stored \cup {issued + 1}
    BY StoredStep
  <2> QED
    BY <1>2, <2>1, <2>2
<1> QED
  BY <1>1, <1>2, SpendsStep

(***************************************************************************)
(* A refresh token is spent: unless a statement failed, the token of a     *)
(* refresh that answered success is gone for good.                         *)
(***************************************************************************)
THEOREM RefreshRotatesHolds == Spec => []RefreshRotates
<1>1. Init => SpentIsGone
  BY DEF Init, SpentIsGone, Spends, Idle
<1>2. SpentIsGone => RefreshRotates
  BY DEF SpentIsGone, RefreshRotates, Spends
<1> QED
  BY <1>1, <1>2, TypeInit, TypeStep, SpentStep, PTL DEF Spec

--------------------------------------------------------------------------------
(***************************************************************************)
(* A user without a live token: only the password, or a registration, makes *)
(* a request that may save a token out of one that may not.                *)
(***************************************************************************)
LEMMA NothingGranted ==
  ASSUME TypeInv, [Next]_vars, NEW u \in Users, SignedOut(u), NEW p \in Requests,
         ~Granting(p, u), Granting(p, u)'
  PROVE  req'[p].op \in {"register", "login"}
<1>o. ASSUME NEW q \in Requests, Others(q), p = q => ~Granting(p, u)'
      PROVE  FALSE
  BY <1>o DEF Others, Granting
<1>1. ASSUME NEW q \in Requests, Begin(q) PROVE req'[p].op \in {"register", "login"}
  <2>1. ASSUME NEW op, NEW v, NEW l, NEW row, NEW t, Arrive(q, op, v, l, row, t),
               op \in {"register", "login"} \/ v # u \/ l = "update"
        PROVE  req'[p].op \in {"register", "login"}
    <3>1. CASE op \in {"register", "login"}
      <4>1. Others(q) /\ req'[q].op = op
        BY <2>1, ArriveFields
      <4>2. CASE p = q
        BY <4>1, <4>2, <3>1
      <4>3. CASE p # q
        BY <4>1, <4>3, <1>o
      <4> QED
        BY <4>2, <4>3
    <3>2. CASE v # u \/ l = "update"
      BY <2>1, <3>2, <1>o, ArriveFields DEF Granting
    <3> QED
      BY <2>1, <3>1, <3>2
  <2>2. ASSUME NEW op, NEW v, NEW t, NEW a, Reply(q, op, v, t, a)
        PROVE  req'[p].op \in {"register", "login"}
    BY <2>2, <1>o, ReplyFields DEF Granting
  <2>3. ASSUME NEW t \in Tokens, RefreshGetToken(q, t)
        PROVE  req'[p].op \in {"register", "login"}
    <3>1. Valid(t) => owner[t] # u
      BY DEF Valid, SignedOut, Sessions
    <3> QED
      BY <2>1, <2>2, <2>3, <3>1 DEF RefreshGetToken
  <2>4. CASE \E v \in Users, row \in Row : RegisterFindUser(q, v, row)
    BY <2>1, <2>2, <2>4 DEF RegisterFindUser
  <2>5. CASE \E v \in Users, password \in Passwords : LoginFindUser(q, v, password)
    BY <2>1, <2>2, <2>5 DEF LoginFindUser
  <2>6. CASE \E v \in Users : Logout(q, v)
    BY <2>2, <2>6 DEF Logout
  <2>7. CASE \E v \in Users, name \in Names : ProfileFindUser(q, v, name)
    BY <2>1, <2>2, <2>7 DEF ProfileFindUser
  <2>8. CASE \E v \in Users, old, new \in Passwords : PasswordFindUser(q, v, old, new)
    BY <2>1, <2>2, <2>8 DEF PasswordFindUser
  <2> QED
    BY <1>1, <2>3, <2>4, <2>5, <2>6, <2>7, <2>8 DEF Begin
<1>2. ASSUME NEW q \in Requests, Continue(q) PROVE FALSE
  <2>1. req[q].pc \in {"create", "purge", "find", "delete", "save", "update"}
    BY <1>2 DEF Continue, At, RegisterCreateUser, DeleteExpiredTokens, SaveRefreshToken,
                RefreshFindUser, RefreshDeleteTokens, UpdateUser
  <2>2. ASSUME NEW l, Goto(q, l), req[q].pc # "update" PROVE FALSE
    <3>1. p = q => req[q].user # u
      BY <2>1, <2>2 DEF Granting
    <3> QED
      BY <2>2, <3>1, <1>o, GotoFields DEF Granting
  <2>3. ASSUME NEW a, Answer(q, a) PROVE FALSE
    BY <2>3, <1>o, AnswerFields DEF Granting
  <2>4. CASE RegisterCreateUser(q)
    BY <2>2, <2>3, <2>4 DEF RegisterCreateUser, CreateFailed, At
  <2>5. CASE DeleteExpiredTokens(q) \/ RefreshDeleteTokens(q)
    BY <2>2, <2>5 DEF DeleteExpiredTokens, RefreshDeleteTokens, At
  <2>6. CASE RefreshFindUser(q)
    BY <2>2, <2>3, <2>6 DEF RefreshFindUser, At
  <2>7. CASE SaveRefreshToken(q) \/ UpdateUser(q)
    BY <2>3, <2>7 DEF SaveRefreshToken, UpdateUser
  <2> QED
    BY <1>2, <2>4, <2>5, <2>6, <2>7 DEF Continue
<1>3. CASE Restart
  BY <1>3, RestartFields DEF Granting
<1>4. CASE UNCHANGED req
  BY <1>4 DEF Granting
<1> QED
  BY <1>1, <1>2, <1>3, <1>4 DEF Next, Expire, ExpireAccess, CleanupExpiredTokens, vars

(* Time does not run backwards. *)
LEMMA ExpiredGrows == [Next]_vars => expired \subseteq expired'
<1> SUFFICES ASSUME [Next]_vars PROVE expired \subseteq expired'
  OBVIOUS
<1>1. ASSUME NEW p \in Requests, Begin(p) PROVE expired' = expired
  BY <1>1 DEF Begin, tables, RegisterFindUser, LoginFindUser, RefreshGetToken, Logout,
              ProfileFindUser, PasswordFindUser
<1>2. ASSUME NEW p \in Requests, Continue(p) PROVE expired' = expired
  BY <1>2 DEF Continue, RegisterCreateUser, DeleteExpiredTokens, SaveRefreshToken,
              RefreshFindUser, RefreshDeleteTokens, UpdateUser
<1>3. CASE Restart \/ UNCHANGED vars
  BY <1>3 DEF Restart, tables, vars
<1>4. CASE CleanupExpiredTokens \/ (\E t \in Tokens : Expire(t)) \/ (\E v \in Users : ExpireAccess(v))
  BY <1>4 DEF CleanupExpiredTokens, Expire, ExpireAccess
<1> QED
  BY <1>1, <1>2, <1>3, <1>4 DEF Next

(* A live token of a user who had none was saved by a request that might. *)
LEMMA SavedByOne ==
  ASSUME TypeInv, [Next]_vars, NEW u \in Users, SignedOut(u), ~SignedOut(u)'
  PROVE  \E p \in Requests : Granting(p, u) /\ ~Granting(p, u)'
<1>1. PICK t \in stored' : owner'[t] = u /\ t \notin expired'
  BY DEF SignedOut, Sessions
<1>2. ~(stored' \subseteq stored /\ UNCHANGED <<owner, issued>>)
  BY <1>1, ExpiredGrows DEF SignedOut, Sessions
<1>3. PICK p \in Requests : SaveRefreshToken(p)
  BY <1>2, OnlySaveStores
<1>4. /\ At(p, "save") /\ stored' \subseteq stored \cup {issued + 1}
      /\ owner' = [owner EXCEPT ![issued + 1] = req[p].user]
  BY <1>3 DEF SaveRefreshToken
<1>5. TypeInv' /\ issued \in Nat /\ owner \in [Tokens -> Users \cup {NoUser}]
  BY TypeStep, BoundsAssumption DEF TypeInv, TablesOK
<1>6. t \in Tokens
  BY <1>5, BoundsAssumption DEF TypeInv, TablesOK, Tokens
<1>7. req[p].user = u
  <2>1. CASE t = issued + 1
    BY <1>1, <1>4, <1>5, <1>6, <2>1
  <2>2. CASE t # issued + 1
    <3>1. t \in stored /\ owner[t] = u
      BY <1>1, <1>4, <1>5, <1>6, <2>2
    <3> QED
      BY <1>1, <3>1, ExpiredGrows DEF SignedOut, Sessions
  <2> QED
    BY <2>1, <2>2
<1>8. req'[p].pc = "done"
  <2>1. \E a : Answer(p, a)
    BY <1>3 DEF SaveRefreshToken
  <2> QED
    BY <2>1, AnswerFields
<1> QED
  BY <1>4, <1>7, <1>8 DEF Granting, At

(***************************************************************************)
(* While a user has no live token, no token gets a refresh going: a session *)
(* comes only from a refresh that had read its token before, one from each, *)
(* or from a request that has the password or registers.                   *)
(***************************************************************************)
THEOREM GrantsAreSpent == Spec => GrantsSpent
<1>1. TypeInv /\ [Next]_vars =>
        [\A u \in Users : SignedOut(u) =>
           /\ \A p \in Requests :
                Granting(p, u)' => Granting(p, u) \/ req'[p].op \in {"register", "login"}
           /\ SignedOut(u)' \/ \E p \in Requests : Granting(p, u) /\ ~Granting(p, u)']_vars
  BY NothingGranted, SavedByOne
<1> QED
  BY <1>1, TypeInit, TypeStep, PTL DEF Spec, GrantsSpent

--------------------------------------------------------------------------------
(* A step that replaces a password is an update with a row read earlier. *)
LEMMA PasswordStep ==
  ASSUME TypeInv, [Next]_vars, NEW u \in Users, NewPassword(u)
  PROVE  StaleProfile(u) \/ \E p \in Requests : Updating(p, "password", u)
<1>0. users' # users
  BY DEF NewPassword
<1>1. ASSUME NEW p \in Requests, RegisterCreateUser(p) PROVE FALSE
  <2>1. EmailFree(req[p].user) /\ users' = [users EXCEPT ![req[p].user] = req[p].row]
    BY <1>0, <1>1 DEF RegisterCreateUser
  <2> QED
    BY <2>1 DEF TypeInv, TablesOK, NewPassword, EmailFree
<1>2. ASSUME NEW p \in Requests, UpdateUser(p)
      PROVE  StaleProfile(u) \/ \E q \in Requests : Updating(q, "password", u)
  <2>1. At(p, "update") /\ req[p].op \in {"profile", "password"} /\ req[p].user \in Users
    BY <1>2 DEF TypeInv, ReqsOK, ReqOK, UpdateUser, At, Request
  <2>2. users' = [users EXCEPT ![req[p].user] = req[p].row]
    BY <1>0, <1>2 DEF UpdateUser
  <2>3. req[p].user = u /\ users'[u] = req[p].row
    BY <2>1, <2>2 DEF TypeInv, TablesOK, NewPassword
  <2>4. CASE req[p].op = "profile"
    BY <2>1, <2>3, <2>4 DEF StaleProfile, Updating, NewPassword
  <2> QED
    BY <2>1, <2>3, <2>4 DEF Updating
<1>3. ASSUME NEW p \in Requests, Begin(p) PROVE users' = users
  BY <1>3 DEF Begin, tables, RegisterFindUser, LoginFindUser, RefreshGetToken, Logout,
              ProfileFindUser, PasswordFindUser
<1>4. ASSUME NEW p \in Requests, Continue(p), ~RegisterCreateUser(p), ~UpdateUser(p)
      PROVE  users' = users
  BY <1>4 DEF Continue, DeleteExpiredTokens, SaveRefreshToken, RefreshFindUser, RefreshDeleteTokens
<1>5. Restart \/ UNCHANGED vars => users' = users
  BY DEF Restart, tables, vars
<1>6. CleanupExpiredTokens \/ (\E t \in Tokens : Expire(t)) \/ (\E v \in Users : ExpireAccess(v))
        => users' = users
  BY DEF CleanupExpiredTokens, Expire, ExpireAccess
<1> QED
  BY <1>0, <1>1, <1>2, <1>3, <1>4, <1>5, <1>6 DEF Next

(***************************************************************************)
(* No registration of the same address, and no profile request that read   *)
(* the password in force, replaces a password.                             *)
(***************************************************************************)
THEOREM PasswordKeptHolds == Spec => PasswordKept
<1>1. TypeInv /\ [Next]_vars =>
        [\A u \in Users : NewPassword(u)
           => StaleProfile(u) \/ \E p \in Requests : Updating(p, "password", u)]_vars
  BY PasswordStep
<1> QED
  BY <1>1, TypeInit, TypeStep, PTL DEF Spec, PasswordKept

--------------------------------------------------------------------------------
(* Without a fault, a save leaves its user a live token. *)
LEMMA SaveRevives ==
  ASSUME TypeInv, NEW p \in Requests, SaveRefreshToken(p), faults' = faults,
         NEW u \in Users, req[p].user = u
  PROVE  Alive(u)'
<1>1. ~Fails
  BY DEF TypeInv, Fails
<1>2. /\ issued + 1 \in Tokens /\ owner' = [owner EXCEPT ![issued + 1] = req[p].user]
      /\ stored' = stored \cup {issued + 1} /\ expired' = expired
  BY <1>1 DEF SaveRefreshToken
<1>3. /\ owner \in [Tokens -> Users \cup {NoUser}]
      /\ expired \subseteq 1..issued /\ issued \in Nat
  BY BoundsAssumption DEF TypeInv, TablesOK
<1>4. issued + 1 \notin expired
  BY <1>3
<1>5. owner'[issued + 1] = req[p].user
  BY <1>2, <1>3
<1>6. req'[p].user = req[p].user
  BY AnswerFields DEF SaveRefreshToken
<1> QED
  BY <1>2, <1>4, <1>5, <1>6 DEF Alive, Sessions

(* A request about to save does it, or a fault stops it. *)
LEMMA SavingStays ==
  ASSUME TypeInv, [Next]_vars, faults' = faults, NEW p \in Requests, At(p, "save"),
         NEW u \in Users, req[p].user = u
  PROVE  Alive(u)'
<1>f. ~Fails
  BY DEF TypeInv, Fails
<1>s. ASSUME req'[p] = req[p] PROVE Alive(u)'
  BY <1>s DEF Alive, At
<1>1. ASSUME NEW q \in Requests, Begin(q) PROVE Alive(u)'
  <2>1. Free(q)
    BY <1>1 DEF Begin, RegisterFindUser, LoginFindUser, RefreshGetToken, Logout, ProfileFindUser,
                PasswordFindUser
  <2>2. p # q
    BY <2>1 DEF Free, At
  <2>3. Others(q)
    <3>1. \/ \E op, v, l, row, t : Arrive(q, op, v, l, row, t)
          \/ \E op, v, t, a : Reply(q, op, v, t, a)
      BY <1>1 DEF Begin, RegisterFindUser, LoginFindUser, RefreshGetToken, Logout,
                  ProfileFindUser, PasswordFindUser
    <3> QED
      BY <3>1, ArriveFields, ReplyFields
  <2> QED
    BY <1>s, <2>2, <2>3 DEF Others
<1>2. ASSUME NEW q \in Requests, Continue(q) PROVE Alive(u)'
  <2>1. CASE SaveRefreshToken(q) /\ p = q
    BY <2>1, SaveRevives
  <2>2. p = q => SaveRefreshToken(q)
    BY <1>2 DEF Continue, At, RegisterCreateUser, DeleteExpiredTokens, RefreshFindUser,
                RefreshDeleteTokens, UpdateUser
  <2>3. Others(q)
    <3>1. (\E l : Goto(q, l)) \/ (\E a : Answer(q, a))
      BY <1>2 DEF Continue, RegisterCreateUser, CreateFailed, DeleteExpiredTokens,
                  SaveRefreshToken, RefreshFindUser, RefreshDeleteTokens, UpdateUser
    <3> QED
      BY <3>1, GotoFields, AnswerFields
  <2> QED
    BY <1>s, <2>1, <2>2, <2>3 DEF Others
<1>3. CASE Restart
  BY <1>f, <1>3, RestartFails
<1>4. CASE UNCHANGED req
  BY <1>s, <1>4
<1> QED
  BY <1>1, <1>2, <1>3, <1>4 DEF Next, Expire, ExpireAccess, CleanupExpiredTokens, vars

(* A live token goes with a logout, or with a refresh that will replace it. *)
LEMMA TokenStays ==
  ASSUME TypeInv, [Next]_vars, faults' = faults, expired' = expired, NEW u \in Users,
         NEW t \in Sessions(u), t \notin expired, ~LogsOut(u)
  PROVE  Alive(u)'
<1>f. ~Fails
  BY DEF TypeInv, Fails
<1>t. t \in stored /\ owner[t] = u /\ owner'[t] = u
  <2>1. /\ t \in 1..issued /\ issued \in 0..MaxTokens /\ t \in stored /\ owner[t] = u
        /\ owner \in [Tokens -> Users \cup {NoUser}]
    BY DEF TypeInv, TablesOK, Sessions
  <2>2. t # issued + 1 /\ t \in Tokens
    BY <2>1, BoundsAssumption DEF Tokens
  <2> QED
    BY <2>1, <2>2, StoredStep
<1>s. ASSUME t \in stored' PROVE Alive(u)'
  BY <1>s, <1>t DEF Alive, Sessions
<1>p. t \in Purged
  BY <1>t DEF Purged
<1>1. ASSUME NEW p \in Requests, NEW v \in Users, Logout(p, v) PROVE Alive(u)'
  <2>1. stored' = Revoked(v)
    BY <1>1, <1>f DEF Logout
  <2>3. v # u
    BY <1>1 DEF LogsOut
  <2> QED
    BY <1>s, <1>t, <2>1, <2>3 DEF Revoked, Sessions
<1>2. ASSUME NEW p \in Requests, RefreshDeleteTokens(p) PROVE Alive(u)'
  <2>1. stored' = Revoked(req[p].user) /\ Goto(p, "save")
    BY <1>2, <1>f DEF RefreshDeleteTokens
  <2>2. CASE req[p].user = u
    BY <2>1, <2>2, GotoFields DEF Alive, At
  <2>3. CASE req[p].user # u
    BY <1>s, <1>t, <2>1, <2>3 DEF Revoked, Sessions
  <2> QED
    BY <2>2, <2>3
<1>3. ASSUME NEW p \in Requests, Begin(p), ~\E v \in Users : Logout(p, v) PROVE t \in stored'
  BY <1>t, <1>3 DEF Begin, tables, RegisterFindUser, LoginFindUser, RefreshGetToken,
                    ProfileFindUser, PasswordFindUser
<1>4. ASSUME NEW p \in Requests, Continue(p), ~RefreshDeleteTokens(p) PROVE t \in stored'
  <2>1. stored' = stored \/ stored' = Purged \/ \E n : stored' = stored \cup {n}
    BY <1>4 DEF Continue, RegisterCreateUser, DeleteExpiredTokens, SaveRefreshToken,
                RefreshFindUser, UpdateUser
  <2> QED
    BY <1>t, <1>p, <2>1
<1>5. CleanupExpiredTokens \/ (\E n \in Tokens : Expire(n)) \/ (\E v \in Users : ExpireAccess(v))
        => t \in stored'
  BY <1>t, <1>p DEF CleanupExpiredTokens, Expire, ExpireAccess
<1>6. Restart \/ UNCHANGED vars => t \in stored'
  BY <1>t DEF Restart, tables, vars
<1> QED
  BY <1>s, <1>1, <1>2, <1>3, <1>4, <1>5, <1>6 DEF Next

(***************************************************************************)
(* A user loses the last live token, and the last request about to save    *)
(* one, only to a logout, to time or to a failure: concurrent refreshes    *)
(* never leave all of the clients with a dead token.                       *)
(***************************************************************************)
THEOREM SessionsEndForAReasonHolds == Spec => SessionsEndForAReason
<1>1. ASSUME TypeInv, [Next]_vars
      PROVE  [\A u \in Users : Alive(u) /\ ~Alive(u)'
                => LogsOut(u) \/ expired' # expired \/ faults' # faults]_vars
  <2> SUFFICES ASSUME NEW u \in Users, Alive(u), ~LogsOut(u), expired' = expired, faults' = faults
               PROVE  Alive(u)'
    OBVIOUS
  <2>1. CASE \E p \in Requests : At(p, "save") /\ req[p].user = u
    BY <1>1, <2>1, SavingStays
  <2>2. ASSUME NEW t \in Sessions(u), t \notin expired PROVE Alive(u)'
    BY <1>1, <2>2, TokenStays
  <2> QED
    BY <2>1, <2>2 DEF Alive
<1> QED
  BY <1>1, TypeInit, TypeStep, PTL DEF Spec, SessionsEndForAReason
================================================================================
