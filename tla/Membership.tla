------------------------------ MODULE Membership ------------------------------
(***************************************************************************)
(* What the call-room API promises about one user's membership of one      *)
(* room, as a client that ignores requests, statements and row ids sees    *)
(* it.  A user is in the room or not, and the history matters: the table   *)
(* keeps at most one departed row per user and room, so a user who came    *)
(* back cannot be recorded as leaving a second time.                       *)
(***************************************************************************)
CONSTANTS
  Users,   \* the users of the service
  Rooms    \* the room ids the service may issue

VARIABLE stage  \* stage[r][u]: how far u's membership of r has got

(* never: no row; present: first stay; gone: left once; back: second stay. *)
Stage == {"never", "present", "gone", "back"}

(* Every membership is in one of the four stages. *)
TypeOK == stage \in [Rooms -> [Users -> Stage]]

Init == stage = [r \in Rooms |-> [u \in Users |-> "never"]]

Move(r, u, from, to) ==
  /\ stage[r][u] = from
  /\ stage' = [stage EXCEPT ![r][u] = to]

Enter(r, u)  == Move(r, u, "never", "present")
Leave(r, u)  == Move(r, u, "present", "gone")
Return(r, u) == Move(r, u, "gone", "back")

Next == \E r \in Rooms, u \in Users : Enter(r, u) \/ Leave(r, u) \/ Return(r, u)

Spec == Init /\ [][Next]_stage
===============================================================================
