-------------------------------- MODULE Migrate --------------------------------
(***************************************************************************)
(* The migration tool, cmd/migrate: runs of `up` that overlap, fail and    *)
(* stop, over the schema and the table schema_migrations.                  *)
(*                                                                         *)
(* A migration is one DDL statement, which MySQL commits by itself: the    *)
(* transaction that up opens ends before its INSERT, and the rollback      *)
(* after an error undoes nothing.  So executing and recording a migration  *)
(* are two steps.  `status`, `down` and a dry run change nothing and are   *)
(* left out.                                                               *)
(***************************************************************************)
EXTENDS Integers

CONSTANTS
  Runs,      \* runs of the tool, at the same time or one after the other
  Provided,  \* the migrations of the repository: 001, 002, ...
  MaxFiles,  \* bound on migration files
  Once       \* versions whose SQL fails on a schema that has it: ALTER TABLE

VARIABLES
  files,     \* the directory holds the versions 1, 2, ..., files
  applied,   \* versions whose statement the schema has
  recorded,  \* schema_migrations
  run        \* the runs

vars == <<files, applied, recorded, run>>

(* todo: the migrations the loop of migrateUp has still to reach, of those   *)
(* not executed when it began.  left: how many more may run; -1: all.        *)
Run == [pc: {"idle", "execute", "record"}, todo: SUBSET Nat, left: Int]

Stopped == [pc |-> "idle", todo |-> {}, left |-> 0]

(* Types; only files that exist are applied, recorded or still to be reached, *)
(* and a run about to record is at a migration.                             *)
TypeOK ==
  /\ files \in Nat
  /\ applied \in SUBSET (1..files)
  /\ recorded \in SUBSET (1..files)
  /\ run \in [Runs -> Run]
  /\ \A r \in Runs : /\ run[r].todo \subseteq 1..files
                     /\ run[r].pc = "record" => run[r].todo # {}

Init ==
  /\ files = Provided
  /\ applied = {} /\ recorded = {}
  /\ run = [r \in Runs |-> Stopped]

(* The run stops: an error, or the process is killed. *)
Stop(r) == run' = [run EXCEPT ![r] = Stopped]

(* The migration the loop is at: files are sorted by version. *)
Reached(r, v) == v \in run[r].todo /\ \A w \in run[r].todo : v <= w

--------------------------------------------------------------------------------
(* up: the directory and the executed versions are read once, before the loop. *)
MigrateUp(r, steps) ==
  /\ run[r].pc = "idle"
  /\ run' = [run EXCEPT ![r] = [pc |-> "execute", todo |-> (1..files) \ recorded,
                                left |-> IF steps = 0 THEN -1 ELSE steps]]
  /\ UNCHANGED <<files, applied, recorded>>

(* A mutant: after an error the loop goes on with the next migration. *)
ExecuteGoesOn(r, v) ==
  /\ run[r].pc = "execute" /\ run[r].left # 0
  /\ Reached(r, v)
  /\ \/ /\ v \in applied => v \notin Once
        /\ applied' = applied \cup {v}
        /\ run' = [run EXCEPT ![r].pc = "record"]
     \/ /\ applied' \in {applied, applied \cup {v}}
        /\ run' = [run EXCEPT ![r].todo = @ \ {v}]
  /\ UNCHANGED <<files, recorded>>

(* A mutant: an error that says the change is already there is ignored. *)
ExecuteAgain(r, v) ==
  /\ run[r].pc = "execute" /\ run[r].left # 0
  /\ Reached(r, v)
  /\ \/ /\ applied' = applied \cup {v}
        /\ run' = [run EXCEPT ![r].pc = "record"]
     \/ applied' \in {applied, applied \cup {v}} /\ Stop(r)
  /\ UNCHANGED <<files, recorded>>

(* tx.Exec(migration.SQL).  An error may come after the statement was done. *)
Execute(r, v) ==
  /\ run[r].pc = "execute" /\ run[r].left # 0
  /\ Reached(r, v)
  /\ \/ /\ v \in applied => v \notin Once
        /\ applied' = applied \cup {v}
        /\ run' = [run EXCEPT ![r].pc = "record"]
     \/ applied' \in {applied, applied \cup {v}} /\ Stop(r)
  /\ UNCHANGED <<files, recorded>>

(* INSERT INTO schema_migrations, refused for a version that has a row. *)
Record(r, v) ==
  /\ run[r].pc = "record"
  /\ Reached(r, v)
  /\ \/ /\ v \notin recorded
        /\ recorded' = recorded \cup {v}
        /\ run' = [run EXCEPT ![r] = [pc |-> "execute", todo |-> run[r].todo \ {v},
                                      left |-> run[r].left - 1]]
     \/ recorded' \in {recorded, recorded \cup {v}} /\ Stop(r)
  /\ UNCHANGED <<files, applied>>

(* The loop ends, or fails for another reason, or the process is killed. *)
End(r) ==
  /\ run[r].pc # "idle"
  /\ Stop(r)
  /\ UNCHANGED <<files, applied, recorded>>

(* create: the new file is numbered by the count of the files. *)
CreateMigration ==
  /\ files < MaxFiles
  /\ files' = files + 1
  /\ UNCHANGED <<applied, recorded, run>>

Step(r) ==
  \/ \E steps \in 0..files : MigrateUp(r, steps)
  \/ \E v \in 1..files : Execute(r, v) \/ Record(r, v)
  \/ End(r)

Next == (\E r \in Runs : Step(r)) \/ CreateMigration

Spec == Init /\ [][Next]_vars

--------------------------------------------------------------------------------
(***************************************************************************)
(* However runs overlap, and wherever they stop, the table lists the first *)
(* migrations without a gap, and the schema has these and at most one more. *)
(***************************************************************************)
OneAhead ==
  /\ recorded \subseteq applied
  /\ \A v \in applied : \A w \in 1..(v - 1) : w \in recorded

(***************************************************************************)
(* A run that stops between the statement and the record of a migration    *)
(* that cannot be applied twice ends all progress: unless another run is    *)
(* about to record it, no run ever records that migration or applies a      *)
(* later one, and somebody has to insert the row by hand.                  *)
(***************************************************************************)
Stranded(v) ==
  /\ v \in Once /\ v \in applied /\ v \notin recorded
  /\ \A r \in Runs : ~(run[r].pc = "record" /\ Reached(r, v))

StrandedForGood == [][\A v \in Once : Stranded(v) => Stranded(v)' /\ applied' = applied]_vars
================================================================================
