---------------------------- MODULE Migrate_proofs ----------------------------
(***************************************************************************)
(* Proofs about Migrate, for any number of runs, any set of migrations      *)
(* that cannot be applied twice and any number of files.                   *)
(***************************************************************************)
EXTENDS Migrate, TLAPS

(***************************************************************************)
(* TypeOK is inductive: the only update of todo removes from it, and a run  *)
(* records the migration it has reached.                                   *)
(***************************************************************************)
LEMMA TypeInit == ASSUME Provided \in Nat PROVE Init => TypeOK
BY DEF Init, TypeOK, Run, Stopped

(* A step of a run: every way in which it can leave run[r]. *)
LEMMA TypeRun ==
  ASSUME TypeOK, NEW r \in Runs, NEW x \in Run, run' = [run EXCEPT ![r] = x],
         x.todo \subseteq 1..files, x.pc = "record" => x.todo # {},
         files' = files, applied' \in SUBSET (1..files), recorded' \in SUBSET (1..files)
  PROVE  TypeOK'
BY DEF TypeOK

(* A step of the tool keeps the types. *)
LEMMA TypeStep == TypeOK /\ [Next]_vars => TypeOK'
<1> SUFFICES ASSUME TypeOK, [Next]_vars PROVE TypeOK'
  OBVIOUS
<1>s. Stopped \in Run /\ Stopped.todo \subseteq 1..files /\ Stopped.pc # "record"
  BY DEF Stopped, Run
<1>1. ASSUME NEW r \in Runs, NEW steps \in 0..files, MigrateUp(r, steps) PROVE TypeOK'
  <2> DEFINE x == [pc |-> "execute", todo |-> (1..files) \ recorded,
                   left |-> IF steps = 0 THEN -1 ELSE steps]
  <2>1. x \in Run /\ x.todo \subseteq 1..files /\ x.pc # "record"
    BY DEF Run, TypeOK
  <2> QED
    BY <1>1, <2>1, TypeRun DEF MigrateUp, TypeOK
<1>2. ASSUME NEW r \in Runs, NEW v \in 1..files, Execute(r, v) PROVE TypeOK'
  <2>1. CASE run' = [run EXCEPT ![r].pc = "record"] /\ applied' = applied \cup {v}
    <3> DEFINE x == [run[r] EXCEPT !.pc = "record"]
    <3>1. run[r] \in Run
      BY DEF TypeOK
    <3>2. x \in Run /\ x.todo = run[r].todo
      BY <3>1 DEF Run
    <3>3. run' = [run EXCEPT ![r] = x]
      BY <2>1
    <3>4. x.todo \subseteq 1..files /\ x.todo # {}
      BY <3>2, <1>2 DEF Execute, Reached, TypeOK
    <3> HIDE DEF x
    <3> QED
      BY <1>2, <2>1, <3>2, <3>3, <3>4, TypeRun DEF Execute, TypeOK
  <2>2. CASE applied' \in {applied, applied \cup {v}} /\ Stop(r)
    BY <1>2, <2>2, <1>s, TypeRun DEF Execute, Stop, TypeOK
  <2> QED
    BY <1>2, <2>1, <2>2 DEF Execute
<1>3. ASSUME NEW r \in Runs, NEW v \in 1..files, Record(r, v) PROVE TypeOK'
  <2>1. CASE /\ recorded' = recorded \cup {v}
             /\ run' = [run EXCEPT ![r] = [pc |-> "execute", todo |-> run[r].todo \ {v},
                                           left |-> run[r].left - 1]]
    <3> DEFINE x == [pc |-> "execute", todo |-> run[r].todo \ {v}, left |-> run[r].left - 1]
    <3>1. run[r] \in Run /\ run[r].todo \subseteq 1..files
      BY DEF TypeOK
    <3>2. x \in Run /\ x.todo \subseteq 1..files /\ x.pc # "record"
      BY <3>1 DEF Run
    <3> QED
      BY <1>3, <2>1, <3>2, TypeRun DEF Record, TypeOK
  <2>2. CASE recorded' \in {recorded, recorded \cup {v}} /\ Stop(r)
    BY <1>3, <2>2, <1>s, TypeRun DEF Record, Stop, TypeOK
  <2> QED
    BY <1>3, <2>1, <2>2 DEF Record
<1>4. ASSUME NEW r \in Runs, End(r) PROVE TypeOK'
  BY <1>4, <1>s, TypeRun DEF End, Stop, TypeOK
<1>5. CASE CreateMigration
  BY <1>5 DEF CreateMigration, TypeOK
<1>6. CASE UNCHANGED vars
  BY <1>6 DEF vars, TypeOK
<1> QED
  BY <1>1, <1>2, <1>3, <1>4, <1>5, <1>6 DEF Next, Step

(* Types, with files, schema and table of the tool within the directory. *)
THEOREM MigrateTypeCorrect == ASSUME Provided \in Nat PROVE Spec => []TypeOK
BY TypeInit, TypeStep, PTL DEF Spec

--------------------------------------------------------------------------------
(***************************************************************************)
(* OneAhead is not inductive: a run works from what it read before its     *)
(* loop.  What makes that harmless: a migration it has passed by, or       *)
(* skipped, is recorded, and one it is about to record is applied.         *)
(***************************************************************************)
PassedIsRecorded ==
  \A r \in Runs : \A v \in run[r].todo : \A w \in 1..(v - 1) :
    w \notin run[r].todo => w \in recorded

RecordsApplied ==
  \A r \in Runs : \A v \in run[r].todo :
    run[r].pc = "record" /\ Reached(r, v) => v \in applied

AheadInv == OneAhead /\ PassedIsRecorded /\ RecordsApplied

(* Nothing is applied at first. *)
LEMMA AheadInit == Init => AheadInv
BY DEF Init, AheadInv, OneAhead, PassedIsRecorded, RecordsApplied, Stopped

(* What a run has reached comes after recorded migrations only. *)
LEMMA ReachedIsNext ==
  ASSUME TypeOK, PassedIsRecorded, NEW r \in Runs, NEW v \in 1..files, Reached(r, v)
  PROVE  \A w \in 1..(v - 1) : w \in recorded
<1> SUFFICES ASSUME NEW w \in 1..(v - 1) PROVE w \in recorded
  OBVIOUS
<1>1. v \in run[r].todo /\ files \in Nat
  BY DEF Reached, TypeOK
<1>2. w \notin run[r].todo
  BY <1>1 DEF Reached
<1> QED
  BY <1>1, <1>2 DEF PassedIsRecorded

(* The other runs keep their part when the table and the schema grow. *)
LEMMA OthersKeep ==
  ASSUME TypeOK, PassedIsRecorded, RecordsApplied, NEW r \in Runs, NEW x,
         run' = [run EXCEPT ![r] = x], recorded \subseteq recorded', applied \subseteq applied',
         \A v \in x.todo : \A w \in 1..(v - 1) : w \notin x.todo => w \in recorded',
         \A v \in x.todo : x.pc = "record" /\ (\A w \in x.todo : v <= w) => v \in applied'
  PROVE  PassedIsRecorded' /\ RecordsApplied'
<1>1. run'[r] = x /\ \A q \in Runs \ {r} : run'[q] = run[q]
  BY DEF TypeOK
<1>2. PassedIsRecorded'
  BY <1>1 DEF PassedIsRecorded
<1>3. RecordsApplied'
  BY <1>1 DEF RecordsApplied, Reached
<1> QED
  BY <1>2, <1>3

(* A run that stops asks nothing. *)
LEMMA StopKeeps ==
  ASSUME TypeOK, PassedIsRecorded, RecordsApplied, NEW r \in Runs, Stop(r),
         recorded \subseteq recorded', applied \subseteq applied'
  PROVE  PassedIsRecorded' /\ RecordsApplied'
<1>1. Stopped.todo = {}
  BY DEF Stopped
<1> QED
  BY <1>1, OthersKeep DEF Stop

(* A step of the tool keeps schema and table one apart. *)
LEMMA AheadStep == TypeOK /\ AheadInv /\ [Next]_vars => AheadInv'
<1> SUFFICES ASSUME TypeOK, OneAhead, PassedIsRecorded, RecordsApplied, [Next]_vars
             PROVE  OneAhead' /\ PassedIsRecorded' /\ RecordsApplied'
  BY DEF AheadInv
<1>1. ASSUME NEW r \in Runs, NEW steps \in 0..files, MigrateUp(r, steps)
      PROVE  OneAhead' /\ PassedIsRecorded' /\ RecordsApplied'
  <2> DEFINE x == [pc |-> "execute", todo |-> (1..files) \ recorded,
                   left |-> IF steps = 0 THEN -1 ELSE steps]
  <2>1. run' = [run EXCEPT ![r] = x] /\ recorded' = recorded /\ applied' = applied
    BY <1>1 DEF MigrateUp
  <2>2. \A v \in x.todo : \A w \in 1..(v - 1) : w \notin x.todo => w \in recorded'
    BY <2>1 DEF TypeOK
  <2>3. x.pc # "record"
    OBVIOUS
  <2>4. OneAhead'
    BY <2>1 DEF OneAhead
  <2> HIDE DEF x
  <2> QED
    BY <2>1, <2>2, <2>3, <2>4, OthersKeep
<1>2. ASSUME NEW r \in Runs, NEW v \in 1..files, Execute(r, v)
      PROVE  OneAhead' /\ PassedIsRecorded' /\ RecordsApplied'
  <2>1. recorded' = recorded /\ applied' \in {applied, applied \cup {v}}
    BY <1>2 DEF Execute
  <2>2. \A w \in 1..(v - 1) : w \in recorded
    BY <1>2, ReachedIsNext DEF Execute
  <2>3. OneAhead'
    BY <2>1, <2>2 DEF OneAhead
  <2>4. CASE run' = [run EXCEPT ![r].pc = "record"] /\ applied' = applied \cup {v}
    <3> DEFINE x == [run[r] EXCEPT !.pc = "record"]
    <3>1. run[r] \in Run
      BY DEF TypeOK
    <3>2. x.todo = run[r].todo /\ run' = [run EXCEPT ![r] = x]
      BY <2>4, <3>1 DEF Run
    <3>3. \A u \in x.todo : \A w \in 1..(u - 1) : w \notin x.todo => w \in recorded'
      BY <3>2, <2>1 DEF PassedIsRecorded
    <3>4. \A u \in x.todo : (\A w \in x.todo : u <= w) => u = v
      BY <3>2, <1>2 DEF Execute, Reached, TypeOK
    <3> HIDE DEF x
    <3> QED
      BY <2>1, <2>3, <2>4, <3>2, <3>3, <3>4, OthersKeep
  <2>5. CASE Stop(r)
    BY <2>1, <2>3, <2>5, StopKeeps
  <2> QED
    BY <1>2, <2>4, <2>5 DEF Execute
<1>3. ASSUME NEW r \in Runs, NEW v \in 1..files, Record(r, v)
      PROVE  OneAhead' /\ PassedIsRecorded' /\ RecordsApplied'
  <2>1. applied' = applied /\ recorded' \in {recorded, recorded \cup {v}}
    BY <1>3 DEF Record
  <2>2. v \in applied
    BY <1>3 DEF Record, Reached, RecordsApplied
  <2>3. OneAhead'
    BY <2>1, <2>2 DEF OneAhead
  <2>4. CASE /\ recorded' = recorded \cup {v}
             /\ run' = [run EXCEPT ![r] = [pc |-> "execute", todo |-> run[r].todo \ {v},
                                           left |-> run[r].left - 1]]
    <3> DEFINE x == [pc |-> "execute", todo |-> run[r].todo \ {v}, left |-> run[r].left - 1]
    <3>1. \A u \in x.todo : \A w \in 1..(u - 1) : w \notin x.todo => w \in recorded'
      BY <2>4 DEF PassedIsRecorded
    <3>2. x.pc # "record" /\ run' = [run EXCEPT ![r] = x]
      BY <2>4
    <3> HIDE DEF x
    <3> QED
      BY <2>1, <2>3, <3>1, <3>2, OthersKeep
  <2>5. CASE Stop(r)
    BY <2>1, <2>3, <2>5, StopKeeps
  <2> QED
    BY <1>3, <2>4, <2>5 DEF Record
<1>4. ASSUME NEW r \in Runs, End(r) PROVE OneAhead' /\ PassedIsRecorded' /\ RecordsApplied'
  <2>1. applied' = applied /\ recorded' = recorded /\ Stop(r)
    BY <1>4 DEF End
  <2> QED
    BY <2>1, StopKeeps DEF OneAhead
<1>5. CASE CreateMigration
  BY <1>5 DEF CreateMigration, OneAhead, PassedIsRecorded, RecordsApplied, Reached
<1>6. CASE UNCHANGED vars
  BY <1>6 DEF vars, OneAhead, PassedIsRecorded, RecordsApplied, Reached
<1> QED
  BY <1>1, <1>2, <1>3, <1>4, <1>5, <1>6 DEF Next, Step

(***************************************************************************)
(* The schema is at most one migration ahead of schema_migrations, and the *)
(* table has no gap, whatever runs overlap and wherever they stop.         *)
(***************************************************************************)
THEOREM SchemaIsOneAhead == ASSUME Provided \in Nat PROVE Spec => []OneAhead
<1>1. Spec => []TypeOK
  BY MigrateTypeCorrect
<1>2. AheadInv => OneAhead
  BY DEF AheadInv
<1> QED
  BY <1>1, <1>2, AheadInit, AheadStep, PTL DEF Spec

--------------------------------------------------------------------------------
(* While a migration that cannot be applied twice is stranded, no other is   *)
(* reached: a later one would need its record.                             *)
LEMMA StrandedStep ==
  TypeOK /\ AheadInv /\ [Next]_vars =>
    \A v \in Once : Stranded(v) => Stranded(v)' /\ applied' = applied
<1> SUFFICES ASSUME TypeOK, OneAhead, PassedIsRecorded, [Next]_vars, NEW v \in Once, Stranded(v)
             PROVE  Stranded(v)' /\ applied' = applied
  BY DEF AheadInv
<1>t. v \in 1..files /\ v \in applied /\ v \notin recorded /\ files \in Nat
  BY DEF Stranded, TypeOK
<1>r. \A q \in Runs : ~(run[q].pc = "record" /\ Reached(q, v))
  BY DEF Stranded
<1>n. ASSUME NEW r \in Runs, NEW u \in 1..files, Reached(r, u) PROVE u <= v
  <2>1. \A w \in 1..(u - 1) : w \in recorded
    BY <1>n, ReachedIsNext
  <2> QED
    BY <2>1, <1>t
(* A run that leaves schema and table alone and is not then recording v. *)
<1>k. ASSUME NEW r \in Runs, NEW x, run' = [run EXCEPT ![r] = x], x.pc # "record",
             applied' = applied, v \notin recorded'
      PROVE  Stranded(v)'
  <2>1. run'[r] = x /\ \A q \in Runs \ {r} : run'[q] = run[q]
    BY <1>k DEF TypeOK
  <2> QED
    BY <1>k, <2>1, <1>t, <1>r DEF Stranded, Reached
<1>s. Stopped.pc # "record"
  BY DEF Stopped
<1>1. ASSUME NEW r \in Runs, NEW steps \in 0..files, MigrateUp(r, steps)
      PROVE  Stranded(v)' /\ applied' = applied
  <2> DEFINE x == [pc |-> "execute", todo |-> (1..files) \ recorded,
                   left |-> IF steps = 0 THEN -1 ELSE steps]
  <2>1. run' = [run EXCEPT ![r] = x] /\ x.pc # "record"
    BY <1>1 DEF MigrateUp
  <2>2. applied' = applied /\ v \notin recorded'
    BY <1>1, <1>t DEF MigrateUp
  <2> HIDE DEF x
  <2> QED
    BY <2>1, <2>2, <1>k
<1>2. ASSUME NEW r \in Runs, NEW u \in 1..files, Execute(r, u)
      PROVE  Stranded(v)' /\ applied' = applied
  <2>1. u <= v
    BY <1>2, <1>n DEF Execute
  <2>2. u \in applied
    BY <2>1, <1>t DEF OneAhead, TypeOK
  <2>3. applied' = applied /\ recorded' = recorded
    BY <1>2, <2>2 DEF Execute
  <2>4. CASE Stop(r)
    BY <2>3, <2>4, <1>k, <1>s, <1>t DEF Stop
  <2>5. CASE (u \in applied => u \notin Once) /\ run' = [run EXCEPT ![r].pc = "record"]
    <3>1. u # v
      BY <2>2, <2>5
    <3>2. ~Reached(r, v)
      BY <1>2, <3>1, <2>1, <1>t DEF Execute, Reached
    <3>3. run[r] \in Run
      BY DEF TypeOK
    <3>4. run'[r].todo = run[r].todo /\ \A q \in Runs \ {r} : run'[q] = run[q]
      BY <2>5, <3>3 DEF TypeOK, Run
    <3> QED
      BY <2>3, <3>2, <3>4, <1>t, <1>r DEF Stranded, Reached
  <2> QED
    BY <1>2, <2>4, <2>5 DEF Execute
<1>3. ASSUME NEW r \in Runs, NEW u \in 1..files, Record(r, u)
      PROVE  Stranded(v)' /\ applied' = applied
  <2>1. u # v
    BY <1>3, <1>r DEF Record
  <2>2. applied' = applied /\ v \notin recorded'
    BY <1>3, <2>1, <1>t DEF Record
  <2> QED
    BY <1>3, <2>2, <1>k, <1>s DEF Record, Stop
<1>4. ASSUME NEW r \in Runs, End(r) PROVE Stranded(v)' /\ applied' = applied
  BY <1>4, <1>k, <1>s, <1>t DEF End, Stop
<1>5. CASE CreateMigration
  BY <1>5, <1>t, <1>r DEF CreateMigration, Stranded, Reached
<1>6. CASE UNCHANGED vars
  BY <1>6, <1>t, <1>r DEF vars, Stranded, Reached
<1> QED
  BY <1>1, <1>2, <1>3, <1>4, <1>5, <1>6 DEF Next, Step

(***************************************************************************)
(* Stopped between statement and record of an ALTER TABLE, the tool makes  *)
(* no progress ever again.                                                 *)
(***************************************************************************)
THEOREM StrandedStays == ASSUME Provided \in Nat PROVE Spec => StrandedForGood
<1>1. Spec => []TypeOK
  BY MigrateTypeCorrect
<1>2. TypeOK /\ AheadInv /\ [Next]_vars =>
        [\A v \in Once : Stranded(v) => Stranded(v)' /\ applied' = applied]_vars
  BY StrandedStep
<1> QED
  BY <1>1, <1>2, AheadInit, AheadStep, PTL DEF Spec, StrandedForGood
================================================================================
