-------------------------- MODULE MigrationsProofs --------------------------
(***************************************************************************)
(* Migrations, for any number of replicas, objects and faults: nobody who  *)
(* migrates serves on part of a schema, and, as long as no connection with *)
(* the lock is lost, no two upgrades meet.                                 *)
(***************************************************************************)
EXTENDS Migrations, TLAPS

(* Where a replica stands that has taken the lock and not given it back. *)
Inside == {"upgrade", "create", "unlock", "failed"}

(* The schema is whole or empty, and whole for whoever is past its upgrade. *)
SchemaInv ==
    /\ schema \in {0, Objects}
    /\ \A r \in Replicas : pc[r] = "unlock" => schema = Objects
    /\ ReadyMeansMigrated

(* Who is inside has the lock, and a transaction under way found the       *)
(* database empty, which nobody else can have changed.                     *)
LockInv ==
    ~ exposed => /\ \A r \in Replicas : pc[r] \in Inside => holder = r
                 /\ \A r \in Replicas : pc[r] = "create" => schema # Objects
                 /\ collided = {}

MigrationsInv == MigrationsTypeOK /\ SchemaInv /\ LockInv

LEMMA MigrationsInvInit == MigrationsInit => MigrationsInv
<1> SUFFICES ASSUME MigrationsInit PROVE MigrationsInv
  OBVIOUS
<1> USE MigrationConstants DEF MigrationsInit
<1>1. MigrationsTypeOK
  <2>1. 0 \in 0 .. Objects /\ Objects \in 0 .. Objects /\ 0 \in 0 .. MaxFaults
    OBVIOUS
  <2>2. schema \in 0 .. Objects /\ made \in [Replicas -> 0 .. Objects] /\ faults \in 0 .. MaxFaults
    BY <2>1
  <2> QED BY <2>2 DEF MigrationsTypeOK
<1>2. SchemaInv
  BY DEF SchemaInv, ReadyMeansMigrated
<1>3. LockInv
  BY DEF LockInv, Inside
<1> QED BY <1>1, <1>2, <1>3 DEF MigrationsInv

(* Every step keeps the types; CanCreate stops at the last object. *)
LEMMA TypesKept == MigrationsTypeOK /\ [MigrationsNext]_migrationVars => MigrationsTypeOK'
<1> SUFFICES ASSUME MigrationsTypeOK, [MigrationsNext]_migrationVars
             PROVE  MigrationsTypeOK'
  OBVIOUS
<1> USE MigrationConstants DEF MigrationsTypeOK, Goto, Fault, Freed
<1>1. CASE UNCHANGED migrationVars
  BY <1>1 DEF migrationVars
<1>2. ASSUME NEW r \in Replicas, Start(r) \/ Acquire(r) \/ NothingToDo(r) \/ Begin(r)
      PROVE  MigrationsTypeOK'
  BY <1>2 DEF Start, Acquire, NothingToDo, Begin
<1>3. ASSUME NEW r \in Replicas, Create(r)
      PROVE  MigrationsTypeOK'
  BY <1>3 DEF Create, CanCreate, NextObject
<1>4. ASSUME NEW r \in Replicas, Collide(r) \/ CommitUpgrade(r)
      PROVE  MigrationsTypeOK'
  BY <1>4 DEF Collide, CommitUpgrade
<1>5. ASSUME NEW r \in Replicas, Unlock(r) \/ GiveUp(r) \/ Stop(r)
      PROVE  MigrationsTypeOK'
  BY <1>5 DEF Unlock, GiveUp, Stop
<1>6. ASSUME NEW r \in Replicas, Crash(r) \/ UpgradeFails(r) \/ LockLost(r)
      PROVE  MigrationsTypeOK'
  <2>1. faults' \in 0 .. MaxFaults
    BY <1>6 DEF Crash, UpgradeFails, LockLost
  <2>2. CASE Crash(r) \/ UpgradeFails(r)
    BY <2>1, <2>2 DEF Crash, UpgradeFails
  <2>3. CASE LockLost(r)
    BY <2>1, <2>3 DEF LockLost
  <2> QED BY <1>6, <2>2, <2>3
<1> QED BY <1>1, <1>2, <1>3, <1>4, <1>5, <1>6 DEF MigrationsNext, StartStep

(* A schema once whole stays whole, and a replica comes past its upgrade   *)
(* only when it found it so or made it so.                                 *)
LEMMA SchemaKept ==
    MigrationsTypeOK /\ SchemaInv /\ [MigrationsNext]_migrationVars => SchemaInv'
<1> SUFFICES ASSUME MigrationsTypeOK, SchemaInv, [MigrationsNext]_migrationVars
             PROVE  SchemaInv'
  OBVIOUS
<1> USE MigrationConstants DEF MigrationsTypeOK, SchemaInv, ReadyMeansMigrated, Goto, Fault
<1>1. CASE UNCHANGED migrationVars
  BY <1>1 DEF migrationVars
<1>2. ASSUME NEW r \in Replicas, Start(r) \/ Acquire(r) \/ NothingToDo(r) \/ Begin(r)
      PROVE  SchemaInv'
  BY <1>2 DEF Start, Acquire, NothingToDo, Begin
<1>3. ASSUME NEW r \in Replicas, Create(r) \/ Collide(r) \/ CommitUpgrade(r)
      PROVE  SchemaInv'
  BY <1>3 DEF Create, Collide, CommitUpgrade
<1>4. ASSUME NEW r \in Replicas, Unlock(r) \/ GiveUp(r) \/ Stop(r)
      PROVE  SchemaInv'
  BY <1>4 DEF Unlock, GiveUp, Stop
<1>5. ASSUME NEW r \in Replicas, Crash(r) \/ UpgradeFails(r) \/ LockLost(r)
      PROVE  SchemaInv'
  BY <1>5 DEF Crash, UpgradeFails, LockLost
<1> QED BY <1>1, <1>2, <1>3, <1>4, <1>5 DEF MigrationsNext, StartStep

(* The lock is taken only when it is free, and given back on the way out;  *)
(* so whoever commits an upgrade is the only one inside.                   *)
LEMMA LockKept == MigrationsInv /\ [MigrationsNext]_migrationVars => LockInv'
<1> SUFFICES ASSUME MigrationsInv, [MigrationsNext]_migrationVars
             PROVE  LockInv'
  OBVIOUS
<1> USE MigrationConstants DEF MigrationsInv, MigrationsTypeOK, LockInv, Inside, Goto, Fault
<1>1. CASE UNCHANGED migrationVars
  BY <1>1 DEF migrationVars
<1>2. ASSUME NEW r \in Replicas, Start(r) \/ NothingToDo(r)
      PROVE  LockInv'
  BY <1>2 DEF Start, NothingToDo
<1>3. ASSUME NEW r \in Replicas, Acquire(r)
      PROVE  LockInv'
  BY <1>3 DEF Acquire
<1>4. ASSUME NEW r \in Replicas, Begin(r) \/ Create(r)
      PROVE  LockInv'
  BY <1>4 DEF Begin, Create
<1>5. ASSUME NEW r \in Replicas, Collide(r)
      PROVE  LockInv'
  <2>1. exposed
    BY <1>5 DEF Collide, NextObject, SchemaInv
  <2> QED BY <1>5, <2>1 DEF Collide
<1>6. ASSUME NEW r \in Replicas, CommitUpgrade(r)
      PROVE  LockInv'
  <2>1. ~ exposed => \A q \in Replicas \ {r} : pc[q] # "create"
    BY <1>6 DEF CommitUpgrade
  <2> QED BY <1>6, <2>1 DEF CommitUpgrade
<1>7. ASSUME NEW r \in Replicas, Unlock(r) \/ GiveUp(r)
      PROVE  LockInv'
  BY <1>7 DEF Unlock, GiveUp, Freed
<1>8. ASSUME NEW r \in Replicas, Stop(r) \/ UpgradeFails(r)
      PROVE  LockInv'
  BY <1>8 DEF Stop, UpgradeFails
<1>9. ASSUME NEW r \in Replicas, Crash(r)
      PROVE  LockInv'
  BY <1>9 DEF Crash, Freed
<1>10. ASSUME NEW r \in Replicas, LockLost(r)
       PROVE  LockInv'
  BY <1>10 DEF LockLost
<1> QED BY <1>1, <1>2, <1>3, <1>4, <1>5, <1>6, <1>7, <1>8, <1>9, <1>10 DEF MigrationsNext, StartStep

(* The inductive invariant of the migrations. *)
THEOREM MigrationsInvariant == MigrationsSpec => []MigrationsInv
<1>1. MigrationsInv /\ [MigrationsNext]_migrationVars => MigrationsInv'
  BY TypesKept, SchemaKept, LockKept DEF MigrationsInv
<1> QED BY <1>1, MigrationsInvInit, PTL DEF MigrationsSpec

(* Every variable keeps its type: no upgrade goes beyond its last object.  *)
THEOREM MigrationsTypeCorrect == MigrationsSpec => []MigrationsTypeOK
<1>1. MigrationsInv => MigrationsTypeOK
  BY DEF MigrationsInv
<1> QED BY <1>1, MigrationsInvariant, PTL

(* run_migrations comes before the application serves: whatever crashes,   *)
(* fails or loses the lock, a replica that migrates serves on a whole      *)
(* schema.                                                                 *)
THEOREM NobodyServesHalf == MigrationsSpec => []ReadyMeansMigrated
<1>1. MigrationsInv => ReadyMeansMigrated
  BY DEF MigrationsInv, SchemaInv
<1> QED BY <1>1, MigrationsInvariant, PTL

(* pg_advisory_lock around command.upgrade: no upgrade meets another's     *)
(* tables unless a connection that held the lock was lost.                 *)
THEOREM UpgradesApart == MigrationsSpec => []UpgradesDoNotCollide
<1>1. MigrationsInv => UpgradesDoNotCollide
  BY DEF MigrationsInv, LockInv, UpgradesDoNotCollide
<1> QED BY <1>1, MigrationsInvariant, PTL
=============================================================================
