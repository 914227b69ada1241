----------------------------- MODULE Migrations -----------------------------
(***************************************************************************)
(* Replicas of the API that start together.  Each brings the database to   *)
(* the newest revision before it serves: it takes an advisory lock on one  *)
(* connection, has a thread run the upgrade on another, in one             *)
(* transaction, and gives the lock back.  A replica may die anywhere and   *)
(* is started again; the connection that holds the lock may be lost while  *)
(* the thread goes on.                                                     *)
(***************************************************************************)
EXTENDS Naturals

CONSTANTS
    Replicas,
    Migrating,   \* those with settings.run_migrations_on_startup
    Objects,     \* how many tables, indexes and views the upgrade creates
    NoReplica,
    MaxFaults    \* a bound on the deaths, failures and lost connections

ASSUME MigrationConstants ==
    /\ Migrating \subseteq Replicas
    /\ NoReplica \notin Replicas
    /\ MaxFaults \in Nat
    /\ Objects \in Nat \ {0}

VARIABLES
    schema,      \* the objects that are committed, being the first so many
    made,        \* replica -> those its open transaction has created
    pc,          \* replica -> where its start stands
    holder,      \* the replica whose connection has the lock, or NoReplica
    faults,      \* faults so far
    exposed,     \* a lock was lost while its holder's upgrade went on
    collided     \* replicas whose upgrade met an object of another's
                 \* (exposed and collided are history variables)

migrationVars == <<schema, made, pc, holder, faults, exposed, collided>>

(* The database is new, or an earlier deployment has migrated it. *)
MigrationsInit ==
    /\ schema \in {0, Objects}
    /\ made = [r \in Replicas |-> 0]
    /\ pc = [r \in Replicas |-> "down"]
    /\ holder = NoReplica
    /\ faults = 0 /\ exposed = FALSE /\ collided = {}

Goto(r, label) == pc' = [pc EXCEPT ![r] = label]

(* The lifespan of the application begins. *)
Start(r) ==
    /\ pc[r] = "down"
    /\ Goto(r, IF r \in Migrating THEN "lock" ELSE "ready")
    /\ UNCHANGED <<schema, made, holder, faults, exposed, collided>>

(* pg_advisory_lock waits until the lock is free.                          *)
(* AcquireAnyway is not the code: it does not wait (pg_try_advisory_lock). *)
AcquireAnyway(r) ==
    /\ pc[r] = "lock"
    /\ holder' = IF holder = NoReplica THEN r ELSE holder
    /\ Goto(r, "upgrade")
    /\ UNCHANGED <<schema, made, faults, exposed, collided>>

Acquire(r) ==
    /\ pc[r] = "lock" /\ holder = NoReplica
    /\ holder' = r
    /\ Goto(r, "upgrade")
    /\ UNCHANGED <<schema, made, faults, exposed, collided>>

-----------------------------------------------------------------------------
(* command.upgrade, in its thread. *)

(* The database is at the newest revision. *)
NothingToDo(r) ==
    /\ pc[r] = "upgrade" /\ schema = Objects
    /\ Goto(r, "unlock")
    /\ UNCHANGED <<schema, made, holder, faults, exposed, collided>>

(* The transaction begins if the revision was not found.                   *)
Begin(r) ==
    /\ pc[r] = "upgrade" /\ schema # Objects
    /\ Goto(r, "create")
    /\ UNCHANGED <<schema, made, holder, faults, exposed, collided>>

(* Every upgrade creates the same objects in the same order, alembic_version *)
(* first.  PostgreSQL lets the second creator of one wait for the first's  *)
(* transaction.                                                            *)
NextObject(r) == made[r] + 1

(* CanCreateMore is not the code: it goes one statement too far.           *)
CanCreateMore(r) ==
    /\ pc[r] = "create" /\ made[r] <= Objects
    /\ schema < NextObject(r)
    /\ \A q \in Replicas \ {r} : made[q] < NextObject(r)

CanCreate(r) ==
    /\ pc[r] = "create" /\ made[r] < Objects
    /\ schema < NextObject(r)
    /\ \A q \in Replicas \ {r} : made[q] < NextObject(r)

Create(r) ==
    /\ CanCreate(r)
    /\ made' = [made EXCEPT ![r] = NextObject(r)]
    /\ UNCHANGED <<schema, pc, holder, faults, exposed, collided>>

(* The object has come to exist since; the transaction is rolled back. *)
Collide(r) ==
    /\ pc[r] = "create" /\ made[r] < Objects /\ schema >= NextObject(r)
    /\ made' = [made EXCEPT ![r] = 0]
    /\ Goto(r, "failed")
    /\ collided' = collided \cup {r}
    /\ UNCHANGED <<schema, holder, faults, exposed>>

CommitUpgrade(r) ==
    /\ pc[r] = "create" /\ made[r] = Objects
    /\ schema' = Objects
    /\ made' = [made EXCEPT ![r] = 0]
    /\ Goto(r, "unlock")
    /\ UNCHANGED <<holder, faults, exposed, collided>>

-----------------------------------------------------------------------------
(* The lock goes back, whether the upgrade went through or not; without    *)
(* the connection that has it the statement fails.                         *)
Freed(r) == IF holder = r THEN NoReplica ELSE holder

(* UnlockForgotten is not the code: the connection goes back to the pool   *)
(* with the lock.                                                          *)
UnlockForgotten(r) ==
    /\ pc[r] = "unlock"
    /\ Goto(r, "ready")
    /\ UNCHANGED <<schema, made, holder, faults, exposed, collided>>

Unlock(r) ==
    /\ pc[r] = "unlock"
    /\ holder' = Freed(r)
    /\ Goto(r, IF holder = r THEN "ready" ELSE "failed")
    /\ UNCHANGED <<schema, made, faults, exposed, collided>>

(* After a failed upgrade the exception leaves the lifespan and the process *)
(* ends.                                                                   *)
GiveUp(r) ==
    /\ pc[r] = "failed"
    /\ holder' = Freed(r)
    /\ Goto(r, "down")
    /\ UNCHANGED <<schema, made, faults, exposed, collided>>

(* A rolling restart. *)
Stop(r) ==
    /\ pc[r] = "ready"
    /\ Goto(r, "down")
    /\ UNCHANGED <<schema, made, holder, faults, exposed, collided>>

-----------------------------------------------------------------------------
(* Faults. *)

Fault == faults < MaxFaults /\ faults' = faults + 1

(* The process dies, and PostgreSQL ends its two sessions. *)
Crash(r) ==
    /\ pc[r] # "down" /\ Fault
    /\ made' = [made EXCEPT ![r] = 0]
    /\ holder' = Freed(r)
    /\ Goto(r, "down")
    /\ UNCHANGED <<schema, exposed, collided>>

(* A statement of the upgrade fails, or its connection is lost.            *)
(* UpgradeFailsQuietly is not the code: it catches the exception.          *)
UpgradeFailsQuietly(r) ==
    /\ pc[r] \in {"upgrade", "create"} /\ Fault
    /\ made' = [made EXCEPT ![r] = 0]
    /\ Goto(r, "unlock")
    /\ UNCHANGED <<schema, holder, exposed, collided>>

UpgradeFails(r) ==
    /\ pc[r] \in {"upgrade", "create"} /\ Fault
    /\ made' = [made EXCEPT ![r] = 0]
    /\ Goto(r, "failed")
    /\ UNCHANGED <<schema, holder, exposed, collided>>

(* The lock goes with its connection; the thread does not notice.          *)
LockLost(r) ==
    /\ holder = r /\ Fault
    /\ holder' = NoReplica
    /\ exposed' = TRUE
    /\ UNCHANGED <<schema, made, pc, collided>>

-----------------------------------------------------------------------------
StartStep(r) ==
    \/ Acquire(r)
    \/ NothingToDo(r) \/ Begin(r) \/ Create(r) \/ Collide(r) \/ CommitUpgrade(r)
    \/ Unlock(r) \/ GiveUp(r)

MigrationsNext ==
    \E r \in Replicas :
        Start(r) \/ StartStep(r) \/ Stop(r) \/ Crash(r) \/ UpgradeFails(r) \/ LockLost(r)

MigrationsSpec == MigrationsInit /\ [][MigrationsNext]_migrationVars

(* A process that has begun goes on, and PostgreSQL serves those who wait  *)
(* for the lock in turn, so that none is passed over for ever.  Nothing    *)
(* starts a replica that is down.                                          *)
FairMigrationsSpec ==
    /\ MigrationsSpec
    /\ \A r \in Replicas : SF_migrationVars(Acquire(r)) /\ WF_migrationVars(StartStep(r))

-----------------------------------------------------------------------------
(* Properties. *)

MigrationsTypeOK ==
    /\ schema \in 0 .. Objects
    /\ made \in [Replicas -> 0 .. Objects]
    /\ pc \in [Replicas -> {"down", "lock", "upgrade", "create", "unlock", "failed", "ready"}]
    /\ holder \in Replicas \cup {NoReplica}
    /\ faults \in 0 .. MaxFaults
    /\ exposed \in BOOLEAN
    /\ collided \subseteq Replicas

(* A replica that migrates serves requests on a whole schema only, whoever *)
(* crashed on the way, with the lock or without it.                        *)
ReadyMeansMigrated == \A r \in Migrating : pc[r] = "ready" => schema = Objects

(* "safe with multiple api replicas": no replica's upgrade stumbles over   *)
(* another's tables, unless a lock connection was lost.                    *)
UpgradesDoNotCollide == ~ exposed => collided = {}

(* Nobody waits for the lock for ever: a start comes to serve, or to an    *)
(* end, whatever becomes of the other replicas.                            *)
StartsEnd == \A r \in Replicas : pc[r] = "lock" ~> pc[r] \in {"ready", "failed", "down"}
=============================================================================
