SPECIFICATION ServerSpec
CONSTANTS
    None = None
    NoUser = NoUser
    Users = {u1}
    Root = u1
    Roles = {"admin", "customer"}
    Passwords = {p1, p2}
    Edits = {e1, e2}
    Logins = {l1}
    SessionTtl = 2
    Replicas = {a1, a2, a3, a4}
    Migrating = {a1, a2, a3}
    Objects = 3
    NoReplica = NoReplica
    MaxFaults = 3
INVARIANTS
    SessionsTypeOK
    SessionsDieInTime
    SessionHasItsUser
    MigrationsTypeOK
    ReadyMeansMigrated
    UpgradesDoNotCollide
PROPERTIES
    DeletionIsFinal
    SessionsEnd
    StartsEnd
