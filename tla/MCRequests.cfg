\* Requests on a pool of three, two of which are left after the migrations.
SPECIFICATION FairSpec
CONSTANTS
    Nobody = Nobody
    Conn = {c1, c2, c3}
    Requests <- MCRequests
    RoutesOf <- MCRoutesOf
    Migrations = 3
    SessionTTL = 1
    MaxTime = 1
    MaxCrashes = 1
INVARIANTS
    TypeOK
    NoLeak
    PoolNotStuck
    ServesOnCompleteSchema
    CountersExact
    SnapshotExact
PROPERTIES
    SessionHonoured
    RequestCounted
    CleanupRunEnds
    ServesUnlessDirty
