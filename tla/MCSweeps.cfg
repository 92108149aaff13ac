\* Cleanup job, manual cleanup and admin deletes against an upload, two files,
\* a batch limit of one, and a clock that lets rows expire while being uploaded.
SPECIFICATION FairSpec
CONSTANTS
    None = None
    SizeOf <- MCSizeOf
    Sha256 <- MCSha256
    Digest = {"sA", "sB", "sC"}
    FileId = {f1, f2}
    Uploads = {u1}
    Downloads = {}
    Admins = {a1}
    Content = {"A"}
    DeclaredSize = {1}
    MaxUploadBytes = 0
    Framing = 1
    CleanupEnabled = TRUE
    MaxAge = 1
    MaxTime = 3
    BatchLimit = 1
    RequestedTTL = {}
    DefaultTTL = 2
    MaxTTL = 3
    Faults = {"db", "store"}
    MaxCrashes = 1
    Undeletable = {f1}
INVARIANTS
    YoungFileHasObject
    AdminDeleteFinal
PROPERTIES
    SweepsOnlyExpired
    ExpiredReclaimed
