\* Racing uploads of one file with failing calls, late writes, a crash and
\* the cleanup job; content "B" is exactly at the upload limit, "C" a byte over it.
SPECIFICATION FairSpec
CONSTANTS
    None = None
    SizeOf <- MCSizeOf
    Sha256 <- MCSha256
    Digest = {"sA", "sB", "sC"}
    FileId = {f1}
    Uploads = {u1, u2}
    Downloads = {}
    Admins = {}
    Content <- ThreeContents
    DeclaredSize <- MCDeclaredSize
    MaxUploadBytes = 3
    Framing = 1
    CleanupEnabled = TRUE
    MaxAge = 1
    MaxTime = 2
    BatchLimit = 1
    RequestedTTL = {}
    DefaultTTL = 2
    MaxTTL = 3
    Faults = {"db", "store"}
    MaxCrashes = 1
    Undeletable = {}
INVARIANTS
    TypeOK
    HashAuthentic
    HashMatchesObject
    HashedReplyTruthful
    NoOversizedObject
PROPERTIES
    ImplementsLifecycle
    UploadAnswered
    StoredNeverSilent
