\* A crash between the two UPDATEs of an upload leaves the row stored for ever.
SPECIFICATION FairSpec
CONSTANTS
    None = None
    SizeOf <- MCSizeOf
    Sha256 <- MCSha256
    Digest = {"sA", "sB", "sC"}
    FileId = {f1}
    Uploads = {u1}
    Downloads = {}
    Admins = {}
    Content = {"A"}
    DeclaredSize = {1}
    MaxUploadBytes = 0
    Framing = 1
    CleanupEnabled = TRUE
    MaxAge = 1
    MaxTime = 2
    BatchLimit = 1
    RequestedTTL = {}
    DefaultTTL = 2
    MaxTTL = 3
    Faults = {}
    MaxCrashes = 1
    Undeletable = {}
PROPERTIES
    StoredResolved
