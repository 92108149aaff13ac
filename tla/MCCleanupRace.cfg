\* The cleanup job against an upload, no failures.
SPECIFICATION Spec
CONSTANTS
    None = None
    SizeOf <- MCSizeOf
    Sha256 <- MCSha256
    Digest = {"sA", "sB", "sC"}
    FileId = {f1}
    Uploads = {u1}
    Downloads = {}
    Admins = {}
    Content <- TwoContents
    DeclaredSize = {1}
    MaxUploadBytes = 0
    Framing = 1
    CleanupEnabled = TRUE
    MaxAge = 1
    MaxTime = 2
    BatchLimit = 1
    RequestedTTL = {}
    DefaultTTL = 2
    MaxTTL = 3
    Faults = {}
    MaxCrashes = 0
    Undeletable = {}
PROPERTIES
    CleanupSparesUploaded
