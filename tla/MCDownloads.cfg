\* Links and downloads against racing uploads, an admin and a clock that
\* lets tokens expire, with cleanup disabled: once every request is done the
\* instance stops.
SPECIFICATION Spec
CONSTANTS
    None = None
    SizeOf <- MCSizeOf
    Sha256 <- MCSha256
    Digest = {"sA", "sB", "sC"}
    FileId = {f1}
    Uploads = {u1, u2}
    Downloads = {d1}
    Admins = {a1}
    Content <- TwoContents
    DeclaredSize = {0, 1, 2}
    MaxUploadBytes = 0
    Framing = 1
    CleanupEnabled = FALSE
    MaxAge = 2
    MaxTime = 2
    BatchLimit = 1
    RequestedTTL <- MCRequestedTTL
    DefaultTTL = 1
    MaxTTL = 1
    Faults = {"store"}
    MaxCrashes = 0
    Undeletable = {}
SYMMETRY UploadSymmetry
CHECK_DEADLOCK FALSE
INVARIANTS
    LinkedFileHashed
    ServedMatchesRecord
    NoSilentTruncation
