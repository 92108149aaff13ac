\* Two overlapping uploads of one page, with a crash, lost connections and the
\* cleanup job.
SPECIFICATION WebFairSpec
CONSTANTS
    None = None
    SizeOf <- MCSizeOf
    Sha256 <- MCSha256
    Digest = {"sA", "sB", "sU"}
    FileId = {"f1", "f2"}
    Uploads = {1, 2}
    Downloads = {}
    Admins = {}
    Content = {"A", "B", "undefined"}
    DeclaredSize = {1, 2}
    MaxUploadBytes = 0
    Framing = 1
    CleanupEnabled = TRUE
    MaxAge = 0
    MaxTime = 1
    BatchLimit = 1
    RequestedTTL = {1}
    DefaultTTL = 1
    MaxTTL = 2
    Faults = {"client"}
    MaxCrashes = 1
    Undeletable = {}
    FileOf <- MCFileOf
    IdsOf <- MCIdsOf
    Undefined = "undefined"
    PageTTL = 1
    Flaky = {1}
INVARIANTS
    WebTypeOK
    HashOfStoredFile
    RecordOfPickedFile
    ShownLinkTrue
PROPERTIES
    FlowSettles
