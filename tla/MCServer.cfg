\* One process with its cleanup job; the process really ends, so a state
\* without successors is the exit.
SPECIFICATION FairSpec
CONSTANTS
    Requests = {r1, r2}
CHECK_DEADLOCK FALSE
INVARIANTS
    ServerTypeOK
    CleanExitCutsNothing
    JobLivesWhileServing
PROPERTIES
    SignalEndsProcess
    ListenFailureEndsProcess
