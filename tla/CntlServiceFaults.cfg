\* Failing SetServiceStatus, CreateEvent and Thread::start, and the
\* server's fatal-error shutdown.
CONSTANTS
    MaxControls = 3
    MaxFail = 2
    ServerFatal = TRUE
SPECIFICATION FairSpec
INVARIANTS
    TypeOK
PROPERTIES
    StopCompletes
