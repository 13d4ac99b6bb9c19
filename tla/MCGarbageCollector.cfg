CONSTANTS
    n1 = n1
    n2 = n2
    Page <- MCPage
    Notifier <- MCNotifier
    MaxTran = 2
    MaxNotify = 2
    MaxSem = 2
    Validations = {FALSE, TRUE}
    Exceptions = TRUE
SPECIFICATION FairSpec
INVARIANTS
    TypeOK
    CandidatesKept
PROPERTIES
    PendingPageCollected
    FiniCompletes
