CONSTANTS
    n1 = n1
    n2 = n2
    Page <- MCPage
    Notifier <- MCNotifier
    MaxTran = 2
    MaxNotify = 3
    MaxSem = 2
    Validations = {FALSE}
    Exceptions = FALSE
SPECIFICATION FairSpec
PROPERTIES
    CandidateCollected
