\* A snapshot and a read committed NO_RECORD_VERSION transaction over two
\* rows: each can wait for the other's lock on a different row, for an
\* update or, the second, for a read, so the deadlock scan matters.
CONSTANTS
    MaxTx = 2
    r1 = r1
    r2 = r2
    NoRec = NoRec
    Rec <- MCRec2
    RC <- MCLast
    NoRecVer <- MCLast
    Kinds <- MCContend
    NoCleanup <- MCNone
SPECIFICATION LockFairSpec
INVARIANTS
    NoLostUpdate
    GCSafe
PROPERTIES
    GetCurrentExact
    DeadlockBroken
