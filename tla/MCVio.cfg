\* Three transactions over one stored row: the first
\* snapshot without cleanup, the second read committed, the third snapshot.
CONSTANTS
    MaxTx = 3
    r1 = r1
    r2 = r2
    NoRec = NoRec
    Rec <- MCRec1
    RC <- MCMiddle
    NoRecVer <- MCNone
    Kinds <- MCReadWrite
    NoCleanup <- MCFirst
SPECIFICATION MCFairSpec
INVARIANTS
    TypeOK
    GCSafe
    RepeatableRead
    NoLostUpdate
    NoBugcheck
    BackoutExclusive
PROPERTIES
    StatementEnds
