\* The merge join: three substreams of up to two records with
\* single-component keys NULL, 1 or 2: a stream fetched up to the highest
\* key can overtake it, groups of every size and NULL keys occur; each
\* merge file holds one or two records per block, so groups and the record
\* left waiting spill into the TempSpace.
\* The window stream: every frame clause over up to three buffered rows in
\* two partitions with NULL, 1, 2 or 3 keys, and offsets 0 and 1: peers,
\* key gaps wider than the offset, empty frames, frames clipped by the
\* partition and NULL keys occur.
CONSTANTS
    N = 3
    K = 1
    KeyVal = {1, 2}
    NULL = NULL
    MaxLen = 2
    Factors = {1, 2}
    MaxRows = 3
    PartVal = {1, 2}
    OrdVal = {1, 2, 3}
    Offsets = {0, 1}
    NoValue = NoValue
SPECIFICATION MCFairSpec
INVARIANTS
    TypeOK
    JoinExact
    WindowTypeOK
    WindowExact
    AccMatchesWindow
PROPERTIES
    GetRecordReturns
