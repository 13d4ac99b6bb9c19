\* Both builds: a blob of segments <<a,b>> and <<b>>, SEGMENT_LIMIT 2, buffers
\* up to 3 bytes, 3 bytes per written blob, two handles and one API failure;
\* or a DPB, TPB or info writer of 262 bytes, DPB data of 1, 255 and 256
\* bytes (a wide upgrade, and overflows during and after it), four calls.
CONSTANTS
    a = a
    b = b
    sep = sep
    Byte <- MCByte
    Sep = sep
    Content <- MCContent
    SEGMENT_LIMIT = 2
    MaxLen = 3
    MaxHandles = 2
    MaxFail = 1
    MaxData = 3
    Builds = {TRUE, FALSE}
    SizeLimit = 262
    DpbLengths = {1, 255, 256}
    MaxOps = 4
SPECIFICATION MCSpec
INVARIANTS
    TypeOK
    GetDataExact
    PutAccounted
    InfoParsed
    CWTypeOK
    WellFormed
    WithinLimit
PROPERTIES
    ContentKept
