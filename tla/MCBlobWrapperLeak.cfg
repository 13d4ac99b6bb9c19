\* A failed close followed by open, in the DEV_BUILD (beside a ClumpletWriter
\* of one call, which the violation does not involve).

CONSTANTS
    a = a
    b = b
    sep = sep
    Byte <- MCByte
    Sep = sep
    Content <- MCContent
    SEGMENT_LIMIT = 2
    MaxLen = 3
    MaxHandles = 2
    MaxFail = 1
    MaxData = 3
    Builds = {TRUE}
    SizeLimit = 262
    DpbLengths = {1}
    MaxOps = 1
SPECIFICATION MCSpec
INVARIANTS
    NoLostHandle
