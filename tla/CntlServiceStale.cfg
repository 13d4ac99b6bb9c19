\* One failing SetServiceStatus call, no fatal server error.
CONSTANTS
    MaxControls = 2
    MaxFail = 1
    ServerFatal = FALSE
SPECIFICATION Spec
INVARIANTS
    NoStaleSetEvent
