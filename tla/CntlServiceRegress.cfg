\* The server thread may shut the service down while a control other than
\* STOP is in the dispatcher: two controls, no report failure.
CONSTANTS
    MaxControls = 2
    MaxFail = 0
    ServerFatal = TRUE
SPECIFICATION Spec
PROPERTIES
    StatusNeverRegresses
