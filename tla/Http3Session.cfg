SPECIFICATION FairSpec
CONSTANTS
    NStreams = 1
    MaxBuffer = 2
    Window = 2
    Careful = TRUE
INVARIANTS BodiesExact ReportsExact
PROPERTY EndIsSent
CHECK_DEADLOCK FALSE
