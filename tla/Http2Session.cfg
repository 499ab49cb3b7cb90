SPECIFICATION FairSpec
CONSTANTS
    NStreams = 1
    MaxBuffer = 3
    Window = 2
    ConnWindow = 2
    MaxQueue = 2
    AutoFlow = {TRUE, FALSE}
    Careful = TRUE
INVARIANTS StreamsExact WindowsExact BodiesExact
PROPERTY EofIsSent
CHECK_DEADLOCK FALSE
