SPECIFICATION Http1Spec
CONSTANTS
    Requests <- MCRequests
    Lengths = {0, 1, 2}
    MaxStreams = 2
    MaxBody = 3
    ZeroChunkFirst = TRUE
    ClientRequests <- MCClientRequests
    ClientResponses <- MCClientResponses
    ClientMaxBody = 2
    MaxInterim = 1
    Trailers = TRUE
PROPERTY SentByItsLength
CHECK_DEADLOCK FALSE
