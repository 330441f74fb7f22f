\* Two sockets alive, two plant changes, two faults: a fault during the
\* recovery from another one.
CONSTANTS
    MaxSock = 2
    MaxVer = 2
    MaxPipe = 2
    MaxFaults = 2
    BufferMax = 1
    StaleAfter = 0
    RecycleAfter = 1
SPECIFICATION RtSpec
INVARIANTS
    RtTypeOK
    SilenceIsAnnounced
    NoEventForgotten
PROPERTIES
    StaleClearsOnRender
    HoleStopsRendering
    LinkComesBack
