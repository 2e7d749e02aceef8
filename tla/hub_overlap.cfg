SPECIFICATION MCSpec
CONSTANTS
    Runs = {a, b}
    Viewers = {v}
    None = None
    MaxHistory = 3
    Buffer = 2
    MaxEvents = 2
    MaxConnects = 2
CHECK_DEADLOCK FALSE
INVARIANTS
    ChannelsSound
    ShownFaithfully
    SerialRunKeepsStream
PROPERTIES
    EveryViewerReleased
    StreamsForgotten
