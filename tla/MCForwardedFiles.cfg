\* Two films, none of them a stream, none missing, none unplayable.
CONSTANTS
    f1 = f1
    f2 = f2
    Media = {f1, f2}
    Streams = {}
    Unplayable = {}
    Missing = {}
    NoMedia = NoMedia
    Duration <- MCDuration
    MaxQueue = 2
    MaxRecent = 2
    MaxOpens = 1
CHECK_DEADLOCK FALSE
SPECIFICATION Spec
PROPERTY ForwardedFilesQueueUp
