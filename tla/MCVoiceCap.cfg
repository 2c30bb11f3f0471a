\* The frames that wait to be played in a call, against the cap of the docs.
CONSTANTS
    \* RelayVoice
    QueueCap = 2
    Period = 2
    FrameSizes = {1, 3}
    MaxFrames = 4
    MaxCaptured = 3
    MaxCalls = 2
    \* RenderLoop
    Sizes = {small, large}
    MaxPictures = 2
    MaxResizes = 1
    \* BackgroundJobs
    MaxRequests = 4
    \* VoiceCall
    p0 = p0
    a = a
    b = b
    h1 = h1
    a1 = a1
    a2 = a2
    b1 = b1
    Host = p0
    Guests = {a, b}
    SocketsOf <- MCSocketsOf
    Sockets = {h1, a1, a2, b1}
    NoSocket = NoSocket
    Codes = {code}
    NoCode = NoCode
    SessionCode = code
    Callers = {p0, a}
    MaxPresses = 2
    MayDrop = {a1}
\* Calls, frames, requests and presses are bounded, so each part may come to rest.
CHECK_DEADLOCK FALSE
SPECIFICATION Spec
INVARIANT IncomingIsCapped
