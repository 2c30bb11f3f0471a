\* What the guests play after the connection of a paused host came back.
CONSTANTS
    p0 = p0
    g1 = g1
    g2 = g2
    Host = p0
    Guests = {g1}
    HostConnections = 2
    GuestConnections = 1
    MaxConnections <- MCMaxConnections
    Sockets <- MCSockets
    NoSocket = NoSocket
    Codes = {code}
    SessionCode = code
    NoCode = NoCode
    MayDrop = {p0}
    MayLeave = {}
    Positions = {x}
    Sources = {f1}
    NoSource = NoSource
    StartSources = {f1}
    StartPlayers <- MCStartPlayers
    Urls = {}
    NoUrl = NoUrl
    NoState = NoState
    AllowGuestControl = TRUE
    MaxActions = 1
    LeaveCost = 1
    MaxBreaks = 1
\* Connections and actions are bounded, so the system may come to rest.
CHECK_DEADLOCK FALSE
SPECIFICATION Spec
INVARIANT ReconnectResyncsState
