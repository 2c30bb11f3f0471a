\* Under fairness, a guest who loses the connection, or is refused one, is back in the end.
CONSTANTS
    p0 = p0
    g1 = g1
    g2 = g2
    Host = p0
    Guests = {g1}
    HostConnections = 1
    GuestConnections = 3
    MaxConnections <- MCMaxConnections
    Sockets <- MCSockets
    NoSocket = NoSocket
    Codes = {code}
    SessionCode = code
    NoCode = NoCode
    MayDrop = {g1}
    MayLeave = {}
    Positions = {x}
    Sources = {f1}
    NoSource = NoSource
    StartSources = {f1}
    StartPlayers <- MCStartPlayers
    Urls = {}
    NoUrl = NoUrl
    NoState = NoState
    AllowGuestControl = TRUE
    MaxActions = 1
    LeaveCost = 1
    MaxBreaks = 1
\* Connections and actions are bounded, so the system may come to rest.
CHECK_DEADLOCK FALSE
SPECIFICATION RetriesSpec
INVARIANT TypeOK
PROPERTIES EveryoneComesBack GuestsCatchUp
