\* Everyone acts while one guest's or the host's connection breaks or is refused,
\* or the guest leaves and joins again; or two guests come and one leaves.
CONSTANTS
    p0 = p0
    g1 = g1
    g2 = g2
    Host = p0
    Guests = {g1, g2}
    HostConnections = 2
    GuestConnections = 2
    MaxConnections <- MCMaxConnections
    Sockets <- MCSockets
    NoSocket = NoSocket
    Codes = {code}
    SessionCode = code
    NoCode = NoCode
    MayDrop = {p0, g1, g2}
    MayLeave = {g1, g2}
    Positions = {x}
    f1 = f1
    f2 = f2
    Sources = {f1, f2}
    NoSource = NoSource
    StartSources = {f1}
    StartPlayers <- MCStartPlayers
    u1 = u1
    Urls = {u1}
    NoUrl = NoUrl
    NoState = NoState
    AllowGuestControl = TRUE
    MaxActions = 2
    LeaveCost = 2
    MaxBreaks = 1
\* Connections and actions are bounded, so the system may come to rest.
CHECK_DEADLOCK FALSE
SPECIFICATION MCSpec
SYMMETRY MCGuestSymmetry
INVARIANTS InStep NextStateIsTaken RosterSettles SourceSettles
PROPERTY ImplementsHostLog
