\* Two files of one name on their way at once, on connections and disks that hold.
CONSTANTS
    p0 = p0
    g1 = g1
    g2 = g2
    a = a
    b = b
    Host = p0
    Guests = {g1}
    GuestConnections = 1
    MaxConnections <- MCMaxConnections
    Sockets <- MCSockets
    NoSocket = NoSocket
    Codes = {code}
    SessionCode = code
    NoCode = NoCode
    MayDrop = {}
    MayLeave = {}
    Shares = {a, b}
    NoShare = NoShare
    NoFile = NoFile
    OwnerOfA = g1
    OwnerOfB = g1
    NameOfA = "film"
    NameOfB = "film"
    SizeOfA = 3
    SizeOfB = 1
    Owner <- MCOwner
    Size <- MCSize
    MaxNumber = 1
    Candidate <- MCCandidate
    Generated <- MCGenerated
    PartOf <- MCPartOf
    Existing = {}
    ChunkSize = 2
    MayChange = {}
    DiskMayFail = FALSE
    Overlap = TRUE
    MaxQueue = 1
\* Every share is sent once, so the system comes to rest.
CHECK_DEADLOCK FALSE
SPECIFICATION Spec
INVARIANT ReceivedIntact
