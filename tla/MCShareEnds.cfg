\* Under fairness: a guest takes turns between two files, of which one may change,
\* and its connection may break.
CONSTANTS
    p0 = p0
    g1 = g1
    g2 = g2
    a = a
    b = b
    Host = p0
    Guests = {g1}
    GuestConnections = 2
    MaxConnections <- MCMaxConnections
    Sockets <- MCSockets
    NoSocket = NoSocket
    Codes = {code}
    SessionCode = code
    NoCode = NoCode
    MayDrop = {g1}
    MayLeave = {}
    Shares = {a, b}
    NoShare = NoShare
    NoFile = NoFile
    OwnerOfA = g1
    OwnerOfB = g1
    NameOfA = "film"
    NameOfB = "subs"
    SizeOfA = 3
    SizeOfB = 1
    Owner <- MCOwner
    Size <- MCSize
    MaxNumber = 0
    Candidate <- MCCandidate
    Generated <- MCGenerated
    PartOf <- MCPartOf
    Existing = {}
    ChunkSize = 2
    MayChange = {b}
    DiskMayFail = FALSE
    Overlap = TRUE
    MaxQueue = 0
\* Every share is sent once, so the system comes to rest.
CHECK_DEADLOCK FALSE
SPECIFICATION FairSpec
INVARIANT FilesArrive
PROPERTY SendersAreTold
