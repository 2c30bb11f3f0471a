\* A guest sends two files whose names clash, not at once, into a directory that
\* has one of that name; it drops out or leaves, one file changes, the host's disk fails.
CONSTANTS
    p0 = p0
    g1 = g1
    g2 = g2
    a = a
    b = b
    Host = p0
    Guests = {g1}
    GuestConnections = 2
    MaxConnections <- MCMaxConnections
    Sockets <- MCSockets
    NoSocket = NoSocket
    Codes = {code}
    SessionCode = code
    NoCode = NoCode
    MayDrop = {g1}
    MayLeave = {g1}
    Shares = {a, b}
    NoShare = NoShare
    NoFile = NoFile
    OwnerOfA = g1
    OwnerOfB = g1
    NameOfA = "film"
    NameOfB = "film (1)"
    SizeOfA = 3
    SizeOfB = 2
    Owner <- MCOwner
    Size <- MCSize
    MaxNumber = 1
    Candidate <- MCCandidate
    Generated <- MCGenerated
    PartOf <- MCPartOf
    Existing = {"film"}
    ChunkSize = 2
    MayChange = {a}
    DiskMayFail = TRUE
    Overlap = FALSE
    MaxQueue = 0
\* Every share is sent once, so the system comes to rest.
CHECK_DEADLOCK FALSE
SPECIFICATION Spec
INVARIANT TypeOK
INVARIANT ReceivedIntact
INVARIANT PartFilesAreSound
