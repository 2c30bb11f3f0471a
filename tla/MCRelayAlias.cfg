\* The password of a session after the host's connection was replaced.
CONSTANTS
    h1 = h1
    h2 = h2
    g1 = g1
    g2 = g2
    Sockets = {h1, h2, g1}
    HostSockets = {h1, h2}
    NoSocket = NoSocket
    Codes = {code, password}
    HostCodes = {code}
    Password = password
    NoCode = NoCode
    FrameTypes = {}
    MaxQueue = 1
\* Every connection is used once, so the system may come to rest.
CHECK_DEADLOCK FALSE
SPECIFICATION Spec
INVARIANT AliasSharesSession
