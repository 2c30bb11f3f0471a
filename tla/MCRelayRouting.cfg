\* Who receives what.
CONSTANTS
    h1 = h1
    h2 = h2
    g1 = g1
    g2 = g2
    Sockets = {h1, h2, g1, g2}
    HostSockets = {h1, h2}
    NoSocket = NoSocket
    Codes = {code, password}
    HostCodes = {code}
    Password = password
    NoCode = NoCode
    FrameTypes = {"file", "state", "intent", "ping"}
    MaxQueue = 1
\* Every connection is used once, so the system may come to rest.
CHECK_DEADLOCK FALSE
SPECIFICATION Spec
SYMMETRY MCSymmetry
INVARIANTS TypeOK SeatsAreGivenUp SeatsAreAccountedFor RosterIsKnown
PROPERTY DeliveryRules
