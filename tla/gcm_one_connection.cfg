SPECIFICATION FairSpec
CONSTANTS
    Conn = {c1}
    Job = {j1, j2}
    None = None
    Results = {"sent", "refused"}
    Faults = {"connect", "handshake", "drop"}
    MaxFaults = 1
INVARIANTS
    TypeOK
    OneChain
    JobAccounted
PROPERTIES
    ImplementsLedger
    FlightEnds
    ComesBack
CHECK_DEADLOCK FALSE
