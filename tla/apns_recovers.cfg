SPECIFICATION FairSpec
CONSTANTS
    Conn = {c1}
    Job = {j1, j2}
    None = None
    Batch = 1
    Faults = {"connect", "handshake", "reject", "shutdown", "eof", "reset"}
    MaxFaults = 2
    CheckTimeBigEnough = FALSE
INVARIANTS
    TypeOK
    JobConserved
    OneDriver
    NoDeafConnection
    TimerAlive
    SingleWaiter
    UnknownIdentWasConfirmed
    LateWasConfirmed
PROPERTIES
    EventuallyUp
    CachedJobSettles
    WokenDrainsQueue
