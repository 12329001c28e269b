SPECIFICATION Spec
CONSTANTS
    Conn = {c1, c2}
    Job = {j1, j2, j3}
    None = None
    Batch = 2
    Faults = {"reject", "shutdown", "eof"}
    MaxFaults = 1
    CheckTimeBigEnough = TRUE
SYMMETRY Symmetry
INVARIANTS
    NoDeafConnection
    NoLostFailure
    RejectedNeverConfirmed
    BeforeAnsweredWasSent
PROPERTIES
    ImplementsLedger
    DeliveredAtMostOnce
