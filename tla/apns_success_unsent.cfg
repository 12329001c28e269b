SPECIFICATION Spec
CONSTANTS
    Conn = {c1}
    Job = {j1, j2}
    None = None
    Batch = 2
    Faults = {"reject", "shutdown"}
    MaxFaults = 1
    CheckTimeBigEnough = TRUE
SYMMETRY Symmetry
INVARIANT
    SuccessMeansSent
