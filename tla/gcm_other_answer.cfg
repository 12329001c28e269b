SPECIFICATION Spec
CONSTANTS
    Conn = {c1}
    Job = {j1, j2}
    None = None
    Results = {"sent"}
    Faults = {}
    MaxFaults = 0
SYMMETRY Symmetry
INVARIANT
    SuccessMeansAccepted
CHECK_DEADLOCK FALSE
