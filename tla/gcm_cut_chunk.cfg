SPECIFICATION Spec
CONSTANTS
    Conn = {c1}
    Job = {j1}
    None = None
    Results = {"sent"}
    Faults = {}
    MaxFaults = 0
INVARIANT
    AcceptedNotBlamed
CHECK_DEADLOCK FALSE
