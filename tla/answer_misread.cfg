SPECIFICATION StreamSpec
CONSTANTS
    LengthModulus = 4
    MaxPayload = 0
    MaxRequests = 3
    MaxBreaks = 1
    None = None
INVARIANT
    CommandIsEight
CHECK_DEADLOCK FALSE
