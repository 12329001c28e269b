SPECIFICATION Spec
CONSTANTS
    p1 = p1
    p2 = p2
    Provider = {p1, p2}
    Feed = {f1}
    Key = {"apns"}
    KeyOf <- MCKeyOf
    Nobody = Nobody
    Slot = {1}
    StreambufMax = 4
    MaxPackets = 2
    MaxStarts = 1
    MaxPosts = 1
    Programs = {{p1}}
    Configs <- Plain
    MaxFaults = 1
INVARIANT
    ContextOutlivesConnections
CHECK_DEADLOCK FALSE
