SPECIFICATION FairSpec
CONSTANTS
    p1 = p1
    p2 = p2
    Provider = {p1, p2}
    Feed = {f1}
    Key = {"apns"}
    KeyOf <- MCKeyOf
    Nobody = Nobody
    Slot = {1}
    StreambufMax = 3
    MaxPackets = 2
    MaxStarts = 2
    MaxPosts = 1
    Programs = {{p1, p2}, {f1}}
    Configs <- TwoConfigs
    MaxFaults = 3
INVARIANTS
    TypeOK
    RegistryTells
    FailedConstructorLeavesNothing
CHECK_DEADLOCK FALSE
PROPERTIES
    
    DestructionEnds
    ConnectionComesBack
