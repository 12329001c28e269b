SPECIFICATION FairSpec
CONSTANTS
    Conn = {c1}
    Job = {j1, j2}
    None = None
    Batch = 2
    Faults = {}
    MaxFaults = 0
    CheckTimeBigEnough = FALSE
PROPERTY
    QueuedJobTaken
