SPECIFICATION Spec
CONSTANTS
    W = 4
    Real = {"r"}
    MaxNesting = 6
    BadgeMax = 3
    Documents <- MCDocuments
    OptionsOf <- MCOptionsOf
    Tokens <- MCTokens
    MaxTokens = 11
    LengthModulus = 4
    MaxPayload = 4
    MaxRequests = 3
    MaxBreaks = 3
    None = None
INVARIANTS
    AcceptsExactlyJson
    GrammarAndPointersAgree
    NoDanglingPointer
    WhatIsWrittenIsRead
    StandardReadersAgree
    ApnsMessageArrives
    GcmMessageArrives
    AnswerUnderstood
    FramesInStep
CHECK_DEADLOCK FALSE
