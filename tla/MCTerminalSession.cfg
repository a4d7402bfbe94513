CONSTANTS
    s1 = s1
    s2 = s2
    NoSession = NoSession
    Sessions <- OneSession
    Descriptors = {3}
    QueueSize = 2
    PtyInSize = 1
    PtyOutSize = 2
    ReadLength = 2
    WriteLengths = {1, 2}
    MaxInput = 5
    MaxOutput = 5
SPECIFICATION Spec
CHECK_DEADLOCK FALSE
INVARIANTS
    TypeOK
    OutputConserved
    InputConserved
    OutputAnnounced
PROPERTIES
    NothingAfterFinished
    ExitReported
    WriteReturns
    ThreadsStop
