CONSTANTS
    s1 = s1
    s2 = s2
    NoSession = NoSession
    Sessions <- TwoSessions
    Descriptors = {3, 4}
    QueueSize = 1
    PtyInSize = 1
    PtyOutSize = 1
    ReadLength = 1
    WriteLengths = {1}
    MaxInput = 1
    MaxOutput = 1
SPECIFICATION SafeSpec
CHECK_DEADLOCK FALSE
INVARIANTS
    ShellReadsOwnInput
