CONSTANTS
    inputReader = inputReader
    mainThread = mainThread
    Producers <- MCProducers
    Consumers <- MCConsumers
    Byte <- MCByte
    Payloads <- MCPayloads
    BufferLength = 3
    ReadLength = 2
    MaxBytes = 8
SPECIFICATION Spec
INVARIANTS
    TypeOK
    Fifo
    NoMissedWakeup
PROPERTIES
    WriteReturns
    CloseEndsReads
    ImplementsChannel
