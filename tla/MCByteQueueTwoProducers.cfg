CONSTANTS
    mainThread = mainThread
    repeatThread = repeatThread
    inputWriter = inputWriter
    Producers <- MCProducers
    Consumers <- MCConsumers
    Byte <- MCByte
    Payloads <- MCPayloads
    BufferLength = 1
    ReadLength = 1
    MaxBytes = 4
SPECIFICATION Spec
PROPERTIES
    WriteReturns
