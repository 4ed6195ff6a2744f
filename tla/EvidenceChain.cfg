SPECIFICATION FairSpec
CONSTANTS
    Writers = {w1, w2, w3}
    Short = {w1, w2}
    Verifiers = {v1}
    Settings <- SerialSettings
    MaxPrunes = 1
    MaxFaults = 1
    Genesis = Genesis
    None = None
CHECK_DEADLOCK FALSE
INVARIANTS
    TypeOK
    OneChain
    IntactVerifies
    DeletionDetected
    PruneIsReported
PROPERTIES
    AppendOnly
    WriterReturns
