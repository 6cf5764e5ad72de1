SPECIFICATION Spec
CONSTANTS
    MaxEvents = 5
    MaxLedger = 4
    RetentionWindow = 1
    FillingTip = TRUE
    PageLimit = 4
    WriteBatchSize = 2
    BatchSize = 2
    RetentionLedgers = 2
    StartLedgers <- MCStartLedgers
    DeadLetterSink = TRUE
    SkipListed <- MCSkipListed
    Undecodable <- MCUndecodable
    Unstorable <- MCUnstorable
INVARIANTS
    TypeOK
    NoSilentLoss
    PublishedBeforePassed
PROPERTIES
    ImplementsContract
