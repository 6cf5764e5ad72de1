SPECIFICATION FairSpec
CONSTANTS
    MaxEvents = 3
    MaxLedger = 4
    RetentionWindow = 1
    FillingTip = TRUE
    PageLimit = 2
    WriteBatchSize = 2
    BatchSize = 2
    RetentionLedgers = 2
    StartLedgers <- MCLiveStart
    DeadLetterSink = TRUE
    SkipListed <- MCNone
    Undecodable <- MCUndecodable
    Unstorable <- MCUnstorable
PROPERTIES
    EventuallyAccounted
