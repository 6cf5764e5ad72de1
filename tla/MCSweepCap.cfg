SPECIFICATION FairSpec
CONSTANTS
    MaxEvents = 2
    MaxLedger = 3
    RetentionWindow = 3
    FillingTip = FALSE
    Contracts <- MCPair
    Owner <- MCOneBusy
    Initially <- MCPair
    BatchCap = 1
    PageLimit = 1
    SweepWindow = 2
    SweepConcurrency = 2
    MaxEventsPerCycle = 1
    RetentionLedgers = 2
    Editable <- MCNone
    EditsDuringCycle = FALSE
PROPERTIES
    EventuallyRecorded
