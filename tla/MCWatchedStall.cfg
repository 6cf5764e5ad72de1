SPECIFICATION FairSpec
CONSTANTS
    MaxEvents = 2
    MaxLedger = 3
    RetentionWindow = 3
    FillingTip = FALSE
    Contracts <- MCThree
    Owner <- MCOneQuiet
    Initially <- MCThree
    BatchCap = 3
    PageLimit = 1
    SweepWindow = 2
    SweepConcurrency = 2
    MaxEventsPerCycle = 0
    RetentionLedgers = 2
    Editable <- MCNone
    EditsDuringCycle = FALSE
PROPERTIES
    EventuallyRecorded
