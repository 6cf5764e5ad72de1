SPECIFICATION FairSpec
CONSTANTS
    MaxEvents = 2
    MaxLedger = 4
    RetentionWindow = 1
    FillingTip = FALSE
    Contracts <- MCThree
    Owner <- MCOneQuiet
    Initially <- MCPair
    BatchCap = 2
    PageLimit = 2
    SweepWindow = 2
    SweepConcurrency = 2
    MaxEventsPerCycle = 2
    RetentionLedgers = 2
    Editable <- MCThird
    EditsDuringCycle = FALSE
INVARIANTS
    TypeOK
    NoSilentLoss

    
