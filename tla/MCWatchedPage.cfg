SPECIFICATION Spec
CONSTANTS
    MaxEvents = 2
    MaxLedger = 3
    RetentionWindow = 3
    FillingTip = FALSE
    Contracts <- MCOne
    Owner <- MCOneBusy
    Initially <- MCOne
    BatchCap = 1
    PageLimit = 1
    SweepWindow = 2
    SweepConcurrency = 2
    MaxEventsPerCycle = 0
    RetentionLedgers = 2
    Editable <- MCNone
    EditsDuringCycle = FALSE
INVARIANTS
    NoSilentLoss
