CONSTANTS
    Total = 3
    MaxConcurrency = 2
    NumCPU = 1
    NoWorker = NoWorker
    Budget = 1
SPECIFICATION FairChargeSpec
INVARIANTS TypeOK AtMostLimit ReturnsAfterAll AllPaid Affordable
PROPERTY Returns
