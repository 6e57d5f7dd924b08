CONSTANTS
    NumAccounts = 2
    TokensPer = 2
    Tasks = {t1, t2}
    NoTask = NoTask
    Reorder = FALSE
    MaxSends = 2
    MaxFaults = 2
SPECIFICATION FairSpec
INVARIANTS TypeOK OnePlace Custody LedgerIsChain MismatchBounded
PROPERTIES FIFO TokenComesBack
