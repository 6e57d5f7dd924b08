CONSTANTS
    NumAccounts = 2
    TokensPer = 2
    Tasks = {t1, t2}
    NoTask = NoTask
    Reorder = TRUE
    MaxSends = 2
    MaxFaults = 0
SPECIFICATION Spec
INVARIANT LedgerIsChain
