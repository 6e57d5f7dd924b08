CONSTANTS
    w1 = w1
    w2 = w2
    w3 = w3
    s1 = s1
    s2 = s2
    Workers = {w1, w3}
    Slaves = {s1, s2}
    SlaveOf <- SharedKey
    NoWorker = NoWorker
    Budget = 3
SPECIFICATION FairSpec
PROPERTY EveryTransferReturns
