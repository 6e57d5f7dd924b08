SPECIFICATION FairSpec
CONSTANTS
  Users = {u1, u2}
  Kinds = {"receipt", "eth", "read", "consensus"}
  None = None
  InitPool = 1
  Size = 2
  InitSends = 3
  Ratio = 1
  Width = 4
  MaxRetry = 1
  MaxTasks = 4
INVARIANTS TypeOK OnePlace PoolBounded NoEmptyRead RingIsWindow CountedOnce
PROPERTIES EveryTaskCounted
