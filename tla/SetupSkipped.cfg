SPECIFICATION Spec
CONSTANTS
  Slaves = {leader}
  Leaders = {leader}
  NumContracts = 2
  Gasless = {1, 2}
  Auctions = {}
  Minting = {}
  ManagerTxs = 5
  NoSlave = NoSlave
  MaxPolls = 1
  MaxFaults = 0
  MaxRestarts = 1
  MaxTroubles = 1
INVARIANT SetupComplete
