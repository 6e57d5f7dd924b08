SPECIFICATION Spec
CONSTANTS
  Slaves = {leader, follower}
  Leaders = {leader}
  NumContracts = 1
  Gasless = {}
  Auctions = {}
  Minting = {1}
  ManagerTxs = 5
  NoSlave = NoSlave
  MaxPolls = 2
  MaxFaults = 0
  MaxRestarts = 0
  MaxTroubles = 0
INVARIANT AllCharged
