SPECIFICATION FairSpec
CONSTANTS
  Slaves = {leader, follower}
  Leaders = {leader}
  NumContracts = 4
  Gasless = {2, 3}
  Auctions = {4}
  Minting = {2}
  ManagerTxs = 2
  NoSlave = NoSlave
  MaxPolls = 2
  MaxFaults = 1
  MaxRestarts = 1
  MaxTroubles = 1
INVARIANTS TypeOK CodeThere DeploymentsBounded SetupUndisturbed
PROPERTY AllFinish
