SPECIFICATION BidSpec
CONSTANTS
  Tasks = {}
  Bidders = {b1}
  NoTask = NoTask
  NoJob = NoJob
  NoBid = NoBid
  Variants = {v1}
  Targets = {"rGAA"}
  Overtaken = TRUE
  MaxNonce = 2
  MaxFaults = 1
  MaxDrops = 0
  MaxBlock = 2
PROPERTY AllBidsTooLow
CHECK_DEADLOCK FALSE
