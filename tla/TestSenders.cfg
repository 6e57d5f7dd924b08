SPECIFICATION FairBidSpec
CONSTANTS
  Tasks = {t1}
  Bidders = {b1}
  NoTask = NoTask
  NoJob = NoJob
  NoBid = NoBid
  Variants = {v1}
  Targets = {"VT", "GAA", "GAS", "rGAS"}
  Overtaken = FALSE
  MaxNonce = 3
  MaxFaults = 2
  MaxDrops = 1
  MaxBlock = 2
INVARIANTS BidTypeOK NoHole LagBounded OneBidUndisturbed
PROPERTY CatchesUp
