\* The journal of two collectors over catch-up, corrections and every failure.
SPECIFICATION FairSpec
CONSTANTS
  Collectors = {c1, c2}
  Order <- OrderDef
  BarFeeds = {"bars"}
  Times = {8, 11, 14}
  Skews <- SkewsDef
  Lags = {0, 1}
  Interval = 3
  Margin = 2
  MaxOffset = 2
  Sweep = 1
  Catchup = 2
  MaxBatches = 2
  MaxCorrections = 1
  NoOne = NoOne
INVARIANTS JournalVerifies CheckpointCovers
PROPERTIES KeepsRecord CaptureDecided
CHECK_DEADLOCK FALSE
