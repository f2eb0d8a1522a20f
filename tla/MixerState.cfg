SPECIFICATION FairSpec
CONSTANTS
  Handlers = {h1, h2}
  Buses = {music}
  Percents = {0, 50}
  Unset = Unset
  MaxUpdates = 2
  Pids = {1}
  MaxSequence = 3
  MaxFaults = 1
  MaxCrashes = 1
  Absent = Absent
  Partial = Partial
INVARIANTS QuiescentIsSaved
PROPERTIES RestartIsRecent EventuallySaved
CHECK_DEADLOCK FALSE
