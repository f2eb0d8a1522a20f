SPECIFICATION FairSpec
CONSTANTS
  Sinks = {music}
  Volumes = {0, 1}
  Callers = {task}
  Watcher = watcher
  MaxIndex = 2
  MaxEvents = 2
INVARIANTS StaleIsAnnounced AcknowledgedHolds ReadYourWrites
PROPERTIES WatcherCatchesUp EveryRequestAnswered
