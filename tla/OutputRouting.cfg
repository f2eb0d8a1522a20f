SPECIFICATION FairSpec
CONSTANTS
  MaxDevice = 2
  NFixed = 1
  MaxModule = 9
  MaxEvents = 2
INVARIANTS LockExcludes NothingLeftBehind SilentSwap MuteKept FailedSwitchKeepsRoute
PROPERTIES Settles
CHECK_DEADLOCK FALSE
