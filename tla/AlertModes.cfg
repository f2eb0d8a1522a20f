SPECIFICATION FairSpec
CONSTANTS
  None = None
  MaxLevel = 2
  Duck <- MCDuck
  DefaultLevel = 1
  FreshLevel = 2
  UserLevel = 2
  Confirmations = 2
  Settings <- AllSwitches
  ColdStart = FALSE
  MaxDay = 1
  Limit <- FaultCrashSettings
INVARIANTS UserLevelKept AnnouncedDucked MinuteIsSilent
PROPERTIES KeepsModes DisablingEndsPriority MinuteEnds
