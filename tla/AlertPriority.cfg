SPECIFICATION Spec
CONSTANTS
  None = None
  MaxLevel = 1
  Duck <- MCDuck
  DefaultLevel = 1
  FreshLevel = 1
  UserLevel = 1
  Confirmations = 1
  Settings <- DuckingSwitches
  ColdStart = TRUE
  MaxDay = 2
  Limit <- OneOfEach
INVARIANTS AlertExcludesMinute Recoverable
PROPERTIES OneMinuteADay
