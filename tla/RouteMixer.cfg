SPECIFICATION Spec
CONSTANTS
  MaxDevice = 1
  NFixed = 1
  MaxModule = 8
  MaxEvents = 1
INVARIANTS UserMixerReapplied
CHECK_DEADLOCK FALSE
