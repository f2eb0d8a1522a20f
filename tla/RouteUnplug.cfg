SPECIFICATION FairSpec
CONSTANTS
  MaxDevice = 1
  NFixed = 1
  MaxModule = 8
  MaxEvents = 1
PROPERTIES UnplugParks
CHECK_DEADLOCK FALSE
