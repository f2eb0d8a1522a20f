SPECIFICATION Spec
CONSTANTS
  Processes = {"daemon"}
  Requests = {r1}
  Unity = 2
  Duck <- MCDuck
  Attenuate <- MCAttenuate
  Volumes = {0, 1}
  DefaultLevel = 1
  Kinds = {"talkover"}
  MaxEvents = 3
INVARIANT FaderMoveKept
CHECK_DEADLOCK FALSE
