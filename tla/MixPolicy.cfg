SPECIFICATION Spec
CONSTANTS
  Processes = {"daemon"}
  Requests = {r1, r2}
  Unity = 2
  Duck <- MCDuck
  Attenuate <- MCAttenuate
  Volumes = {0, 1}
  DefaultLevel = 1
  Kinds <- AllKinds
  MaxEvents = 4
INVARIANTS WithinUnity AlertIsTheUsers NeverLeftDucked CancellationReaches
SYMMETRY Symmetry
CHECK_DEADLOCK FALSE
