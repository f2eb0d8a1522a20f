SPECIFICATION Spec
CONSTANTS
  Writers = {w1, w2}
  Payloads = {p1, p2}
  Pids = {1}
  MaxSequence = 3
  MaxFaults = 1
  MaxCrashes = 1
  Absent = Absent
  Partial = Partial
INVARIANTS TempsAreOwned AcknowledgedSurvives
PROPERTIES KeepsPromise
SYMMETRY Symmetric
CHECK_DEADLOCK FALSE
