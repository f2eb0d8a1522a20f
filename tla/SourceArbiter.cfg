SPECIFICATION Spec
CONSTANTS
  Sources = {"mpd", "dlna", "other"}
  Commanded = {"mpd"}
  Receivers = {"dlna"}
  None = None
  MaxStream = 3
  MaxEvents = 4
INVARIANTS PassIsExclusive
PROPERTIES NewStreamWins Settles ExclusiveAtLast
