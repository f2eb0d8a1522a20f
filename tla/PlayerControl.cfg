SPECIFICATION Spec
CONSTANTS
  Puts = {p1, p2}
  KeysOf <- SettingsOf
  Values = {"on", "off", "bad"}
  Allowed = {"on", "off"}
  Base <- Installed
  Bodies <- Changes
  MaxRequests = 2
  MaxCrashes = 1
  Unknown = "unknown"
  Requests = {r1, r2}
  Sources = {"mpd", "spotify", "dlna"}
  Items = {"song", "album"}
  Songs <- SongsOf
  Endpoints <- TwoEndpoints
  Asked <- Requested
  Starts <- Evenings
  MaxEvents = 1
  None = "none"
INVARIANTS TokenKeepsUp LostOnlyToOverlap RefusedWhileBlocked SteadyTarget OneLostCall PlaysWhatItSays
SYMMETRY Symmetry
CHECK_DEADLOCK FALSE
