CONSTANTS
  NoProfile = NoProfile
  Profiles = {home, travel}
  AidOnly = {travel}
  MaxChannel = 2
  CleanTo = 3
  Isdr = {0, 2}
  ListUnits = 2
  RefusalTags = {"80", "81"}
  Losses = 2
SPECIFICATION FairSpec
INVARIANTS
  NoChannelLeft
  AlwaysReopens
  SuccessUnlessMisread
  FailureChangesNothing
PROPERTIES
  RequestsEnd
