CONSTANTS
  NoProfile = NoProfile
  Profiles = {home, travel}
  AidOnly = {travel}
  MaxChannel = 2
  CleanTo = 3
  Isdr = {0, 2}
  ListUnits = 2
  RefusalTags = {"80"}
  Losses = 3
SPECIFICATION Spec
INVARIANTS
  SuccessMeansDone
