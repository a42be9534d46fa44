SPECIFICATION FairSpec
CONSTANTS
  Ids = {1, 2}
  Contents <- MCContents
  Stems <- MCStems
  SlugOf <- MCSlugOf
  Suffixed <- MCSuffixed
  Overlay <- MCOverlay
  ValidBodies = {1, 2}
  Ops = {"create", "update", "delete"}
  PruneEligible = TRUE
  Faults = {"write"}
  MaxCommands = 3
  MaxEdits = 1
  NoId = NoId
  Absent = Absent
  Unborn = Unborn
  Gone = Gone
  NoFile = NoFile
  Torn = Torn
  NoEcho = NoEcho
INVARIANTS PruneNeedsFinishedPull
CHECK_DEADLOCK FALSE
