SPECIFICATION FairSpec
CONSTANTS
  Ids = {1, 2}
  Contents <- MCContents
  Stems <- MCStems
  SlugOf <- MCSlugOf
  Suffixed <- MCSuffixed
  Overlay <- MCOverlay
  ValidBodies = {1, 2}
  Ops = {"create", "update", "delete"}
  PruneEligible = TRUE
  Faults = {"api", "lostReply", "mute", "anonymous"}
  MaxCommands = 3
  MaxEdits = 2
  NoId = NoId
  Absent = Absent
  Unborn = Unborn
  Gone = Gone
  NoFile = NoFile
  Torn = Torn
  NoEcho = NoEcho
INVARIANTS InSyncWhenDone RoundTripClean SummaryTruth
PROPERTIES CommandEnds
CHECK_DEADLOCK FALSE
