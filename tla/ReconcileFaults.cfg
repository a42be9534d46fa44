SPECIFICATION FairSpec
CONSTANTS
  Ids = {1, 2}
  Contents <- MCContents
  Stems <- MCStems
  SlugOf <- MCSlugOf
  Suffixed <- MCSuffixed
  Overlay <- MCOverlay
  ValidBodies = {1, 2}
  Ops = {"create", "update", "delete"}
  PruneEligible = TRUE
  Faults = {"list", "skip", "write", "crash", "api", "lostReply", "mute", "anonymous", "uiRace", "editRace"}
  MaxCommands = 3
  MaxEdits = 1
  NoId = NoId
  Absent = Absent
  Unborn = Unborn
  Gone = Gone
  NoFile = NoFile
  Torn = Torn
  NoEcho = NoEcho
INVARIANTS HiddenNeverPruned NeverPrunesTracked NoSilentDuplicate
PROPERTIES KeepsPromise
CHECK_DEADLOCK FALSE
