SPECIFICATION Spec
CONSTANTS
  Ids = {i1}
  Stems = {1}
  Texts = {"a", "a2", "bad"}
  SlugOf <- MCSlugOf
  ValidTexts = {"a", "a2"}
  CreateDeps <- CreateLoud
  UiDeps <- FourDeps
  Namesakes = FALSE
  Faults = {"deps", "text", "etag", "write", "crash", "api", "lostReply", "guard", "uiRace", "editRace"}
  MaxCommands = 3
  MaxEdits = 2
  Blank = Blank
  NoFile = NoFile
  Torn = Torn
  Absent = Absent
  Unborn = Unborn
  Gone = Gone
  Nothing = Nothing
PROPERTIES NoBlindRevert DeployOnlyPlanned
CHECK_DEADLOCK FALSE
