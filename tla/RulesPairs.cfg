SPECIFICATION Spec
CONSTANTS
  Ids = {i1, i2}
  Stems = {1, 2}
  Texts = {"a", "b"}
  SlugOf <- MCSlugOf
  ValidTexts = {"a", "b"}
  CreateDeps <- CreateLoud
  UiDeps <- TwoDeps
  Namesakes = FALSE
  Faults = {"api", "uiRace", "text", "etag"}
  MaxCommands = 3
  MaxEdits = 2
  Blank = Blank
  NoFile = NoFile
  Torn = Torn
  Absent = Absent
  Unborn = Unborn
  Gone = Gone
  Nothing = Nothing
INVARIANTS DeployConverges PullFaithful
CHECK_DEADLOCK FALSE
