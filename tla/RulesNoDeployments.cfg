SPECIFICATION Spec
CONSTANTS
  Ids = {i1}
  Stems = {1}
  Texts = {"a"}
  SlugOf <- MCSlugOf
  ValidTexts = {"a"}
  CreateDeps <- CreateLoud
  UiDeps <- TwoDeps
  Namesakes = FALSE
  Faults = {"deps"}
  MaxCommands = 2
  MaxEdits = 1
  Blank = Blank
  NoFile = NoFile
  Torn = Torn
  Absent = Absent
  Unborn = Unborn
  Gone = Gone
  Nothing = Nothing
INVARIANT RoundTripsWithoutDeployments
CHECK_DEADLOCK FALSE
