SPECIFICATION Spec
CONSTANTS
  Ids = {i1, i2, i3}
  Names = {"a", "b"}
  Secrets = {"k1", "k2"}
  Locals <- MCLocals
  UiBodies <- MCUiBodies
  Kinds <- MCKinds
  Faults = {"api", "lost", "read", "lag", "others"}
  MaxCalls = 2
  MaxEdits = 1
  Mask = Mask
  Missing = Missing
  NoId = NoId
  Unborn = Unborn
  Gone = Gone
INVARIANTS NoMaskLive EchoIsOwn Settled
CHECK_DEADLOCK FALSE
