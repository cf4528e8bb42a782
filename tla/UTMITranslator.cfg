SPECIFICATION Spec
CONSTANTS
  FunctionReset = "fs"
  OtgReset = "pulldowns"
  OtgValue = "none"
  Modes = {"fs", "off", "chirp"}
  RegisterOutputs = FALSE
  Lines = {"idle"}
  Startup = 1
  Calm = TRUE
  MaxChanges = 2
  MaxGrabs = 2
  MaxPackets = 1
  MaxLength = 2
INVARIANTS ShadowIsTrue PacketsIntact
PROPERTIES RegistersFollow TransmissionsEnd
