SPECIFICATION Spec
CONSTANTS
  HostPackets <- Plain
  DevicePackets <- Stuffing
  OpModes = {"NORMAL", "NONDRIVING", "NO_ENCODING"}
  HostGaps = {8, 9, 10, 11}
  DeviceGaps = {8, 9, 10, 11, 12, 13, 14, 15, 16, 17, 18, 19, 20, 21, 22, 23}
  Settle = 40
  MaxDrift = 1
  Skewed = TRUE
  MaxHostPackets = 1
  MaxDevicePackets = 2
INVARIANTS ReceivedIntact SentIntact
CHECK_DEADLOCK FALSE
