SPECIFICATION Spec
CONSTANTS
  HostPackets <- OnlyStuffing
  DevicePackets <- Stuffing
  OpModes = {"NORMAL"}
  HostGaps = {8, 9, 10, 11}
  DeviceGaps = {8, 9, 10, 11, 12, 13, 14, 15, 16, 17, 18, 19, 20, 21, 22, 23}
  Settle = 40
  MaxDrift = 1
  Skewed = TRUE
  MaxHostPackets = 1
  MaxDevicePackets = 0
INVARIANTS ReceivedIntact
CHECK_DEADLOCK FALSE
