SPECIFICATION Spec
CONSTANTS
  max_packet_size = 2
  rx_counts = 2
  buffer_size = 2
  Delays = {1, 2}
  counter_max = 2
  MaxBytes = 3
  Pings = TRUE
  MaxHalts = 0
INVARIANTS StreamInOrder AckedIsKept LastMarksShortPackets PingHonoured FifoUsedProperly
