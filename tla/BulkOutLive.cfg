SPECIFICATION FairSpec
CONSTANTS
  max_packet_size = 1
  rx_counts = 2
  buffer_size = 1
  Delays = {1}
  counter_max = 1
  MaxBytes = 2
  Pings = FALSE
  MaxHalts = 1
INVARIANTS HaltLosesNothing
PROPERTIES BytesGetThrough
