SPECIFICATION FairSpec
CONSTANTS
  max_packet_size = 2
  send_positions = 4
  generate_zlps = TRUE
  start_with_data1 = 0
  MaxBytes = 5
  Flushes = TRUE
  Discards = FALSE
  MaxHalts = 0
  SharedBus = FALSE
INVARIANTS InOrderExactlyOnce
PROPERTIES UnackedPacketKept ImplementsPipe TransfersComplete
