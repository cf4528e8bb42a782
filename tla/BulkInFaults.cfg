SPECIFICATION Spec
CONSTANTS
  max_packet_size = 2
  send_positions = 4
  generate_zlps = TRUE
  start_with_data1 = 0
  MaxBytes = 3
  Flushes = TRUE
  Discards = TRUE
  MaxHalts = 1
  SharedBus = TRUE
INVARIANTS OrderSurvivesFaults
