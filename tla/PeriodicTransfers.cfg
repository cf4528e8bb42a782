SPECIFICATION Spec
CONSTANTS
  max_packet_size = 2
  buffer_size = 4
  bytes_in_signal = 2
  Delays = {1, 2}
  counter_max = 2
  FrameSizes = {0, 2, 3, 5, 6}
  SignalValues = {0, 1}
  Traffic = {{"iso_in", "status"}, {"iso_out"}}
  MaxFrames = 3
  MaxPackets = 3
  MaxMisses = 2
  Nobody = Nobody
INVARIANTS AnswersComeFromTheAsked FrameIsWhole ReadStatusIsTheHosts WholePacketsKept
