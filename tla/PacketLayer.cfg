SPECIFICATION Spec
CONSTANTS
  Speeds = {"fs12", "hs60"}
  OwnAddress = 5
  OtherAddress = 4
  Endpoint = 1
  Payloads <- SmallPayloads
  Flips = {2, 19}
  Latency = 3
  Slack = 6
  MaxStalls = 1
  MaxFrame = 3
  MicroFrames = 2
  MaxPackets = 3
  MaxDamaged = 1
INVARIANTS ReportedAsSent OthersDataIgnored AnswersWellFormed AnswersInTime FramesFollow
CHECK_DEADLOCK FALSE
