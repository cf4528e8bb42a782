SPECIFICATION Spec
CONSTANTS
  CYCLES_2P5_MICROSECONDS = 2
  CYCLES_5_MICROSECONDS = 4
  CYCLES_200_MICROSECONDS = 8
  CYCLES_2_MILLISECONDS = 11
  CYCLES_2P5_MILLISECONDS = 40
  CYCLES_3_MILLISECONDS = 42
  Wrap = 50
  DeviceModes = {"any", "full_only", "low_only"}
  HostSpeeds = {"HIGH", "FULL"}
  RegisterDelay = 2
  ChirpLength = 5
  SofInterval = 10
  ResetLength = 130
  Unplugs = TRUE
  MaxEvents = 3
INVARIANTS SpeedsAgree AddressAgrees ChirpsAreMeant SuspendsAsMeant
