SPECIFICATION FairSpec
CONSTANTS
  descriptors <- MCDescriptors
  generated <- MCGenerated
  max_packet_size = 2
  element_size = 2
  Requests <- MCRequests
  MaxRequests = 2
  MixedReads = FALSE
  StatusAckLost = FALSE
  OtherAcks = FALSE
INVARIANTS AlwaysAnswered HandlerHasRequest AddressAgrees
PROPERTIES ImplementsRequests RequestsComplete
