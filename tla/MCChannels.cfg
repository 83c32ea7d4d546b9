SPECIFICATION FairSpec
CONSTANTS
  MaxChannels = 1
  Window = 2
  MaxPacket = 2
  Overhead = 1
  DeferCount = 1
  Foreign <- ForeignServer
  Reuses = TRUE
  MaxOpen = 2
  MaxBytes <- ServerThree
  MaxBusy <- ClientOne
INVARIANT PeersAgree
INVARIANT CreditConserved
PROPERTY IsByteStreams
PROPERTY WindowReopens
PROPERTY OpenCloseAnswered
CHECK_DEADLOCK FALSE
