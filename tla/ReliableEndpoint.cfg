SPECIFICATION Spec
CONSTANTS
  SeqMod = 6
  Capacity = 2
  Senders = {"client"}
  MaxPerPacket = 1
  AckBits = 1
  MaxMessages = 2
  MaxPackets <- Wrapping
  MaxAge = 1
  MaxSilence = 2
INVARIANTS
  InOrderExactlyOnce
  LostOnlyWithPacketZero
PROPERTIES
  ImplementsChannel
CHECK_DEADLOCK FALSE
