SPECIFICATION FairSpec
CONSTANTS
  SeqMod = 6
  Capacity = 2
  Senders = {"client"}
  MaxPerPacket = 1
  AckBits = 0
  MaxMessages = 1
  MaxPackets <- Unbounded
  MaxAge = 0
  MaxSilence = 2
PROPERTIES
  EventuallyDelivered
