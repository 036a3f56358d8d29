SPECIFICATION Spec
CONSTANTS
  SeqMod = 16
  Capacity = 4
  Senders = {"client"}
  MaxPerPacket = 2
  AckBits = 2
  MaxMessages = 2
  MaxPackets <- Wrapping
  MaxAge = 4
  MaxSilence = 4
INVARIANTS
  NeverLost
