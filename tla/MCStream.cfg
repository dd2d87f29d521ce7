\* One ping, and a server that disconnects.
SPECIFICATION Spec
CONSTANTS
  NumPings = 1
  PerTick = 2
  MessageBuffer = 1
  PacketBuffer = 1
  Lossy = FALSE
  Refusing <- Nobody
  Heartbeating <- Nobody
  Disconnecting <- ServerOnly
INVARIANT StreamOutlivesTask
