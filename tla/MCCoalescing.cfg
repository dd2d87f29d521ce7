\* Three pings in two ticks; the client's socket may refuse a packet, and the
\* client may disconnect.
SPECIFICATION Spec
CONSTANTS
  NumPings = 3
  PerTick = 2
  MessageBuffer = 2
  PacketBuffer = 1
  Lossy = FALSE
  Refusing <- ClientOnly
  Heartbeating <- Nobody
  Disconnecting <- ClientOnly
INVARIANT OnePacketPerTick
