\* One ping, and a server with auto_heartbeat_ms.
SPECIFICATION Spec
CONSTANTS
  NumPings = 1
  PerTick = 2
  MessageBuffer = 1
  PacketBuffer = 1
  Lossy = FALSE
  Refusing <- Nobody
  Heartbeating <- ServerOnly
  Disconnecting <- Nobody
INVARIANT HeartbeatsAreSilent
