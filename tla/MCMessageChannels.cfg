\* Two pings, queues with room for one, and every fault.
SPECIFICATION FairSpec
CONSTANTS
  NumPings = 2
  PerTick = 2
  MessageBuffer = 1
  PacketBuffer = 1
  Lossy = TRUE
  Refusing <- Both
  Heartbeating <- ServerOnly
  Disconnecting <- ServerOnly
INVARIANTS TypeOK MessagesNeverPanic
PROPERTIES ImplementsPingPong EveryPingIsAnswered
