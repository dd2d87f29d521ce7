\* Heartbeat 2 is less than half of Idle 5, one datagram in a row may be lost,
\* none is delayed, and heartbeats_and_timeouts runs at every unit of time.
SPECIFICATION Spec
CONSTANTS
  TimingOut <- Both
  Heartbeating <- Both
  Leaving <- Nobody
  Idle = 5
  Heartbeat = 2
  MinStep = 1
  MaxStep = 1
  Frame = 1
  Delay = 0
  MaxLost = 1
PROPERTY NoFalseTimeout
