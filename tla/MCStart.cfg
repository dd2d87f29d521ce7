\* The idle timeout is twice News, which is (1 + 1) * (1 + 1) + 1.
SPECIFICATION Spec
CONSTANTS
  TimingOut <- Both
  Heartbeating <- Both
  Leaving <- ClientOnly
  Idle = 10
  Heartbeat = 1
  MinStep = 1
  MaxStep = 1
  Frame = 1
  Delay = 1
  MaxLost = 1
PROPERTY NoTimeoutAtStart
