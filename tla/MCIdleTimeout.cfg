\* The idle timeout is News, which is (1 + 1) * (1 + 1) + 1.
SPECIFICATION FairSpec
CONSTANTS
  TimingOut <- Both
  Heartbeating <- Both
  Leaving <- ClientOnly
  Idle = 5
  Heartbeat = 1
  MinStep = 1
  MaxStep = 1
  Frame = 1
  Delay = 1
  MaxLost = 1
INVARIANT TypeOK
PROPERTIES NoFalseTimeout ServerCleansUp
