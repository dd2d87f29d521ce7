\* The server's application may disconnect.  No loss and no delay: what is left
\* is what disconnect itself does, and the idle timeout is far above the
\* heartbeat's.
SPECIFICATION FairSpec
CONSTANTS
  TimingOut <- Both
  Heartbeating <- Both
  Leaving <- ServerOnly
  Idle = 3
  Heartbeat = 1
  MinStep = 1
  MaxStep = 1
  Frame = 1
  Delay = 0
  MaxLost = 0
PROPERTY ClientCleansUp
