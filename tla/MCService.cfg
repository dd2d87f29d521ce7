\* One client and one outgoing connection, every kind of datagram.
SPECIFICATION FairSpec
CONSTANTS
  Addr = {a1}
  Server = server
  Listener = {l1}
  HandleMod = 2
  MaxDatagrams = 2
  MaxConnects = 1
  Bodies = {"data", "heartbeat"}
INVARIANTS TypeOK NoOrphanedReceiver
PROPERTIES WriteLockOnlyWhenNeeded ImplementsService ReceivePacketsReturns DatagramIsHandled BacklogIsRead
