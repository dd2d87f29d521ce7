\* One client that two listeners hear.
SPECIFICATION Spec
CONSTANTS
  Addr = {a1}
  Server = server
  Listener = {l1, l2}
  HandleMod = 2
  MaxDatagrams = 2
  MaxConnects = 0
  Bodies = {"data"}
PROPERTY WriteLockOnlyWhenNeeded
