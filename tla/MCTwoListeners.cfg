\* One client that two listeners hear; as many handles as connections.
SPECIFICATION Spec
CONSTANTS
  Addr = {a1}
  Server = server
  Listener = {l1, l2}
  HandleMod = 3
  MaxDatagrams = 3
  MaxConnects = 0
  Bodies = {"data"}
SYMMETRY Symmetry
INVARIANT NoStaleSender
