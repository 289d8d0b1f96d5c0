SPECIFICATION Spec
CONSTANTS
  w1 = w1
  w2 = w2
  Clients <- TwoClients
  Hosts <- OneHost
  MaxConnections = 2
  ConnBound = 2
  RequestBound = 3
INVARIANT RespBytesOwn
