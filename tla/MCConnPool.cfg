SPECIFICATION FairSpec
CONSTANTS
  w1 = w1
  w2 = w2
  Clients <- TwoClients
  Hosts <- TwoHosts
  MaxConnections = 2
  ConnBound = 2
  RequestBound = 3
INVARIANTS TypeOK Exclusive AnswersMatch  NoSendOnClosed
PROPERTY PunchEnds
