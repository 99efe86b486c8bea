SPECIFICATION NetSpec
CONSTANTS
  i1 = i1 i2 = i2 i3 = i3 i4 = i4
  InClient = {i1, i2, i3, i4}
  OutClient = {o1}
  SSLClient = {s1}
  nMaxConn = 1
INVARIANTS SocketsAccounted ChannelInOrder TimersMatch ChannelsTold 
CHECK_DEADLOCK FALSE
