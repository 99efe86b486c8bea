SPECIFICATION NetLive
CONSTANTS
  i1 = i1 i2 = i2 i3 = i3 i4 = i4
  InClient = {i1, i2, i3, i4}
  OutClient = {o1}
  SSLClient = {s1, s2}
  nMaxConn = 1
PROPERTIES  ChannelArrives 
CHECK_DEADLOCK FALSE
