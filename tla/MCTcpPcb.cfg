CONSTANTS
  ListenPorts = {80}
  ConnectPorts = {10001}
  Peers = {a}
  ServerIsns = {5, 6}
  ClientIsns = {1, 2}
  Pcbs = {p1, p2}
  Calls = {c1, c2}
  Streams = {s1, s2}
  None = None
  MaxSynRexmits = 0
SPECIFICATION FairSpec
INVARIANTS OneChannelPerId HandoverIsSound
PROPERTIES ConnectReturns
CHECK_DEADLOCK FALSE
