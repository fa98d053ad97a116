CONSTANTS
  h1 = h1
  Hosts = {h1}
  Answering = {h1}
  Remote = {}
  m1 = m1
  m2 = m2
  Macs = {m1, m2}
  Claims <- MCClaims
  Offers <- MCOffers
  Senders = {s1}
  Rx = Rx
  None = None
  Broadcast = Broadcast
  MaxQueue = 1
SPECIFICATION FairSpec
PROPERTY ReceptionGoesOn
CHECK_DEADLOCK FALSE
