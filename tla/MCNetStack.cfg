CONSTANTS
  h1 = h1
  Hosts = {h1, h2}
  Answering = {h1, h2}
  Remote = {r1}
  m1 = m1
  m2 = m2
  Macs = {m1, m2}
  Claims <- MCClaims
  Offers <- MCOffers
  Senders = {s1, s2}
  Rx = Rx
  None = None
  Broadcast = Broadcast
  MaxQueue = 1
SPECIFICATION FairSpec
INVARIANTS WaitersAreIncomplete SentToClaimant
PROPERTIES WaiterIsAnswered
CHECK_DEADLOCK FALSE
