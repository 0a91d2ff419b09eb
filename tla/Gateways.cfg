SPECIFICATION FairSpec
CONSTANTS
  Gateways = {g1}
  Streams = {c1, c2, c3}
  Nonces = {p1, p2}
  None = None
  MaxRestarts = 1
INVARIANTS LinkInv AnsweredMeansExecuted ConnectedToNewest
PROPERTIES PublishSettles
CHECK_DEADLOCK FALSE
