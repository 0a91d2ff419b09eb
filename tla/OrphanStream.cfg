SPECIFICATION Spec
CONSTANTS
  Gateways = {g1}
  Streams = {c1, c2}
  Nonces = {p1}
  None = None
  MaxRestarts = 0
INVARIANTS ActiveStreamIsMapped
CHECK_DEADLOCK FALSE
