SPECIFICATION RotationSpec
CONSTANTS
  Gateways = {g1}
  Streams = {c1, c2}
  Rotations = {k1, k2}
  Nonces <- RotationNonces
  None = None
  Original = Original
  MaxRestarts = 1
SYMMETRY Symmetry
INVARIANTS SavedOnlyIfPrepared OneRotationKeepsAccess
CHECK_DEADLOCK FALSE
