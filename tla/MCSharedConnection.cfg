SPECIFICATION Spec
CONSTANTS
  Handles = {h1, h2, h3}
  Connections = {c1, c2, c3}
  Original = h1
  None = None
  Lost = Lost

INVARIANTS Inv AloneAtTheSocket
PROPERTY ImplementsSharing
SYMMETRY Alike
CHECK_DEADLOCK FALSE
