SPECIFICATION Spec
CONSTANTS
  Addr = {a1, a2, a3, a4}
  None = None
  Size = 3
INVARIANTS Kept
PROPERTY RemovedIsGone
