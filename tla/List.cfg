SPECIFICATION AnySpec
CONSTANTS
  Lists = {l1, l2}
  Entries = {e1, e2, e3, e4}
  nil = nil
INVARIANTS TypeOK Shape
PROPERTY FifoSteps
