\* A node is used again while another push still holds it for the tail.
SPECIFICATION Spec
CONSTANTS
  a = a
  b = b
  c = c
  Threads = {a, b, c}
  Poppers = {c}
  MaxItems <- TwoEach
CHECK_DEADLOCK FALSE
INVARIANT
  FifoOrder
