\* Three requests of any kind, two at a time: a charged request crashes in its commit.
SPECIFICATION Spec
CONSTANTS
  b1 = b1
  b2 = b2
  Bicycles = {b1, b2}
  Stations = {"st"}
  Capacity <- MCCapacity
  q1 = q1
  q2 = q2
  q3 = q3
  Requests = {q1, q2, q3}
  Orders <- AnyOrders
  Threads = 2
  None = None
SYMMETRY Symmetry
CHECK_DEADLOCK FALSE
INVARIANTS
  ChargedMeansRented
