\* A creation and two requests of any kind, two at a time, on two bicycles: each one is
\* answered.
SPECIFICATION FairSpec
CONSTANTS
  Bicycles = {1, 2}
  Stations = {"st"}
  Capacity <- MCCapacity
  q1 = q1
  q2 = q2
  q3 = q3
  Requests = {q1, q2, q3}
  Orders <- CreateAndAny
  Threads = 2
  None = None
CHECK_DEADLOCK FALSE
PROPERTIES
  Answered
