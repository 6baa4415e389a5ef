\* Four calls at a time, with any of three keys, one of which is declined.  The batch ends
\* when every call has returned.
SPECIFICATION Spec
CONSTANTS
  c1 = c1
  c2 = c2
  c3 = c3
  c4 = c4
  Calls = {c1, c2, c3, c4}
  k1 = k1
  k2 = k2
  k3 = k3
  Keys = {k1, k2, k3}
  Rejected = {k3}
  None = None
SYMMETRY Symmetry
CHECK_DEADLOCK FALSE
INVARIANTS
  TypeOK
  Idempotent
  OneReferenceEach
