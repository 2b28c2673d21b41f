SPECIFICATION Spec
CONSTANTS
  a1 = a1  a2 = a2  r1 = r1  r2 = r2  l1 = l1  l2 = l2
  Attempts = {a1, a2}
  Requests = {r1, r2}
  Lookups = {l1, l2}
  Times = {1, 2}
PROPERTY RetryOnlyAfterConfirmedFailure
SYMMETRY Interchangeable
CHECK_DEADLOCK FALSE
