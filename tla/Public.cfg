SPECIFICATION Spec
CONSTANTS
  a1 = a1  a2 = a2  a3 = a3  t1 = t1  t2 = t2  f1 = f1  f2 = f2  f3 = f3  r1 = r1  r2 = r2  r3 = r3
  l1 = l1  ann = ann  bob = bob
  Attempts = {a1, a2, a3}
  Tokens = {t1, t2}
  TokenOf <- ReusedToken
  Checks = {f1, f2, f3}
  Accounts = {ann, bob}
  AccountOf <- TwoAccounts
  Requests = {r1, r2, r3}
  Lookups = {l1}
  GrantLimit = 1
INVARIANTS OneCallPerAttempt OneOpenOrder EmailIsOfTheOrder GrantsAreBounded
PROPERTY OpenAttemptStands
CONSTRAINT ThirdIsLast
SYMMETRY Interchangeable
CHECK_DEADLOCK FALSE
