SPECIFICATION OfficeSpec
CONSTANTS
  c1 = c1  f1 = f1  f2 = f2  o1 = o1  o2 = o2  k1 = k1
  h1 = h1  h2 = h2  e1 = e1  e2 = e2  i1 = i1  p1 = p1
  ann = ann  bob = bob  masked = masked
  s1 = s1  w1 = w1  w2 = w2  x1 = x1  x2 = x2   d1 = d1  d2 = d2  a1 = a1
  g1 = g1  t1 = t1  t2 = t2  m1 = m1  m2 = m2  u1 = u1 
  Codes = {c1, f1, f2}
  Fresh = {f1, f2}
  Orders = {o1, o2}
  Cards = {k1}
  CodeOf <- SameCode
  CardOf <- OneCard
  AccountOf <- TwoAccounts
  PlatformEmail <- Masked
  UnknownEmail = UnknownEmail
  Hooks = {h1, h2}
  Issuers = {i1}
  Exchangers = {e1, e2}
  Probes = {p1}
  Crews <- Rivals
  FailThreshold = 2
  RequireKnownEmail = TRUE
  Copies = 1
  MaxAdmin = 1
  Sales = {s1}
  Wares = {w1, w2}
  SaleOf <- OneSale
  NumberOf <- Places
  Spares = {x1, x2}
  Devices = {d1, d2}
  Asks = {a1}
  ReserveTarget = 1
  Counts = {1, 2}
  Unsold = Unsold
  Failures = {g1}
  Troubles = {t1, t2}
  Watchers = {m1, m2}
  Offices = {"feed"}
  Last = 4
  DailyRetention = 2
  ManualRetention = 1
  Budget = 4
  MaxBytes = 2
  Customers = {u1}
  Periods = 2
  MaxStops = 2
  MaxVersion = 2
  MaxTries = 2
  MaxFaults = 2
  Shifts <- NoShift
INVARIANT ExchangedOnce
CHECK_DEADLOCK FALSE
