SPECIFICATION Spec
CONSTANTS
  Cards = {c1, c2}
  Stock = {c1}
  Pro20 = {q}
  Pro5 = {}
  NoCard = NoCard
  MaxOps = 2
  Floor = 2
  Step = 2
  Ceiling = 4
  InitAmount = 3
  ProInitial = 5
  Pro5xInitial = 4
  OpenFee = 1
  FeePercent = 10
  ApiFee = 1
  MaxOperation = 6
  ProDailyMaximum = 10
  Budgets = {8, 12}
  DailyOpen = 2
  Day = 2
  Quarter = 1
  Settle = 0
  Lease = 1
  Horizon = 3
  ManualAmounts = {}
  MaxEvents = 1
INVARIANT OneOpening
PROPERTY SpendsWithinBudget
CONSTRAINT FewFaults
CHECK_DEADLOCK FALSE
