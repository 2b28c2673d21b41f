SPECIFICATION FairSpec
CONSTANTS
  c1 = c1  c2 = c2  c3 = c3  k1 = k1  k2 = k2
  h1 = h1  h2 = h2  p1 = p1  p2 = p2  ann = ann  bob = bob
  Codes = {c1, c2}
  Cards = {k1}
  Handlers = {h1}
  Pollers = {p1}
  PlanOf <- AllPlus
  EmailOf <- TwoAccounts
  UnknownEmail = UnknownEmail
  SettingsChoices <- AllOpen
  Fundable = {}
  Perishable = {}
  NoCode = NoCode  NoCard = NoCard  NoHandler = NoHandler  NoSettings = NoSettings
  MaxIssued = 2
  MaxAdmin = 0
  MaxRestarts = 0
PROPERTY CompletionIsCommitted
CHECK_DEADLOCK FALSE
