SPECIFICATION FairSpec
CONSTANTS
  c1 = c1  c2 = c2  c3 = c3  o1 = o1  o2 = o2  o3 = o3
  Codes = {c1, c2, c3}
  Orders = {o1, o2, o3}
  Historical = {c2}
  Refused = {c3}
  NoOrder = NoOrder
  Batch = 2
  MaxDelay = 2
  MaxLosses = 2
INVARIANTS CompletionIsQueued OnlyVerifiedCompletions
PROPERTIES KeepsNoticePromise CompletionIsNotified
CHECK_DEADLOCK FALSE
