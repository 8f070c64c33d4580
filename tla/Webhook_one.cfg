SPECIFICATION Spec
CONSTANTS
  w1 = w1  w2 = w2  d1 = d1  d2 = d2  y1 = y1  y2 = y2  u1 = u1  u2 = u2
  NoSubscription = NoSubscription
  Subscriptions = {w1}
  Budgets = {2}
  BatchSize = 2
  ReplayLimit = 1
  Passes = {d1}
  Replays = {y1}
  Edits = {u1}
  MaxEvents = 2
  MaxFaults = 1
  MaxCrashes = 1
CHECK_DEADLOCK FALSE
INVARIANTS TypeOK AttemptsWithinBudget
PROPERTIES DeliveredIsFinal ReplaysReviveSettledEvents
