SPECIFICATION FairSpec
CONSTANTS
  w1 = w1  w2 = w2  d1 = d1  d2 = d2  y1 = y1  y2 = y2  u1 = u1  u2 = u2
  NoSubscription = NoSubscription
  Subscriptions = {w1}
  Budgets = {0, 2}
  BatchSize = 1
  ReplayLimit = 1
  Passes = {d1, d2}
  Replays = {}
  Edits = {}
  MaxEvents = 2
  MaxFaults = 0
  MaxCrashes = 0
CHECK_DEADLOCK FALSE
INVARIANTS DeliveredWasReceived
PROPERTIES EventsLeavePending RetriesEnd
