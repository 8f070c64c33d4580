SPECIFICATION FairBillingSpec
CONSTANTS
  n1 = n1  n2 = n2  q1 = q1  q2 = q2  g1 = g1  g2 = g2  j1 = j1
  NoTenant = NoTenant
  Tenants = {n1}
  MaxSubscriptions = 1
  Requests = {q1}
  Messages = {g1}
  Nightly = {j1}
  Creations <- Ordinary
  HandEdits <- ByHand
  MaxBillingFailures = 1
CHECK_DEADLOCK FALSE
PROPERTY GracePeriodsEnd
