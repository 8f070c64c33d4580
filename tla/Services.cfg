SPECIFICATION MCSpec
CONSTANTS
  o1 = o1  o2 = o2  s1 = s1  s2 = s2  n1 = n1  n2 = n2  t1 = t1
  Operators = {o1, o2}
  MaxTenants = 2
  MaxTenantFaults = 2
  OrgClients = {o1, o2}
  MaxOrganizations = 2
  MaxOrgRequests = 4
  Billers = {o1, o2}
  Schedules = {s1, s2}
  Terms <- ScheduleTerms
  LastDay = 2
  MaxInvoices = 3
  MaxInvoiceFaults = 1
  Notices = {n1, n2}
  Channels = {"EMAIL", "SMS"}
  Deliverers = {o1, o2}
  MaxDeliveryAttempts = 2
  EmailRetries = 1
  MaxNoticeFaults = 1
  Transfers = {t1}
  Workers = {o1, o2}
  Files <- ImportFiles
  MaxTransferFaults = 2
  Planners = {o1, o2}
  MaxTasks = 2
  MaxTaskFaults = 1
  Requests = {o1, o2}
  Limiters <- Limits
  Capacity = 2
  RefillTokens = 1
  RefillTicks = 2
  Limit = 2
  Window = 3
  HourLimit = 3
  Hour = 4
  MaxAttempts = 2
  LoginWindow = 2
  Lag = 2
  LastTick = 5
  MaxRateFaults = 1
SYMMETRY Symmetry
CHECK_DEADLOCK FALSE
INVARIANTS
  ServicesTypeOK TenanciesHold OneDefaultAndOnePrimary InvoicedOnce
  AttemptsAreCounted TransfersAddUp UnmetDependenciesBlock LimitsHold
