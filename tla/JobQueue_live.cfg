SPECIFICATION FairSpec
CONSTANTS
  j1 = j1  j2 = j2  j3 = j3  gone = gone  NoJob = NoJob
  s1 = s1  p1 = p1  p2 = p2  r1 = r1  q1 = q1
  Jobs = {j1, j2, j3}
  MissingIds = {}
  Settings <- UrgentSettings
  NoProcessor = {j1}
  RequestTimes = {"none"}
  DefaultMaxRetries = 1
  BatchSize = 2
  Servers = {s1}
  Pendings = {p1, p2}
  Retriers = {r1}
  Requests = {}
  Host <- OneHost
  MaxExecutions = 5
  MaxFaults = 1
  MaxCrashes = 1
INVARIANTS OnePendingPass
PROPERTIES HandlersReturn ReadyJobsAreTakenUp
