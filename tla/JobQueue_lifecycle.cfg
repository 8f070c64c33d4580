SPECIFICATION Spec
CONSTANTS
  j1 = j1  j2 = j2  j3 = j3  gone = gone  NoJob = NoJob
  s1 = s1  p1 = p1  p2 = p2  r1 = r1  q1 = q1
  Jobs = {j1, j2}
  MissingIds = {}
  Settings <- MixedSettings
  NoProcessor = {}
  RequestTimes = {"none"}
  DefaultMaxRetries = 1
  BatchSize = 2
  Servers = {s1}
  Pendings = {}
  Retriers = {}
  Requests = {q1}
  Host <- OneHost
  MaxExecutions = 3
  MaxFaults = 0
  MaxCrashes = 0
CHECK_DEADLOCK FALSE
PROPERTIES ImplementsLifecycle
