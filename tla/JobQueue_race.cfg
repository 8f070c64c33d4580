SPECIFICATION Spec
CONSTANTS
  j1 = j1  j2 = j2  j3 = j3  gone = gone  NoJob = NoJob
  s1 = s1  p1 = p1  p2 = p2  r1 = r1  q1 = q1
  Jobs = {j1, j2}
  MissingIds = {gone}
  Settings <- RaceSettings
  NoProcessor = {}
  RequestTimes = {"none"}
  DefaultMaxRetries = 1
  BatchSize = 2
  Servers = {s1}
  Pendings = {p1}
  Retriers = {}
  Requests = {q1}
  Host <- OneHost
  MaxExecutions = 2
  MaxFaults = 1
  MaxCrashes = 1
CHECK_DEADLOCK FALSE
INVARIANTS TypeOK StatusIsBacked RunningIsOwned ExecutionsAreOwnedOnce DependenciesFirst
PROPERTIES HistoryIsKept OnlyStaleSavesUndoCancel
