SPECIFICATION MCSpec
CONSTANTS
  e1 = e1  c1 = c1  c2 = c2  o1 = o1  o2 = o2
  NoEntity = NoEntity  NoState = NoState
  Entities = {e1}
  Sheets = {e1}
  Leaves = {e1}
  MaxBookings = 2
  Unsaved = e1
  LastDay = 3
  Clients = {c1, c2}
  Officers = {o1, o2}
  MaxInstances = 2
  MaxMoves = 2
  MaxFaults = 1
  MaxEntries = 2
  States <- WorkflowStates
  Keys <- WorkflowKeys
  StartState <- Starts
  Moves <- WorkflowMoves
  Conditional <- Escalation
  FinalStates <- Ends
  WithApprovals <- ApprovalStates
CHECK_DEADLOCK FALSE
INVARIANT TrailTracksMoves
