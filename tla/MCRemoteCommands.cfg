CONSTANTS
  MaxRequests = 2
  MaxConnections = 3
  QueueSize = 1
  Asked = {"restart_edge_service", "pull_update"}
  Enabled = {"restart_edge_service"}
  RemoteOps = TRUE
  InitialDelay = 1
  MaxDelay = 3
  MaxFaults = 1
SPECIFICATION Spec
INVARIANTS
  OnlineMeansConnected
  RunInOrder
  LostOnlyWithItsLink
PROPERTIES
  CommandsAnswered
CHECK_DEADLOCK FALSE
