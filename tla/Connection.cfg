CONSTANTS
  Clients = {a}
  None = None
  MaxConnections = 1
  Capacity = 1
  MaxAttempts = 2
  MaxServerSalts = 3
SPECIFICATION Spec
INVARIANTS SameConnection EndpointsPaired
PROPERTIES DecidedOnce
CHECK_DEADLOCK FALSE
