CONSTANTS
  c1 = c1
  c2 = c2
  c3 = c3
  Clients = {c1, c2, c3}
SPECIFICATION Spec
INVARIANTS TypeOK EarlyStreamsHear HttpReturnsDrained WaitsForStopped
PROPERTY Stops
