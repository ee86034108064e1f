\* One daemon, two requests at the control plane, an outage and a stop or crash.
CONSTANTS
  h1 = h1
  h2 = h2
  NoSlot = NoSlot
  Slots = {h1, h2}
  Events <- MCEvents
  MaxEvents = 2
  QueueSize = 1
  BatchSize = 2
  SpoolOn = TRUE
  SpoolMax = 1
  Attempts = 2
  ReplayMax = 1
  MaxStops = 1
  MaxOutages = 1
SPECIFICATION FairSpec
INVARIANT ChainVerifies
INVARIANT Accounted
PROPERTY EventuallySettled
\* A machine with nothing to send waits for the next event.
CHECK_DEADLOCK FALSE
