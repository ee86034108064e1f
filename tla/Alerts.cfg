\* Five instances in one: a queue; a machine that is stopped or silent; hooks; a
\* detector that loses its lock; alerts that go through the queue.
CONSTANTS
  Instances = {1, 2}
  Lease = 2
  Wait = 1
  Waits = 1
  Threshold = 1
  Slack = 0
  Cooldown = 2
  Limits <- MCLimits
SPECIFICATION FairSpec
CHECK_DEADLOCK FALSE
INVARIANT AnnouncedAsMarked
INVARIANT NoFalseTamper
PROPERTY QueueDrains
