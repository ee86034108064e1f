\* One connector, two instances of the control plane.
CONSTANTS
  r1 = r1
  r2 = r2
  Pollers = {p1}
  Handlers = {h1}
  Rollers = {r1, r2}
  Keys = {k1}
  NoKey = NoKey
  NoData = NoData
  Limits <- MCLimits
SPECIFICATION Spec
INVARIANT AnnouncedOnce
PROPERTY Converges
PROPERTY LeaksAnnounced
\* Without a connector and with nothing to roll up the loops only wait.
CHECK_DEADLOCK FALSE
