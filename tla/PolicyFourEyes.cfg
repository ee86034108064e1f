\* Two requests in flight, two admins and a key, one proposal of any kind.
CONSTANTS
  h1 = h1
  h2 = h2
  ann = ann
  bob = bob
  key = key
  p1 = p1
  p2 = p2
  x1 = x1
  m1 = m1
  o1 = o1
  b1 = b1
  b2 = b2
  c1 = c1
  Nobody = Nobody
  NoProp = NoProp
  NoCentral = NoCentral
  Keep = Keep
  System = System
  Requests = {h1, h2}
  Admins = {ann, bob}
  Keys = {key}
  CreatedBy <- MCCreatedBy
  Pids = {p1}
  Exceptions = {x1}
  Machines = {m1}
  Owners = {o1}
  Bodies = {b1, b2}
  Centrals = {NoCentral, c1}
  Asked <- MCAsked
  MaxVersion = 2
SPECIFICATION Spec
SYMMETRY Symmetry
INVARIANT AppliedOnce
INVARIANT FourEyes
