\* One agent at a time, a policy change, a window, one failed call, one restart.
CONSTANTS
  Docs = {"guard", "lsm"}
  GuardDocs = {"guard"}
  Policies = {1, 2}
  Renders <- MCRenders
  MaxProcs = 1
  MaxChanges = 1
  MaxFaults = 1
  MaxBusy = 2
SPECIFICATION Spec
INVARIANT KernelCurrent
INVARIANT NoStrays
PROPERTY NeverLess
\* Nothing more to do within the bounds.
CHECK_DEADLOCK FALSE
