\* Two overlapping retention runs, a hold sync and an admin.
CONSTANTS
  r1 = r1
  r2 = r2
  s1 = s1
  q1 = q1
  NoOne = NoOne
  Keep = Keep
  Runs = {r1, r2}
  Syncs = {s1}
  Admins = {q1}
  Days <- MCDays
  Age <- MCAge
  Cutoffs <- MCCutoffs
  Asks <- MCAsks
  MaxObjects = 3
  MaxChanges = 2
  MaxFailures = 1
  MaxLost = 1
SPECIFICATION Spec
INVARIANT DeletedIsArchived
INVARIANT HoldCovers
PROPERTY NothingDeletedOnHold
PROPERTY RetentionDrains
\* Once everything old is archived and the hold is in sync, nothing is left to do.
CHECK_DEADLOCK FALSE
