\* Five instances in one: versions and faults; a new enrollment; two codes; a
\* code on a machine enrolled anew; two activations at a time.
CONSTANTS
  a = a
  b = b
  MaxWindow = 2
  Limits <- MCLimits
SPECIFICATION FairSpec
CHECK_DEADLOCK FALSE
INVARIANT HonouredOnce
INVARIANT WindowKept
PROPERTY Converges
