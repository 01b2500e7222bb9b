SPECIFICATION Spec
CONSTANTS
  k1 = k1
  a1 = a1
  a2 = a2
  a3 = a3
  NoKey = NoKey
  Keys = {k1}
  Attempts = {a1, a2, a3}
  Burst = 2
  Unit = 5
  Second = 2
  MaxTicks = 14
INVARIANTS
  TypeOK
  FailuresBounded
  RetryAfterKept
SYMMETRY Swaps
