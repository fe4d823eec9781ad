CONSTANTS
  N = 3
  Limits <- MCLimits
  Values = {v1, v2}
  Failed = Failed
  Nil = Nil
SPECIFICATION Spec
INVARIANTS
  ResultsComplete
  ErrorHasCause
PROPERTIES
  Returns
  PoolSpec
