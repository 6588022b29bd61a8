SPECIFICATION Spec
CONSTANTS
  Tools = {run_python}
  MaxIterations = 4
  StepLimits = {10}
  MaxCalls = 1
CHECK_DEADLOCK FALSE
INVARIANT TwoCorrections
