SPECIFICATION Spec
CONSTANTS
  Tools = {run_python, run_bash}
  MaxIterations = 4
  StepLimits = {5, 10}
  MaxCalls = 2
SYMMETRY ToolSymmetry
CHECK_DEADLOCK FALSE
INVARIANTS TypeOK FinalIsVerified NudgeAtThree WithinBudget StepLimitUnreached CorrectionsTold
