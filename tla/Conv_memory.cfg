SPECIFICATION Spec
CONSTANTS
  Tasks = {report, weather}
  Budget = 2
  MaxCalls = 2
  MaxRequests = 3
  MaxFailures = 3
  MaxMessages = 8
SYMMETRY TaskSymmetry
CHECK_DEADLOCK FALSE
INVARIANTS TypeOK NothingForgotten ExchangeInView OriginInView RecordedAtMostOnce
PROPERTY SummaryGrows
