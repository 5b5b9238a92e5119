CONSTANTS
  UINT32_SIZE = 6
  UINT64_SIZE = 36
  MAX_SAFE_LUNA_AMOUNT = 6
  Contracts <- MCContracts
SPECIFICATION Spec
INVARIANT TypeOK
INVARIANT ReviewTellsSchedule
INVARIANT PeriodEndsWithLastStep
INVARIANT RejectsUnreachableEnds
CHECK_DEADLOCK FALSE
