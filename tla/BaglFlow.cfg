CONSTANTS
  Flows <- MCFlows
SPECIFICATION Spec
INVARIANT RestsOnVisibleStep
INVARIANT NothingIsApprovedUnseen
INVARIANT PrintedMessageIsOfStep
INVARIANT NavigatesVisibleSteps
