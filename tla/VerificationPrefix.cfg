CONSTANTS
  Commands <- MCCommands
  OtherData <- MCOtherData
  PointOf <- MCPointOf
  Signature <- MCSignature
  AddressOf <- MCAddressOf
  BUFFER_LENGTH = 50
  MaxCommands = 2
  NONE = NONE
SPECIFICATION Spec
INVARIANT VerificationPrefix
CHECK_DEADLOCK FALSE
