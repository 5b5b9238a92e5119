CONSTANTS
  Transactions <- MCTransactions
  STAKING_CONTRACT = "staking contract"
  MAX_SAFE_LUNA_AMOUNT = 1
  UINT32_SIZE = 16
  HTLC_TIMEOUT_SOON_THRESHOLD = 3
  EMPTY = EMPTY
  GARBAGE = GARBAGE
SPECIFICATION Spec
INVARIANT TypeOK
INVARIANT ReviewTellsEffect
INVARIANT ProofIsFilledInOnlyIfEmpty
INVARIANT DevicesAgree
