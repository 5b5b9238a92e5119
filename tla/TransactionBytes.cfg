CONSTANTS
  Requests <- MCRequests
  Transactions <- MCTransactions
  Malformed = Malformed
  AddressOf <- MCAddressOf
  AmountOf <- MCAmountOf
  AccountKey <- MCAccountKey
  Signature <- MCSignature
  UINT32_SIZE = 2147483647
  HTLC_TIMEOUT_SOON_THRESHOLD = 3
  SAFE_AMOUNT <- Largest
  EMPTY = EMPTY
  GARBAGE = GARBAGE
SPECIFICATION Spec
INVARIANT ParserReadsWhatWasSent
INVARIANT AmountsAreExact
INVARIANT ProofLiesInData
INVARIANT SignedReadsAsReviewed
INVARIANT LengthsAsDocumented
