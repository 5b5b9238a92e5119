------------------------- MODULE MCVestingCreation -------------------------
(* Constant values for model-checking VestingCreation.                      *)
EXTENDS VestingCreation

\* Every parameter combination at a width of 6 values, step amounts up to one
\* that cannot be printed any more, locked amounts beyond all amounts of funds.
WellFormedContracts ==
  [value : 0..MAX_SAFE_LUNA_AMOUNT, dataLength : {24},
   startBlock : 0..(UINT32_SIZE - 1), stepBlockCount : 0..(UINT32_SIZE - 1),
   stepAmount : 0..(MAX_SAFE_LUNA_AMOUNT + 1),
   totalLockedAmount : 0..(2 * MAX_SAFE_LUNA_AMOUNT) \cup {UINT64_SIZE - 1},
   ownerIsSender : {FALSE}, senderIsBasic : {TRUE}]
OtherContracts ==
  [value : 0..MAX_SAFE_LUNA_AMOUNT, dataLength : {0, 3, 4, 12, 16, 20, 28},
   startBlock : {0, UINT32_SIZE - 1}, stepBlockCount : 0..(UINT32_SIZE - 1),
   stepAmount : 0..3, totalLockedAmount : {0, 3},
   ownerIsSender : BOOLEAN, senderIsBasic : BOOLEAN]
MCContracts == WellFormedContracts \cup OtherContracts
=============================================================================
