-------------------------- MODULE VestingCreation --------------------------
(***************************************************************************)
(* parse_vesting_creation_data() (src/nimiq_utils.c) and the vesting       *)
(* entries of the transaction review.  The parameters of a vesting         *)
(* contract are translated "into more user friendly information": a number *)
(* of steps, the block of the first one, their amounts and what is         *)
(* pre-vested.  The translation divides and multiplies 32 and 64 bit       *)
(* numbers a client chooses, and the review then leaves out what it takes  *)
(* for redundant.  The module compares what the user reads with what the   *)
(* network will do with the contract.                                      *)
(*                                                                         *)
(* The widths of the integers are constants, so that a small instance      *)
(* reaches every overflow.                                                 *)
(***************************************************************************)
EXTENDS Integers, Sums

CONSTANTS
  UINT32_SIZE,           \* number of values of a uint32_t
  UINT64_SIZE,           \* number of values of a uint64_t
  MAX_SAFE_LUNA_AMOUNT,  \* constants.h: the largest amount parse_amount() prints
  Contracts              \* the contract creations a client may send

\* The lengths of the data after the owner address: only the step block count;
\* start, step block count and step amount; or all four parameters.
DataLengths == 0..28

Contract ==
  [value : 0..MAX_SAFE_LUNA_AMOUNT, dataLength : DataLengths,
   startBlock : 0..(UINT32_SIZE - 1), stepBlockCount : 0..(UINT32_SIZE - 1),
   stepAmount : 0..(UINT64_SIZE - 1), totalLockedAmount : 0..(UINT64_SIZE - 1),
   ownerIsSender : BOOLEAN, senderIsBasic : BOOLEAN]

ASSUME WidthAssumption ==
  /\ UINT32_SIZE \in Nat \ {0}
  /\ UINT64_SIZE = UINT32_SIZE * UINT32_SIZE
  /\ MAX_SAFE_LUNA_AMOUNT \in 0..(UINT64_SIZE - 1)
ASSUME ContractsAssumption == Contracts \subseteq Contract

VARIABLES
  contract,  \* the contract creation to sign
  status,    \* "unparsed", "accepted" or "error"
  parsed     \* PARSED_TX_VESTING_CREATION, once accepted

vars == <<contract, status, parsed>>

-----------------------------------------------------------------------------
(* parse_vesting_creation_data *)

\* The parameters as read from the data, with defaults for those left out.
Parameters(c) ==
  [value |-> c.value,
   start |-> IF c.dataLength = 4 THEN 0 ELSE c.startBlock,
   blocks |-> c.stepBlockCount,
   step |-> IF c.dataLength = 4 THEN c.value ELSE c.stepAmount,
   total |-> IF c.dataLength = 24 THEN c.totalLockedAmount ELSE c.value]

IsImmediate(p) == p.blocks = 0 \/ p.step = 0

\* What is locked beyond the contract's funds.
Excess(p) == IF p.total > p.value THEN p.total - p.value ELSE 0

\* Faulty variant: the last, partial step is not counted.
FloorSteps(p) == p.total \div p.step

\* helper_uint64: vesting steps, including those that only vest the excess.
ActualSteps(p) == (p.total \div p.step) + (IF p.total % p.step # 0 THEN 1 ELSE 0)

StepCount(p) == (ActualSteps(p) - Excess(p) \div p.step) % UINT32_SIZE
Period(p) == (ActualSteps(p) * p.blocks) % UINT64_SIZE

FirstStepBlockCount(p) == (p.blocks + (Excess(p) \div p.step) * p.blocks) % UINT32_SIZE
FirstStepAmount(p) == p.step - (Excess(p) % p.step)
LastStepAmount(p) == IF p.total % p.step # 0 THEN p.total % p.step ELSE p.step
PreVestedAmount(p) == IF p.value > p.total THEN p.value - p.total ELSE 0

\* Faulty variant: the end of vesting is checked without the start block.
PeriodExceedsBlocks(p) == Period(p) > UINT32_SIZE - 1

\* "Vesting steps exceed" or "Vesting end exceeds number of possible Nimiq blocks".
ExceedsBlocks(p) ==
  \/ ActualSteps(p) > UINT32_SIZE - 1
  \/ (Period(p) + p.start) % UINT64_SIZE > UINT32_SIZE - 1

Translation(p) ==
  IF IsImmediate(p)
  THEN [startBlock |-> 0, period |-> 0, stepCount |-> 0, stepBlockCount |-> 0,
        firstStepBlockCount |-> 0, firstStepBlock |-> 0, stepAmount |-> p.value,
        firstStepAmount |-> p.value, lastStepAmount |-> p.value,
        preVestedAmount |-> p.value]
  ELSE [startBlock |-> p.start, period |-> Period(p), stepCount |-> StepCount(p),
        stepBlockCount |-> p.blocks, firstStepBlockCount |-> FirstStepBlockCount(p),
        firstStepBlock |-> (p.start + FirstStepBlockCount(p)) % UINT32_SIZE,
        stepAmount |-> p.step, firstStepAmount |-> FirstStepAmount(p),
        lastStepAmount |-> LastStepAmount(p), preVestedAmount |-> PreVestedAmount(p)]

Zeroed == [field \in {"startBlock", "period", "stepCount", "stepBlockCount",
                      "firstStepBlockCount", "firstStepBlock", "stepAmount",
                      "firstStepAmount", "lastStepAmount", "preVestedAmount"} |-> 0]

\* Faulty variant: the regular step amount is printed unchecked.
IsPrintableButStep(t) ==
  \A amount \in {t.firstStepAmount, t.lastStepAmount, t.preVestedAmount} :
    amount <= MAX_SAFE_LUNA_AMOUNT

IsPrintable(t) ==
  \A amount \in {t.stepAmount, t.firstStepAmount, t.lastStepAmount, t.preVestedAmount} :
    amount <= MAX_SAFE_LUNA_AMOUNT

IsWellFormed(c) ==
  /\ c.dataLength \in {4, 16, 24}
  /\ c.ownerIsSender => c.senderIsBasic

Init ==
  /\ contract \in Contracts
  /\ status = "unparsed"
  /\ parsed = Zeroed

ParseVestingCreationData ==
  LET p == Parameters(contract) IN
  /\ status = "unparsed"
  /\ IF /\ IsWellFormed(contract)
        /\ ~IsImmediate(p) => ~ExceedsBlocks(p)
        /\ IsPrintable(Translation(p))
     THEN status' = "accepted" /\ parsed' = Translation(p)
     ELSE status' = "error" /\ UNCHANGED parsed
  /\ UNCHANGED contract

Next == ParseVestingCreationData

Spec == Init /\ [][Next]_vars

Accepted == status = "accepted"

-----------------------------------------------------------------------------
(* The review entries *)

IsMultiStep == parsed.stepCount > 1

\* Faulty variant: the step amount is also left out if only one of two steps
\* differs from it.
StepAmountUnlessAnyDiffers ==
  IsMultiStep /\ ~(/\ parsed.stepCount = 2
                   /\ \/ parsed.firstStepAmount # parsed.stepAmount
                      \/ parsed.lastStepAmount # parsed.stepAmount)

HasStepAmountEntry ==
  IsMultiStep /\ ~(/\ parsed.stepCount = 2
                   /\ parsed.firstStepAmount # parsed.stepAmount
                   /\ parsed.lastStepAmount # parsed.stepAmount)

\* The numbers the review displays: the transaction's amount and the fields of
\* parsed for which the flow's conditions hold.
ShownFields ==
  (IF ~IsMultiStep THEN {"firstStepBlock"}
   ELSE {"startBlock", "period", "stepCount", "stepBlockCount"})
  \cup {f \in {"firstStepBlockCount"} :
          IsMultiStep /\ parsed.firstStepBlockCount # parsed.stepBlockCount}
  \cup {f \in {"stepAmount"} : HasStepAmountEntry}
  \cup {f \in {"firstStepAmount"} : IsMultiStep /\ parsed.firstStepAmount # parsed.stepAmount}
  \cup {f \in {"lastStepAmount"} : IsMultiStep /\ parsed.lastStepAmount # parsed.stepAmount}
  \cup {f \in {"preVestedAmount"} : parsed.preVestedAmount # 0}
Entries == [f \in ShownFields |-> parsed[f]]

-----------------------------------------------------------------------------
(* How a reader understands the entries *)

\* What an entry says, or what its absence says.
Shown(entry, otherwise) ==
  IF entry \in DOMAIN Entries THEN Entries[entry] ELSE otherwise

ShownSteps == Shown("stepCount", 1)

\* A step is k blocks-per-step after the first one; a single step has its block
\* displayed.
ShownStepBlock(k) ==
  IF "firstStepBlock" \in DOMAIN Entries
  THEN Entries["firstStepBlock"]
  ELSE Entries["startBlock"] + Shown("firstStepBlockCount", Entries["stepBlockCount"])
         + (k - 1) * Entries["stepBlockCount"]

\* A single step vests whatever is not pre-vested; of several steps, the first
\* and the last may have amounts of their own.
ShownStepAmount(k) ==
  LET regular == Shown("stepAmount", 0) IN
  IF ShownSteps = 1 THEN contract.value - Shown("preVestedAmount", 0)
  ELSE IF k = 1 THEN Shown("firstStepAmount", regular)
  ELSE IF k = ShownSteps THEN Shown("lastStepAmount", regular)
  ELSE regular

ShownVested(block) ==
  Shown("preVestedAmount", 0)
  + SumTo([k \in 1..ShownSteps |-> IF ShownStepBlock(k) <= block THEN ShownStepAmount(k) ELSE 0],
          ShownSteps)

-----------------------------------------------------------------------------
(* What the network does with the contract (external: the vesting contract  *)
(* of the Nimiq blockchain, as the comments of nimiq_utils.c describe it)   *)

Positive(n) == IF n > 0 THEN n ELSE 0

\* Each step_block_count blocks after the start, step_amount less is locked.
Locked(p, block) ==
  IF IsImmediate(p) THEN 0
  ELSE Positive(p.total - ((block - p.start) \div p.blocks) * p.step)

Vested(p, block) == Positive(p.value - Locked(p, block))

BlocksFrom(start) == start..(UINT32_SIZE - 1)

-----------------------------------------------------------------------------
(* Properties *)

TypeOK ==
  /\ contract \in Contracts
  /\ status \in {"unparsed", "accepted", "error"}
  /\ {parsed.startBlock, parsed.period, parsed.stepCount, parsed.stepBlockCount,
      parsed.firstStepBlockCount, parsed.firstStepBlock} \subseteq 0..(UINT32_SIZE - 1)
  /\ {parsed.stepAmount, parsed.firstStepAmount, parsed.lastStepAmount,
      parsed.preVestedAmount} \subseteq 0..MAX_SAFE_LUNA_AMOUNT

\* The entries the review displays, with all that it leaves out as redundant and
\* whatever excess amount a client makes the contract lock, determine how much of
\* the contract's funds is vested at every block from the start of vesting on.
ReviewTellsSchedule ==
  Accepted =>
    LET p == Parameters(contract) IN
    \A block \in BlocksFrom(p.start) : ShownVested(block) = Vested(p, block)

\* The vesting period ends with the very block that vests the last funds: no
\* funds are locked any longer than displayed, and not all are free before.
PeriodEndsWithLastStep ==
  Accepted /\ IsMultiStep =>
    LET p == Parameters(contract)
        end == parsed.startBlock + parsed.period
    IN /\ Vested(p, end) = contract.value
       /\ Vested(p, end - 1) < contract.value

\* The overflow checks reject exactly the contracts that still lock something at
\* the last block number there is, whatever the parameters multiply to.
RejectsUnreachableEnds ==
  LET p == Parameters(contract) IN
  status # "unparsed" /\ IsWellFormed(contract) /\ p.step <= MAX_SAFE_LUNA_AMOUNT =>
    (status = "error" <=> Locked(p, UINT32_SIZE - 1) > 0)
=============================================================================
