----------------------- MODULE VestingCreationProofs -----------------------
(***************************************************************************)
(* For integers of every width and all parameters a client can choose: the *)
(* checks of parse_vesting_creation_data accept what ends at a block there *)
(* is, and nothing that it computes up to these checks can wrap unnoticed. *)
(*                                                                         *)
(* Products and divisions are beyond the provers when they come together,  *)
(* so every fact about them that is needed has a lemma of its own, about   *)
(* plain numbers.                                                          *)
(***************************************************************************)
EXTENDS VestingCreation, SumsProofs

-----------------------------------------------------------------------------
(* Division *)

\* A product keeps the order of its factors.
LEMMA ProductOrder ==
  ASSUME NEW a \in Nat, NEW b \in Nat, NEW c \in Nat
  PROVE  /\ a <= b => a * c <= b * c
         /\ a < b /\ c # 0 => a * c < b * c
         /\ a * c \in Nat
  OBVIOUS

\* One more adds the other factor once more.
LEMMA NextMultiple ==
  ASSUME NEW a \in Nat, NEW b \in Nat
  PROVE  (a + 1) * b = a * b + b
  OBVIOUS

\* A quotient is the largest number that does not exceed with the divisor.
LEMMA QuotientIsLargest ==
  ASSUME NEW a \in Nat, NEW m \in Nat, NEW b \in Nat \ {0}
  PROVE  a * b <= m <=> a <= m \div b
<1> DEFINE q == m \div b
<1>1. q \in Nat /\ m % b \in Nat /\ m % b < b /\ m = q * b + (m % b)
  BY Division
<1> HIDE DEF q
<1>2. CASE a <= q
  BY <1>1, <1>2, ProductOrder
<1>3. CASE q + 1 <= a
  <2>1. (q + 1) * b <= a * b
    BY <1>1, <1>3, ProductOrder
  <2>2. (q + 1) * b = q * b + b
    BY <1>1, NextMultiple
  <2> QED BY <1>1, <1>3, <2>1, <2>2, ProductOrder
<1> QED BY <1>1, <1>2, <1>3 DEF q

\* Dividing a multiple, and the number before it.
LEMMA QuotientOfMultiple ==
  ASSUME NEW a \in Nat \ {0}, NEW b \in Nat \ {0}
  PROVE  (a * b) \div b = a /\ (a * b - 1) \div b = a - 1
<1>1. (a * b + 0) \div b = a
  OBVIOUS
<1>2. a * b - 1 = (a - 1) * b + (b - 1)
  OBVIOUS
<1>3. ((a - 1) * b + (b - 1)) \div b = a - 1
  OBVIOUS
<1> QED BY <1>1, <1>2, <1>3

\* The quotient of the smaller number is smaller.
LEMMA QuotientOrder ==
  ASSUME NEW a \in Nat, NEW c \in Nat, NEW b \in Nat \ {0}, a <= c
  PROVE  a \div b <= c \div b
<1>1. a \div b \in Nat /\ (a \div b) * b <= a
  <2>1. a % b >= 0 /\ a = (a \div b) * b + (a % b) /\ a \div b \in Nat
    BY Division
  <2>2. (a \div b) * b \in Nat
    BY <2>1
  <2> QED BY <2>1, <2>2
<1>2. (a \div b) * b <= c
  BY <1>1
<1> QED BY <1>1, <1>2, QuotientIsLargest

-----------------------------------------------------------------------------
(* Parameters *)

Parameter ==
  [value : 0..MAX_SAFE_LUNA_AMOUNT, start : 0..(UINT32_SIZE - 1),
   blocks : 0..(UINT32_SIZE - 1), step : 0..(UINT64_SIZE - 1), total : 0..(UINT64_SIZE - 1)]

\* Whatever the client leaves out, the parameters fit their integers.
LEMMA ParametersFit ==
  ASSUME NEW c \in Contract
  PROVE  Parameters(c) \in Parameter
<1>1. /\ c.value \in 0..MAX_SAFE_LUNA_AMOUNT /\ c.value \in 0..(UINT64_SIZE - 1)
      /\ c.startBlock \in 0..(UINT32_SIZE - 1) /\ c.stepBlockCount \in 0..(UINT32_SIZE - 1)
      /\ c.stepAmount \in 0..(UINT64_SIZE - 1) /\ c.totalLockedAmount \in 0..(UINT64_SIZE - 1)
  <2>1. UINT64_SIZE \in Nat
    BY WidthAssumption
  <2> QED BY <2>1, WidthAssumption DEF Contract
<1>2. 0 \in 0..(UINT32_SIZE - 1)
  BY WidthAssumption
<1> QED BY <1>1, <1>2 DEF Parameters, Parameter

\* What the numbers of a contract that vests in steps are.
LEMMA ParameterTypes ==
  ASSUME NEW p \in Parameter, ~IsImmediate(p)
  PROVE  /\ p.value \in Nat /\ p.start \in Nat /\ p.total \in Nat
         /\ p.blocks \in Nat \ {0} /\ p.step \in Nat \ {0}
         /\ p.value <= MAX_SAFE_LUNA_AMOUNT
         /\ p.start <= UINT32_SIZE - 1 /\ p.blocks <= UINT32_SIZE - 1
         /\ UINT32_SIZE \in Nat \ {0} /\ MAX_SAFE_LUNA_AMOUNT \in Nat
<1>1. UINT64_SIZE \in Nat
  BY WidthAssumption
<1> QED BY <1>1, WidthAssumption DEF Parameter, IsImmediate

\* ActualSteps rounds up: that many steps are more than n if and only if n of them
\* leave something locked.
LEMMA StepsCoverTotal ==
  ASSUME NEW p \in Parameter, ~IsImmediate(p)
  PROVE  /\ ActualSteps(p) \in Nat
         /\ \A n \in Nat : ActualSteps(p) > n <=> p.total > n * p.step
         /\ ActualSteps(p) \in {p.total \div p.step, (p.total \div p.step) + 1}
<1> DEFINE q == p.total \div p.step
           r == p.total % p.step
<1>1. p.total \in Nat /\ p.step \in Nat \ {0}
  BY ParameterTypes
<1>2. q \in Nat /\ r \in Nat /\ r < p.step /\ p.total = q * p.step + r
  BY <1>1, Division
<1>3. ActualSteps(p) = q + (IF r # 0 THEN 1 ELSE 0)
  BY DEF ActualSteps
<1> HIDE DEF q, r
<1>4. ASSUME NEW n \in Nat
      PROVE  ActualSteps(p) > n <=> p.total > n * p.step
  <2>1. CASE q < n
    <3>1. (q + 1) * p.step <= n * p.step
      BY <1>1, <1>2, <2>1, ProductOrder
    <3>2. (q + 1) * p.step = q * p.step + p.step
      BY <1>1, <1>2, NextMultiple
    <3>3. n * p.step \in Nat /\ q * p.step \in Nat
      BY <1>1, <1>2, ProductOrder
    <3> QED BY <1>1, <1>2, <1>3, <2>1, <3>1, <3>2, <3>3
  <2>2. CASE q = n
    <3>1. q * p.step \in Nat
      BY <1>1, <1>2, ProductOrder
    <3> QED BY <1>1, <1>2, <1>3, <2>2, <3>1
  <2>3. CASE q > n
    <3>1. n * p.step < q * p.step /\ n * p.step \in Nat /\ q * p.step \in Nat
      BY <1>1, <1>2, <2>3, ProductOrder
    <3> QED BY <1>1, <1>2, <1>3, <2>3, <3>1
  <2> QED BY <1>2, <2>1, <2>2, <2>3
<1> QED BY <1>2, <1>3, <1>4 DEF q

\* The check of the number of steps comes before the product with the blocks per
\* step can wrap, and rules it out for the check of the last block.
LEMMA EndIsExact ==
  ASSUME NEW p \in Parameter, ~IsImmediate(p), ActualSteps(p) <= UINT32_SIZE - 1
  PROVE  /\ Period(p) = ActualSteps(p) * p.blocks
         /\ (Period(p) + p.start) % UINT64_SIZE = ActualSteps(p) * p.blocks + p.start
<1> DEFINE steps == ActualSteps(p)
           last == UINT32_SIZE - 1
<1>1. /\ steps \in Nat /\ last \in Nat /\ steps <= last
      /\ p.blocks \in Nat /\ p.blocks <= last /\ p.start \in Nat /\ p.start <= last
  BY ParameterTypes, StepsCoverTotal
<1>2. UINT64_SIZE = (last + 1) * (last + 1)
  BY WidthAssumption
<1> HIDE DEF steps, last
<1>3. steps * p.blocks <= last * p.blocks
  BY <1>1, ProductOrder
<1>4. last * p.blocks <= last * last
  <2>1. p.blocks * last <= last * last
    BY <1>1, ProductOrder
  <2> QED BY <1>1, <2>1
<1>5. (last + 1) * (last + 1) = last * last + last + last + 1
  BY <1>1
<1>6. /\ steps * p.blocks \in Nat /\ last * p.blocks \in Nat /\ last * last \in Nat
      /\ UINT64_SIZE \in Nat \ {0}
  BY <1>1, <1>2, <1>5, ProductOrder
<1>7. /\ steps * p.blocks < UINT64_SIZE
      /\ steps * p.blocks + p.start < UINT64_SIZE
      /\ steps * p.blocks + p.start \in Nat
  BY <1>1, <1>2, <1>3, <1>4, <1>5, <1>6
<1>8. \A n \in Nat : n < UINT64_SIZE => n % UINT64_SIZE = n
  BY <1>6
<1> QED BY <1>6, <1>7, <1>8 DEF Period, steps

\* What the two checks on blocks say.
LEMMA BlocksSuffice ==
  ASSUME NEW p \in Parameter, ~IsImmediate(p)
  PROVE  ~ExceedsBlocks(p) <=>
           /\ ActualSteps(p) <= UINT32_SIZE - 1
           /\ ActualSteps(p) * p.blocks + p.start <= UINT32_SIZE - 1
<1>1. ActualSteps(p) \in Nat /\ UINT32_SIZE \in Nat
  BY ParameterTypes, StepsCoverTotal
<1>2. CASE ActualSteps(p) > UINT32_SIZE - 1
  BY <1>1, <1>2 DEF ExceedsBlocks
<1>3. CASE ActualSteps(p) <= UINT32_SIZE - 1
  <2>1. ActualSteps(p) * p.blocks + p.start \in Nat
    BY <1>1, ParameterTypes, ProductOrder
  <2> QED BY <1>1, <1>3, <2>1, EndIsExact DEF ExceedsBlocks
<1> QED BY <1>1, <1>2, <1>3

\* What is locked beyond the funds is part of what is locked.
LEMMA ExcessIsPart ==
  ASSUME NEW p \in Parameter, ~IsImmediate(p)
  PROVE  /\ Excess(p) \in Nat /\ Excess(p) <= p.total
         /\ Excess(p) \div p.step \in Nat
         /\ Excess(p) \div p.step <= ActualSteps(p)
         /\ Excess(p) % p.step \in Nat /\ Excess(p) % p.step < p.step
<1>1. p.total \in Nat /\ p.value \in Nat /\ p.step \in Nat \ {0}
  BY ParameterTypes
<1>2. Excess(p) \in Nat /\ Excess(p) <= p.total
  BY <1>1 DEF Excess
<1>3. Excess(p) \div p.step <= p.total \div p.step
  BY <1>1, <1>2, QuotientOrder
<1>4. p.total \div p.step \in Nat /\ Excess(p) \div p.step \in Nat
  BY <1>1, <1>2, Division
<1>5. Excess(p) % p.step \in Nat /\ Excess(p) % p.step < p.step
  BY <1>1, <1>2, Division
<1> QED BY <1>2, <1>3, <1>4, <1>5, StepsCoverTotal

-----------------------------------------------------------------------------
(* The parser *)

ParsedFields ==
  [startBlock : 0..(UINT32_SIZE - 1), period : 0..(UINT32_SIZE - 1),
   stepCount : 0..(UINT32_SIZE - 1), stepBlockCount : 0..(UINT32_SIZE - 1),
   firstStepBlockCount : 0..(UINT32_SIZE - 1), firstStepBlock : 0..(UINT32_SIZE - 1),
   stepAmount : 0..MAX_SAFE_LUNA_AMOUNT, firstStepAmount : 0..MAX_SAFE_LUNA_AMOUNT,
   lastStepAmount : 0..MAX_SAFE_LUNA_AMOUNT, preVestedAmount : 0..MAX_SAFE_LUNA_AMOUNT]

\* What the parser accepts of a contract.
IsAccepted(c) ==
  /\ IsWellFormed(c)
  /\ ~IsImmediate(Parameters(c)) => ~ExceedsBlocks(Parameters(c))
  /\ IsPrintable(Translation(Parameters(c)))

\* The amounts of a contract that vests in steps: all but that of a regular step are
\* printable in any case.
LEMMA StepAmounts ==
  ASSUME NEW p \in Parameter, ~IsImmediate(p)
  PROVE  /\ {FirstStepAmount(p), LastStepAmount(p), PreVestedAmount(p)} \subseteq Nat
         /\ FirstStepAmount(p) <= p.step /\ LastStepAmount(p) <= p.step
         /\ PreVestedAmount(p) <= MAX_SAFE_LUNA_AMOUNT
<1>1. /\ p.total \in Nat /\ p.value \in Nat /\ p.step \in Nat \ {0}
      /\ p.value <= MAX_SAFE_LUNA_AMOUNT /\ MAX_SAFE_LUNA_AMOUNT \in Nat
  BY ParameterTypes
<1>2. FirstStepAmount(p) \in Nat /\ FirstStepAmount(p) <= p.step
  BY <1>1, ExcessIsPart DEF FirstStepAmount
<1>3. LastStepAmount(p) \in Nat /\ LastStepAmount(p) <= p.step
  BY <1>1, Division DEF LastStepAmount
<1>4. PreVestedAmount(p) \in Nat /\ PreVestedAmount(p) <= MAX_SAFE_LUNA_AMOUNT
  BY <1>1 DEF PreVestedAmount
<1> QED BY <1>2, <1>3, <1>4

\* A remainder of the width of an integer fits the integer.
LEMMA Wraps ==
  ASSUME NEW n \in Nat
  PROVE  n % UINT32_SIZE \in 0..(UINT32_SIZE - 1) /\ n % UINT32_SIZE <= n
<1>1. UINT32_SIZE \in Nat \ {0}
  BY WidthAssumption
<1> QED BY <1>1, Division

\* What is accepted fits the integers it is kept in, and can be printed.
LEMMA TranslationFits ==
  ASSUME NEW c \in Contract, IsAccepted(c)
  PROVE  Translation(Parameters(c)) \in ParsedFields
<1> DEFINE p == Parameters(c)
           t == Translation(p)
<1>1. p \in Parameter
  BY ParametersFit
<1>2. UINT32_SIZE \in Nat \ {0} /\ MAX_SAFE_LUNA_AMOUNT \in Nat
  BY WidthAssumption
<1>3. CASE IsImmediate(p)
  <2>1. p.value \in 0..MAX_SAFE_LUNA_AMOUNT
    BY <1>1 DEF Parameter
  <2>2. 0 \in 0..(UINT32_SIZE - 1)
    BY <1>2
  <2> HIDE DEF p
  <2>3. t \in ParsedFields
    BY <1>3, <2>1, <2>2 DEF Translation, ParsedFields
  <2> QED BY <2>3 DEF p
<1>4. CASE ~IsImmediate(p)
  <2>1. ~ExceedsBlocks(p) /\ IsPrintable(t)
    BY <1>4 DEF IsAccepted
  <2> HIDE DEF p
  <2>2. /\ p.start \in 0..(UINT32_SIZE - 1) /\ p.blocks \in 0..(UINT32_SIZE - 1)
        /\ p.start \in Nat /\ p.blocks \in Nat /\ p.step \in Nat
    BY <1>1, <1>4, ParameterTypes DEF Parameter
  <2>3. Period(p) \in 0..(UINT32_SIZE - 1)
    <3>1. /\ ActualSteps(p) <= UINT32_SIZE - 1
          /\ ActualSteps(p) * p.blocks + p.start <= UINT32_SIZE - 1
      BY <1>1, <1>4, <2>1, BlocksSuffice
    <3>2. Period(p) = ActualSteps(p) * p.blocks
      BY <1>1, <1>4, <3>1, EndIsExact
    <3>3. ActualSteps(p) * p.blocks \in Nat
      BY <1>1, <1>4, <2>2, StepsCoverTotal, ProductOrder
    <3> QED BY <1>2, <2>2, <3>1, <3>2, <3>3
  <2>4. StepCount(p) \in 0..(UINT32_SIZE - 1)
    <3>1. ActualSteps(p) - Excess(p) \div p.step \in Nat
      BY <1>1, <1>4, StepsCoverTotal, ExcessIsPart
    <3> QED BY <3>1, Wraps DEF StepCount
  <2>5. FirstStepBlockCount(p) \in 0..(UINT32_SIZE - 1)
    <3>1. p.blocks + (Excess(p) \div p.step) * p.blocks \in Nat
      BY <1>1, <1>4, <2>2, ExcessIsPart, ProductOrder
    <3> QED BY <3>1, Wraps DEF FirstStepBlockCount
  <2>6. (p.start + FirstStepBlockCount(p)) % UINT32_SIZE \in 0..(UINT32_SIZE - 1)
    BY <1>2, <2>2, <2>5, Wraps
  <2>7. t = [startBlock |-> p.start, period |-> Period(p), stepCount |-> StepCount(p),
             stepBlockCount |-> p.blocks, firstStepBlockCount |-> FirstStepBlockCount(p),
             firstStepBlock |-> (p.start + FirstStepBlockCount(p)) % UINT32_SIZE,
             stepAmount |-> p.step, firstStepAmount |-> FirstStepAmount(p),
             lastStepAmount |-> LastStepAmount(p), preVestedAmount |-> PreVestedAmount(p)]
    BY <1>4 DEF Translation
  <2>8. {p.step, FirstStepAmount(p), LastStepAmount(p), PreVestedAmount(p)}
          \subseteq 0..MAX_SAFE_LUNA_AMOUNT
    <3>1. /\ p.step <= MAX_SAFE_LUNA_AMOUNT /\ FirstStepAmount(p) <= MAX_SAFE_LUNA_AMOUNT
          /\ LastStepAmount(p) <= MAX_SAFE_LUNA_AMOUNT
          /\ PreVestedAmount(p) <= MAX_SAFE_LUNA_AMOUNT
      BY <2>1, <2>7 DEF IsPrintable
    <3> QED BY <1>1, <1>2, <1>4, <2>2, <3>1, StepAmounts
  <2> HIDE DEF t
  <2>9. t \in ParsedFields
    BY <2>2, <2>3, <2>4, <2>5, <2>6, <2>7, <2>8 DEF ParsedFields
  <2> QED BY <2>9 DEF p, t
<1> QED BY <1>3, <1>4

\* The inductive invariant: what was parsed is the translation of the contract, and
\* the status tells whether it is one that the parser accepts.
VInv ==
  /\ contract \in Contracts
  /\ \/ status = "unparsed" /\ parsed = Zeroed
     \/ status = "error" /\ parsed = Zeroed /\ ~IsAccepted(contract)
     \/ status = "accepted" /\ parsed = Translation(Parameters(contract)) /\ IsAccepted(contract)

\* It holds from the start, and each parsed contract is translated as a whole.
LEMMA Parsing == Spec => []VInv
<1>1. Init => VInv
  BY DEF Init, VInv
<1>2. VInv /\ [Next]_vars => VInv'
  <2> SUFFICES ASSUME VInv, [Next]_vars PROVE VInv'
    OBVIOUS
  <2>1. CASE UNCHANGED vars
    BY <2>1 DEF VInv, vars
  <2>2. CASE Next
    <3>1. contract' = contract /\ parsed = Zeroed
      BY <2>2 DEF Next, ParseVestingCreationData, VInv
    <3>2. CASE IsAccepted(contract)
      <4>1. status' = "accepted" /\ parsed' = Translation(Parameters(contract))
        BY <2>2, <3>2, Zenon DEF Next, ParseVestingCreationData, IsAccepted
      <4> QED BY <3>1, <3>2, <4>1 DEF VInv
    <3>3. CASE ~IsAccepted(contract)
      <4>1. status' = "error" /\ parsed' = parsed
        BY <2>2, <3>3, Zenon DEF Next, ParseVestingCreationData, IsAccepted
      <4> QED BY <3>1, <3>3, <4>1 DEF VInv
    <3> QED BY <3>2, <3>3
  <2> QED BY <2>1, <2>2
<1> QED BY <1>1, <1>2, PTL DEF Spec

\* parse_vesting_creation_data leaves numbers that fit their integers and amounts that
\* parse_amount() prints.
THEOREM VestingTypeCorrect == Spec => []TypeOK
<1>1. VInv => TypeOK
  <2> SUFFICES ASSUME VInv PROVE TypeOK
    OBVIOUS
  <2>1. contract \in Contracts /\ contract \in Contract
    BY ContractsAssumption DEF VInv
  <2>2. /\ Zeroed \in [DOMAIN Zeroed -> {0}]
        /\ 0 \in 0..(UINT32_SIZE - 1) /\ 0 \in 0..MAX_SAFE_LUNA_AMOUNT
    BY WidthAssumption DEF Zeroed
  <2>3. CASE parsed = Zeroed
    BY <2>1, <2>2, <2>3 DEF VInv, TypeOK, Zeroed
  <2>4. CASE parsed = Translation(Parameters(contract)) /\ IsAccepted(contract)
    <3>1. parsed \in ParsedFields
      BY <2>1, <2>4, TranslationFits
    <3> QED BY <2>1, <3>1 DEF VInv, TypeOK, ParsedFields
  <2> QED BY <2>3, <2>4 DEF VInv
<1> QED BY <1>1, Parsing, PTL

-----------------------------------------------------------------------------
(* What is rejected *)

\* After n blocks-per-step something is locked if and only if the steps are more.
LEMMA LockedBySteps ==
  ASSUME NEW p \in Parameter, ~IsImmediate(p), NEW block \in Nat, p.start <= block
  PROVE  /\ Locked(p, block) \in Nat
         /\ Locked(p, block) > 0 <=> ActualSteps(p) > (block - p.start) \div p.blocks
<1> DEFINE n == (block - p.start) \div p.blocks
<1>1. /\ p.start \in Nat /\ p.blocks \in Nat \ {0} /\ p.total \in Nat /\ p.step \in Nat \ {0}
  BY ParameterTypes
<1>2. n \in Nat
  <2>1. block - p.start \in Nat
    BY <1>1
  <2> QED BY <1>1, <2>1, Division
<1>3. Locked(p, block) = Positive(p.total - n * p.step)
  BY DEF Locked
<1> HIDE DEF n
<1>4. n * p.step \in Nat
  BY <1>1, <1>2, ProductOrder
<1>5. ActualSteps(p) > n <=> p.total > n * p.step
  BY <1>2, StepsCoverTotal
<1> QED BY <1>1, <1>3, <1>4, <1>5 DEF Positive, n

\* The checks on blocks against what is locked at the last block.
LEMMA LockedAtLastBlock ==
  ASSUME NEW p \in Parameter, ~IsImmediate(p)
  PROVE  ExceedsBlocks(p) <=> Locked(p, UINT32_SIZE - 1) > 0
<1> DEFINE last == UINT32_SIZE - 1
           n == (last - p.start) \div p.blocks
           steps == ActualSteps(p)
<1>1. /\ p.start \in Nat /\ p.blocks \in Nat \ {0} /\ last \in Nat
      /\ p.start <= last /\ steps \in Nat
  BY ParameterTypes, StepsCoverTotal
<1>2. Locked(p, last) > 0 <=> steps > n
  BY <1>1, LockedBySteps
<1>3. ~ExceedsBlocks(p) <=> steps <= last /\ steps * p.blocks + p.start <= last
  BY BlocksSuffice
<1> HIDE DEF last, steps
<1>4. last - p.start \in Nat /\ n \in Nat
  BY <1>1, Division
<1>5. steps * p.blocks <= last - p.start <=> steps <= n
  BY <1>1, <1>4, QuotientIsLargest
<1>6. n <= last
  <2>1. n * p.blocks <= last - p.start
    BY <1>1, <1>4, QuotientIsLargest
  <2>2. n * 1 <= n * p.blocks /\ n * p.blocks \in Nat
    <3>1. 1 * n <= p.blocks * n /\ p.blocks * n \in Nat
      BY <1>1, <1>4, ProductOrder
    <3> HIDE DEF n
    <3> QED BY <1>1, <1>4, <3>1
  <2> HIDE DEF n
  <2> QED BY <1>1, <1>4, <2>1, <2>2
<1>7. steps * p.blocks \in Nat
  BY <1>1, ProductOrder
<1> HIDE DEF n
<1> QED BY <1>1, <1>2, <1>3, <1>4, <1>5, <1>6, <1>7 DEF last

\* Of a contract with printable steps only the checks on blocks reject.
LEMMA OnlyBlocksReject ==
  ASSUME NEW c \in Contract, IsWellFormed(c), Parameters(c).step <= MAX_SAFE_LUNA_AMOUNT
  PROVE  ~IsAccepted(c) <=> ~IsImmediate(Parameters(c)) /\ ExceedsBlocks(Parameters(c))
<1> DEFINE p == Parameters(c)
<1>1. p \in Parameter /\ MAX_SAFE_LUNA_AMOUNT \in Nat
  BY ParametersFit, WidthAssumption
<1>2. IsPrintable(Translation(p))
  <2> HIDE DEF p
  <2>1. CASE IsImmediate(p)
    <3>1. p.value <= MAX_SAFE_LUNA_AMOUNT
      BY <1>1 DEF Parameter
    <3> QED BY <2>1, <3>1 DEF Translation, IsPrintable
  <2>2. CASE ~IsImmediate(p)
    <3>1. p.step \in Nat /\ p.step <= MAX_SAFE_LUNA_AMOUNT
      BY <1>1, <2>2, ParameterTypes DEF p
    <3>2. /\ FirstStepAmount(p) <= MAX_SAFE_LUNA_AMOUNT
          /\ LastStepAmount(p) <= MAX_SAFE_LUNA_AMOUNT
          /\ PreVestedAmount(p) <= MAX_SAFE_LUNA_AMOUNT
      BY <1>1, <2>2, <3>1, StepAmounts
    <3> QED BY <2>2, <3>1, <3>2 DEF Translation, IsPrintable
  <2> QED BY <2>1, <2>2
<1> QED BY <1>2 DEF IsAccepted

\* Whatever the parameters of a contract multiply to, it is rejected exactly if it
\* still locks something at the last block number there is.
THEOREM UnreachableEndsAreRejected == Spec => []RejectsUnreachableEnds
<1>1. VInv => RejectsUnreachableEnds
  <2> SUFFICES ASSUME VInv, status # "unparsed", IsWellFormed(contract),
                      Parameters(contract).step <= MAX_SAFE_LUNA_AMOUNT
               PROVE  status = "error" <=> Locked(Parameters(contract), UINT32_SIZE - 1) > 0
    BY DEF RejectsUnreachableEnds
  <2> DEFINE p == Parameters(contract)
  <2>1. contract \in Contract /\ p \in Parameter
    BY ContractsAssumption, ParametersFit DEF VInv
  <2>2. status = "error" <=> ~IsAccepted(contract)
    BY DEF VInv
  <2>3. ~IsAccepted(contract) <=> ~IsImmediate(p) /\ ExceedsBlocks(p)
    BY <2>1, OnlyBlocksReject
  <2> HIDE DEF p
  <2>4. CASE IsImmediate(p)
    <3>1. Locked(p, UINT32_SIZE - 1) = 0
      BY <2>4 DEF Locked
    <3> QED BY <2>2, <2>3, <2>4, <3>1 DEF p
  <2>5. CASE ~IsImmediate(p)
    BY <2>1, <2>2, <2>3, <2>5, LockedAtLastBlock DEF p
  <2> QED BY <2>4, <2>5
<1> QED BY <1>1, Parsing, PTL

-----------------------------------------------------------------------------
(* The period *)

\* A contract of several steps has funds: without, all but one step vest the excess.
LEMMA SeveralStepsHaveFunds ==
  ASSUME NEW p \in Parameter, ~IsImmediate(p), StepCount(p) > 1
  PROVE  p.value > 0 /\ ActualSteps(p) > 1
<1> DEFINE vesting == ActualSteps(p) - Excess(p) \div p.step
<1>1. /\ vesting \in Nat /\ Excess(p) \div p.step \in Nat /\ ActualSteps(p) \in Nat
      /\ p.value \in Nat /\ p.total \in Nat
  BY ParameterTypes, StepsCoverTotal, ExcessIsPart
<1>2. vesting > 1
  <2>1. StepCount(p) = vesting % UINT32_SIZE
    BY DEF StepCount
  <2> HIDE DEF vesting
  <2>2. vesting % UINT32_SIZE <= vesting /\ vesting % UINT32_SIZE \in Nat
    BY <1>1, Wraps
  <2> QED BY <1>1, <2>1, <2>2
<1>3. CASE p.value = 0
  <2>1. Excess(p) = p.total
    BY <1>1, <1>3 DEF Excess
  <2>2. vesting <= 1
    BY <1>1, <2>1, StepsCoverTotal
  <2> QED BY <1>1, <1>2, <2>2
<1> QED BY <1>1, <1>2, <1>3

\* The period that the review displays ends with the very block that vests the last
\* funds, for every contract the parser accepts.
THEOREM PeriodsEndWithLastStep == Spec => []PeriodEndsWithLastStep
<1>1. VInv => PeriodEndsWithLastStep
  <2> DEFINE p == Parameters(contract)
             end == parsed.startBlock + parsed.period
  <2> SUFFICES ASSUME VInv, Accepted, IsMultiStep
               PROVE  Vested(p, end) = contract.value /\ Vested(p, end - 1) < contract.value
    BY DEF PeriodEndsWithLastStep
  <2>1. /\ contract \in Contract /\ p \in Parameter
        /\ parsed = Translation(p) /\ IsAccepted(contract)
    BY ContractsAssumption, ParametersFit DEF VInv, Accepted
  <2>2. contract.value = p.value
    BY DEF Parameters
  <2>3. ~IsImmediate(p)
    <3> SUFFICES ASSUME IsImmediate(p) PROVE FALSE
      OBVIOUS
    <3>1. parsed.stepCount = 0
      BY <2>1 DEF Translation
    <3> QED BY <3>1 DEF IsMultiStep
  <2>4. ~ExceedsBlocks(p)
    BY <2>1, <2>3 DEF IsAccepted
  <2> HIDE DEF p
  <2>5. parsed.startBlock = p.start /\ parsed.period = Period(p) /\ StepCount(p) > 1
    BY <2>1, <2>3 DEF Translation, IsMultiStep
  <2>6. Period(p) = ActualSteps(p) * p.blocks
    BY <2>1, <2>3, <2>4, BlocksSuffice, EndIsExact
  <2>7. /\ p.value > 0 /\ ActualSteps(p) \in Nat \ {0}
        /\ p.value \in Nat /\ p.start \in Nat /\ p.blocks \in Nat \ {0}
    BY <2>1, <2>3, <2>5, SeveralStepsHaveFunds, ParameterTypes, StepsCoverTotal
  <2> DEFINE period == ActualSteps(p) * p.blocks
  <2>8. period \in Nat \ {0}
    BY <2>7
  <2>9. period \div p.blocks = ActualSteps(p) /\ (period - 1) \div p.blocks = ActualSteps(p) - 1
    BY <2>7, QuotientOfMultiple
  <2>10. end = p.start + period
    BY <2>5, <2>6
  <2> HIDE DEF period, end
  <2>11. /\ end \in Nat /\ end - 1 \in Nat /\ p.start <= end - 1 /\ p.start <= end
         /\ end - p.start = period /\ (end - 1) - p.start = period - 1
    BY <2>7, <2>8, <2>10
  <2>12. Locked(p, end) \in Nat /\ ~(Locked(p, end) > 0)
    BY <2>1, <2>3, <2>7, <2>9, <2>11, LockedBySteps
  <2>13. Locked(p, end - 1) \in Nat /\ Locked(p, end - 1) > 0
    BY <2>1, <2>3, <2>7, <2>9, <2>11, LockedBySteps
  <2> QED BY <2>2, <2>7, <2>12, <2>13 DEF Vested, Positive
<1> QED BY <1>1, Parsing, PTL

-----------------------------------------------------------------------------
(* The schedule *)

\* The steps that only vest the excess, and those that vest funds.
Lag(p) == Excess(p) \div p.step
Steps(p) == ActualSteps(p) - Lag(p)

\* A contract that vests any funds later than at once.
VestsLater(p) == ~IsImmediate(p) /\ p.value > 0 /\ p.total > 0

\* What the k-th of these steps vests, and all up to the k-th.
Amount(p, k) ==
  IF Steps(p) = 1 THEN p.value - PreVestedAmount(p)
  ELSE IF k = 1 THEN FirstStepAmount(p)
  ELSE IF k = Steps(p) THEN LastStepAmount(p)
  ELSE p.step
VestedAfter(p, k) ==
  IF k = 0 THEN 0
  ELSE IF k = Steps(p) THEN p.value - PreVestedAmount(p)
  ELSE k * p.step - (Excess(p) % p.step)

\* The numbers of a contract that vests later, and how they make up each other.
LEMMA ScheduleNumbers ==
  ASSUME NEW p \in Parameter, VestsLater(p)
  PROVE  /\ p.value \in Nat /\ p.total \in Nat /\ p.step \in Nat \ {0} /\ p.blocks \in Nat \ {0}
         /\ p.start \in Nat
         /\ Lag(p) \in Nat /\ Steps(p) \in Nat \ {0} /\ ActualSteps(p) = Lag(p) + Steps(p)
         /\ Excess(p) \in Nat /\ Excess(p) % p.step \in Nat /\ Excess(p) % p.step < p.step
         /\ Excess(p) = Lag(p) * p.step + (Excess(p) % p.step)
         /\ p.value - PreVestedAmount(p) = p.total - Excess(p)
         /\ PreVestedAmount(p) \in Nat
         /\ PreVestedAmount(p) > 0 => Excess(p) = 0
         /\ LastStepAmount(p) \in Nat
         /\ p.total = (ActualSteps(p) - 1) * p.step + LastStepAmount(p)
<1>1. /\ p.value \in Nat /\ p.total \in Nat /\ p.step \in Nat \ {0} /\ p.blocks \in Nat \ {0}
      /\ p.start \in Nat /\ p.value > 0 /\ p.total > 0 /\ ~IsImmediate(p)
  BY ParameterTypes DEF VestsLater
<1>2. /\ Excess(p) \in Nat /\ Excess(p) <= p.total
      /\ Lag(p) \in Nat /\ Lag(p) <= ActualSteps(p) /\ ActualSteps(p) \in Nat
      /\ Excess(p) % p.step \in Nat /\ Excess(p) % p.step < p.step
      /\ Excess(p) = Lag(p) * p.step + (Excess(p) % p.step)
  BY <1>1, ExcessIsPart, StepsCoverTotal, Division DEF Lag
<1>3. /\ p.value - PreVestedAmount(p) = p.total - Excess(p) /\ PreVestedAmount(p) \in Nat
      /\ PreVestedAmount(p) > 0 => Excess(p) = 0
      /\ Excess(p) < p.total
  BY <1>1 DEF PreVestedAmount, Excess
<1>4. ActualSteps(p) > Lag(p)
  <2>1. Lag(p) * p.step <= Excess(p)
    <3>1. Lag(p) * p.step \in Nat
      BY <1>1, <1>2, ProductOrder
    <3> QED BY <1>2, <3>1
  <2>2. p.total > Lag(p) * p.step
    <3>1. Lag(p) * p.step \in Nat
      BY <1>1, <1>2, ProductOrder
    <3> QED BY <1>1, <1>2, <1>3, <2>1, <3>1
  <2> QED BY <1>1, <1>2, <2>2, StepsCoverTotal
<1>5. /\ LastStepAmount(p) \in Nat
      /\ p.total = (ActualSteps(p) - 1) * p.step + LastStepAmount(p)
  <2> DEFINE q == p.total \div p.step
             r == p.total % p.step
  <2>1. q \in Nat /\ r \in Nat /\ p.total = q * p.step + r
    BY <1>1, Division
  <2>2. ActualSteps(p) = q + (IF r # 0 THEN 1 ELSE 0)
    BY DEF ActualSteps
  <2>3. LastStepAmount(p) = IF r # 0 THEN r ELSE p.step
    BY DEF LastStepAmount
  <2> HIDE DEF q, r
  <2>4. CASE r # 0
    <3>1. ActualSteps(p) - 1 = q
      BY <2>1, <2>2, <2>4
    <3> QED BY <2>1, <2>3, <2>4, <3>1
  <2>5. CASE r = 0
    <3>1. q # 0
      <4> SUFFICES ASSUME q = 0 PROVE FALSE
        OBVIOUS
      <4>1. q * p.step = 0
        BY <1>1
      <4> QED BY <1>1, <2>1, <2>5, <4>1
    <3>2. q - 1 \in Nat /\ (q - 1) + 1 = q /\ ActualSteps(p) - 1 = q - 1
      BY <2>1, <2>2, <2>5, <3>1
    <3>3. ((q - 1) + 1) * p.step = (q - 1) * p.step + p.step
      BY <1>1, <3>2, NextMultiple
    <3>4. (q - 1) * p.step \in Nat
      BY <1>1, <3>2, ProductOrder
    <3> QED BY <1>1, <2>1, <2>3, <2>5, <3>2, <3>3, <3>4
  <2> QED BY <2>4, <2>5
<1> QED BY <1>1, <1>2, <1>3, <1>4, <1>5 DEF Steps

\* The cases of VestedAfter.
LEMMA VestedAfterCases ==
  ASSUME NEW p, NEW k
  PROVE  /\ k = 0 => VestedAfter(p, k) = 0
         /\ k # 0 /\ k = Steps(p) => VestedAfter(p, k) = p.value - PreVestedAmount(p)
         /\ k # 0 /\ k # Steps(p) => VestedAfter(p, k) = k * p.step - (Excess(p) % p.step)
BY Zenon DEF VestedAfter

\* The amounts of the steps add up.
LEMMA AmountsAddUp ==
  ASSUME NEW p \in Parameter, VestsLater(p), NEW k \in 1..Steps(p)
  PROVE  /\ VestedAfter(p, k) = VestedAfter(p, k - 1) + Amount(p, k)
         /\ Amount(p, k) \in Nat
<1> DEFINE rest == Excess(p) % p.step
           N == Steps(p)
           lag == Lag(p)
           s == p.step
           last == LastStepAmount(p)
           funds == p.value - PreVestedAmount(p)
<1>1. /\ s \in Nat \ {0} /\ N \in Nat \ {0} /\ lag \in Nat /\ k \in Nat \ {0} /\ k <= N
      /\ rest \in Nat /\ rest < s /\ last \in Nat
      /\ Excess(p) \in Nat /\ p.total \in Nat
  BY ScheduleNumbers
<1>2. /\ Excess(p) = lag * s + rest /\ funds = p.total - Excess(p)
      /\ p.total = (ActualSteps(p) - 1) * s + last /\ ActualSteps(p) = lag + N
  BY ScheduleNumbers
<1>3. FirstStepAmount(p) = s - rest
  BY DEF FirstStepAmount
<1>4. funds \in Nat
  BY <1>1, ScheduleNumbers DEF Excess, PreVestedAmount
<1>5. VestedAfter(p, k) = IF k = N THEN funds ELSE k * s - rest
  <2>1. k # 0
    BY <1>1
  <2> QED BY <2>1, VestedAfterCases
<1>6. VestedAfter(p, k - 1) = IF k = 1 THEN 0 ELSE (k - 1) * s - rest
  <2>1. (k - 1 = 0 <=> k = 1) /\ k - 1 # N
    BY <1>1
  <2> QED BY <2>1, VestedAfterCases
<1>7. Amount(p, k) = IF N = 1 THEN funds ELSE IF k = 1 THEN s - rest ELSE IF k = N THEN last ELSE s
  BY <1>3 DEF Amount
<1>8. (lag + N - 1) * s = lag * s + (N - 1) * s
  BY <1>1
<1>9. funds = (N - 1) * s + last - rest
  <2>1. lag * s \in Nat /\ (N - 1) * s \in Nat
    BY <1>1, ProductOrder
  <2>2. p.total = lag * s + (N - 1) * s + last
    BY <1>1, <1>2, <1>8
  <2> QED BY <1>1, <1>2, <2>1, <2>2
<1>10. ((k - 1) + 1) * s = (k - 1) * s + s /\ (k - 1) + 1 = k /\ (k - 1) * s \in Nat
  BY <1>1, NextMultiple, ProductOrder
<1>11. (1 - 1) * s = 0 /\ 1 * s = s
  BY <1>1
<1> HIDE DEF rest, N, lag, s, last, funds
<1>12. CASE N = 1
  <2>1. k = 1
    BY <1>1, <1>12
  <2> QED BY <1>4, <1>5, <1>6, <1>7, <1>12, <2>1
<1>13. CASE N # 1 /\ k = 1
  <2>1. VestedAfter(p, k) = 1 * s - rest
    BY <1>5, <1>13
  <2> QED BY <1>1, <1>6, <1>7, <1>11, <1>13, <2>1
<1>14. CASE k # 1 /\ k = N
  <2>1. N # 1
    BY <1>14
  <2>2. VestedAfter(p, k) = (k - 1) * s + last - rest
    BY <1>5, <1>9, <1>14
  <2> QED BY <1>1, <1>6, <1>7, <1>10, <1>14, <2>1, <2>2
<1>15. CASE k # 1 /\ k # N
  <2>1. N # 1
    BY <1>1, <1>15
  <2>2. VestedAfter(p, k) = (k - 1) * s + s - rest
    BY <1>1, <1>5, <1>10, <1>15
  <2> QED BY <1>1, <1>6, <1>7, <1>10, <1>15, <2>1, <2>2
<1> QED BY <1>12, <1>13, <1>14, <1>15

\* How many of the steps are over after n times the blocks per step.
Over(p, n) == IF n <= Lag(p) THEN 0 ELSE IF n < ActualSteps(p) THEN n - Lag(p) ELSE Steps(p)

\* What is pre-vested and what the steps vest that are over is what the network has
\* vested.
LEMMA VestedBySteps ==
  ASSUME NEW p \in Parameter, VestsLater(p), NEW block \in Nat, p.start <= block
  PROVE  /\ (block - p.start) \div p.blocks \in Nat
         /\ PreVestedAmount(p) + VestedAfter(p, Over(p, (block - p.start) \div p.blocks))
              = Vested(p, block)
<1> DEFINE n == (block - p.start) \div p.blocks
           rest == Excess(p) % p.step
           N == Steps(p)
           lag == Lag(p)
           s == p.step
           pre == PreVestedAmount(p)
<1>1. /\ s \in Nat \ {0} /\ N \in Nat \ {0} /\ lag \in Nat /\ p.value \in Nat /\ p.total \in Nat
      /\ rest \in Nat /\ rest < s /\ p.start \in Nat /\ p.blocks \in Nat \ {0}
      /\ Excess(p) \in Nat /\ Excess(p) = lag * s + rest
      /\ p.value - pre = p.total - Excess(p) /\ pre \in Nat /\ (pre > 0 => Excess(p) = 0)
      /\ ActualSteps(p) = lag + N
  BY ScheduleNumbers
<1>2. n \in Nat
  <2>1. block - p.start \in Nat
    BY <1>1
  <2> QED BY <1>1, <2>1, Division
<1>3. Locked(p, block) = Positive(p.total - n * s)
  BY DEF Locked, VestsLater
<1>4. lag + N > n <=> p.total > n * s
  BY <1>1, <1>2, StepsCoverTotal DEF VestsLater
<1> HIDE DEF n, rest, N, lag, s, pre
<1>5. n * s \in Nat /\ lag * s \in Nat
  BY <1>1, <1>2, ProductOrder
<1>6. CASE n <= lag
  <2>1. n * s <= lag * s
    BY <1>1, <1>2, <1>6, ProductOrder
  <2>2. VestedAfter(p, Over(p, n)) = 0
    BY <1>6 DEF Over, VestedAfter, lag
  <2>3. p.total > n * s
    BY <1>1, <1>2, <1>4, <1>6
  <2>4. Vested(p, block) = Positive(p.value - (p.total - n * s))
    BY <1>1, <1>3, <1>5, <2>3 DEF Vested, Positive
  <2>5. CASE pre = 0
    BY <1>1, <1>5, <2>1, <2>2, <2>4, <2>5 DEF Positive, n, pre
  <2>6. CASE pre > 0
    <3>1. lag * s = 0 /\ n * s = 0
      BY <1>1, <1>5, <2>1, <2>6
    <3>2. Vested(p, block) = pre
      BY <1>1, <2>4, <2>6, <3>1 DEF Positive
    <3> QED BY <1>1, <1>2, <2>2, <3>2 DEF n, pre
  <2> QED BY <1>1, <1>2, <2>5, <2>6 DEF n
<1>7. CASE lag < n /\ n < lag + N
  <2>1. Over(p, n) = n - lag /\ n - lag # 0 /\ n - lag # N
    BY <1>1, <1>2, <1>7 DEF Over, lag
  <2>2. VestedAfter(p, Over(p, n)) = (n - lag) * s - rest
    <3>1. VestedAfter(p, n - lag) = (n - lag) * s - rest
      BY <2>1, VestedAfterCases DEF N, s, rest
    <3> QED BY Zenon, <2>1, <3>1
  <2>3. (n - lag) * s = n * s - lag * s
    BY <1>1, <1>2
  <2>4. p.total > n * s
    BY <1>1, <1>2, <1>4, <1>7
  <2>5. Vested(p, block) = Positive(p.value - (p.total - n * s))
    BY <1>1, <1>3, <1>5, <2>4 DEF Vested, Positive
  <2>6. s <= (n - lag) * s
    <3>1. 1 * s <= (n - lag) * s
      BY <1>1, <1>2, <1>7, ProductOrder
    <3> QED BY <1>1, <3>1
  <2>7. Vested(p, block) = pre + ((n - lag) * s - rest)
    BY <1>1, <1>5, <2>3, <2>5, <2>6 DEF Positive
  <2> QED BY <1>2, <2>2, <2>7 DEF n, pre
<1>8. CASE lag + N <= n
  <2>1. Over(p, n) = N
    <3>1. ~(n <= lag) /\ ~(n < ActualSteps(p))
      BY <1>1, <1>2, <1>8
    <3> QED BY Zenon, <3>1 DEF Over, lag, N
  <2>2. VestedAfter(p, Over(p, n)) = p.value - pre
    BY <1>1, <2>1 DEF VestedAfter, N, pre
  <2>3. Locked(p, block) = 0
    BY <1>1, <1>2, <1>3, <1>4, <1>5, <1>8 DEF Positive
  <2>4. Vested(p, block) = p.value
    BY <1>1, <2>3 DEF Vested, Positive
  <2> QED BY <1>1, <1>2, <2>2, <2>4 DEF n, pre
<1> QED BY <1>1, <1>2, <1>6, <1>7, <1>8

-----------------------------------------------------------------------------
(* What the review says *)

\* Which fields are displayed.
LEMMA WhichFields ==
  /\ "preVestedAmount" \in ShownFields <=> parsed.preVestedAmount # 0
  /\ \A f \in {"startBlock", "period", "stepCount", "stepBlockCount"} :
       f \in ShownFields <=> IsMultiStep
  /\ "firstStepBlock" \in ShownFields <=> ~IsMultiStep
  /\ "firstStepBlockCount" \in ShownFields <=>
       IsMultiStep /\ parsed.firstStepBlockCount # parsed.stepBlockCount
  /\ "stepAmount" \in ShownFields <=> HasStepAmountEntry
  /\ "firstStepAmount" \in ShownFields <=>
       IsMultiStep /\ parsed.firstStepAmount # parsed.stepAmount
  /\ "lastStepAmount" \in ShownFields <=>
       IsMultiStep /\ parsed.lastStepAmount # parsed.stepAmount
BY DEF ShownFields

\* An entry says what is parsed, or nothing.
LEMMA EntriesSay ==
  ASSUME NEW entry, NEW otherwise
  PROVE  Shown(entry, otherwise) = IF entry \in ShownFields THEN parsed[entry] ELSE otherwise
BY DEF Shown, Entries

\* Nothing is pre-vested where no entry says so.
LEMMA PreVestedIsShown == Shown("preVestedAmount", 0) = parsed.preVestedAmount
BY WhichFields, EntriesSay

\* The review of a single step: its block is displayed, its amount is what is not
\* pre-vested.
LEMMA SingleStepIsShown ==
  ASSUME ~IsMultiStep
  PROVE  /\ ShownSteps = 1
         /\ \A k : /\ ShownStepBlock(k) = parsed.firstStepBlock
                   /\ ShownStepAmount(k) = contract.value - parsed.preVestedAmount
<1>1. ShownSteps = 1
  BY WhichFields, EntriesSay DEF ShownSteps
<1>2. \A k : ShownStepBlock(k) = parsed.firstStepBlock
  BY WhichFields DEF ShownStepBlock, Entries
<1>3. \A k : ShownStepAmount(k) = contract.value - parsed.preVestedAmount
  BY <1>1, PreVestedIsShown DEF ShownStepAmount
<1> QED BY <1>1, <1>2, <1>3

\* The review of several steps: what is left out is said by another entry.
LEMMA SeveralStepsAreShown ==
  ASSUME IsMultiStep, parsed.stepCount \in Nat
  PROVE  /\ ShownSteps = parsed.stepCount
         /\ \A k : ShownStepBlock(k)
                     = parsed.startBlock + parsed.firstStepBlockCount
                         + (k - 1) * parsed.stepBlockCount
         /\ \A k \in 1..parsed.stepCount :
              ShownStepAmount(k) = IF k = 1 THEN parsed.firstStepAmount
                                   ELSE IF k = parsed.stepCount THEN parsed.lastStepAmount
                                   ELSE parsed.stepAmount
<1>1. ShownSteps = parsed.stepCount
  BY WhichFields, EntriesSay DEF ShownSteps
<1>2. ASSUME NEW k
      PROVE  ShownStepBlock(k) = parsed.startBlock + parsed.firstStepBlockCount
                                   + (k - 1) * parsed.stepBlockCount
  <2>1. Shown("firstStepBlockCount", parsed.stepBlockCount) = parsed.firstStepBlockCount
    BY WhichFields, EntriesSay
  <2>2. /\ "firstStepBlock" \notin DOMAIN Entries
        /\ Entries["startBlock"] = parsed.startBlock
        /\ Entries["stepBlockCount"] = parsed.stepBlockCount
    BY WhichFields DEF Entries
  <2> QED BY <2>1, <2>2 DEF ShownStepBlock
<1>3. ASSUME NEW k \in 1..parsed.stepCount
      PROVE  ShownStepAmount(k) = IF k = 1 THEN parsed.firstStepAmount
                                  ELSE IF k = parsed.stepCount THEN parsed.lastStepAmount
                                  ELSE parsed.stepAmount
  <2> DEFINE regular == Shown("stepAmount", 0)
  <2>1. HasStepAmountEntry => regular = parsed.stepAmount
    BY WhichFields, EntriesSay
  <2>2. ~HasStepAmountEntry =>
          /\ parsed.stepCount = 2 /\ parsed.firstStepAmount # parsed.stepAmount
          /\ parsed.lastStepAmount # parsed.stepAmount
    BY DEF HasStepAmountEntry
  <2> HIDE DEF regular
  <2>3. /\ Shown("firstStepAmount", regular) =
             IF parsed.firstStepAmount # parsed.stepAmount THEN parsed.firstStepAmount
             ELSE regular
        /\ Shown("lastStepAmount", regular) =
             IF parsed.lastStepAmount # parsed.stepAmount THEN parsed.lastStepAmount
             ELSE regular
    BY WhichFields, EntriesSay
  <2>4. ShownSteps # 1
    BY <1>1 DEF IsMultiStep
  <2>5. ShownStepAmount(k) = IF k = 1 THEN Shown("firstStepAmount", regular)
                             ELSE IF k = ShownSteps THEN Shown("lastStepAmount", regular)
                             ELSE regular
    BY <2>4 DEF ShownStepAmount, regular
  <2>6. ~HasStepAmountEntry => k = 1 \/ k = parsed.stepCount
    BY <2>2
  <2> QED BY <1>1, <2>1, <2>2, <2>3, <2>5, <2>6
<1> QED BY <1>1, <1>2, <1>3

\* The sum of what the first steps vest: of those up to some step, and of no other.
LEMMA SumOfFirst ==
  ASSUME NEW p \in Parameter, VestsLater(p), NEW over \in 0..Steps(p), NEW d,
         \A k \in 1..Steps(p) : d[k] = IF k <= over THEN Amount(p, k) ELSE 0
  PROVE  SumTo(d, Steps(p)) = VestedAfter(p, over)
<1> DEFINE N == Steps(p)
           g == [k \in 0..N |-> VestedAfter(p, IF k <= over THEN k ELSE over)]
<1>1. N \in Nat /\ over \in Nat /\ over <= N
  BY ScheduleNumbers
<1>2. g[0] = 0
  BY <1>1, VestedAfterCases
<1>3. ASSUME NEW k \in 1..N PROVE g[k] = g[k - 1] + d[k]
  <2>1. k \in 0..N /\ k - 1 \in 0..N
    BY <1>1
  <2>2. CASE k <= over
    <3>1. g[k] = VestedAfter(p, k) /\ g[k - 1] = VestedAfter(p, k - 1)
      BY <1>1, <2>1, <2>2
    <3> QED BY <2>2, <3>1, AmountsAddUp
  <2>3. CASE ~(k <= over)
    <3>1. g[k] = VestedAfter(p, over) /\ d[k] = 0
      BY <2>1, <2>3
    <3>2. g[k - 1] = VestedAfter(p, over)
      <4>1. CASE k - 1 <= over
        <5>1. k - 1 = over
          BY <1>1, <2>3, <4>1
        <5> QED BY <2>1, <4>1, <5>1
      <4>2. CASE ~(k - 1 <= over)
        BY <2>1, <4>2
      <4> QED BY <4>1, <4>2
    <3>3. VestedAfter(p, over) \in Int
      <4>1. /\ p.value - PreVestedAmount(p) \in Int /\ over * p.step \in Int
            /\ Excess(p) % p.step \in Int
        BY <1>1, ScheduleNumbers
      <4> QED BY <4>1, VestedAfterCases
    <3> HIDE DEF g
    <3> QED BY <3>1, <3>2, <3>3
  <2> QED BY <2>2, <2>3
<1>4. g[N] = VestedAfter(p, over)
  BY <1>1
<1> HIDE DEF g
<1>5. AddsUp(g, d, N)
  BY <1>2, <1>3 DEF AddsUp
<1>6. SumTo(d, N) = g[N]
  BY <1>1, <1>5, SumIs
<1> QED BY <1>4, <1>6

\* A step is over at a block if its place among all steps, those of the excess too, is
\* among the blocks-per-step gone by.
LEMMA StepIsOver ==
  ASSUME NEW p \in Parameter, VestsLater(p), NEW block \in Nat, p.start <= block,
         NEW k \in 1..Steps(p)
  PROVE  p.start + (Lag(p) + k) * p.blocks <= block
           <=> k <= Over(p, (block - p.start) \div p.blocks)
<1> DEFINE n == (block - p.start) \div p.blocks
           place == Lag(p) + k
<1>1. /\ p.start \in Nat /\ p.blocks \in Nat \ {0} /\ Lag(p) \in Nat /\ Steps(p) \in Nat \ {0}
      /\ ActualSteps(p) = Lag(p) + Steps(p)
  BY ScheduleNumbers
<1>2. block - p.start \in Nat /\ place \in Nat
  BY <1>1
<1>3. n \in Nat
  BY <1>1, <1>2, Division
<1>4. place * p.blocks <= block - p.start <=> place <= n
  BY <1>1, <1>2, QuotientIsLargest
<1>5. place * p.blocks \in Nat
  BY <1>1, <1>2, ProductOrder
<1>6. place <= n <=> k <= Over(p, n)
  <2> HIDE DEF n
  <2>1. CASE n <= Lag(p)
    BY <1>1, <1>3, <2>1 DEF Over
  <2>2. CASE Lag(p) < n /\ n < ActualSteps(p)
    <3>1. Over(p, n) = n - Lag(p)
      BY <1>1, <1>3, <2>2 DEF Over
    <3> QED BY <1>1, <1>3, <3>1
  <2>3. CASE ActualSteps(p) <= n
    <3>1. Over(p, n) = Steps(p)
      <4>1. ~(n <= Lag(p))
        BY <1>1, <1>3, <2>3
      <4>2. ~(n < ActualSteps(p))
        BY <1>1, <1>3, <2>3
      <4> QED BY <4>1, <4>2, Zenon DEF Over
    <3> QED BY <1>1, <1>3, <2>3, <3>1
  <2> QED BY <1>1, <1>3, <2>1, <2>2, <2>3
<1> HIDE DEF place, n
<1>7. p.start + place * p.blocks <= block <=> place * p.blocks <= block - p.start
  BY <1>1, <1>5
<1> QED BY <1>4, <1>6, <1>7 DEF n, place

\* What the translation of a contract that vests later says of it: no number wraps.
LEMMA ScheduleIsTranslated ==
  ASSUME NEW p \in Parameter, VestsLater(p), ~ExceedsBlocks(p)
  PROVE  /\ Translation(p).preVestedAmount = PreVestedAmount(p)
         /\ Translation(p).stepCount = Steps(p)
         /\ Translation(p).startBlock = p.start
         /\ Translation(p).stepBlockCount = p.blocks
         /\ Steps(p) > 1 => Translation(p).firstStepBlockCount = (Lag(p) + 1) * p.blocks
         /\ Translation(p).firstStepBlock = p.start + (Lag(p) + 1) * p.blocks
         /\ Translation(p).stepAmount = p.step
         /\ Translation(p).firstStepAmount = FirstStepAmount(p)
         /\ Translation(p).lastStepAmount = LastStepAmount(p)
<1> DEFINE last == UINT32_SIZE - 1
           first == (Lag(p) + 1) * p.blocks
<1>1. /\ p.start \in Nat /\ p.blocks \in Nat \ {0} /\ Lag(p) \in Nat /\ Steps(p) \in Nat \ {0}
      /\ ActualSteps(p) = Lag(p) + Steps(p)
  BY ScheduleNumbers
<1>2. /\ ~IsImmediate(p)
      /\ ActualSteps(p) <= last /\ ActualSteps(p) * p.blocks + p.start <= last
  BY BlocksSuffice DEF VestsLater
<1>3. last \in Nat /\ UINT32_SIZE \in Nat /\ last < UINT32_SIZE
  BY WidthAssumption
<1>4. first \in Nat /\ first <= ActualSteps(p) * p.blocks /\ ActualSteps(p) * p.blocks \in Nat
  <2>1. Lag(p) + 1 \in Nat /\ ActualSteps(p) \in Nat /\ Lag(p) + 1 <= ActualSteps(p)
    BY <1>1
  <2> QED BY <1>1, <2>1, ProductOrder
<1>5. first = p.blocks + Lag(p) * p.blocks
  BY <1>1, NextMultiple
<1> HIDE DEF last, first
<1>6. first % UINT32_SIZE = first /\ (p.start + first) % UINT32_SIZE = p.start + first
  <2>1. /\ first \in 0..(UINT32_SIZE - 1) /\ p.start + first \in 0..(UINT32_SIZE - 1)
    BY <1>1, <1>2, <1>3, <1>4 DEF last
  <2> QED BY <1>3, <2>1
<1>7. StepCount(p) = Steps(p)
  <2>1. Steps(p) \in 0..(UINT32_SIZE - 1)
    BY <1>1, <1>2, <1>3 DEF last
  <2>2. Steps(p) % UINT32_SIZE = Steps(p)
    BY <1>3, <2>1
  <2> QED BY <2>2 DEF StepCount, Steps, Lag
<1>8. FirstStepBlockCount(p) = first
  BY <1>5, <1>6 DEF FirstStepBlockCount, Lag
<1> QED BY <1>2, <1>6, <1>7, <1>8 DEF Translation, first

\* The review shows what each of these steps vests, and when.
LEMMA StepsAreShown ==
  ASSUME NEW p \in Parameter, VestsLater(p), ~ExceedsBlocks(p), parsed = Translation(p),
         p.value = contract.value
  PROVE  /\ ShownSteps = Steps(p)
         /\ \A k \in 1..Steps(p) : /\ ShownStepBlock(k) = p.start + (Lag(p) + k) * p.blocks
                                   /\ ShownStepAmount(k) = Amount(p, k)
<1>1. /\ p.start \in Nat /\ p.blocks \in Nat \ {0} /\ Lag(p) \in Nat /\ Steps(p) \in Nat \ {0}
  BY ScheduleNumbers
<1>2. /\ parsed.preVestedAmount = PreVestedAmount(p) /\ parsed.stepCount = Steps(p)
      /\ parsed.startBlock = p.start /\ parsed.stepBlockCount = p.blocks
      /\ Steps(p) > 1 => parsed.firstStepBlockCount = (Lag(p) + 1) * p.blocks
      /\ parsed.firstStepBlock = p.start + (Lag(p) + 1) * p.blocks
      /\ parsed.stepAmount = p.step /\ parsed.firstStepAmount = FirstStepAmount(p)
      /\ parsed.lastStepAmount = LastStepAmount(p)
  BY ScheduleIsTranslated
<1>3. CASE Steps(p) = 1
  <2>1. ~IsMultiStep
    BY <1>2, <1>3 DEF IsMultiStep
  <2>2. 1..Steps(p) = {1}
    BY <1>3
  <2>3. Amount(p, 1) = p.value - PreVestedAmount(p)
    BY <1>3 DEF Amount
  <2> QED BY <1>2, <1>3, <2>1, <2>2, <2>3, SingleStepIsShown
<1>4. CASE Steps(p) > 1
  <2>1. IsMultiStep /\ parsed.stepCount \in Nat
    BY <1>1, <1>2, <1>4 DEF IsMultiStep
  <2>2. ASSUME NEW k \in 1..Steps(p)
        PROVE  /\ ShownStepBlock(k) = p.start + (Lag(p) + k) * p.blocks
               /\ ShownStepAmount(k) = Amount(p, k)
    <3>1. ShownStepBlock(k) = p.start + (Lag(p) + 1) * p.blocks + (k - 1) * p.blocks
      BY <1>2, <1>4, <2>1, SeveralStepsAreShown
    <3>2. (Lag(p) + 1) * p.blocks + (k - 1) * p.blocks = (Lag(p) + k) * p.blocks
      BY <1>1
    <3>3. (Lag(p) + 1) * p.blocks \in Nat /\ (k - 1) * p.blocks \in Nat
      BY <1>1
    <3>4. ShownStepAmount(k) = IF k = 1 THEN FirstStepAmount(p)
                               ELSE IF k = Steps(p) THEN LastStepAmount(p)
                               ELSE p.step
      BY <1>2, <2>1, SeveralStepsAreShown
    <3>5. Amount(p, k) = IF k = 1 THEN FirstStepAmount(p)
                         ELSE IF k = Steps(p) THEN LastStepAmount(p)
                         ELSE p.step
      BY <1>4 DEF Amount
    <3> QED BY <1>1, <3>1, <3>2, <3>3, <3>4, <3>5
  <2> QED BY <1>2, <2>1, <2>2, SeveralStepsAreShown
<1> QED BY <1>1, <1>3, <1>4

\* A contract that vests all of its funds at once, or has none: it is shown as a
\* single step of no amount, and all that it has as pre-vested.
LEMMA VestedAtOnce ==
  ASSUME NEW p \in Parameter, ~VestsLater(p), ~IsImmediate(p) => ~ExceedsBlocks(p),
         parsed = Translation(p), p.value = contract.value
  PROVE  /\ ~IsMultiStep
         /\ contract.value - parsed.preVestedAmount = 0
         /\ \A block \in Nat : p.start <= block => Vested(p, block) = parsed.preVestedAmount
         /\ parsed.preVestedAmount \in Nat
<1>1. p.value \in Nat /\ p.total \in Nat /\ p.start \in Nat
  BY WidthAssumption DEF Parameter
<1>2. CASE IsImmediate(p)
  <2>1. parsed.stepCount = 0 /\ parsed.preVestedAmount = p.value
    BY <1>2 DEF Translation
  <2>2. \A block : Vested(p, block) = p.value
    BY <1>1, <1>2 DEF Vested, Locked, Positive
  <2> QED BY <1>1, <2>1, <2>2 DEF IsMultiStep
<1>3. CASE ~IsImmediate(p)
  <2>1. p.value = 0 \/ p.total = 0
    BY <1>1, <1>3 DEF VestsLater
  <2>2. parsed.stepCount = StepCount(p) /\ parsed.preVestedAmount = PreVestedAmount(p)
    BY <1>3 DEF Translation
  <2>3. PreVestedAmount(p) = p.value
    BY <1>1, <2>1 DEF PreVestedAmount
  <2>4. ~IsMultiStep
    <3> SUFFICES ASSUME StepCount(p) > 1 PROVE FALSE
      BY <2>2 DEF IsMultiStep
    <3>1. p.value > 0 /\ ActualSteps(p) > 1
      BY <1>3, SeveralStepsHaveFunds
    <3>2. p.total = 0
      BY <2>1, <3>1, <1>1
    <3>3. p.step \in Nat \ {0}
      BY <1>3, ParameterTypes
    <3>4. ~(p.total > 1 * p.step)
      BY <3>2, <3>3
    <3>5. ~(ActualSteps(p) > 1)
      BY <1>3, <3>4, StepsCoverTotal
    <3> QED BY <3>1, <3>5
  <2>5. ASSUME NEW block \in Nat, p.start <= block PROVE Vested(p, block) = p.value
    <3>1. Locked(p, block) \in Nat
      BY <1>3, <2>5, LockedBySteps
    <3>2. p.total = 0 => Locked(p, block) = 0
      <4> SUFFICES ASSUME p.total = 0 PROVE ~(Locked(p, block) > 0)
        BY <3>1
      <4> DEFINE n == (block - p.start) \div p.blocks
      <4>1. n \in Nat /\ p.step \in Nat
        <5>1. block - p.start \in Nat /\ p.blocks \in Nat \ {0} /\ p.step \in Nat
          BY <1>1, <1>3, <2>5, ParameterTypes
        <5> QED BY <5>1, Division
      <4> HIDE DEF n
      <4>2. n * p.step \in Nat
        BY <4>1
      <4>3. ~(ActualSteps(p) > n)
        BY <1>3, <4>1, <4>2, StepsCoverTotal
      <4> QED BY <1>3, <2>5, <4>3, LockedBySteps DEF n
    <3> QED BY <1>1, <2>1, <3>1, <3>2 DEF Vested, Positive
  <2> QED BY <1>1, <2>2, <2>3, <2>4, <2>5
<1> QED BY <1>2, <1>3

\* The entries the review displays, with what it leaves out as redundant and whatever
\* excess a client makes the contract lock, determine how much of the contract's funds
\* is vested at every block from the start of vesting on.
THEOREM ReviewTellsVesting == Spec => []ReviewTellsSchedule
<1> DEFINE p == Parameters(contract)
           Due(block) == [k \in 1..ShownSteps |->
                            IF ShownStepBlock(k) <= block THEN ShownStepAmount(k) ELSE 0]
<1>1. ASSUME VInv, Accepted, NEW block \in Nat, p.start <= block
      PROVE  ShownVested(block) = Vested(p, block)
  <2>1. /\ p \in Parameter /\ p.value = contract.value /\ parsed = Translation(p)
        /\ ~IsImmediate(p) => ~ExceedsBlocks(p)
    BY <1>1, ContractsAssumption, ParametersFit DEF VInv, Accepted, IsAccepted, Parameters
  <2>2. ShownVested(block) = parsed.preVestedAmount + SumTo(Due(block), ShownSteps)
    BY PreVestedIsShown DEF ShownVested
  <2> HIDE DEF p
  <2>3. CASE VestsLater(p)
    <3> DEFINE over == Over(p, (block - p.start) \div p.blocks)
    <3>1. /\ ShownSteps = Steps(p) /\ Steps(p) \in Nat
          /\ parsed.preVestedAmount = PreVestedAmount(p)
      BY <2>1, <2>3, StepsAreShown, ScheduleIsTranslated, ScheduleNumbers DEF VestsLater
    <3>2. ASSUME NEW k \in 1..Steps(p)
          PROVE  Due(block)[k] = IF k <= over THEN Amount(p, k) ELSE 0
      <4>1. /\ ShownStepBlock(k) = p.start + (Lag(p) + k) * p.blocks
            /\ ShownStepAmount(k) = Amount(p, k)
        BY <2>1, <2>3, StepsAreShown DEF VestsLater
      <4>2. p.start + (Lag(p) + k) * p.blocks <= block <=> k <= over
        BY <1>1, <2>1, <2>3, StepIsOver
      <4>3. k \in 1..ShownSteps
        BY <3>1
      <4> HIDE DEF over
      <4> QED BY <4>1, <4>2, <4>3
    <3>3. over \in 0..Steps(p)
      <4> DEFINE n == (block - p.start) \div p.blocks
      <4>1. n \in Nat
        BY <1>1, <2>1, <2>3, VestedBySteps
      <4>2. /\ Lag(p) \in Nat /\ Steps(p) \in Nat \ {0} /\ ActualSteps(p) = Lag(p) + Steps(p)
        BY <2>1, <2>3, ScheduleNumbers
      <4> HIDE DEF n
      <4>3. Over(p, n) \in 0..Steps(p)
        BY <4>1, <4>2 DEF Over
      <4> QED BY <4>3 DEF n
    <3>4. PreVestedAmount(p) + VestedAfter(p, over) = Vested(p, block)
      BY <1>1, <2>1, <2>3, VestedBySteps
    <3> DEFINE due == Due(block)
    <3> HIDE DEF over, due
    <3>5. \A k \in 1..Steps(p) : due[k] = IF k <= over THEN Amount(p, k) ELSE 0
      BY <3>2 DEF due
    <3>6. SumTo(due, Steps(p)) = VestedAfter(p, over)
      BY <2>1, <2>3, <3>3, <3>5, SumOfFirst
    <3>7. ShownVested(block) = parsed.preVestedAmount + SumTo(due, ShownSteps)
      BY <2>2 DEF due
    <3> QED BY <3>1, <3>4, <3>6, <3>7
  <2>4. CASE ~VestsLater(p)
    <3>1. /\ ~IsMultiStep /\ contract.value - parsed.preVestedAmount = 0
          /\ Vested(p, block) = parsed.preVestedAmount /\ parsed.preVestedAmount \in Nat
      BY <1>1, <2>1, <2>4, VestedAtOnce
    <3>2. ShownSteps = 1 /\ ShownStepAmount(1) = 0
      BY <3>1, SingleStepIsShown
    <3> DEFINE due == Due(block)
               none == [k \in 0..1 |-> 0]
    <3>3. due[1] = 0
      BY <3>2
    <3> HIDE DEF due
    <3>4. AddsUp(none, due, 1)
      BY <3>3 DEF AddsUp
    <3>5. SumTo(due, 1) = none[1]
      BY <3>4, SumIs
    <3>6. ShownVested(block) = parsed.preVestedAmount + SumTo(due, ShownSteps)
      BY <2>2 DEF due
    <3> QED BY <3>1, <3>2, <3>5, <3>6
  <2> QED BY <2>3, <2>4
<1>2. VInv => ReviewTellsSchedule
  <2> SUFFICES ASSUME VInv, Accepted, NEW block \in BlocksFrom(p.start)
               PROVE  ShownVested(block) = Vested(p, block)
    BY DEF ReviewTellsSchedule
  <2>1. p \in Parameter
    BY ContractsAssumption, ParametersFit DEF VInv
  <2> HIDE DEF p
  <2>2. p.start \in Nat
    BY <2>1, WidthAssumption DEF Parameter
  <2>3. block \in Nat /\ p.start <= block
    BY <2>2, WidthAssumption DEF BlocksFrom
  <2> QED BY <1>1, <2>3 DEF p
<1> QED BY <1>2, Parsing, PTL
=============================================================================
