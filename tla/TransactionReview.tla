------------------------- MODULE TransactionReview -------------------------
(***************************************************************************)
(* parse_tx() (src/nimiq_utils.c, src/nimiq_staking_utils.c) and the       *)
(* entries of the transaction review, on devices with buttons              *)
(* (src/nimiq_ux_bagl.c) and with a touch screen (src/nimiq_ux_nbgl.c).    *)
(*                                                                         *)
(* The parser writes what the review displays into ctx.req.tx.parsed.      *)
(* The type specific part of that memory is a union, and every branch of   *)
(* the parser writes only the fields it knows of into it; before,          *)
(* handle_sign_transaction() sets all of it to zero.  The review in turn   *)
(* leaves out what is redundant, depending on those fields.  The module    *)
(* follows the memory over any sequence of transactions and other          *)
(* requests, and compares what the user reads with what the transaction    *)
(* does.                                                                   *)
(*                                                                         *)
(* A transaction is a record of its fields.  Addresses, kinds of data and  *)
(* contract parameters are abstract; the vesting parameters are one value, *)
(* which module VestingCreation takes apart.                               *)
(***************************************************************************)
EXTENDS Integers, Sequences, FiniteSets

CONSTANTS
  Transactions,                 \* the transactions a client may send
  STAKING_CONTRACT,             \* address of the staking contract
  MAX_SAFE_LUNA_AMOUNT,         \* constants.h: the largest amount that is printed
  UINT32_SIZE,                  \* number of values of a uint32_t, 2^32 on the device
  HTLC_TIMEOUT_SOON_THRESHOLD,  \* nimiq_utils.c: blocks of a short HTLC timeout
  EMPTY,                        \* the empty string, what a field set to zero holds
  GARBAGE                       \* what a field holds after its memory was reused

VARIABLES
  tx,       \* the transaction under review, or NoTransaction
  parsed,   \* type, label type, value, fee and network in ctx.req.tx.parsed
  specific  \* the fields of its union type_specific

vars == <<tx, parsed, specific>>

NoTransaction == [version |-> "none"]
Unparsed == [type |-> "none", label |-> "none", value |-> 0, fee |-> 0, network |-> EMPTY]

-----------------------------------------------------------------------------
(* Memory *)

NormalFields == {"recipient", "extraDataLabel", "extraData"}
HtlcFields == {"redeem", "refund", "isRefundSender", "isSoon", "algorithm", "hashRoot",
               "hashCount", "timeout"}
VestingFields == {"owner", "isOwnerSender", "schedule"}
StakingFields == {"stakingType", "hasProof", "proof", "staker"}
StakerFields == StakingFields \cup {"delegation", "reactivate"}
AmountFields == StakingFields \cup {"amount"}

\* The alternatives of the unions: fields of one of them have memory of their own.
Layouts == {NormalFields, HtlcFields, VestingFields, StakerFields, AmountFields}
Fields == UNION Layouts

\* The union set to zero and then written the given fields: others are zero if
\* there is a layout they share with those, and are overwritten otherwise.
Written(fields) ==
  [f \in Fields |->
     IF f \in DOMAIN fields THEN fields[f]
     ELSE IF \E layout \in Layouts : DOMAIN fields \cup {f} \subseteq layout
     THEN EMPTY ELSE GARBAGE]

-----------------------------------------------------------------------------
(* parse_tx: each branch is the set of its results, empty on an error *)

NetworkName(version, id) ==
  LET ids == IF version = "LEGACY" THEN <<42, 1, 2, 3>> ELSE <<24, 5, 6, 7>>
      names == <<"Main", "Test", "Development", "Bounty">>
  IN IF \E i \in 1..4 : ids[i] = id THEN names[CHOOSE i \in 1..4 : ids[i] = id] ELSE EMPTY

Result(type, label, fields) == {[type |-> type, label |-> label, fields |-> fields]}

ParseStakingOutgoing(t) ==
  IF /\ t.flags = {} /\ t.data.kind = "empty"
     /\ t.sender = STAKING_CONTRACT
     /\ t.version = "ALBATROSS" /\ t.senderData = "REMOVE_STAKE"
  THEN Result("STAKING_OUTGOING", "REMOVE_STAKE",
              [recipient |-> t.recipient, extraDataLabel |-> EMPTY, extraData |-> EMPTY])
  ELSE {}

ParseNormal(t) ==
  IF t.flags # {} \/ t.senderData # "empty" \/ t.data.kind = "too long" THEN {}
  ELSE LET label == IF t.data.kind = "cashlink" THEN "CASHLINK" ELSE "REGULAR_TRANSACTION"
           data == IF t.data.kind \in {"empty", "cashlink"} THEN EMPTY ELSE t.data.kind
           dataLabel == IF data = EMPTY THEN EMPTY
                        ELSE IF t.data.kind = "text" THEN "Data" ELSE "Data Hex"
       IN Result("NORMAL", label, [recipient |-> t.recipient,
                                   extraDataLabel |-> dataLabel, extraData |-> data])

\* Faulty variant: the difference of a timeout that has passed wraps.
IsTimingOutSoonUnguarded(timeout, height) ==
  (timeout - height) % UINT32_SIZE < HTLC_TIMEOUT_SOON_THRESHOLD

\* The difference is a uint32_t.
IsTimingOutSoon(timeout, height) ==
  timeout < height \/ (timeout - height) % UINT32_SIZE < HTLC_TIMEOUT_SOON_THRESHOLD

ParseHtlcCreation(t) ==
  LET d == t.data IN
  IF \/ t.version # "LEGACY" \/ d.kind # "htlc"
     \/ d.refund = t.sender /\ t.senderType # "BASIC"
     \/ d.algorithm \notin {"BLAKE2b", "SHA-256", "SHA-512"}
  THEN {}
  ELSE Result("HTLC_CREATION", "HTLC_CREATION",
         [redeem |-> d.redeem, refund |-> d.refund, isRefundSender |-> d.refund = t.sender,
          isSoon |-> IsTimingOutSoon(d.timeout, t.validityStartHeight),
          algorithm |-> d.algorithm, hashRoot |-> d.hashRoot,
          hashCount |-> d.hashCount, timeout |-> d.timeout])

ParseVestingCreation(t) ==
  LET d == t.data IN
  IF \/ t.version # "LEGACY" \/ d.kind # "vesting"
     \/ d.owner = t.sender /\ t.senderType # "BASIC"
  THEN {}
  ELSE Result("VESTING_CREATION", "VESTING_CREATION",
         [owner |-> d.owner, isOwnerSender |-> d.owner = t.sender, schedule |-> d.schedule])

ParseContractCreation(t) ==
  IF t.flags # {"CONTRACT_CREATION"} \/ t.senderData # "empty" THEN {}
  ELSE IF t.recipientType = "VESTING" THEN ParseVestingCreation(t) ELSE ParseHtlcCreation(t)

StakerTypes == {"CREATE_STAKER", "UPDATE_STAKER"}
AmountTypes == {"SET_ACTIVE_STAKE", "RETIRE_STAKE"}
IsSignaling(type) == type \in AmountTypes \cup {"UPDATE_STAKER"}

\* Empty for the sender, who is the staker of the empty default proof, too.
StakerField(address, sender) == IF address = sender THEN EMPTY ELSE address

NoFields == [f \in {} |-> EMPTY]
With(f, g) == [x \in DOMAIN f \cup DOMAIN g |-> IF x \in DOMAIN f THEN f[x] ELSE g[x]]

\* All types but ADD_STAKE have a signature proof that tells the staker.
ProofFields(t) ==
  LET d == t.data IN
  IF d.type = "ADD_STAKE"
  THEN [hasProof |-> FALSE, staker |-> StakerField(d.staker, t.sender)]
  ELSE [hasProof |-> TRUE, proof |-> d.proof.kind,
        staker |-> IF d.proof.kind = "empty" THEN EMPTY ELSE StakerField(d.proof.owner, t.sender)]

StakingDataFields(d) ==
  With([stakingType |-> d.type],
       IF d.type = "CREATE_STAKER" THEN [delegation |-> d.delegation]
       ELSE IF d.type = "UPDATE_STAKER"
       THEN [delegation |-> d.delegation, reactivate |-> d.reactivate]
       ELSE IF d.type \in AmountTypes THEN [amount |-> d.amount]
       ELSE NoFields)

ParseStakingIncoming(t) ==
  LET d == t.data IN
  IF \/ t.flags \notin {{}, {"SIGNALING"}} \/ t.senderData # "empty"
     \/ t.recipient # STAKING_CONTRACT
     \/ t.version = "LEGACY" \/ d.kind # "staking"
     \/ d.type \notin StakerTypes \cup AmountTypes \cup {"ADD_STAKE"}
     \/ d.type \in AmountTypes /\ d.amount > MAX_SAFE_LUNA_AMOUNT
     \/ (t.flags = {"SIGNALING"}) # IsSignaling(d.type)
  THEN {}
  ELSE Result("STAKING_INCOMING", d.type, With(StakingDataFields(d), ProofFields(t)))

\* Faulty variant: the value is printed unchecked.
HasPrintableFee(t) == t.fee <= MAX_SAFE_LUNA_AMOUNT

HasPrintableAmounts(t) == t.value <= MAX_SAFE_LUNA_AMOUNT /\ t.fee <= MAX_SAFE_LUNA_AMOUNT

ParseTx(t) ==
  IF ~HasPrintableAmounts(t) \/ NetworkName(t.version, t.networkId) = EMPTY THEN {}
  ELSE IF t.senderType = "STAKING" THEN ParseStakingOutgoing(t)
  ELSE IF t.recipientType = "BASIC" THEN ParseNormal(t)
  ELSE IF t.recipientType \in {"VESTING", "HTLC"} THEN ParseContractCreation(t)
  ELSE IF t.recipientType = "STAKING" THEN ParseStakingIncoming(t)
  ELSE {}

\* Transactions are of one of two versions, amounts and heights are unsigned numbers,
\* and no address is empty.
ASSUME TransactionAssumption ==
  /\ {MAX_SAFE_LUNA_AMOUNT, HTLC_TIMEOUT_SOON_THRESHOLD} \subseteq Nat
  /\ UINT32_SIZE \in Nat \ {0}
  /\ \A t \in Transactions :
       /\ t.version \in {"LEGACY", "ALBATROSS"}
       /\ {t.value, t.fee} \subseteq Nat
       /\ t.validityStartHeight \in 0..(UINT32_SIZE - 1)
       /\ t.data.kind = "htlc" => t.data.timeout \in 0..(UINT32_SIZE - 1)
       /\ t.data.kind = "staking" /\ t.data.type = "ADD_STAKE" => t.data.staker # EMPTY
       /\ t.data.kind = "staking" /\ t.data.type \in StakerTypes \cup AmountTypes =>
            (t.data.proof.kind # "empty" => t.data.proof.owner # EMPTY)

-----------------------------------------------------------------------------
(* Requests *)

Init ==
  /\ tx = NoTransaction
  /\ parsed = Unparsed
  /\ specific = [f \in Fields |-> EMPTY]

\* The last chunk of a transaction that parses; its review starts.
AcceptTransaction(t) ==
  \E result \in ParseTx(t) :
    /\ tx' = t
    /\ parsed' = [type |-> result.type, label |-> result.label, value |-> t.value,
                  fee |-> t.fee, network |-> NetworkName(t.version, t.networkId)]
    /\ specific' = Written(result.fields)

\* An error makes nimiq_main wipe ctx.
RejectTransaction(t) ==
  /\ ParseTx(t) = {}
  /\ tx' = NoTransaction
  /\ parsed' = Unparsed
  /\ specific' = [f \in Fields |-> EMPTY]

\* Requests for a public key or a message signature use the same memory.
OtherRequest ==
  /\ tx' = NoTransaction
  /\ parsed' = Unparsed
  /\ specific' = [f \in Fields |-> GARBAGE]

Next ==
  \/ \E t \in Transactions : AcceptTransaction(t) \/ RejectTransaction(t)
  \/ OtherRequest

Spec == Init /\ [][Next]_vars

InReview == tx # NoTransaction

-----------------------------------------------------------------------------
(* The review *)

Optional(condition, label, value) == IF condition THEN <<<<label, value>>>> ELSE <<>>
Entry(label, value) == <<<<label, value>>>>

AmountEntry == Optional(parsed.value # 0, "Amount", parsed.value)
FeeAndNetwork == Optional(parsed.fee # 0, "Fee", parsed.fee) \o Entry("Network", parsed.network)

NormalEntries ==
  Entry("Recipient", specific.recipient)
  \o Optional(specific.extraData # EMPTY, specific.extraDataLabel, specific.extraData)

\* Conditions under which parameters of an HTLC are displayed.
HasHashAlgorithmEntry ==
  ~specific.isRefundSender \/ ~specific.isSoon \/ specific.algorithm # "SHA-256"

HasTimeoutEntry == ~specific.isRefundSender \/ ~specific.isSoon
HasHashCountEntry == specific.hashCount # 1 /\ HasTimeoutEntry

HtlcEntries ==
  Entry("HTLC Recipient", specific.redeem)
  \o Optional(~specific.isRefundSender, "Refund to", specific.refund)
  \o Entry("Hashed Secret", specific.hashRoot)
  \o Optional(HasHashAlgorithmEntry, "Hash Algorithm", specific.algorithm)
  \o Optional(HasHashCountEntry, "Hash Steps", specific.hashCount)
  \o Optional(HasTimeoutEntry, "HTLC Expiry Block", specific.timeout)

VestingEntries ==
  Optional(~specific.isOwnerSender, "Vesting Owner", specific.owner)
  \o Entry("Schedule", specific.schedule)

StakerEntry == Optional(specific.staker # EMPTY, "Staker", specific.staker)

DelegationEntry ==
  Optional(specific.stakingType \in StakerTypes /\ specific.delegation # EMPTY,
           "Delegation", specific.delegation)
ReactivateEntry ==
  Optional(specific.stakingType = "UPDATE_STAKER", "Reactivate all Stake", specific.reactivate)
DataAmountEntry ==
  Optional(specific.stakingType \in AmountTypes, "Amount", specific.amount)

\* nimiq_ux_bagl.c: the steps of the flow of the transaction's type.
BaglEntries ==
  AmountEntry
  \o (IF parsed.type \in {"NORMAL", "STAKING_OUTGOING"} THEN NormalEntries
      ELSE IF parsed.type = "HTLC_CREATION" THEN HtlcEntries
      ELSE IF parsed.type = "VESTING_CREATION" THEN VestingEntries
      ELSE DataAmountEntry \o StakerEntry \o DelegationEntry \o ReactivateEntry)
  \o FeeAndNetwork

\* Faulty variant: the touch screen review lacks the staker.
NbglEntriesWithoutStaker ==
  AmountEntry
  \o (IF parsed.type \in {"NORMAL", "STAKING_OUTGOING"} THEN NormalEntries
      ELSE DataAmountEntry \o DelegationEntry \o ReactivateEntry)
  \o FeeAndNetwork

\* nimiq_ux_nbgl.c: the review entries prepared for the transaction's type.
NbglSupported == parsed.type \in {"NORMAL", "STAKING_OUTGOING", "STAKING_INCOMING"}
NbglEntries ==
  AmountEntry
  \o (IF parsed.type = "STAKING_INCOMING"
      THEN DataAmountEntry \o StakerEntry \o DelegationEntry \o ReactivateEntry
      ELSE NormalEntries)
  \o FeeAndNetwork

\* Faulty variant: the type of the transaction is not checked before its proof.
CreatesSignatureUntyped ==
  specific.hasProof \in {TRUE, GARBAGE} /\ specific.proof \in {"empty", GARBAGE}

\* on_transaction_approved: the app fills in the staker signature proof.
CreatesStakerSignature ==
  /\ parsed.type = "STAKING_INCOMING"
  /\ specific.hasProof = TRUE
  /\ specific.proof = "empty"

-----------------------------------------------------------------------------
(* What the transaction does (external: the Nimiq network) *)

\* Signaling transactions move no funds; the network rejects those with a value.
ValidOnNetwork(t) == "SIGNALING" \in t.flags => t.value = 0

\* The app's account signs, which is the sender's in a valid transaction.
Staker(t) ==
  IF t.data.type = "ADD_STAKE" THEN t.data.staker
  ELSE IF t.data.proof.kind = "empty" THEN t.sender ELSE t.data.proof.owner

\* The values displayed with a label, or what it means that none is displayed.
Values(entries, label) ==
  {entries[i][2] : i \in {j \in DOMAIN entries : entries[j][1] = label}}
Says(label, otherwise) ==
  LET values == Values(BaglEntries, label) IN IF values = {} THEN {otherwise} ELSE values

NormalReviewTells ==
  /\ Says("Recipient", EMPTY) = {tx.recipient}
  /\ Says("Data", EMPTY) = {IF tx.data.kind = "text" THEN "text" ELSE EMPTY}
  /\ Says("Data Hex", EMPTY) =
       {IF tx.data.kind \in {"empty", "cashlink", "text"} THEN EMPTY ELSE tx.data.kind}
  /\ parsed.label = "CASHLINK" <=> tx.data.kind = "cashlink"

\* What is not displayed of an HTLC: the sender as refund address, the algorithm
\* SHA-256, one hash step, and of an HTLC that is refunded to the sender soon the
\* number of hash steps and the timeout.
HtlcReviewTells ==
  LET refundedSoon ==
        tx.data.refund = tx.sender
        /\ tx.data.timeout < tx.validityStartHeight + HTLC_TIMEOUT_SOON_THRESHOLD
  IN /\ Says("HTLC Recipient", EMPTY) = {tx.data.redeem}
     /\ Says("Refund to", tx.sender) = {tx.data.refund}
     /\ Says("Hashed Secret", EMPTY) = {tx.data.hashRoot}
     /\ Says("Hash Algorithm", "SHA-256") = {tx.data.algorithm}
     /\ IF refundedSoon
        THEN Values(BaglEntries, "Hash Steps") \cup Values(BaglEntries, "HTLC Expiry Block") = {}
        ELSE /\ Says("Hash Steps", 1) = {tx.data.hashCount}
             /\ Says("HTLC Expiry Block", EMPTY) = {tx.data.timeout}

VestingReviewTells ==
  /\ Says("Vesting Owner", tx.sender) = {tx.data.owner}
  /\ Says("Schedule", EMPTY) = {tx.data.schedule}

StakingReviewTells ==
  LET d == tx.data IN
  /\ parsed.label = d.type
  /\ Says("Staker", tx.sender) = {Staker(tx)}
  /\ Says("Delegation", EMPTY) = {IF d.type \in StakerTypes THEN d.delegation ELSE EMPTY}
  /\ Says("Reactivate all Stake", EMPTY) =
       {IF d.type = "UPDATE_STAKER" THEN d.reactivate ELSE EMPTY}

MovedAmount ==
  IF tx.recipientType = "STAKING" /\ tx.data.kind = "staking" /\ tx.data.type \in AmountTypes
  THEN tx.data.amount ELSE tx.value

-----------------------------------------------------------------------------
(* Properties *)

TypeOK ==
  /\ tx \in Transactions \cup {NoTransaction}
  /\ DOMAIN specific = Fields
  /\ parsed.type \in {"none", "NORMAL", "STAKING_OUTGOING", "HTLC_CREATION",
                      "VESTING_CREATION", "STAKING_INCOMING"}
  /\ {parsed.value, parsed.fee} \subseteq 0..MAX_SAFE_LUNA_AMOUNT
  /\ InReview => parsed.network \in {"Main", "Test", "Development", "Bounty"}

\* The entries of a review, and those left out as redundant, tell what the
\* transaction does, whatever earlier transactions and requests left in memory.
ReviewTellsEffect ==
  InReview /\ ValidOnNetwork(tx) =>
    /\ Says("Amount", 0) = {MovedAmount}
    /\ Says("Fee", 0) = {tx.fee}
    /\ parsed.type \in {"NORMAL", "STAKING_OUTGOING"} => NormalReviewTells
    /\ parsed.type = "HTLC_CREATION" => HtlcReviewTells
    /\ parsed.type = "VESTING_CREATION" => VestingReviewTells
    /\ parsed.type = "STAKING_INCOMING" => StakingReviewTells

\* A transaction is only signed over its own data: the staker proof is filled in
\* exactly if this transaction has a proof and it is the empty one, never on
\* account of a proof that an earlier transaction had in the same memory.
ProofIsFilledInOnlyIfEmpty ==
  InReview =>
    (CreatesStakerSignature <=>
       /\ tx.recipientType = "STAKING" /\ tx.data.kind = "staking"
       /\ tx.data.type # "ADD_STAKE"
       /\ tx.data.proof.kind = "empty")

\* Both kinds of devices display the same of a transaction both can review.
DevicesAgree == InReview /\ NbglSupported => BaglEntries = NbglEntries
=============================================================================
