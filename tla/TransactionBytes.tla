-------------------------- MODULE TransactionBytes --------------------------
(***************************************************************************)
(* A transaction as the bytes that are signed: how parse_tx()              *)
(* (src/nimiq_utils.c, src/nimiq_staking_utils.c, src/signature_proof.c)   *)
(* takes them apart, and how on_transaction_approved() (src/main.c)        *)
(* writes the staker signature proof into them before it signs them.       *)
(*                                                                         *)
(* Module TransactionReview has the same parser over records of fields,    *)
(* and all of the review.  This module has the offsets, lengths and        *)
(* pointers, at their real sizes.  The property ParserReadsWhatWasSent     *)
(* connects the two.  How several chunks become the raw transaction, and   *)
(* what happens to it after errors, is the subject of module NimiqApp.     *)
(***************************************************************************)
EXTENDS BufferReader, Printing, FiniteSets

CONSTANTS
  Requests,      \* what clients send: [version, bytes, tx], tx being the transaction
                 \* that the bytes encode, or Malformed
  Malformed,
  Transactions,  \* the transactions that occur in requests
  AddressOf(_),  \* blake2b of a public key: its address (external)
  AmountOf(_),   \* the amount, as in Transactions, that eight bytes encode
  AccountKey,    \* the public key of the account that signs
  Signature(_),  \* the account's signature over bytes (external)
  UINT32_SIZE,   \* number of values of a uint32_t, 2^32 on the device
  HTLC_TIMEOUT_SOON_THRESHOLD,
  SAFE_AMOUNT,   \* AmountOf(MAX_SAFE_LUNA_AMOUNT)
  EMPTY,
  GARBAGE

ADDRESS_LENGTH == 20
PUBLIC_KEY_LENGTH == 32
SIGNATURE_LENGTH == 64
LENGTH_NORMAL_TX_DATA_MAX == 64
MAX_RAW_TX == 188
BYTE == 0..(BYTE_SIZE - 1)

ASSUME RequestsAssumption ==
  \A r \in Requests : r.version \in {"LEGACY", "ALBATROSS"} /\ r.bytes \in Seq(BYTE)
\* No account has the key that stands for a missing one.
ASSUME AccountAssumption ==
  /\ AccountKey \in [1..PUBLIC_KEY_LENGTH -> BYTE]
  /\ \E i \in 1..PUBLIC_KEY_LENGTH : AccountKey[i] # 0
  /\ \A r \in Requests : Signature(r.bytes) \in [1..SIGNATURE_LENGTH -> BYTE]

VARIABLES
  status,   \* "idle", or what became of the last request: "rejected", "review", "decided"
  version,  \* ctx.req.tx.transactionVersion
  rawTx,    \* the used part of ctx.req.tx.rawTx
  parsed,   \* ctx.req.tx.parsed
  sent,     \* the transaction the client encoded (history)
  signed    \* what the staker and the transaction signature cover, if any (history)

vars == <<status, version, rawTx, parsed, sent, signed>>

-----------------------------------------------------------------------------
(* Printing and comparing *)

AmountText(bytes) == CHOOSE text \in ParseAmount(bytes) : TRUE

IsPrintableAscii(bytes) == \A i \in DOMAIN bytes : bytes[i] \in 32..126
CASHLINK_MAGIC_NUMBER == <<0, 130, 128, 146, 135>>

\* Faulty variant: only the last byte is looked at.
EndsLikeStakingContract(address) == address[ADDRESS_LENGTH] = 1

IsStakingContract(address) ==
  /\ \A i \in 1..(ADDRESS_LENGTH - 1) : address[i] = 0
  /\ address[ADDRESS_LENGTH] = 1

NETWORK_IDS(v) == IF v = "LEGACY" THEN <<42, 1, 2, 3>> ELSE <<24, 5, 6, 7>>
NETWORKS == <<"Main", "Test", "Development", "Bounty">>

-----------------------------------------------------------------------------
(* parse_tx: the fields that all transactions have *)

\* Recipient data, sender, recipient, value, fee, validity start height, network
\* and flags; Albatross transactions have sender data, too.  The cursors are
\* named for what they have read last.
Envelope(v, input) ==
  LET dataLength == ReadU16(Open(Whole(input)))
      data == ReadSubBuffer(dataLength, U16(input, dataLength.out))
      sender == ReadSubBuffer(data, ADDRESS_LENGTH)
      senderType == ReadU8(sender)
      recipient == ReadSubBuffer(senderType, ADDRESS_LENGTH)
      recipientType == ReadU8(recipient)
      value == ReadU64(recipientType)
      fee == ReadU64(value)
      height == ReadU32(fee)
      networkId == ReadU8(height)
      flags == ReadU8(networkId)
      senderData == IF v = "ALBATROSS" THEN ReadVecU8(input, flags)
                    ELSE [flags EXCEPT !.out = Nothing]
  IN [ok |-> senderData.ok, left |-> senderData.left,
      data |-> data.out, sender |-> sender.out, senderType |-> senderType.out,
      recipient |-> recipient.out, recipientType |-> recipientType.out,
      value |-> value.out, fee |-> fee.out, height |-> height.out,
      networkId |-> networkId.out, flags |-> flags.out, senderData |-> senderData.out]

\* Faulty variant: bytes behind the transaction are ignored.
IsReadable(envelope) == envelope.ok

\* Otherwise "Transaction too long".
IsComplete(envelope) == envelope.ok /\ envelope.left = 0

HasValidEnvelope(v, input, envelope) ==
  /\ IsComplete(envelope)
  /\ ParseAmount(Bytes(input, envelope.value)) # {}
  /\ ParseAmount(Bytes(input, envelope.fee)) # {}
  /\ \E i \in 1..4 : NETWORK_IDS(v)[i] = U8(input, envelope.networkId)

\* What is printed of the envelope: out->value, out->fee and out->network.
Printed(v, input) ==
  LET e == Envelope(v, input) IN
  [value |-> AmountText(Bytes(input, e.value)), fee |-> AmountText(Bytes(input, e.fee)),
   network |-> NETWORKS[CHOOSE i \in 1..4 : NETWORK_IDS(v)[i] = U8(input, e.networkId)]]

-----------------------------------------------------------------------------
(* The data of each type of transaction.  A parser is the set of its results, *)
(* empty on an error.  A result has the fields it writes into the union, and  *)
(* the pointers of the signature proof.                                       *)

NoProof == [key |-> Nothing, signature |-> Nothing]
Result(type, label, fields, proof) ==
  {[type |-> type, label |-> label, fields |-> fields, proof |-> proof]}

ACCOUNT_TYPE_BASIC == 0
ACCOUNT_TYPE_VESTING == 1
ACCOUNT_TYPE_HTLC == 2
ACCOUNT_TYPE_STAKING == 3
TX_FLAG_CONTRACT_CREATION == 1
TX_FLAG_SIGNALING == 2
REMOVE_STAKE == 1

RecipientFields(recipient, dataLabel, data) ==
  [recipient |-> recipient, extraDataLabel |-> dataLabel, extraData |-> data]

ParseStakingOutgoing(v, input, e) ==
  LET type == ReadU8(Open(e.senderData)) IN
  IF /\ U8(input, e.flags) = 0 /\ e.data.length = 0
     /\ IsStakingContract(Bytes(input, e.sender))
     /\ v # "LEGACY"
     /\ type.ok /\ type.left = 0
     /\ U8(input, type.out) = REMOVE_STAKE
  THEN Result("STAKING_OUTGOING", "REMOVE_STAKE",
              RecipientFields(Bytes(input, e.recipient), EMPTY, EMPTY), NoProof)
  ELSE {}

ParseNormal(input, e) ==
  LET data == Bytes(input, e.data)
      recipient == Bytes(input, e.recipient)
  IN IF \/ U8(input, e.flags) # 0 \/ e.senderData.length # 0
        \/ e.data.length > LENGTH_NORMAL_TX_DATA_MAX
     THEN {}
     ELSE IF data = <<>>
     THEN Result("NORMAL", "REGULAR_TRANSACTION", RecipientFields(recipient, EMPTY, EMPTY), NoProof)
     ELSE IF data = CASHLINK_MAGIC_NUMBER
     THEN Result("NORMAL", "CASHLINK", RecipientFields(recipient, EMPTY, EMPTY), NoProof)
     ELSE Result("NORMAL", "REGULAR_TRANSACTION",
            RecipientFields(recipient, IF IsPrintableAscii(data) THEN "Data" ELSE "Data Hex", data),
            NoProof)

HashAlgorithms ==
  [id \in {1, 3, 4} |-> IF id = 1 THEN "BLAKE2b" ELSE IF id = 3 THEN "SHA-256" ELSE "SHA-512"]
HashLength(algorithm) == IF algorithm = 4 THEN 64 ELSE 32

IsTimingOutSoon(timeout, height) ==
  timeout < height \/ (timeout - height) % UINT32_SIZE < HTLC_TIMEOUT_SOON_THRESHOLD

\* A contract as refund or owner address could not sign.
IsContractItself(input, owner, e) ==
  /\ Bytes(input, owner) = Bytes(input, e.sender)
  /\ U8(input, e.senderType) # ACCOUNT_TYPE_BASIC

ParseHtlcCreation(v, input, e) ==
  LET refund == ReadSubBuffer(Open(e.data), ADDRESS_LENGTH)
      redeem == ReadSubBuffer(refund, ADDRESS_LENGTH)
      algorithm == ReadU8(redeem)
      hashRoot == ReadSubBuffer(algorithm, HashLength(U8(input, algorithm.out)))
      hashCount == ReadU8(hashRoot)
      timeout == ReadU32(hashCount)
  IN IF /\ v = "LEGACY"
        /\ timeout.ok /\ timeout.left = 0
        /\ ~IsContractItself(input, refund.out, e)
        /\ U8(input, algorithm.out) \in DOMAIN HashAlgorithms
     THEN Result("HTLC_CREATION", "HTLC_CREATION",
            [redeem |-> Bytes(input, redeem.out), refund |-> Bytes(input, refund.out),
             isRefundSender |-> Bytes(input, refund.out) = Bytes(input, e.sender),
             isSoon |-> IsTimingOutSoon(U32(input, timeout.out), U32(input, e.height)),
             algorithm |-> HashAlgorithms[U8(input, algorithm.out)],
             hashRoot |-> Bytes(input, hashRoot.out),
             hashCount |-> U8(input, hashCount.out),
             timeout |-> U32(input, timeout.out)],
            NoProof)
     ELSE {}

\* Which parameters are specified depends on the length that is left; how they are
\* translated, and whether the end of the vesting is a block number, is the subject of
\* module VestingCreation.
VestingParameters(owner) ==
  IF owner.ok /\ owner.left = 4 THEN ReadU32(owner)
  ELSE LET stepAmount == ReadU64(ReadU32(ReadU32(owner)))
       IN IF stepAmount.ok /\ stepAmount.left = 8 THEN ReadU64(stepAmount) ELSE stepAmount

\* The amounts of the steps are printed, unless there are none.  All of them are amounts
\* that are printable if the regular one is; by default that is the transaction's.
HasPrintableSteps(input, owner) ==
  owner.left # 4 =>
    LET stepBlockCount == ReadU32(ReadU32(owner)) IN
    \/ U32(input, stepBlockCount.out) = 0
    \/ ParseAmount(Bytes(input, ReadU64(stepBlockCount).out)) # {}

ParseVestingCreation(v, input, e) ==
  LET owner == ReadSubBuffer(Open(e.data), ADDRESS_LENGTH)
      parameters == VestingParameters(owner)
  IN IF /\ v = "LEGACY"
        /\ parameters.ok /\ parameters.left = 0
        /\ ~IsContractItself(input, owner.out, e)
        /\ HasPrintableSteps(input, owner)
     THEN Result("VESTING_CREATION", "VESTING_CREATION",
            [owner |-> Bytes(input, owner.out),
             isOwnerSender |-> Bytes(input, owner.out) = Bytes(input, e.sender),
             schedule |-> Bytes(input, Piece(owner.at, owner.left))],
            NoProof)
     ELSE {}

ParseContractCreation(v, input, e) ==
  IF U8(input, e.flags) # TX_FLAG_CONTRACT_CREATION \/ e.senderData.length # 0 THEN {}
  ELSE IF U8(input, e.recipientType) = ACCOUNT_TYPE_VESTING
  THEN ParseVestingCreation(v, input, e) ELSE ParseHtlcCreation(v, input, e)

StakingTypes ==
  [id \in 5..9 |->
     <<"CREATE_STAKER", "ADD_STAKE", "UPDATE_STAKER", "SET_ACTIVE_STAKE", "RETIRE_STAKE">>[id - 4]]
StakerTypes == {"CREATE_STAKER", "UPDATE_STAKER"}
AmountTypes == {"SET_ACTIVE_STAKE", "RETIRE_STAKE"}
IsSignaling(type) == type \in AmountTypes \cup {"UPDATE_STAKER"}

With(f, g) == [x \in DOMAIN f \cup DOMAIN g |-> IF x \in DOMAIN f THEN f[x] ELSE g[x]]
NoFields == [f \in {} |-> EMPTY]

\* What the data of a type holds in front of the signature proof: the cursor behind
\* it and the fields written.
StakerData(input, type, c) ==
  LET hasDelegation == ReadU8(c)
      delegation == IF hasDelegation.ok /\ Bool(input, hasDelegation.out)
                    THEN ReadSubBuffer(hasDelegation, ADDRESS_LENGTH)
                    ELSE [hasDelegation EXCEPT !.out = Nothing]
      reactivate == IF type = "UPDATE_STAKER" THEN ReadU8(delegation) ELSE delegation
      fields == [delegation |-> IF delegation.out = Nothing THEN EMPTY
                                ELSE Bytes(input, delegation.out)]
  IN [cursor |-> reactivate,
      fields |-> IF ~reactivate.ok THEN NoFields
                 ELSE IF type = "CREATE_STAKER" THEN fields
                 ELSE With(fields, [reactivate |-> IF Bool(input, reactivate.out)
                                                   THEN "Yes" ELSE "No"])]

AmountData(input, c) ==
  LET amount == ReadU64(c) IN
  IF amount.ok /\ ParseAmount(Bytes(input, amount.out)) # {}
  THEN [cursor |-> amount, fields |-> [amount |-> AmountText(Bytes(input, amount.out))]]
  ELSE [cursor |-> Fail(amount), fields |-> NoFields]

StakingData(input, type, c) ==
  IF type \in StakerTypes THEN StakerData(input, type, c)
  ELSE IF type \in AmountTypes THEN AmountData(input, c)
  ELSE [cursor |-> ReadSubBuffer(c, ADDRESS_LENGTH), fields |-> NoFields]

\* Faulty variant: the pointers are taken before the fields in front are skipped.
ReadSignatureProofEarly(input, c) ==
  LET behind == ReadSubBuffer(c, 2 + PUBLIC_KEY_LENGTH + SIGNATURE_LENGTH) IN
  [ok |-> behind.ok, left |-> behind.left, key |-> Piece(c.at, PUBLIC_KEY_LENGTH),
   signature |-> Piece(c.at + 1 + PUBLIC_KEY_LENGTH, SIGNATURE_LENGTH)]

\* read_signature_proof: only ed25519 without flags and with an empty merkle path.
ReadSignatureProof(input, c) ==
  LET typeAndFlags == ReadU8(c)
      key == ReadSubBuffer(typeAndFlags, PUBLIC_KEY_LENGTH)
      merklePathLength == ReadU8(key)
      signature == ReadSubBuffer(merklePathLength, SIGNATURE_LENGTH)
  IN [ok |-> /\ signature.ok
             /\ U8(input, typeAndFlags.out) = 0
             /\ U8(input, merklePathLength.out) = 0,
      left |-> signature.left, key |-> key.out, signature |-> signature.out]

\* ADD_STAKE has the address of the staker instead of a proof.
ReadProof(input, type, c) ==
  IF type = "ADD_STAKE"
  THEN [ok |-> c.ok, left |-> c.left, key |-> Nothing, signature |-> Nothing]
  ELSE ReadSignatureProof(input, c)

\* is_empty_default_signature_proof, of a proof that was read.
IsEmptyProof(input, proof) ==
  \A piece \in {proof.key, proof.signature} :
    \A i \in DOMAIN Bytes(input, piece) : Bytes(input, piece)[i] = 0

\* The sender, who is the staker of the empty proof, too, is not displayed.
StakerFields(input, type, c, proof, e) ==
  LET sender == Bytes(input, e.sender)
      kind == IF IsEmptyProof(input, proof) THEN "empty" ELSE "signed"
      staker == IF type = "ADD_STAKE" THEN Bytes(input, c.out)
                ELSE IF kind = "empty" THEN sender
                ELSE AddressOf(Bytes(input, proof.key))
  IN With([staker |-> IF staker = sender THEN EMPTY ELSE staker, hasProof |-> type # "ADD_STAKE"],
          IF type = "ADD_STAKE" THEN NoFields ELSE [proof |-> kind])

ParseStakingIncoming(v, input, e) ==
  LET typeId == ReadU8(Open(e.data))
      type == StakingTypes[U8(input, typeId.out)]
      data == StakingData(input, type, typeId)
      proof == ReadProof(input, type, data.cursor)
  IN IF /\ U8(input, e.flags) \in {0, TX_FLAG_SIGNALING} /\ e.senderData.length = 0
        /\ IsStakingContract(Bytes(input, e.recipient))
        /\ v # "LEGACY"
        /\ typeId.ok /\ U8(input, typeId.out) \in DOMAIN StakingTypes
        /\ data.cursor.ok /\ proof.ok /\ proof.left = 0
        /\ (U8(input, e.flags) = TX_FLAG_SIGNALING) = IsSignaling(type)
     THEN Result("STAKING_INCOMING", type,
            With([stakingType |-> type],
                 With(data.fields, StakerFields(input, type, data.cursor, proof, e))),
            [key |-> proof.key, signature |-> proof.signature])
     ELSE {}

ParseTx(v, input) ==
  LET e == Envelope(v, input) IN
  IF ~HasValidEnvelope(v, input, e) THEN {}
  ELSE LET recipientType == U8(input, e.recipientType) IN
       IF U8(input, e.senderType) = ACCOUNT_TYPE_STAKING THEN ParseStakingOutgoing(v, input, e)
       ELSE IF recipientType = ACCOUNT_TYPE_BASIC THEN ParseNormal(input, e)
       ELSE IF recipientType \in {ACCOUNT_TYPE_VESTING, ACCOUNT_TYPE_HTLC}
       THEN ParseContractCreation(v, input, e)
       ELSE IF recipientType = ACCOUNT_TYPE_STAKING THEN ParseStakingIncoming(v, input, e)
       ELSE {}

-----------------------------------------------------------------------------
(* Requests and decisions *)

Unparsed == [type |-> "none", label |-> "none", fields |-> NoFields, proof |-> NoProof]
NotSigned == [staker |-> <<>>, over |-> <<>>]

Init ==
  /\ status = "idle"
  /\ version = "LEGACY"
  /\ rawTx = <<>>
  /\ parsed = Unparsed
  /\ sent = Malformed
  /\ signed = NotSigned

\* The first chunk of the next transaction begins anew.  What parsed is left with until
\* the last chunk overwrites it, nothing looks at.
Begin ==
  /\ status \in {"rejected", "decided"}
  /\ status' = "idle"
  /\ version' = "LEGACY"
  /\ rawTx' = <<>>
  /\ parsed' = Unparsed
  /\ sent' = Malformed
  /\ signed' = NotSigned

\* handle_sign_transaction with the last chunk.  An error wipes ctx.
SignTransaction(r) ==
  LET results == IF Len(r.bytes) <= MAX_RAW_TX THEN ParseTx(r.version, r.bytes) ELSE {} IN
  /\ status = "idle"
  /\ sent' = r.tx
  /\ signed' = NotSigned
  /\ IF results = {}
     THEN /\ status' = "rejected"
          /\ version' = "LEGACY"
          /\ rawTx' = <<>>
          /\ parsed' = Unparsed
     ELSE /\ status' = "review"
          /\ version' = r.version
          /\ rawTx' = r.bytes
          /\ parsed' \in results

\* Copies bytes to where a pointer into the input points.
Overwrite(input, piece, bytes) ==
  [i \in DOMAIN input |->
     IF i \in piece.at..(piece.at + piece.length - 1) THEN bytes[i - piece.at + 1] ELSE input[i]]

\* Faulty variant: the signature is expected right behind the key.
WithSignatureBehindKey(input, proof) ==
  Overwrite(input, Piece(proof.key.at + PUBLIC_KEY_LENGTH, SIGNATURE_LENGTH), Signature(input))

WithSignature(input, proof) == Overwrite(input, proof.signature, Signature(input))
WithProof(input, proof) == Overwrite(WithSignature(input, proof), proof.key, AccountKey)

CreatesStakerSignature ==
  /\ parsed.type = "STAKING_INCOMING"
  /\ parsed.fields.hasProof
  /\ IsEmptyProof(rawTx, parsed.proof)

\* The staker signature and the key are written into the empty proof, and the result
\* is signed.  Any of the steps can fail, which leaves what was written so far.
OnTransactionApproved ==
  /\ status = "review"
  /\ status' = "decided"
  /\ \/ /\ rawTx' \in {rawTx} \cup IF CreatesStakerSignature
                                 THEN {WithSignature(rawTx, parsed.proof),
                                       WithProof(rawTx, parsed.proof)}
                                 ELSE {}
        /\ signed' = NotSigned
     \/ /\ rawTx' = IF CreatesStakerSignature THEN WithProof(rawTx, parsed.proof) ELSE rawTx
        /\ signed' = [staker |-> IF CreatesStakerSignature THEN rawTx ELSE <<>>,
                      over |-> rawTx']
  /\ UNCHANGED <<version, parsed, sent>>

OnRejected ==
  /\ status = "review"
  /\ status' = "decided"
  /\ UNCHANGED <<version, rawTx, parsed, sent, signed>>

Next ==
  \/ Begin
  \/ \E r \in Requests : SignTransaction(r)
  \/ OnTransactionApproved
  \/ OnRejected

Spec == Init /\ [][Next]_vars

-----------------------------------------------------------------------------
(* Properties *)

TypeOK ==
  /\ status \in {"idle", "rejected", "review", "decided"}
  /\ version \in {"LEGACY", "ALBATROSS"}
  /\ rawTx \in Seq(BYTE) /\ Len(rawTx) <= MAX_RAW_TX
  /\ status = "review" => parsed \in ParseTx(version, rawTx)

STAKING_CONTRACT == [i \in 1..ADDRESS_LENGTH |-> IF i = ADDRESS_LENGTH THEN 1 ELSE 0]

Review == INSTANCE TransactionReview WITH
  tx <- sent, specific <- parsed.fields, MAX_SAFE_LUNA_AMOUNT <- SAFE_AMOUNT

\* The result in the terms of TransactionReview, which has numbers, and for data that
\* it is text or not.
AmountSaid(text) == AmountOf(ReadAmount(text))
InTermsOfReview(field, content) ==
  IF field = "amount" THEN AmountSaid(content)
  ELSE IF field = "extraData" /\ content # EMPTY
  THEN IF parsed.fields.extraDataLabel = "Data" THEN "text" ELSE "binary"
  ELSE content
Reviewed ==
  [type |-> parsed.type, label |-> parsed.label,
   fields |-> [f \in DOMAIN parsed.fields |-> InTermsOfReview(f, parsed.fields[f])]]

\* The parser makes of the bytes what TransactionReview's makes of the transaction that
\* a client encoded: no field is read at the wrong place or taken for another one, and
\* an error there is an error here.  Bytes that encode no transaction, cut off,
\* extended or with wrong lengths, are rejected.
ParserReadsWhatWasSent ==
  /\ status = "review" =>
       /\ sent # Malformed
       /\ Review!ParseTx(sent) = {Reviewed}
       /\ LET printed == Printed(version, rawTx) IN
          /\ AmountSaid(printed.value) = sent.value /\ AmountSaid(printed.fee) = sent.fee
          /\ printed.network = Review!NetworkName(sent.version, sent.networkId)
  /\ status = "rejected" /\ sent # Malformed => Review!ParseTx(sent) = {}

\* A printed amount fits its buffer, and reads as the very number that was sent, written
\* without a zero or a point too much, on either side of every power of ten.
AmountsAreExact ==
  status = "review" =>
    LET e == Envelope(version, rawTx)
        printed == Printed(version, rawTx)
    IN \A amount \in {<<printed.value, e.value>>, <<printed.fee, e.fee>>} :
         /\ Len(amount[1]) < STRING_LENGTH_NIM_AMOUNT
         /\ IsCanonicalAmount(amount[1])
         /\ ReadAmount(amount[1]) = Bytes(rawTx, amount[2])

\* The pointers into rawTx that on_transaction_approved writes through: to a key and a
\* signature, apart from each other, all within the recipient data.
ProofLiesInData ==
  status = "review" /\ parsed.proof # NoProof =>
    LET e == Envelope(version, rawTx)
        key == parsed.proof.key
        signature == parsed.proof.signature
    IN /\ key.length = PUBLIC_KEY_LENGTH /\ signature.length = SIGNATURE_LENGTH
       /\ e.data.at < key.at
       /\ key.at + key.length < signature.at
       /\ signature.at + signature.length = e.data.at + e.data.length
       /\ signature.at + signature.length <= Len(rawTx)

\* What is signed still reads as what was reviewed, apart from the proof, which is now
\* a proof by the account that signs.
SignedReadsAsReviewed ==
  signed # NotSigned =>
    \E result \in ParseTx(version, signed.over) :
      /\ Printed(version, signed.over)
           = Printed(version, IF signed.staker = <<>> THEN rawTx ELSE signed.staker)
      /\ <<result.type, result.label, result.proof>> = <<parsed.type, parsed.label, parsed.proof>>
      /\ \A f \in DOMAIN result.fields \ {"proof", "staker"} :
           result.fields[f] = parsed.fields[f]
      /\ IF signed.staker = <<>> THEN result.fields = parsed.fields
         ELSE /\ result.fields.proof = "signed"
              /\ Bytes(signed.over, result.proof.key) = AccountKey
              /\ Bytes(signed.over, result.proof.signature) = Signature(signed.staker)

\* The lengths that the comment on MAX_RAW_TX (constants.h) lists, for the contracts
\* those of legacy transactions.
EnvelopeLength(v) == IF v = "LEGACY" THEN 66 ELSE 67
DataLengths(label) ==
  IF label \in {"REGULAR_TRANSACTION", "CASHLINK"} THEN 0..LENGTH_NORMAL_TX_DATA_MAX
  ELSE IF label = "VESTING_CREATION" THEN {24, 36, 44}
  ELSE IF label = "HTLC_CREATION" THEN {78, 110}
  ELSE IF label = "REMOVE_STAKE" THEN {1}
  ELSE IF label = "CREATE_STAKER" THEN {100, 120}
  ELSE IF label = "UPDATE_STAKER" THEN {101, 121}
  ELSE IF label = "ADD_STAKE" THEN {21}
  ELSE {107}

\* An accepted transaction is as long as its type says, all of its bytes being read.
\* So it fits MAX_RAW_TX, and handle_get_public_key is right that transactions are
\* "larger than 32 bytes": none can be taken for the digest of a message, or for a
\* verification message, both of which are signed with the same keys.
LengthsAsDocumented ==
  status = "review" =>
    /\ Len(rawTx) - EnvelopeLength(version) \in DataLengths(parsed.label)
    /\ 32 < Len(rawTx) /\ Len(rawTx) <= MAX_RAW_TX
=============================================================================
