------------------------ MODULE MCTransactionBytes ------------------------
(* Constant values for model-checking TransactionBytes: transactions as in   *)
(* TransactionReview, their serialization in the format of core-rs-albatross *)
(* (serialize_content), and what becomes of it when it is cut or altered.    *)
EXTENDS TransactionBytes, TLC

\* A piece of bytes that all have the same value.
Fill(byte, length) == [i \in 1..length |-> byte]
Alice == Fill(1, 20)
Bob == Fill(2, 20)
Carol == Fill(3, 20)

MCAddressOf(key) == SubSeq(key, 1, ADDRESS_LENGTH)
\* Alice signs.
MCAccountKey == Fill(1, PUBLIC_KEY_LENGTH)
MCSignature(bytes) == Fill(200, SIGNATURE_LENGTH)

\* 0; the powers of ten and the numbers below them; the largest amount that is printed;
\* and one more.  An amount is the position here.
RECURSIVE PowerOf10(_)
PowerOf10(n) == IF n = 0 THEN Fill(0, 7) \o <<1>> ELSE Times10Plus(PowerOf10(n - 1), 0)
RECURSIVE Nines(_)
Nines(n) == IF n = 0 THEN Fill(0, 8) ELSE Times10Plus(Nines(n - 1), 9)
AmountBytes ==
  [n \in 0..15 |-> Nines(n)] @@ [n \in 16..31 |-> PowerOf10(n - 16)]
  @@ 32 :> MAX_SAFE_LUNA_AMOUNT @@ 33 :> <<0, 32>> \o Fill(0, 6)
One == 16
Largest == 32
TooLarge == 33
MCAmountOf(bytes) == IF \E n \in 0..33 : AmountBytes[n] = bytes
                     THEN CHOOSE n \in 0..33 : AmountBytes[n] = bytes ELSE 34

-----------------------------------------------------------------------------
(* Transactions *)

Base ==
  [version |-> "ALBATROSS", data |-> [kind |-> "empty"], sender |-> Alice,
   senderType |-> "BASIC", recipient |-> Bob, recipientType |-> "BASIC", value |-> One,
   fee |-> 0, validityStartHeight |-> 2, networkId |-> 24, flags |-> {},
   senderData |-> "empty"]
LegacyBase == [Base EXCEPT !.version = "LEGACY", !.networkId = 42]

NormalTransactions ==
  {[t EXCEPT !.data.kind = kind, !.value = value, !.fee = fee, !.networkId = id] :
     t \in {Base, LegacyBase}, kind \in {"empty", "text", "binary"}, value \in {0, Largest, TooLarge},
     fee \in {One, TooLarge}, id \in {24, 42, 6, 3}}
  \cup {[t EXCEPT !.data.kind = kind, !.flags = flags] :
          t \in {Base, LegacyBase}, kind \in {"cashlink", "too long"},
          flags \in {{}, {"SIGNALING"}}}

AmountTransactions ==
  {[Base EXCEPT !.value = n, !.fee = 32 - n] : n \in 0..32}

OutgoingTransactions ==
  {[Base EXCEPT !.senderType = "STAKING", !.sender = sender, !.senderData = data,
                !.flags = flags] :
     sender \in {Alice, STAKING_CONTRACT, [STAKING_CONTRACT EXCEPT ![1] = 1]},
     data \in {"empty", "REMOVE_STAKE", "DELETE_VALIDATOR"}, flags \in {{}, {"SIGNALING"}}}

HtlcData ==
  {[kind |-> "htlc", refund |-> refund, redeem |-> Carol, algorithm |-> algorithm,
    hashRoot |-> Fill(7, IF algorithm = "SHA-512" THEN 64 ELSE 32), hashCount |-> 5,
    timeout |-> timeout] :
     refund \in {Alice, Carol},
     algorithm \in {"BLAKE2b", "ARGON2d", "SHA-256", "SHA-512"}, timeout \in {0, 4, 66000}}
\* Schedules that vest one luna in one step or at once, the latter with amounts that
\* could not be printed, and of one of the steps of which the amount cannot be printed.
Schedule(stepBlockCount, stepAmount) ==
  Fill(0, 3) \o <<9>> \o Fill(0, 3) \o <<stepBlockCount>> \o AmountBytes[stepAmount]
Schedules ==
  {Fill(9, 4), Schedule(9, One), Schedule(9, One) \o AmountBytes[One],
   Schedule(9, Largest), Schedule(0, TooLarge) \o AmountBytes[TooLarge]}
UnprintableSchedules == {Schedule(9, TooLarge), Schedule(9, TooLarge) \o AmountBytes[One]}
VestingData ==
  {[kind |-> "vesting", owner |-> owner, schedule |-> schedule] :
     owner \in {Alice, Bob}, schedule \in Schedules}
ContractCreations ==
  {[t EXCEPT !.data = data, !.recipientType = IF data.kind = "htlc" THEN "HTLC" ELSE "VESTING",
             !.senderType = senderType, !.flags = {"CONTRACT_CREATION"}] :
     t \in {Base, LegacyBase}, data \in HtlcData \cup VestingData,
     senderType \in {"BASIC", "HTLC"}}

SignatureProofs == {[kind |-> "empty"]} \cup [kind : {"signed"}, owner : {Alice, Carol}]
StakingDataSets ==
  [kind : {"staking"}, type : {"CREATE_STAKER"}, delegation : {EMPTY, Bob},
   proof : SignatureProofs]
  \cup [kind : {"staking"}, type : {"UPDATE_STAKER"}, delegation : {EMPTY, Bob},
        reactivate : {"Yes", "No"}, proof : SignatureProofs]
  \cup [kind : {"staking"}, type : {"ADD_STAKE"}, staker : {Alice, Bob}]
  \cup [kind : {"staking"}, type : AmountTypes, amount : {One, Largest, TooLarge}, proof : SignatureProofs]
StakingTransactions ==
  {[Base EXCEPT !.data = data, !.recipient = recipient, !.recipientType = "STAKING",
                !.flags = flags] :
     data \in StakingDataSets, recipient \in {STAKING_CONTRACT, [STAKING_CONTRACT EXCEPT ![19] = 1]},
     flags \in {{}, {"SIGNALING"}}}

MCTransactions ==
  NormalTransactions \cup AmountTransactions \cup OutgoingTransactions \cup ContractCreations \cup StakingTransactions

-----------------------------------------------------------------------------
(* Serialization (external: core-rs-albatross) *)

IdIn(names, name) == CHOOSE i \in DOMAIN names : names[i] = name
AccountType(name) == IdIn(<<"BASIC", "VESTING", "HTLC", "STAKING">>, name) - 1
Flags(flags) == (IF "CONTRACT_CREATION" \in flags THEN 1 ELSE 0)
                + (IF "SIGNALING" \in flags THEN 2 ELSE 0)
U16Bytes(n) == <<n \div BYTE_SIZE, n % BYTE_SIZE>>
U32Bytes(n) == U16Bytes(n \div 65536) \o U16Bytes(n % 65536)

ProofBytes(proof) ==
  IF proof.kind = "empty" THEN Fill(0, 98)
  ELSE <<0>> \o proof.owner \o Fill(8, 12) \o <<0>> \o Fill(100, SIGNATURE_LENGTH)

StakingBytes(d) ==
  LET delegation == IF d.delegation = EMPTY THEN <<0>> ELSE <<1>> \o d.delegation
      data == IF d.type = "CREATE_STAKER" THEN delegation
              ELSE IF d.type = "UPDATE_STAKER"
              THEN delegation \o <<IF d.reactivate = "Yes" THEN 1 ELSE 0>>
              ELSE IF d.type = "ADD_STAKE" THEN d.staker
              ELSE AmountBytes[d.amount]
  IN <<IdIn(StakingTypes, d.type)>> \o data
     \o IF d.type = "ADD_STAKE" THEN <<>> ELSE ProofBytes(d.proof)

DataBytes(d) ==
  IF d.kind = "empty" THEN <<>>
  ELSE IF d.kind = "cashlink" THEN CASHLINK_MAGIC_NUMBER
  ELSE IF d.kind = "text" THEN Fill(126, LENGTH_NORMAL_TX_DATA_MAX)
  ELSE IF d.kind = "binary" THEN <<65, 127>>
  ELSE IF d.kind = "too long" THEN Fill(65, LENGTH_NORMAL_TX_DATA_MAX + 1)
  ELSE IF d.kind = "vesting" THEN d.owner \o d.schedule
  ELSE IF d.kind = "htlc"
  THEN d.refund \o d.redeem
       \o <<IdIn(<<"BLAKE2b", "ARGON2d", "SHA-256", "SHA-512">>, d.algorithm)>>
       \o d.hashRoot \o <<d.hashCount>> \o U32Bytes(d.timeout)
  ELSE StakingBytes(d)

SenderDataBytes(t) ==
  IF t.version = "LEGACY" THEN <<>>
  ELSE IF t.senderData = "empty" THEN <<0>>
  ELSE <<1, IF t.senderData = "REMOVE_STAKE" THEN 1 ELSE 0>>

\* The envelope of a transaction around any data.
SerializeWith(t, data) ==
  U16Bytes(Len(data)) \o data
  \o t.sender \o <<AccountType(t.senderType)>>
  \o t.recipient \o <<AccountType(t.recipientType)>>
  \o AmountBytes[t.value] \o AmountBytes[t.fee] \o U32Bytes(t.validityStartHeight)
  \o <<t.networkId, Flags(t.flags)>> \o SenderDataBytes(t)
Serialize(t) == SerializeWith(t, DataBytes(t.data))

WellFormed == {[version |-> t.version, bytes |-> Serialize(t), tx |-> t] : t \in MCTransactions}

-----------------------------------------------------------------------------
(* Bytes that encode no transaction *)

Samples ==
  {LegacyBase, [Base EXCEPT !.data.kind = "text"],
   [Base EXCEPT !.senderType = "STAKING", !.sender = STAKING_CONTRACT,
                !.senderData = "REMOVE_STAKE"]}
  \cup {[LegacyBase EXCEPT !.data = data, !.flags = {"CONTRACT_CREATION"},
                           !.recipientType = IF data.kind = "htlc" THEN "HTLC" ELSE "VESTING"] :
          data \in {d \in HtlcData : d.algorithm \in {"SHA-256", "SHA-512"} /\ d.timeout = 4}
                   \cup VestingData}
  \cup {[Base EXCEPT !.data = data, !.recipient = STAKING_CONTRACT, !.recipientType = "STAKING",
                     !.flags = IF IsSignaling(data.type) THEN {"SIGNALING"} ELSE {}] :
          data \in {d \in StakingDataSets : d.type = "ADD_STAKE" \/ d.proof.kind = "empty"}}

MalformedRequest(v, bytes) == [version |-> v, bytes |-> bytes, tx |-> Malformed]
Front1(s) == SubSeq(s, 1, Len(s) - 1)

UnprintableVesting ==
  {[LegacyBase EXCEPT !.data = [kind |-> "vesting", owner |-> Bob, schedule |-> schedule],
                      !.recipientType = "VESTING", !.flags = {"CONTRACT_CREATION"}] :
     schedule \in UnprintableSchedules}

\* The transaction without its last byte or with one more, or the same of its data;
\* a version the bytes are not in; a continued varint; a merkle path or an unknown
\* type of signature proof.
MCRequests ==
  WellFormed
  \cup {MalformedRequest(t.version, bytes) :
          t \in Samples, bytes \in {<<>>}}
  \cup {MalformedRequest(t.version, Serialize(t)) : t \in UnprintableVesting}
  \cup UNION {{MalformedRequest(t.version, Front1(Serialize(t))),
               MalformedRequest(t.version, Serialize(t) \o <<0>>),
               MalformedRequest(IF t.version = "LEGACY" THEN "ALBATROSS" ELSE "LEGACY",
                                Serialize(t))} : t \in Samples}
  \cup UNION {{MalformedRequest(t.version, SerializeWith(t, Front1(DataBytes(t.data)))),
               MalformedRequest(t.version, SerializeWith(t, DataBytes(t.data) \o <<0>>))} :
                t \in {s \in Samples : s.data.kind \notin {"empty", "text"}}}
  \cup {MalformedRequest("ALBATROSS", Front1(Serialize(Base)) \o <<128>>)}
  \cup UNION {LET data == DataBytes(t.data)
                  proof == Len(data) - 97
              IN {MalformedRequest(t.version, SerializeWith(t, [data EXCEPT ![i] = 1])) :
                    i \in {proof, proof + 33}} :
                t \in {s \in Samples : s.data.kind = "staking" /\ s.data.type # "ADD_STAKE"}}
=============================================================================
