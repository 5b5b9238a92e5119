------------------------ MODULE MCTransactionReview ------------------------
(* Constant values for model-checking TransactionReview.                    *)
EXTENDS TransactionReview

Base ==
  [version |-> "ALBATROSS", data |-> [kind |-> "empty"], sender |-> "alice",
   senderType |-> "BASIC", recipient |-> "bob", recipientType |-> "BASIC", value |-> 1,
   fee |-> 0, validityStartHeight |-> 2, networkId |-> 24, flags |-> {},
   senderData |-> "empty"]
LegacyBase == [Base EXCEPT !.version = "LEGACY", !.networkId = 42]
FlagSets == {{}, {"CONTRACT_CREATION"}, {"SIGNALING"}, {"CONTRACT_CREATION", "SIGNALING"}}

NormalTransactions ==
  {[t EXCEPT !.data.kind = kind, !.recipient = recipient, !.value = value, !.fee = fee,
             !.networkId = id, !.flags = flags] :
     t \in {Base, LegacyBase}, kind \in {"empty", "cashlink", "text", "binary", "too long"},
     recipient \in {"alice", "bob"}, value \in 0..2, fee \in {0, 1},
     id \in {24, 42, 5}, flags \in {{}, {"CONTRACT_CREATION"}}}

OutgoingTransactions ==
  {[t EXCEPT !.senderType = "STAKING", !.sender = sender, !.data.kind = kind,
             !.senderData = senderData, !.flags = flags, !.value = value] :
     t \in {Base, LegacyBase}, sender \in {"alice", STAKING_CONTRACT},
     kind \in {"empty", "text"}, senderData \in {"empty", "REMOVE_STAKE", "DELETE_VALIDATOR"},
     flags \in {{}, {"SIGNALING"}}, value \in 0..1}

HtlcData ==
  [kind : {"htlc"}, refund : {"alice", "carol"}, redeem : {"bob"}, hashRoot : {"root"},
   algorithm : {"BLAKE2b", "ARGON2d", "SHA-256"}, hashCount : 1..2, timeout : {0, 3, 9}]
VestingData ==
  [kind : {"vesting"}, owner : {"alice", "bob"}, schedule : {"one step", "two steps"}]
ContractCreations ==
  {[t EXCEPT !.data = data, !.recipient = "contract",
             !.recipientType = IF data.kind = "htlc" THEN "HTLC" ELSE "VESTING",
             !.senderType = senderType, !.flags = flags] :
     t \in {Base, LegacyBase}, data \in HtlcData \cup VestingData \cup {[kind |-> "text"]},
     senderType \in {"BASIC", "HTLC"}, flags \in FlagSets}

SignatureProofs == {[kind |-> "empty"]} \cup [kind : {"signed"}, owner : {"alice", "bob"}]
StakingData ==
  [kind : {"staking"}, type : {"CREATE_STAKER"}, delegation : {EMPTY, "carol"},
   proof : SignatureProofs]
  \cup [kind : {"staking"}, type : {"UPDATE_STAKER"}, delegation : {EMPTY, "carol"},
        reactivate : {"Yes", "No"}, proof : SignatureProofs]
  \cup [kind : {"staking"}, type : {"ADD_STAKE"}, staker : {"alice", "bob"}]
  \cup [kind : {"staking"}, type : AmountTypes, amount : 0..2, proof : SignatureProofs]
  \cup {[kind |-> "staking", type |-> "CREATE_VALIDATOR"], [kind |-> "text"]}
StakingTransactions ==
  {[Base EXCEPT !.data = data, !.recipient = recipient, !.recipientType = "STAKING",
                !.flags = flags, !.value = value] :
     data \in StakingData, recipient \in {"bob", STAKING_CONTRACT},
     flags \in FlagSets, value \in 0..1}
  \cup {[LegacyBase EXCEPT !.data = data, !.recipient = STAKING_CONTRACT,
                           !.recipientType = "STAKING"] : data \in StakingData}

MCTransactions ==
  NormalTransactions \cup OutgoingTransactions \cup ContractCreations \cup StakingTransactions
  \cup {[Base EXCEPT !.recipientType = "invalid"]}
=============================================================================
