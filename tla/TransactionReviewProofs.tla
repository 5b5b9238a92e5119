---------------------- MODULE TransactionReviewProofs ----------------------
(***************************************************************************)
(* Proofs about TransactionReview, for any set of transactions.            *)
(*                                                                         *)
(* The inductive invariant says that what is in memory during a review is  *)
(* a result of parsing the transaction under review, written over zeroed   *)
(* memory.  The properties then follow branch by branch of the parser: the *)
(* review of a type reads only fields that the branch has written, so that *)
(* neither zeroed nor reused memory ever shows.                            *)
(*                                                                         *)
(* A review is a concatenation of optional entries.  Its values are        *)
(* computed part by part.                                                  *)
(***************************************************************************)
EXTENDS TransactionReview, TLAPS

-----------------------------------------------------------------------------
(* Entries *)

IsList(entries) == \E S : entries \in Seq(S)

\* The values an optional entry contributes to those displayed with a label.
Shown(condition, label, value, wanted) ==
  IF condition /\ label = wanted THEN {value} ELSE {}

(* The values of two parts are those of each of them. *)
LEMMA PartsOfReview ==
  ASSUME NEW s, NEW t, IsList(s), IsList(t)
  PROVE  /\ IsList(s \o t)
         /\ \A label : Values(s \o t, label) = Values(s, label) \cup Values(t, label)
<1>1. PICK S : s \in Seq(S)
  BY DEF IsList
<1>2. PICK T : t \in Seq(T)
  BY DEF IsList
<1>3. s \in Seq(S \cup T) /\ t \in Seq(S \cup T)
  BY <1>1, <1>2
<1>4. s \o t \in Seq(S \cup T)
  BY <1>3
<1>5. ASSUME NEW label
      PROVE  Values(s \o t, label) = Values(s, label) \cup Values(t, label)
  <2> DEFINE u == s \o t
  <2>1. /\ Len(s) \in Nat /\ Len(t) \in Nat
        /\ DOMAIN s = 1..Len(s) /\ DOMAIN t = 1..Len(t) /\ DOMAIN u = 1..(Len(s) + Len(t))
        /\ \A i \in 1..Len(s) : u[i] = s[i]
        /\ \A i \in 1..Len(t) : u[Len(s) + i] = t[i]
    BY <1>3
  <2> HIDE DEF u
  <2>2. ASSUME NEW value \in Values(u, label)
        PROVE  value \in Values(s, label) \cup Values(t, label)
    <3>1. PICK i \in DOMAIN u : u[i][1] = label /\ value = u[i][2]
      BY DEF Values
    <3>2. CASE i \in 1..Len(s)
      <4>1. i \in DOMAIN s /\ s[i][1] = label /\ value = s[i][2]
        BY <2>1, <3>1, <3>2
      <4> QED BY <4>1 DEF Values
    <3>3. CASE i \notin 1..Len(s)
      <4>1. i - Len(s) \in 1..Len(t) /\ Len(s) + (i - Len(s)) = i
        BY <2>1, <3>1, <3>3
      <4>2. i - Len(s) \in DOMAIN t /\ t[i - Len(s)] = u[i]
        BY <2>1, <4>1
      <4> QED BY <3>1, <4>2 DEF Values
    <3> QED BY <3>2, <3>3
  <2>3. ASSUME NEW value \in Values(s, label)
        PROVE  value \in Values(u, label)
    <3>1. PICK i \in DOMAIN s : s[i][1] = label /\ value = s[i][2]
      BY <2>3 DEF Values
    <3>2. i \in DOMAIN u /\ u[i] = s[i]
      BY <2>1, <3>1
    <3> QED BY <3>1, <3>2 DEF Values
  <2>4. ASSUME NEW value \in Values(t, label)
        PROVE  value \in Values(u, label)
    <3>1. PICK i \in DOMAIN t : t[i][1] = label /\ value = t[i][2]
      BY <2>4 DEF Values
    <3>2. Len(s) + i \in DOMAIN u /\ u[Len(s) + i] = t[i]
      BY <2>1, <3>1
    <3> QED BY <3>1, <3>2 DEF Values
  <2>5. Values(u, label) = Values(s, label) \cup Values(t, label)
    BY <2>2, <2>3, <2>4, Zenon
  <2> QED BY <2>5 DEF u
<1> QED BY <1>4, <1>5 DEF IsList

(* The values of an entry that is displayed under a condition. *)
LEMMA OptionalPart ==
  ASSUME NEW condition, NEW label, NEW value
  PROVE  /\ IsList(Optional(condition, label, value))
         /\ \A wanted : Values(Optional(condition, label, value), wanted)
                          = Shown(condition, label, value, wanted)
<1> DEFINE e == <<<<label, value>>>>
<1>1. /\ e \in Seq({<<label, value>>}) /\ <<>> \in Seq({<<label, value>>})
      /\ DOMAIN e = {1} /\ DOMAIN <<>> = {} /\ e[1] = <<label, value>>
      /\ e[1][1] = label /\ e[1][2] = value
  OBVIOUS
<1>2. IsList(e) /\ IsList(<<>>)
  BY <1>1 DEF IsList
<1> HIDE DEF e
<1>3. \A wanted : Values(<<>>, wanted) = {}
  BY <1>1 DEF Values
<1>4. ASSUME NEW wanted PROVE Values(e, wanted) = IF label = wanted THEN {value} ELSE {}
  BY <1>1 DEF Values
<1>5. CASE condition
  <2>1. Optional(condition, label, value) = e
    BY <1>5, Zenon DEF Optional, e
  <2> QED BY <1>2, <1>4, <1>5, <2>1, Zenon DEF Shown
<1>6. CASE ~condition
  <2>1. Optional(condition, label, value) = <<>>
    BY <1>6, Zenon DEF Optional
  <2> QED BY <1>2, <1>3, <1>6, <2>1, Zenon DEF Shown
<1> QED BY <1>5, <1>6

(* The value of an entry that is always displayed. *)
LEMMA EntryPart ==
  ASSUME NEW label, NEW value
  PROVE  /\ IsList(Entry(label, value))
         /\ \A wanted : Values(Entry(label, value), wanted) = Shown(TRUE, label, value, wanted)
<1>1. Entry(label, value) = Optional(TRUE, label, value)
  BY DEF Entry, Optional
<1> QED BY <1>1, OptionalPart, Zenon

-----------------------------------------------------------------------------
(* What the parser writes *)

\* The fields that a branch of the parser has written are in memory as written.
Holds(memory, fields) ==
  /\ DOMAIN fields \subseteq Fields
  /\ \A f \in DOMAIN fields : memory[f] = fields[f]

(* Fields of each layout are fields of the union. *)
LEMMA LayoutsAreFields ==
  /\ NormalFields \subseteq Fields /\ HtlcFields \subseteq Fields
  /\ VestingFields \subseteq Fields /\ StakerFields \subseteq Fields
  /\ AmountFields \subseteq Fields
BY DEF Fields, Layouts

(* Writing fields over zeroed memory leaves exactly them readable. *)
LEMMA WrittenHolds ==
  ASSUME NEW fields, DOMAIN fields \subseteq Fields
  PROVE  Holds(Written(fields), fields) /\ DOMAIN Written(fields) = Fields
BY DEF Holds, Written

\* What ctx.req.tx.parsed and its union hold after a transaction was parsed.
IsParsed(t, p, s) ==
  \E result \in ParseTx(t) :
    /\ p = [type |-> result.type, label |-> result.label, value |-> t.value,
            fee |-> t.fee, network |-> NetworkName(t.version, t.networkId)]
    /\ s = Written(result.fields)

\* The inductive invariant: nothing is under review, or what was parsed is.
PInv ==
  \/ tx = NoTransaction /\ parsed = Unparsed /\ DOMAIN specific = Fields
  \/ tx \in Transactions /\ IsParsed(tx, parsed, specific)

(* It holds at first and after each request. *)
LEMMA ParsedIsOfTransaction == Spec => []PInv
<1>1. Init => PInv
  BY DEF Init, PInv
<1>2. PInv /\ [Next]_vars => PInv'
  <2> SUFFICES ASSUME PInv, [Next]_vars PROVE PInv'
    OBVIOUS
  <2>1. ASSUME NEW t \in Transactions, AcceptTransaction(t) PROVE PInv'
    <3>1. tx' \in Transactions /\ IsParsed(tx', parsed', specific')
      BY <2>1, Zenon DEF AcceptTransaction, IsParsed
    <3> QED BY <3>1, Zenon DEF PInv, IsParsed
  <2>2. CASE (\E t \in Transactions : RejectTransaction(t)) \/ OtherRequest
    <3>1. tx' = NoTransaction /\ parsed' = Unparsed /\ DOMAIN specific' = Fields
      BY <2>2 DEF RejectTransaction, OtherRequest
    <3> QED BY <3>1, Zenon DEF PInv, NoTransaction, Unparsed
  <2>3. CASE UNCHANGED vars
    BY <2>3, Zenon DEF vars, PInv, IsParsed
  <2> QED BY <2>1, <2>2, <2>3 DEF Next
<1> QED BY <1>1, <1>2, PTL DEF Spec

\* One operator per branch of the parser: when it is taken, and what it results in.
OutgoingCase(t, result) ==
  /\ t.data.kind = "empty" /\ t.flags = {}
  /\ result.type = "STAKING_OUTGOING" /\ result.label = "REMOVE_STAKE"
  /\ result.fields = [recipient |-> t.recipient, extraDataLabel |-> EMPTY, extraData |-> EMPTY]

NormalData(t) == IF t.data.kind \in {"empty", "cashlink"} THEN EMPTY ELSE t.data.kind
NormalCase(t, result) ==
  /\ t.recipientType = "BASIC"
  /\ result.type = "NORMAL"
  /\ result.label = IF t.data.kind = "cashlink" THEN "CASHLINK" ELSE "REGULAR_TRANSACTION"
  /\ result.fields =
       [recipient |-> t.recipient,
        extraDataLabel |-> IF NormalData(t) = EMPTY THEN EMPTY
                           ELSE IF t.data.kind = "text" THEN "Data" ELSE "Data Hex",
        extraData |-> NormalData(t)]

VestingCase(t, result) ==
  /\ t.recipientType = "VESTING" /\ t.flags = {"CONTRACT_CREATION"}
  /\ result.type = "VESTING_CREATION"
  /\ result.fields = [owner |-> t.data.owner, isOwnerSender |-> t.data.owner = t.sender,
                      schedule |-> t.data.schedule]

HtlcCase(t, result) ==
  /\ t.recipientType = "HTLC" /\ t.flags = {"CONTRACT_CREATION"} /\ t.data.kind = "htlc"
  /\ result.type = "HTLC_CREATION"
  /\ result.fields =
       [redeem |-> t.data.redeem, refund |-> t.data.refund,
        isRefundSender |-> t.data.refund = t.sender,
        isSoon |-> IsTimingOutSoon(t.data.timeout, t.validityStartHeight),
        algorithm |-> t.data.algorithm, hashRoot |-> t.data.hashRoot,
        hashCount |-> t.data.hashCount, timeout |-> t.data.timeout]

IncomingCase(t, result) ==
  /\ t.recipientType = "STAKING" /\ t.data.kind = "staking"
  /\ t.data.type \in StakerTypes \cup AmountTypes \cup {"ADD_STAKE"}
  /\ t.data.type \in AmountTypes => t.flags = {"SIGNALING"}
  /\ result.type = "STAKING_INCOMING" /\ result.label = t.data.type
  /\ result.fields = With(StakingDataFields(t.data), ProofFields(t))

(* A transaction that parses was parsed in one of the branches. *)
LEMMA ParseCases ==
  ASSUME NEW t, NEW result \in ParseTx(t)
  PROVE  /\ HasPrintableAmounts(t) /\ NetworkName(t.version, t.networkId) # EMPTY
         /\ \/ OutgoingCase(t, result)
            \/ NormalCase(t, result)
            \/ VestingCase(t, result)
            \/ HtlcCase(t, result)
            \/ IncomingCase(t, result)
<1>1. /\ HasPrintableAmounts(t) /\ NetworkName(t.version, t.networkId) # EMPTY
      /\ \/ result \in ParseStakingOutgoing(t)
         \/ t.recipientType = "BASIC" /\ result \in ParseNormal(t)
         \/ t.recipientType \in {"VESTING", "HTLC"} /\ result \in ParseContractCreation(t)
         \/ t.recipientType = "STAKING" /\ result \in ParseStakingIncoming(t)
  BY Zenon DEF ParseTx
<1>2. \A type, label, fields :
        result \in Result(type, label, fields) =>
          result.type = type /\ result.label = label /\ result.fields = fields
  BY DEF Result
<1>3. ASSUME result \in ParseStakingOutgoing(t) PROVE OutgoingCase(t, result)
  <2>1. /\ t.flags = {} /\ t.data.kind = "empty"
        /\ result \in Result("STAKING_OUTGOING", "REMOVE_STAKE",
              [recipient |-> t.recipient, extraDataLabel |-> EMPTY, extraData |-> EMPTY])
    BY <1>3 DEF ParseStakingOutgoing
  <2> QED BY <1>2, <2>1, Zenon DEF OutgoingCase
<1>4. ASSUME t.recipientType = "BASIC", result \in ParseNormal(t) PROVE NormalCase(t, result)
  <2>1. result \in
          Result("NORMAL", IF t.data.kind = "cashlink" THEN "CASHLINK" ELSE "REGULAR_TRANSACTION",
                 [recipient |-> t.recipient,
                  extraDataLabel |-> IF NormalData(t) = EMPTY THEN EMPTY
                                     ELSE IF t.data.kind = "text" THEN "Data" ELSE "Data Hex",
                  extraData |-> NormalData(t)])
    BY <1>4 DEF ParseNormal, NormalData
  <2> QED BY <1>2, <1>4, <2>1, Zenon DEF NormalCase
<1>5. ASSUME t.recipientType \in {"VESTING", "HTLC"}, result \in ParseContractCreation(t)
      PROVE  VestingCase(t, result) \/ HtlcCase(t, result)
  <2>1. /\ t.flags = {"CONTRACT_CREATION"}
        /\ \/ t.recipientType = "VESTING" /\ result \in ParseVestingCreation(t)
           \/ t.recipientType = "HTLC" /\ result \in ParseHtlcCreation(t)
    BY <1>5 DEF ParseContractCreation
  <2>2. ASSUME result \in ParseVestingCreation(t), t.recipientType = "VESTING"
        PROVE  VestingCase(t, result)
    <3> DEFINE fields ==
          [owner |-> t.data.owner, isOwnerSender |-> t.data.owner = t.sender,
           schedule |-> t.data.schedule]
    <3>1. result \in Result("VESTING_CREATION", "VESTING_CREATION", fields)
      BY <2>2 DEF ParseVestingCreation
    <3>2. result.type = "VESTING_CREATION" /\ result.fields = fields
      <4> HIDE DEF fields
      <4> QED BY <1>2, <3>1
    <3> QED BY <2>1, <2>2, <3>2, Zenon DEF VestingCase
  <2>3. ASSUME result \in ParseHtlcCreation(t), t.recipientType = "HTLC"
        PROVE  HtlcCase(t, result)
    <3> DEFINE fields ==
          [redeem |-> t.data.redeem, refund |-> t.data.refund,
           isRefundSender |-> t.data.refund = t.sender,
           isSoon |-> IsTimingOutSoon(t.data.timeout, t.validityStartHeight),
           algorithm |-> t.data.algorithm, hashRoot |-> t.data.hashRoot,
           hashCount |-> t.data.hashCount, timeout |-> t.data.timeout]
    <3>1. t.data.kind = "htlc" /\ result \in Result("HTLC_CREATION", "HTLC_CREATION", fields)
      BY <2>3 DEF ParseHtlcCreation
    <3>2. result.type = "HTLC_CREATION" /\ result.fields = fields
      <4> HIDE DEF fields
      <4> QED BY <1>2, <3>1
    <3> QED BY <2>1, <2>3, <3>1, <3>2, Zenon DEF HtlcCase
  <2> QED BY <2>1, <2>2, <2>3
<1>6. ASSUME t.recipientType = "STAKING", result \in ParseStakingIncoming(t)
      PROVE  IncomingCase(t, result)
  <2> DEFINE Refused == \/ t.flags \notin {{}, {"SIGNALING"}} \/ t.senderData # "empty"
                        \/ t.recipient # STAKING_CONTRACT
                        \/ t.version = "LEGACY" \/ t.data.kind # "staking"
                        \/ t.data.type \notin StakerTypes \cup AmountTypes \cup {"ADD_STAKE"}
                        \/ t.data.type \in AmountTypes /\ t.data.amount > MAX_SAFE_LUNA_AMOUNT
                        \/ (t.flags = {"SIGNALING"}) # IsSignaling(t.data.type)
  <2>1. ~Refused /\ result \in Result("STAKING_INCOMING", t.data.type,
                                       With(StakingDataFields(t.data), ProofFields(t)))
    BY <1>6, Zenon DEF ParseStakingIncoming
  <2>2. t.data.type \in AmountTypes => IsSignaling(t.data.type)
    BY DEF IsSignaling
  <2>3. t.data.type \in AmountTypes => t.flags = {"SIGNALING"}
    BY <2>1, <2>2
  <2>4. /\ t.data.kind = "staking"
        /\ t.data.type \in StakerTypes \cup AmountTypes \cup {"ADD_STAKE"}
    BY <2>1
  <2>5. /\ result.type = "STAKING_INCOMING" /\ result.label = t.data.type
        /\ result.fields = With(StakingDataFields(t.data), ProofFields(t))
    <3> DEFINE fields == With(StakingDataFields(t.data), ProofFields(t))
    <3>1. result \in Result("STAKING_INCOMING", t.data.type, fields)
      BY <2>1
    <3> HIDE DEF fields
    <3>2. result.type = "STAKING_INCOMING" /\ result.label = t.data.type /\ result.fields = fields
      BY <1>2, <3>1
    <3> QED BY <3>2 DEF fields
  <2> QED BY <1>6, <2>3, <2>4, <2>5, Zenon DEF IncomingCase
<1> QED BY <1>1, <1>3, <1>4, <1>5, <1>6

(* Joining two records: where they overlap the first counts. *)
LEMMA WithFields ==
  ASSUME NEW f, NEW g
  PROVE  /\ DOMAIN With(f, g) = DOMAIN f \cup DOMAIN g
         /\ \A x \in DOMAIN f : With(f, g)[x] = f[x]
         /\ \A x \in DOMAIN g : x \notin DOMAIN f => With(f, g)[x] = g[x]
BY DEF With

(* The data fields of a staking transaction, by the type of its data. *)
LEMMA StakingDataFieldsAre ==
  ASSUME NEW d
  PROVE  LET fields == StakingDataFields(d) IN
         /\ DOMAIN fields \subseteq {"stakingType", "delegation", "reactivate", "amount"}
         /\ "stakingType" \in DOMAIN fields /\ fields["stakingType"] = d.type
         /\ d.type \in StakerTypes =>
              "delegation" \in DOMAIN fields /\ fields["delegation"] = d.delegation
         /\ d.type = "UPDATE_STAKER" =>
              "reactivate" \in DOMAIN fields /\ fields["reactivate"] = d.reactivate
         /\ d.type \in AmountTypes => "amount" \in DOMAIN fields /\ fields["amount"] = d.amount
<1> DEFINE first == [stakingType |-> d.type]
           rest == IF d.type = "CREATE_STAKER" THEN [delegation |-> d.delegation]
                   ELSE IF d.type = "UPDATE_STAKER"
                   THEN [delegation |-> d.delegation, reactivate |-> d.reactivate]
                   ELSE IF d.type \in AmountTypes THEN [amount |-> d.amount]
                   ELSE NoFields
           fields == StakingDataFields(d)
<1>1. fields = With(first, rest)
  BY Zenon DEF StakingDataFields
<1>2. DOMAIN first = {"stakingType"} /\ first["stakingType"] = d.type
  OBVIOUS
<1>3. /\ DOMAIN rest \subseteq {"delegation", "reactivate", "amount"}
      /\ d.type \in StakerTypes => "delegation" \in DOMAIN rest /\ rest["delegation"] = d.delegation
      /\ d.type = "UPDATE_STAKER" =>
           "reactivate" \in DOMAIN rest /\ rest["reactivate"] = d.reactivate
      /\ d.type \in AmountTypes => "amount" \in DOMAIN rest /\ rest["amount"] = d.amount
  <2>1. CASE d.type = "CREATE_STAKER"
    <3>1. rest = [delegation |-> d.delegation]
      BY <2>1
    <3> HIDE DEF rest
    <3> QED BY <2>1, <3>1 DEF StakerTypes, AmountTypes
  <2>2. CASE d.type = "UPDATE_STAKER"
    <3>1. rest = [delegation |-> d.delegation, reactivate |-> d.reactivate]
      BY <2>2
    <3> HIDE DEF rest
    <3> QED BY <2>2, <3>1 DEF StakerTypes, AmountTypes
  <2>3. CASE d.type \in AmountTypes
    <3>1. rest = [amount |-> d.amount] /\ d.type \notin StakerTypes
      BY <2>3 DEF StakerTypes, AmountTypes
    <3> HIDE DEF rest
    <3> QED BY <2>3, <3>1 DEF StakerTypes
  <2>4. CASE d.type \notin StakerTypes \cup AmountTypes
    <3>1. rest = NoFields
      BY <2>4 DEF StakerTypes
    <3> HIDE DEF rest
    <3>2. DOMAIN rest = {}
      BY <3>1 DEF NoFields
    <3> QED BY <2>4, <3>2 DEF StakerTypes
  <2> QED BY <2>1, <2>2, <2>3, <2>4 DEF StakerTypes
<1> HIDE DEF first, rest, fields
<1>4. /\ DOMAIN fields = DOMAIN first \cup DOMAIN rest
      /\ \A x \in DOMAIN first : fields[x] = first[x]
      /\ \A x \in DOMAIN rest : x \notin DOMAIN first => fields[x] = rest[x]
  <2> DEFINE both == With(first, rest)
  <2>1. /\ DOMAIN both = DOMAIN first \cup DOMAIN rest
        /\ \A x \in DOMAIN first : both[x] = first[x]
        /\ \A x \in DOMAIN rest : x \notin DOMAIN first => both[x] = rest[x]
    BY WithFields, Zenon
  <2>2. both = fields
    BY <1>1
  <2> HIDE DEF both
  <2> QED BY <2>1, <2>2
<1>5. \A x \in DOMAIN rest : x \in DOMAIN fields /\ fields[x] = rest[x]
  BY <1>2, <1>3, <1>4
<1>6. "stakingType" \in DOMAIN fields /\ fields["stakingType"] = d.type
  BY <1>2, <1>4
<1>7. DOMAIN fields \subseteq {"stakingType", "delegation", "reactivate", "amount"}
  BY <1>2, <1>3, <1>4
<1> QED BY <1>3, <1>5, <1>6, <1>7 DEF fields

(* The proof of a staking transaction, and the staker that it or the data tells. *)
LEMMA ProofFieldsAre ==
  ASSUME NEW t
  PROVE  LET fields == ProofFields(t)
             d == t.data
         IN
         /\ DOMAIN fields \subseteq {"hasProof", "proof", "staker"}
         /\ "hasProof" \in DOMAIN fields /\ fields["hasProof"] = (d.type # "ADD_STAKE")
         /\ d.type # "ADD_STAKE" => "proof" \in DOMAIN fields /\ fields["proof"] = d.proof.kind
         /\ "staker" \in DOMAIN fields
         /\ fields["staker"] = IF d.type = "ADD_STAKE" THEN StakerField(d.staker, t.sender)
                               ELSE IF d.proof.kind = "empty" THEN EMPTY
                               ELSE StakerField(d.proof.owner, t.sender)
<1> DEFINE d == t.data
           fields == ProofFields(t)
<1>1. CASE d.type = "ADD_STAKE"
  <2>1. fields = [hasProof |-> FALSE, staker |-> StakerField(d.staker, t.sender)]
    BY <1>1 DEF ProofFields
  <2> HIDE DEF fields
  <2>2. /\ DOMAIN fields = {"hasProof", "staker"} /\ fields["hasProof"] = FALSE
        /\ fields["staker"] = StakerField(d.staker, t.sender)
    BY <2>1
  <2>3. fields["hasProof"] = (d.type # "ADD_STAKE")
    BY <1>1, <2>2
  <2> QED BY <1>1, <2>2, <2>3 DEF fields
<1>2. CASE d.type # "ADD_STAKE"
  <2> DEFINE staker == IF d.proof.kind = "empty" THEN EMPTY
                       ELSE StakerField(d.proof.owner, t.sender)
  <2>1. fields = [hasProof |-> TRUE, proof |-> d.proof.kind, staker |-> staker]
    BY <1>2 DEF ProofFields
  <2> HIDE DEF fields, staker
  <2>2. /\ DOMAIN fields = {"hasProof", "proof", "staker"} /\ fields["hasProof"] = TRUE
        /\ fields["proof"] = d.proof.kind /\ fields["staker"] = staker
    BY <2>1
  <2>3. fields["hasProof"] = (d.type # "ADD_STAKE")
    BY <1>2, <2>2
  <2> QED BY <1>2, <2>2, <2>3 DEF fields, staker
<1> QED BY <1>1, <1>2

(* What the memory of an incoming staking transaction holds. *)
LEMMA IncomingMemory ==
  ASSUME NEW t, NEW result, IncomingCase(t, result), NEW s, s = Written(result.fields)
  PROVE  LET d == t.data IN
         /\ DOMAIN s = Fields
         /\ s.stakingType = d.type
         /\ d.type \in StakerTypes => s.delegation = d.delegation
         /\ d.type = "UPDATE_STAKER" => s.reactivate = d.reactivate
         /\ d.type \in AmountTypes => s.amount = d.amount
         /\ s.hasProof = (d.type # "ADD_STAKE")
         /\ d.type # "ADD_STAKE" => s.proof = d.proof.kind
         /\ s.staker = IF d.type = "ADD_STAKE" THEN StakerField(d.staker, t.sender)
                       ELSE IF d.proof.kind = "empty" THEN EMPTY
                       ELSE StakerField(d.proof.owner, t.sender)
<1> DEFINE d == t.data
           data == StakingDataFields(d)
           proof == ProofFields(t)
           fields == With(data, proof)
           staker == IF d.type = "ADD_STAKE" THEN StakerField(d.staker, t.sender)
                     ELSE IF d.proof.kind = "empty" THEN EMPTY
                     ELSE StakerField(d.proof.owner, t.sender)
<1>1. s = Written(fields)
  BY DEF IncomingCase
<1>2. /\ DOMAIN data \subseteq {"stakingType", "delegation", "reactivate", "amount"}
      /\ "stakingType" \in DOMAIN data /\ data["stakingType"] = d.type
      /\ d.type \in StakerTypes => "delegation" \in DOMAIN data /\ data["delegation"] = d.delegation
      /\ d.type = "UPDATE_STAKER" =>
           "reactivate" \in DOMAIN data /\ data["reactivate"] = d.reactivate
      /\ d.type \in AmountTypes => "amount" \in DOMAIN data /\ data["amount"] = d.amount
  BY StakingDataFieldsAre, Zenon
<1>3. /\ DOMAIN proof \subseteq {"hasProof", "proof", "staker"}
      /\ "hasProof" \in DOMAIN proof /\ proof["hasProof"] = (d.type # "ADD_STAKE")
      /\ d.type # "ADD_STAKE" => "proof" \in DOMAIN proof /\ proof["proof"] = d.proof.kind
      /\ "staker" \in DOMAIN proof /\ proof["staker"] = staker
  BY ProofFieldsAre, Zenon
<1> HIDE DEF data, proof, fields, staker
<1>4. /\ DOMAIN fields = DOMAIN data \cup DOMAIN proof
      /\ \A x \in DOMAIN data : fields[x] = data[x]
      /\ \A x \in DOMAIN proof : x \notin DOMAIN data => fields[x] = proof[x]
  BY WithFields DEF fields
<1>5. DOMAIN fields \subseteq Fields
  BY <1>2, <1>3, <1>4 DEF Fields, Layouts, StakerFields, AmountFields, StakingFields
<1>6. Holds(s, fields) /\ DOMAIN s = Fields
  BY <1>1, <1>5, WrittenHolds
<1>7. /\ \A x \in DOMAIN data : s[x] = data[x]
      /\ \A x \in DOMAIN proof : s[x] = proof[x]
  BY <1>2, <1>3, <1>4, <1>6 DEF Holds
<1>8. /\ s.stakingType = s["stakingType"] /\ s.delegation = s["delegation"]
      /\ s.reactivate = s["reactivate"] /\ s.amount = s["amount"]
      /\ s.hasProof = s["hasProof"] /\ s.proof = s["proof"] /\ s.staker = s["staker"]
  OBVIOUS
<1>9. s.hasProof = (d.type # "ADD_STAKE")
  BY <1>3, <1>7, <1>8, Zenon
<1>10. s.staker = staker
  BY <1>3, <1>7, <1>8, Zenon
<1>11. /\ s.stakingType = d.type
       /\ d.type \in StakerTypes => s.delegation = d.delegation
       /\ d.type = "UPDATE_STAKER" => s.reactivate = d.reactivate
       /\ d.type \in AmountTypes => s.amount = d.amount
       /\ d.type # "ADD_STAKE" => s.proof = d.proof.kind
  BY <1>2, <1>3, <1>7, <1>8, Zenon
<1> QED BY <1>6, <1>9, <1>10, <1>11, Zenon DEF staker

-----------------------------------------------------------------------------
(* Type correctness, and the staker proof *)

(* A network is one of the four the app knows. *)
LEMMA NetworkNames ==
  ASSUME NEW version, NEW id, NetworkName(version, id) # EMPTY
  PROVE  NetworkName(version, id) \in {"Main", "Test", "Development", "Bounty"}
<1> DEFINE ids == IF version = "LEGACY" THEN <<42, 1, 2, 3>> ELSE <<24, 5, 6, 7>>
           names == <<"Main", "Test", "Development", "Bounty">>
           known == \E i \in 1..4 : ids[i] = id
           chosen == CHOOSE i \in 1..4 : ids[i] = id
<1>1. NetworkName(version, id) = IF known THEN names[chosen] ELSE EMPTY
  BY Zenon DEF NetworkName
<1>2. known
  BY <1>1
<1>3. chosen \in 1..4
  BY <1>2
<1> HIDE DEF chosen, known
<1>4. names[chosen] \in {"Main", "Test", "Development", "Bounty"}
  BY <1>3
<1> QED BY <1>1, <1>2, <1>4

(* What is under review was parsed. *)
LEMMA Reviewed ==
  ASSUME PInv, InReview
  PROVE  /\ tx \in Transactions
         /\ \E result \in ParseTx(tx) :
              /\ parsed.type = result.type /\ parsed.label = result.label
              /\ parsed.value = tx.value /\ parsed.fee = tx.fee
              /\ parsed.network = NetworkName(tx.version, tx.networkId)
              /\ specific = Written(result.fields)
<1>1. tx \in Transactions /\ IsParsed(tx, parsed, specific)
  BY DEF PInv, InReview
<1>2. PICK result \in ParseTx(tx) :
        /\ parsed = [type |-> result.type, label |-> result.label, value |-> tx.value,
                     fee |-> tx.fee, network |-> NetworkName(tx.version, tx.networkId)]
        /\ specific = Written(result.fields)
  BY <1>1, Zenon DEF IsParsed
<1>3. /\ parsed.type = result.type /\ parsed.label = result.label
      /\ parsed.value = tx.value /\ parsed.fee = tx.fee
      /\ parsed.network = NetworkName(tx.version, tx.networkId)
  BY <1>2
<1> QED BY <1>1, <1>2, <1>3, Zenon

(* Amounts that were accepted can be printed, the network of a review is known, and the
   parser never leaves a type that no review is prepared for. *)
THEOREM ParsedTypesAreCorrect == Spec => []TypeOK
<1>1. ASSUME PInv, ~InReview PROVE TypeOK
  <2>1. /\ parsed = Unparsed /\ DOMAIN specific = Fields /\ tx = NoTransaction
    <3>1. NoTransaction \notin Transactions
      BY TransactionAssumption DEF NoTransaction
    <3> QED BY <1>1, <3>1 DEF PInv, InReview
  <2>2. parsed.type = "none" /\ parsed.value = 0 /\ parsed.fee = 0
    BY <2>1 DEF Unparsed
  <2>3. {parsed.value, parsed.fee} \subseteq 0..MAX_SAFE_LUNA_AMOUNT
    <3>1. MAX_SAFE_LUNA_AMOUNT \in Nat
      BY TransactionAssumption
    <3> QED BY <2>2, <3>1
  <2> QED BY <1>1, <2>1, <2>2, <2>3 DEF TypeOK
<1>2. ASSUME PInv, InReview PROVE TypeOK
  <2>1. PICK result \in ParseTx(tx) :
          /\ parsed.type = result.type /\ parsed.label = result.label
          /\ parsed.value = tx.value /\ parsed.fee = tx.fee
          /\ parsed.network = NetworkName(tx.version, tx.networkId)
          /\ specific = Written(result.fields)
    BY <1>2, Reviewed
  <2>2. tx \in Transactions
    BY <1>2, Reviewed
  <2>3. /\ HasPrintableAmounts(tx)
        /\ parsed.network \in {"Main", "Test", "Development", "Bounty"}
    BY <2>1, ParseCases, NetworkNames
  <2>4. {parsed.value, parsed.fee} \subseteq 0..MAX_SAFE_LUNA_AMOUNT
    <3>1. MAX_SAFE_LUNA_AMOUNT \in Nat /\ {tx.value, tx.fee} \subseteq Nat
      BY <2>2, TransactionAssumption
    <3>2. tx.value <= MAX_SAFE_LUNA_AMOUNT /\ tx.fee <= MAX_SAFE_LUNA_AMOUNT
      BY <2>3 DEF HasPrintableAmounts
    <3> QED BY <2>1, <3>1, <3>2
  <2>5. /\ DOMAIN specific = Fields
        /\ parsed.type \in {"NORMAL", "STAKING_OUTGOING", "HTLC_CREATION", "VESTING_CREATION",
                            "STAKING_INCOMING"}
    <3>1. DOMAIN specific = Fields
      BY <2>1 DEF Written
    <3>2. \/ OutgoingCase(tx, result) \/ NormalCase(tx, result) \/ VestingCase(tx, result)
          \/ HtlcCase(tx, result) \/ IncomingCase(tx, result)
      BY <2>1, ParseCases, Zenon
    <3>3. result.type \in {"NORMAL", "STAKING_OUTGOING", "HTLC_CREATION", "VESTING_CREATION",
                           "STAKING_INCOMING"}
      BY <3>2, Zenon DEF OutgoingCase, NormalCase, VestingCase, HtlcCase, IncomingCase
    <3> QED BY <2>1, <3>1, <3>3, Zenon
  <2> QED BY <2>2, <2>3, <2>4, <2>5 DEF TypeOK
<1>3. PInv => TypeOK
  BY <1>1, <1>2
<1> QED BY <1>3, ParsedIsOfTransaction, PTL

(* The app adds its own signature to a staking transaction if, and only if, that very
   transaction came with the empty default proof: hasProof and proof are read only for an
   incoming staking transaction, whose parser has written them. *)
THEOREM OnlyEmptyProofsAreFilledIn == Spec => []ProofIsFilledInOnlyIfEmpty
<1>1. ASSUME PInv, InReview
      PROVE  CreatesStakerSignature <=>
               /\ tx.recipientType = "STAKING" /\ tx.data.kind = "staking"
               /\ tx.data.type # "ADD_STAKE"
               /\ tx.data.proof.kind = "empty"
  <2>1. PICK result \in ParseTx(tx) :
          /\ parsed.type = result.type /\ parsed.label = result.label
          /\ parsed.value = tx.value /\ parsed.fee = tx.fee
          /\ parsed.network = NetworkName(tx.version, tx.networkId)
          /\ specific = Written(result.fields)
    BY <1>1, Reviewed
  <2>2. CASE IncomingCase(tx, result)
    <3>1. /\ specific.hasProof = (tx.data.type # "ADD_STAKE")
          /\ tx.data.type # "ADD_STAKE" => specific.proof = tx.data.proof.kind
      BY <2>1, <2>2, IncomingMemory, Zenon
    <3>2. /\ parsed.type = "STAKING_INCOMING"
          /\ tx.recipientType = "STAKING" /\ tx.data.kind = "staking"
      BY <2>1, <2>2 DEF IncomingCase
    <3>3. specific.hasProof = TRUE <=> tx.data.type # "ADD_STAKE"
      BY <3>1
    <3> QED BY <3>1, <3>2, <3>3, Zenon DEF CreatesStakerSignature
  <2>3. CASE ~IncomingCase(tx, result)
    <3>1. \/ OutgoingCase(tx, result) \/ NormalCase(tx, result) \/ VestingCase(tx, result)
          \/ HtlcCase(tx, result)
      BY <2>3, ParseCases
    <3>2. /\ parsed.type # "STAKING_INCOMING"
          /\ tx.recipientType # "STAKING" \/ tx.data.kind # "staking"
      BY <2>1, <3>1 DEF OutgoingCase, NormalCase, VestingCase, HtlcCase
    <3> QED BY <3>2 DEF CreatesStakerSignature
  <2> QED BY <2>2, <2>3
<1>2. PInv => ProofIsFilledInOnlyIfEmpty
  BY <1>1, Zenon DEF ProofIsFilledInOnlyIfEmpty
<1> QED BY <1>2, ParsedIsOfTransaction, PTL

-----------------------------------------------------------------------------
(* The two kinds of devices *)

(* For the types that a touch screen can review, its entries are those of the flow on a
   device with buttons, although the one asks for the staking type and the other for the
   transaction type. *)
THEOREM BothDevicesAgree == Spec => []DevicesAgree
<1>1. ASSUME NbglSupported PROVE BaglEntries = NbglEntries
  <2>1. CASE parsed.type = "STAKING_INCOMING"
    BY <2>1 DEF BaglEntries, NbglEntries
  <2>2. CASE parsed.type \in {"NORMAL", "STAKING_OUTGOING"}
    BY <2>2 DEF BaglEntries, NbglEntries
  <2> QED BY <1>1, <2>1, <2>2 DEF NbglSupported
<1>2. DevicesAgree
  BY <1>1 DEF DevicesAgree
<1> QED BY <1>2, PTL

-----------------------------------------------------------------------------
(* What the review tells *)

(* A review of four parts, and one of six. *)
LEMMA FourParts ==
  ASSUME NEW a, NEW b, NEW c, NEW d, IsList(a), IsList(b), IsList(c), IsList(d)
  PROVE  /\ IsList(a \o b \o c \o d)
         /\ \A m : Values(a \o b \o c \o d, m)
                     = Values(a, m) \cup Values(b, m) \cup Values(c, m) \cup Values(d, m)
<1> DEFINE ab == a \o b
           abc == ab \o c
<1>1. IsList(ab) /\ \A m : Values(ab, m) = Values(a, m) \cup Values(b, m)
  BY PartsOfReview
<1> HIDE DEF ab
<1>2. IsList(abc) /\ \A m : Values(abc, m) = Values(ab, m) \cup Values(c, m)
  BY <1>1, PartsOfReview
<1> HIDE DEF abc
<1>3. IsList(abc \o d) /\ \A m : Values(abc \o d, m) = Values(abc, m) \cup Values(d, m)
  BY <1>2, PartsOfReview
<1>4. \A m : Values(abc \o d, m)
               = Values(a, m) \cup Values(b, m) \cup Values(c, m) \cup Values(d, m)
  BY <1>1, <1>2, <1>3
<1> QED BY <1>3, <1>4 DEF ab, abc

LEMMA SixParts ==
  ASSUME NEW a, NEW b, NEW c, NEW d, NEW e, NEW f,
         IsList(a), IsList(b), IsList(c), IsList(d), IsList(e), IsList(f)
  PROVE  /\ IsList(a \o b \o c \o d \o e \o f)
         /\ \A m : Values(a \o b \o c \o d \o e \o f, m)
                     = Values(a, m) \cup Values(b, m) \cup Values(c, m) \cup Values(d, m)
                       \cup Values(e, m) \cup Values(f, m)
<1> DEFINE first == a \o b \o c \o d
           most == first \o e
<1>1. /\ IsList(first)
      /\ \A m : Values(first, m)
                  = Values(a, m) \cup Values(b, m) \cup Values(c, m) \cup Values(d, m)
  BY FourParts
<1> HIDE DEF first
<1>2. IsList(most) /\ \A m : Values(most, m) = Values(first, m) \cup Values(e, m)
  BY <1>1, PartsOfReview
<1> HIDE DEF most
<1>3. IsList(most \o f) /\ \A m : Values(most \o f, m) = Values(most, m) \cup Values(f, m)
  BY <1>2, PartsOfReview
<1>4. \A m : Values(most \o f, m)
               = Values(a, m) \cup Values(b, m) \cup Values(c, m) \cup Values(d, m)
                 \cup Values(e, m) \cup Values(f, m)
  BY <1>1, <1>2, <1>3
<1> QED BY <1>3, <1>4 DEF first, most

(* The entries common to all reviews, around those of the type. *)
LEMMA ReviewValues ==
  ASSUME NEW middle, IsList(middle), BaglEntries = AmountEntry \o middle \o FeeAndNetwork
  PROVE  \A m : Values(BaglEntries, m) =
                  Shown(parsed.value # 0, "Amount", parsed.value, m) \cup Values(middle, m)
                  \cup Shown(parsed.fee # 0, "Fee", parsed.fee, m)
                  \cup Shown(TRUE, "Network", parsed.network, m)
<1> DEFINE fee == Optional(parsed.fee # 0, "Fee", parsed.fee)
           network == Entry("Network", parsed.network)
           last == fee \o network
           first == AmountEntry \o middle
<1>1. /\ IsList(AmountEntry)
      /\ \A m : Values(AmountEntry, m) = Shown(parsed.value # 0, "Amount", parsed.value, m)
  BY OptionalPart, Zenon DEF AmountEntry
<1>2. IsList(fee) /\ \A m : Values(fee, m) = Shown(parsed.fee # 0, "Fee", parsed.fee, m)
  BY OptionalPart, Zenon
<1>3. IsList(network) /\ \A m : Values(network, m) = Shown(TRUE, "Network", parsed.network, m)
  BY EntryPart, Zenon
<1>4. BaglEntries = first \o last
  BY DEF FeeAndNetwork
<1> HIDE DEF fee, network
<1>5. IsList(last) /\ \A m : Values(last, m) = Values(fee, m) \cup Values(network, m)
  BY <1>2, <1>3, PartsOfReview
<1>6. IsList(first) /\ \A m : Values(first, m) = Values(AmountEntry, m) \cup Values(middle, m)
  BY <1>1, PartsOfReview
<1> HIDE DEF first, last
<1>7. \A m : Values(BaglEntries, m) = Values(first, m) \cup Values(last, m)
  BY <1>4, <1>5, <1>6, PartsOfReview
<1>8. \A m : Values(BaglEntries, m)
               = Values(AmountEntry, m) \cup Values(middle, m) \cup Values(fee, m)
                 \cup Values(network, m)
  BY <1>5, <1>6, <1>7
<1> QED BY <1>1, <1>2, <1>3, <1>8, Zenon

(* The entries of each type: a transfer, *)
LEMMA NormalValues ==
  /\ IsList(NormalEntries)
  /\ \A m : Values(NormalEntries, m) =
              Shown(TRUE, "Recipient", specific.recipient, m)
              \cup Shown(specific.extraData # EMPTY, specific.extraDataLabel, specific.extraData, m)
<1> DEFINE recipient == Entry("Recipient", specific.recipient)
           data == Optional(specific.extraData # EMPTY, specific.extraDataLabel,
                            specific.extraData)
<1>1. NormalEntries = recipient \o data
  BY DEF NormalEntries
<1>2. /\ IsList(recipient)
      /\ \A m : Values(recipient, m) = Shown(TRUE, "Recipient", specific.recipient, m)
  BY EntryPart, Zenon
<1>3. /\ IsList(data)
      /\ \A m : Values(data, m) = Shown(specific.extraData # EMPTY, specific.extraDataLabel,
                                        specific.extraData, m)
  BY OptionalPart, Zenon
<1> HIDE DEF recipient, data
<1>4. /\ IsList(recipient \o data)
      /\ \A m : Values(recipient \o data, m) = Values(recipient, m) \cup Values(data, m)
  BY <1>2, <1>3, PartsOfReview
<1> QED BY <1>1, <1>2, <1>3, <1>4, Zenon

(* an HTLC, *)
LEMMA HtlcValues ==
  /\ IsList(HtlcEntries)
  /\ \A m : Values(HtlcEntries, m) =
              Shown(TRUE, "HTLC Recipient", specific.redeem, m)
              \cup Shown(~specific.isRefundSender, "Refund to", specific.refund, m)
              \cup Shown(TRUE, "Hashed Secret", specific.hashRoot, m)
              \cup Shown(HasHashAlgorithmEntry, "Hash Algorithm", specific.algorithm, m)
              \cup Shown(HasHashCountEntry, "Hash Steps", specific.hashCount, m)
              \cup Shown(HasTimeoutEntry, "HTLC Expiry Block", specific.timeout, m)
<1> DEFINE redeem == Entry("HTLC Recipient", specific.redeem)
           refund == Optional(~specific.isRefundSender, "Refund to", specific.refund)
           root == Entry("Hashed Secret", specific.hashRoot)
           algorithm == Optional(HasHashAlgorithmEntry, "Hash Algorithm", specific.algorithm)
           count == Optional(HasHashCountEntry, "Hash Steps", specific.hashCount)
           timeout == Optional(HasTimeoutEntry, "HTLC Expiry Block", specific.timeout)
<1>1. HtlcEntries = redeem \o refund \o root \o algorithm \o count \o timeout
  BY DEF HtlcEntries
<1>2. IsList(redeem) /\ \A m : Values(redeem, m) = Shown(TRUE, "HTLC Recipient", specific.redeem, m)
  BY EntryPart, Zenon
<1>3. /\ IsList(refund)
      /\ \A m : Values(refund, m) = Shown(~specific.isRefundSender, "Refund to", specific.refund, m)
  BY OptionalPart, Zenon
<1>4. IsList(root) /\ \A m : Values(root, m) = Shown(TRUE, "Hashed Secret", specific.hashRoot, m)
  BY EntryPart, Zenon
<1>5. /\ IsList(algorithm)
      /\ \A m : Values(algorithm, m)
                  = Shown(HasHashAlgorithmEntry, "Hash Algorithm", specific.algorithm, m)
  BY OptionalPart, Zenon
<1>6. /\ IsList(count)
      /\ \A m : Values(count, m) = Shown(HasHashCountEntry, "Hash Steps", specific.hashCount, m)
  BY OptionalPart, Zenon
<1>7. /\ IsList(timeout)
      /\ \A m : Values(timeout, m)
                  = Shown(HasTimeoutEntry, "HTLC Expiry Block", specific.timeout, m)
  BY OptionalPart, Zenon
<1> HIDE DEF redeem, refund, root, algorithm, count, timeout
<1>lists. /\ IsList(redeem) /\ IsList(refund) /\ IsList(root)
          /\ IsList(algorithm) /\ IsList(count) /\ IsList(timeout)
  BY <1>2, <1>3, <1>4, <1>5, <1>6, <1>7
<1>8. /\ IsList(HtlcEntries)
      /\ \A m : Values(HtlcEntries, m)
                  = Values(redeem, m) \cup Values(refund, m) \cup Values(root, m)
                    \cup Values(algorithm, m) \cup Values(count, m) \cup Values(timeout, m)
  BY <1>1, <1>lists, SixParts
<1>9. ASSUME NEW m
      PROVE  Values(HtlcEntries, m) =
               Shown(TRUE, "HTLC Recipient", specific.redeem, m)
               \cup Shown(~specific.isRefundSender, "Refund to", specific.refund, m)
               \cup Shown(TRUE, "Hashed Secret", specific.hashRoot, m)
               \cup Shown(HasHashAlgorithmEntry, "Hash Algorithm", specific.algorithm, m)
               \cup Shown(HasHashCountEntry, "Hash Steps", specific.hashCount, m)
               \cup Shown(HasTimeoutEntry, "HTLC Expiry Block", specific.timeout, m)
  <2>1. /\ Values(redeem, m) = Shown(TRUE, "HTLC Recipient", specific.redeem, m)
        /\ Values(root, m) = Shown(TRUE, "Hashed Secret", specific.hashRoot, m)
    BY <1>2, <1>4, Zenon
  <2>2. Values(refund, m) = Shown(~specific.isRefundSender, "Refund to", specific.refund, m)
    BY <1>3, Zenon
  <2>3. /\ Values(algorithm, m)
             = Shown(HasHashAlgorithmEntry, "Hash Algorithm", specific.algorithm, m)
        /\ Values(count, m) = Shown(HasHashCountEntry, "Hash Steps", specific.hashCount, m)
    BY <1>5, <1>6, Zenon
  <2>4. Values(timeout, m)
          = Shown(HasTimeoutEntry, "HTLC Expiry Block", specific.timeout, m)
    BY <1>7, Zenon
  <2>5. Values(HtlcEntries, m)
          = Values(redeem, m) \cup Values(refund, m) \cup Values(root, m)
            \cup Values(algorithm, m) \cup Values(count, m) \cup Values(timeout, m)
    BY <1>8, Zenon
  <2> QED BY <2>1, <2>2, <2>3, <2>4, <2>5, Zenon
<1> QED BY <1>8, <1>9, Zenon

(* a vesting contract, *)
LEMMA VestingValues ==
  /\ IsList(VestingEntries)
  /\ \A m : Values(VestingEntries, m) =
              Shown(~specific.isOwnerSender, "Vesting Owner", specific.owner, m)
              \cup Shown(TRUE, "Schedule", specific.schedule, m)
<1> DEFINE owner == Optional(~specific.isOwnerSender, "Vesting Owner", specific.owner)
           schedule == Entry("Schedule", specific.schedule)
<1>1. VestingEntries = owner \o schedule
  BY DEF VestingEntries
<1>2. /\ IsList(owner)
      /\ \A m : Values(owner, m)
                  = Shown(~specific.isOwnerSender, "Vesting Owner", specific.owner, m)
  BY OptionalPart, Zenon
<1>3. IsList(schedule) /\ \A m : Values(schedule, m) = Shown(TRUE, "Schedule", specific.schedule, m)
  BY EntryPart, Zenon
<1> HIDE DEF owner, schedule
<1>lists. IsList(owner) /\ IsList(schedule)
  BY <1>2, <1>3
<1>4. /\ IsList(owner \o schedule)
      /\ \A m : Values(owner \o schedule, m) = Values(owner, m) \cup Values(schedule, m)
  BY <1>lists, PartsOfReview
<1> QED BY <1>1, <1>2, <1>3, <1>4, Zenon

\* The entries of an incoming staking transaction between the amount and the fee.
StakingEntries == DataAmountEntry \o StakerEntry \o DelegationEntry \o ReactivateEntry

(* and an incoming staking transaction. *)
LEMMA StakingValues ==
  /\ IsList(StakingEntries)
  /\ \A m : Values(StakingEntries, m) =
              Shown(specific.stakingType \in AmountTypes, "Amount", specific.amount, m)
              \cup Shown(specific.staker # EMPTY, "Staker", specific.staker, m)
              \cup Shown(specific.stakingType \in StakerTypes /\ specific.delegation # EMPTY,
                         "Delegation", specific.delegation, m)
              \cup Shown(specific.stakingType = "UPDATE_STAKER", "Reactivate all Stake",
                         specific.reactivate, m)
<1>1. /\ IsList(DataAmountEntry)
      /\ \A m : Values(DataAmountEntry, m)
                  = Shown(specific.stakingType \in AmountTypes, "Amount", specific.amount, m)
  BY OptionalPart, Zenon DEF DataAmountEntry
<1>2. /\ IsList(StakerEntry)
      /\ \A m : Values(StakerEntry, m)
                  = Shown(specific.staker # EMPTY, "Staker", specific.staker, m)
  BY OptionalPart, Zenon DEF StakerEntry
<1>3. /\ IsList(DelegationEntry)
      /\ \A m : Values(DelegationEntry, m)
                  = Shown(specific.stakingType \in StakerTypes /\ specific.delegation # EMPTY,
                          "Delegation", specific.delegation, m)
  BY OptionalPart, Zenon DEF DelegationEntry
<1>4. /\ IsList(ReactivateEntry)
      /\ \A m : Values(ReactivateEntry, m)
                  = Shown(specific.stakingType = "UPDATE_STAKER", "Reactivate all Stake",
                          specific.reactivate, m)
  BY OptionalPart, Zenon DEF ReactivateEntry
<1> DEFINE amount == DataAmountEntry
           staker == StakerEntry
           delegation == DelegationEntry
           reactivate == ReactivateEntry
<1>5. StakingEntries = amount \o staker \o delegation \o reactivate
  BY DEF StakingEntries
<1>6. IsList(amount) /\ IsList(staker) /\ IsList(delegation) /\ IsList(reactivate)
  BY <1>1, <1>2, <1>3, <1>4
<1> HIDE DEF amount, staker, delegation, reactivate
<1>7. /\ IsList(StakingEntries)
      /\ \A m : Values(StakingEntries, m)
                  = Values(amount, m) \cup Values(staker, m)
                    \cup Values(delegation, m) \cup Values(reactivate, m)
  BY <1>5, <1>6, FourParts
<1>8. \A m : Values(StakingEntries, m)
               = Values(DataAmountEntry, m) \cup Values(StakerEntry, m)
                 \cup Values(DelegationEntry, m) \cup Values(ReactivateEntry, m)
  BY <1>7 DEF amount, staker, delegation, reactivate
<1>9. ASSUME NEW m
      PROVE  Values(StakingEntries, m)
               = Shown(specific.stakingType \in AmountTypes, "Amount", specific.amount, m)
                 \cup Shown(specific.staker # EMPTY, "Staker", specific.staker, m)
                 \cup Shown(specific.stakingType \in StakerTypes /\ specific.delegation # EMPTY,
                            "Delegation", specific.delegation, m)
                 \cup Shown(specific.stakingType = "UPDATE_STAKER", "Reactivate all Stake",
                            specific.reactivate, m)
  <2> DEFINE shown1 == Shown(specific.stakingType \in AmountTypes, "Amount", specific.amount, m)
             shown2 == Shown(specific.staker # EMPTY, "Staker", specific.staker, m)
             shown3 == Shown(specific.stakingType \in StakerTypes /\ specific.delegation # EMPTY,
                             "Delegation", specific.delegation, m)
             shown4 == Shown(specific.stakingType = "UPDATE_STAKER", "Reactivate all Stake",
                             specific.reactivate, m)
  <2>1. Values(DataAmountEntry, m) = shown1
    BY <1>1, Zenon
  <2>2. Values(StakerEntry, m) = shown2
    BY <1>2, Zenon
  <2>3. Values(DelegationEntry, m) = shown3
    BY <1>3, Zenon
  <2>4. Values(ReactivateEntry, m) = shown4
    BY <1>4, Zenon
  <2> HIDE DEF shown1, shown2, shown3, shown4
  <2>5. Values(StakingEntries, m) = shown1 \cup shown2 \cup shown3 \cup shown4
    BY <1>8, <2>1, <2>2, <2>3, <2>4
  <2> QED BY <2>5 DEF shown1, shown2, shown3, shown4
<1> QED BY <1>7, <1>9, Zenon

-----------------------------------------------------------------------------
(* What the other branches leave in memory *)

(* A transfer, or a withdrawal from the staking contract, *)
LEMMA NormalMemory ==
  ASSUME NEW s, NEW recipient, NEW label, NEW data,
         s = Written([recipient |-> recipient, extraDataLabel |-> label, extraData |-> data])
  PROVE  s.recipient = recipient /\ s.extraDataLabel = label /\ s.extraData = data
<1> DEFINE fields == [recipient |-> recipient, extraDataLabel |-> label, extraData |-> data]
<1>1. /\ DOMAIN fields = NormalFields
      /\ fields["recipient"] = recipient /\ fields["extraDataLabel"] = label
      /\ fields["extraData"] = data
  BY DEF NormalFields
<1>2. s = Written(fields)
  OBVIOUS
<1> HIDE DEF fields
<1>3. Holds(s, fields)
  BY <1>1, <1>2, LayoutsAreFields, WrittenHolds
<1> QED BY <1>1, <1>3 DEF Holds, NormalFields

(* a vesting contract, *)
LEMMA VestingMemory ==
  ASSUME NEW s, NEW owner, NEW isOwnerSender, NEW schedule,
         s = Written([owner |-> owner, isOwnerSender |-> isOwnerSender, schedule |-> schedule])
  PROVE  s.owner = owner /\ s.isOwnerSender = isOwnerSender /\ s.schedule = schedule
<1> DEFINE fields == [owner |-> owner, isOwnerSender |-> isOwnerSender, schedule |-> schedule]
<1>1. /\ DOMAIN fields = VestingFields
      /\ fields["owner"] = owner /\ fields["isOwnerSender"] = isOwnerSender
      /\ fields["schedule"] = schedule
  BY DEF VestingFields
<1>2. s = Written(fields)
  OBVIOUS
<1> HIDE DEF fields
<1>3. Holds(s, fields)
  BY <1>1, <1>2, LayoutsAreFields, WrittenHolds
<1> QED BY <1>1, <1>3 DEF Holds, VestingFields

(* and an HTLC. *)
LEMMA HtlcMemory ==
  ASSUME NEW s, NEW redeem, NEW refund, NEW isRefundSender, NEW isSoon, NEW algorithm,
         NEW hashRoot, NEW hashCount, NEW timeout,
         s = Written([redeem |-> redeem, refund |-> refund, isRefundSender |-> isRefundSender,
                      isSoon |-> isSoon, algorithm |-> algorithm, hashRoot |-> hashRoot,
                      hashCount |-> hashCount, timeout |-> timeout])
  PROVE  /\ s.redeem = redeem /\ s.refund = refund /\ s.isRefundSender = isRefundSender
         /\ s.isSoon = isSoon /\ s.algorithm = algorithm /\ s.hashRoot = hashRoot
         /\ s.hashCount = hashCount /\ s.timeout = timeout
<1> DEFINE fields == [redeem |-> redeem, refund |-> refund, isRefundSender |-> isRefundSender,
                      isSoon |-> isSoon, algorithm |-> algorithm, hashRoot |-> hashRoot,
                      hashCount |-> hashCount, timeout |-> timeout]
<1>1. /\ DOMAIN fields = HtlcFields
      /\ fields["redeem"] = redeem /\ fields["refund"] = refund
      /\ fields["isRefundSender"] = isRefundSender /\ fields["isSoon"] = isSoon
      /\ fields["algorithm"] = algorithm /\ fields["hashRoot"] = hashRoot
      /\ fields["hashCount"] = hashCount /\ fields["timeout"] = timeout
  BY DEF HtlcFields
<1>2. s = Written(fields)
  OBVIOUS
<1> HIDE DEF fields
<1>3. Holds(s, fields)
  BY <1>1, <1>2, LayoutsAreFields, WrittenHolds
<1> QED BY <1>1, <1>3 DEF Holds, HtlcFields

-----------------------------------------------------------------------------
(* What the review of each type tells *)

(* A transfer, or a withdrawal from the staking contract: its data is displayed as text or in
   hexadecimal, the data of a cashlink is told by the title. *)
LEMMA TransferTells ==
  ASSUME NEW result, OutgoingCase(tx, result) \/ NormalCase(tx, result),
         parsed.type = result.type, parsed.label = result.label, specific = Written(result.fields)
  PROVE  /\ Says("Amount", 0) = {parsed.value} /\ Says("Fee", 0) = {parsed.fee}
         /\ NormalReviewTells
<1> DEFINE data == NormalData(tx)
           label == IF data = EMPTY THEN EMPTY
                    ELSE IF tx.data.kind = "text" THEN "Data" ELSE "Data Hex"
<1>1. /\ parsed.type \in {"NORMAL", "STAKING_OUTGOING"}
      /\ parsed.label = "CASHLINK" <=> tx.data.kind = "cashlink"
  BY DEF OutgoingCase, NormalCase
<1>2. result.fields = [recipient |-> tx.recipient, extraDataLabel |-> label, extraData |-> data]
  <2>1. CASE OutgoingCase(tx, result)
    <3>1. data = EMPTY
      BY <2>1 DEF OutgoingCase, NormalData
    <3> QED BY <2>1, <3>1 DEF OutgoingCase
  <2>2. CASE NormalCase(tx, result)
    BY <2>2, Zenon DEF NormalCase
  <2> QED BY <2>1, <2>2
<1>data. data # EMPTY =>
           label \in {"Data", "Data Hex"} /\ (label = "Data" <=> tx.data.kind = "text")
  OBVIOUS
<1> HIDE DEF data, label
<1>3. /\ specific.recipient = tx.recipient
      /\ specific.extraDataLabel = label /\ specific.extraData = data
  <2>1. specific = Written([recipient |-> tx.recipient, extraDataLabel |-> label,
                            extraData |-> data])
    BY <1>2
  <2> QED BY <2>1, NormalMemory
<1>4. \A m : Values(NormalEntries, m) =
               Shown(TRUE, "Recipient", specific.recipient, m)
               \cup Shown(specific.extraData # EMPTY, specific.extraDataLabel,
                          specific.extraData, m)
  BY NormalValues, Zenon
<1>5. \A m : Values(BaglEntries, m) =
               Shown(parsed.value # 0, "Amount", parsed.value, m) \cup Values(NormalEntries, m)
               \cup Shown(parsed.fee # 0, "Fee", parsed.fee, m)
               \cup Shown(TRUE, "Network", parsed.network, m)
  <2>1. BaglEntries = AmountEntry \o NormalEntries \o FeeAndNetwork
    BY <1>1 DEF BaglEntries
  <2> QED BY <2>1, NormalValues, ReviewValues
<1> DEFINE more(m) == Shown(specific.extraData # EMPTY, specific.extraDataLabel,
                            specific.extraData, m)
<1>6. /\ \A m : m \notin {"Data", "Data Hex"} => more(m) = {}
      /\ more("Data") = IF data # EMPTY /\ tx.data.kind = "text" THEN {data} ELSE {}
      /\ more("Data Hex") = IF data # EMPTY /\ tx.data.kind # "text" THEN {data} ELSE {}
  <2>1. \A m : more(m) = IF data # EMPTY /\ label = m THEN {data} ELSE {}
    BY <1>3 DEF Shown
  <2> HIDE DEF more
  <2> QED BY <1>data, <2>1
<1> HIDE DEF more
<1>entries. \A m : Values(BaglEntries, m) =
               Shown(parsed.value # 0, "Amount", parsed.value, m)
               \cup Shown(TRUE, "Recipient", specific.recipient, m) \cup more(m)
               \cup Shown(parsed.fee # 0, "Fee", parsed.fee, m)
               \cup Shown(TRUE, "Network", parsed.network, m)
  BY <1>4, <1>5 DEF more
<1>7. Values(BaglEntries, "Amount") = IF parsed.value # 0 THEN {parsed.value} ELSE {}
  BY <1>entries, <1>6 DEF Shown
<1>8. Values(BaglEntries, "Fee") = IF parsed.fee # 0 THEN {parsed.fee} ELSE {}
  BY <1>entries, <1>6 DEF Shown
<1>9. Values(BaglEntries, "Recipient") = {tx.recipient}
  BY <1>entries, <1>3, <1>6 DEF Shown
<1>10. Values(BaglEntries, "Data")
         = IF data # EMPTY /\ tx.data.kind = "text" THEN {data} ELSE {}
  BY <1>entries, <1>6 DEF Shown
<1>11. Values(BaglEntries, "Data Hex")
         = IF data # EMPTY /\ tx.data.kind # "text" THEN {data} ELSE {}
  BY <1>entries, <1>6 DEF Shown
<1>12. Says("Amount", 0) = {parsed.value} /\ Says("Fee", 0) = {parsed.fee}
  BY <1>7, <1>8 DEF Says
<1>13. Says("Recipient", EMPTY) = {tx.recipient}
  BY <1>9 DEF Says
<1>14. Says("Data", EMPTY) = {IF tx.data.kind = "text" THEN "text" ELSE EMPTY}
  BY <1>10 DEF Says, data, NormalData
<1>15. Says("Data Hex", EMPTY) =
         {IF tx.data.kind \in {"empty", "cashlink", "text"} THEN EMPTY ELSE tx.data.kind}
  BY <1>11 DEF Says, data, NormalData
<1> QED BY <1>1, <1>12, <1>13, <1>14, <1>15 DEF NormalReviewTells

(* A vesting contract: its owner is displayed unless it is the sender. *)
LEMMA VestingTells ==
  ASSUME NEW result, VestingCase(tx, result),
         parsed.type = result.type, parsed.label = result.label, specific = Written(result.fields)
  PROVE  /\ Says("Amount", 0) = {parsed.value} /\ Says("Fee", 0) = {parsed.fee}
         /\ VestingReviewTells
<1>1. parsed.type = "VESTING_CREATION"
  BY DEF VestingCase
<1> DEFINE isSender == tx.data.owner = tx.sender
<1>2. specific = Written([owner |-> tx.data.owner, isOwnerSender |-> isSender,
                          schedule |-> tx.data.schedule])
  BY Zenon DEF VestingCase
<1> HIDE DEF isSender
<1>3. /\ specific.owner = tx.data.owner /\ specific.isOwnerSender = isSender
      /\ specific.schedule = tx.data.schedule
  BY <1>2, VestingMemory
<1>4. \A m : Values(VestingEntries, m) =
               Shown(~specific.isOwnerSender, "Vesting Owner", specific.owner, m)
               \cup Shown(TRUE, "Schedule", specific.schedule, m)
  BY VestingValues, Zenon
<1>5. \A m : Values(BaglEntries, m) =
               Shown(parsed.value # 0, "Amount", parsed.value, m) \cup Values(VestingEntries, m)
               \cup Shown(parsed.fee # 0, "Fee", parsed.fee, m)
               \cup Shown(TRUE, "Network", parsed.network, m)
  <2>1. BaglEntries = AmountEntry \o VestingEntries \o FeeAndNetwork
    BY <1>1 DEF BaglEntries
  <2> QED BY <2>1, VestingValues, ReviewValues
<1>6. ~specific.isOwnerSender <=> tx.data.owner # tx.sender
  BY <1>3 DEF isSender
<1>7. Values(BaglEntries, "Amount") = IF parsed.value # 0 THEN {parsed.value} ELSE {}
  BY <1>4, <1>5 DEF Shown
<1>8. Values(BaglEntries, "Fee") = IF parsed.fee # 0 THEN {parsed.fee} ELSE {}
  BY <1>4, <1>5 DEF Shown
<1>9. Values(BaglEntries, "Vesting Owner")
        = IF ~specific.isOwnerSender THEN {specific.owner} ELSE {}
  BY <1>4, <1>5 DEF Shown
<1>10. Values(BaglEntries, "Schedule") = {specific.schedule}
  BY <1>4, <1>5 DEF Shown
<1>11. Says("Amount", 0) = {parsed.value} /\ Says("Fee", 0) = {parsed.fee}
  BY <1>7, <1>8 DEF Says
<1>12. Says("Vesting Owner", tx.sender) = {tx.data.owner}
  <2>1. specific.owner = tx.data.owner
    BY <1>3
  <2> QED BY <1>6, <1>9, <2>1 DEF Says
<1>13. Says("Schedule", EMPTY) = {tx.data.schedule}
  BY <1>3, <1>10 DEF Says
<1> QED BY <1>11, <1>12, <1>13 DEF VestingReviewTells

(* A difference does not wrap unless it is negative. *)
LEMMA Difference ==
  ASSUME NEW n \in Nat \ {0}, NEW a \in 0..(n - 1)
  PROVE  a % n = a
OBVIOUS

(* The app's notion of a timeout that comes soon: its guard for a timeout that has passed
   is all that keeps the difference from wrapping. *)
LEMMA TimingOutSoon ==
  ASSUME NEW timeout \in 0..(UINT32_SIZE - 1), NEW height \in 0..(UINT32_SIZE - 1)
  PROVE  IsTimingOutSoon(timeout, height) <=> timeout < height + HTLC_TIMEOUT_SOON_THRESHOLD
<1>1. HTLC_TIMEOUT_SOON_THRESHOLD \in Nat /\ UINT32_SIZE \in Nat \ {0}
  BY TransactionAssumption
<1>2. CASE timeout < height
  BY <1>1, <1>2 DEF IsTimingOutSoon
<1>3. CASE timeout >= height
  <2>1. timeout - height \in 0..(UINT32_SIZE - 1)
    BY <1>1, <1>3
  <2>2. (timeout - height) % UINT32_SIZE = timeout - height
    BY <1>1, <2>1, Difference
  <2> QED BY <1>1, <1>3, <2>2 DEF IsTimingOutSoon
<1> QED BY <1>1, <1>2, <1>3

(* An HTLC: its refund address is displayed unless it is the sender, and its number of hash
   steps and its timeout unless the sender is refunded soon. *)
LEMMA HtlcTells ==
  ASSUME tx \in Transactions, NEW result, HtlcCase(tx, result),
         parsed.type = result.type, parsed.label = result.label, specific = Written(result.fields)
  PROVE  /\ Says("Amount", 0) = {parsed.value} /\ Says("Fee", 0) = {parsed.fee}
         /\ HtlcReviewTells
<1> DEFINE isSender == tx.data.refund = tx.sender
           isSoon == IsTimingOutSoon(tx.data.timeout, tx.validityStartHeight)
           d == tx.data
           isLater == tx.data.timeout < tx.validityStartHeight + HTLC_TIMEOUT_SOON_THRESHOLD
<1>1. parsed.type = "HTLC_CREATION"
  BY DEF HtlcCase
<1>2. specific = Written([redeem |-> d.redeem, refund |-> d.refund, isRefundSender |-> isSender,
                          isSoon |-> isSoon, algorithm |-> d.algorithm, hashRoot |-> d.hashRoot,
                          hashCount |-> d.hashCount, timeout |-> d.timeout])
  BY Zenon DEF HtlcCase
<1>3. isSoon <=> isLater
  <2>1. /\ tx.data.timeout \in 0..(UINT32_SIZE - 1)
        /\ tx.validityStartHeight \in 0..(UINT32_SIZE - 1)
    BY TransactionAssumption DEF HtlcCase
  <2> QED BY <2>1, TimingOutSoon
<1>4. isSender \in BOOLEAN /\ isSoon \in BOOLEAN
  BY DEF IsTimingOutSoon
<1> HIDE DEF isSender, isSoon, isLater
<1>5. /\ specific.redeem = d.redeem /\ specific.refund = d.refund
      /\ specific.isRefundSender = isSender /\ specific.isSoon = isSoon
      /\ specific.algorithm = d.algorithm /\ specific.hashRoot = d.hashRoot
      /\ specific.hashCount = d.hashCount /\ specific.timeout = d.timeout
  BY <1>2, HtlcMemory
<1>6. /\ HasHashAlgorithmEntry <=> ~isSender \/ ~isSoon \/ d.algorithm # "SHA-256"
      /\ HasTimeoutEntry <=> ~isSender \/ ~isSoon
      /\ HasHashCountEntry <=> d.hashCount # 1 /\ (~isSender \/ ~isSoon)
      /\ ~specific.isRefundSender <=> ~isSender
  BY <1>5 DEF HasHashAlgorithmEntry, HasTimeoutEntry, HasHashCountEntry
<1>7. \A m : Values(HtlcEntries, m) =
               Shown(TRUE, "HTLC Recipient", specific.redeem, m)
               \cup Shown(~specific.isRefundSender, "Refund to", specific.refund, m)
               \cup Shown(TRUE, "Hashed Secret", specific.hashRoot, m)
               \cup Shown(HasHashAlgorithmEntry, "Hash Algorithm", specific.algorithm, m)
               \cup Shown(HasHashCountEntry, "Hash Steps", specific.hashCount, m)
               \cup Shown(HasTimeoutEntry, "HTLC Expiry Block", specific.timeout, m)
  BY HtlcValues, Zenon
<1>8. \A m : Values(BaglEntries, m) =
               Shown(parsed.value # 0, "Amount", parsed.value, m) \cup Values(HtlcEntries, m)
               \cup Shown(parsed.fee # 0, "Fee", parsed.fee, m)
               \cup Shown(TRUE, "Network", parsed.network, m)
  <2>1. BaglEntries = AmountEntry \o HtlcEntries \o FeeAndNetwork
    BY <1>1 DEF BaglEntries
  <2> QED BY <2>1, HtlcValues, ReviewValues
<1>9. /\ Values(BaglEntries, "Amount") = IF parsed.value # 0 THEN {parsed.value} ELSE {}
      /\ Values(BaglEntries, "Fee") = IF parsed.fee # 0 THEN {parsed.fee} ELSE {}
  BY <1>7, <1>8 DEF Shown
<1>10. /\ Values(BaglEntries, "HTLC Recipient") = {specific.redeem}
       /\ Values(BaglEntries, "Hashed Secret") = {specific.hashRoot}
  BY <1>7, <1>8 DEF Shown
<1>11. Values(BaglEntries, "Refund to")
         = IF ~specific.isRefundSender THEN {specific.refund} ELSE {}
  BY <1>7, <1>8 DEF Shown
<1>12. Values(BaglEntries, "Hash Algorithm")
         = IF HasHashAlgorithmEntry THEN {specific.algorithm} ELSE {}
  BY <1>7, <1>8 DEF Shown
<1>13. Values(BaglEntries, "Hash Steps")
         = IF HasHashCountEntry THEN {specific.hashCount} ELSE {}
  BY <1>7, <1>8 DEF Shown
<1>14. Values(BaglEntries, "HTLC Expiry Block")
         = IF HasTimeoutEntry THEN {specific.timeout} ELSE {}
  BY <1>7, <1>8 DEF Shown
<1>15. Says("Amount", 0) = {parsed.value} /\ Says("Fee", 0) = {parsed.fee}
  BY <1>9 DEF Says
<1>16. Says("HTLC Recipient", EMPTY) = {d.redeem} /\ Says("Hashed Secret", EMPTY) = {d.hashRoot}
  BY <1>5, <1>10 DEF Says
<1>17. Says("Refund to", tx.sender) = {d.refund}
  BY <1>5, <1>6, <1>11 DEF Says, isSender
<1>18. Says("Hash Algorithm", "SHA-256") = {d.algorithm}
  BY <1>5, <1>6, <1>12 DEF Says
<1>19. CASE isSender /\ isSoon
  <2>1. Values(BaglEntries, "Hash Steps") \cup Values(BaglEntries, "HTLC Expiry Block") = {}
    BY <1>6, <1>13, <1>14, <1>19
  <2>2. isSender /\ isLater
    BY <1>3, <1>19
  <2> QED BY <1>15, <1>16, <1>17, <1>18, <2>1, <2>2 DEF HtlcReviewTells, isSender, isLater
<1>20. CASE ~(isSender /\ isSoon)
  <2>1. Says("Hash Steps", 1) = {d.hashCount}
    BY <1>5, <1>6, <1>13, <1>20 DEF Says
  <2>2. Says("HTLC Expiry Block", EMPTY) = {d.timeout}
    BY <1>5, <1>6, <1>14, <1>20 DEF Says
  <2>3. ~(isSender /\ isLater)
    BY <1>3, <1>20
  <2> QED BY <1>15, <1>16, <1>17, <1>18, <2>1, <2>2, <2>3 DEF HtlcReviewTells, isSender, isLater
<1> QED BY <1>19, <1>20

(* An incoming staking transaction: its own amount is displayed for the types that move no
   value, the staker unless it is the sender, and the delegation unless there is none. *)
LEMMA StakingTells ==
  ASSUME tx \in Transactions, ValidOnNetwork(tx), NEW result, IncomingCase(tx, result),
         parsed.type = result.type, parsed.label = result.label, parsed.value = tx.value,
         specific = Written(result.fields)
  PROVE  /\ Says("Amount", 0) = {MovedAmount} /\ Says("Fee", 0) = {parsed.fee}
         /\ StakingReviewTells
<1> DEFINE d == tx.data
           staker == IF d.type = "ADD_STAKE" THEN StakerField(d.staker, tx.sender)
                     ELSE IF d.proof.kind = "empty" THEN EMPTY
                     ELSE StakerField(d.proof.owner, tx.sender)
<1>1. /\ parsed.type = "STAKING_INCOMING" /\ parsed.label = d.type
      /\ tx.recipientType = "STAKING" /\ d.kind = "staking"
      /\ d.type \in StakerTypes \cup AmountTypes \cup {"ADD_STAKE"}
      /\ d.type \in AmountTypes => tx.flags = {"SIGNALING"}
  BY DEF IncomingCase
<1>2. /\ specific.stakingType = d.type
      /\ d.type \in StakerTypes => specific.delegation = d.delegation
      /\ d.type = "UPDATE_STAKER" => specific.reactivate = d.reactivate
      /\ d.type \in AmountTypes => specific.amount = d.amount
      /\ specific.staker = staker
  <2> HIDE DEF d
  <2>1. /\ specific.stakingType = d.type
        /\ d.type \in StakerTypes => specific.delegation = d.delegation
    BY IncomingMemory, Zenon DEF d
  <2>2. /\ d.type = "UPDATE_STAKER" => specific.reactivate = d.reactivate
        /\ d.type \in AmountTypes => specific.amount = d.amount
    BY IncomingMemory, Zenon DEF d
  <2>3. specific.staker = staker
    BY IncomingMemory, Zenon DEF d
  <2> QED BY <2>1, <2>2, <2>3, Zenon
<1>3. IF staker = EMPTY THEN Staker(tx) = tx.sender ELSE Staker(tx) = staker
  <2>1. /\ d.type = "ADD_STAKE" => d.staker # EMPTY
        /\ d.type # "ADD_STAKE" /\ d.proof.kind # "empty" => d.proof.owner # EMPTY
    BY <1>1, TransactionAssumption
  <2> QED BY <2>1 DEF Staker, StakerField
<1> HIDE DEF staker
<1>4. \A m : Values(StakingEntries, m) =
               Shown(specific.stakingType \in AmountTypes, "Amount", specific.amount, m)
               \cup Shown(specific.staker # EMPTY, "Staker", specific.staker, m)
               \cup Shown(specific.stakingType \in StakerTypes /\ specific.delegation # EMPTY,
                          "Delegation", specific.delegation, m)
               \cup Shown(specific.stakingType = "UPDATE_STAKER", "Reactivate all Stake",
                          specific.reactivate, m)
  BY StakingValues, Zenon
<1>5. \A m : Values(BaglEntries, m) =
               Shown(parsed.value # 0, "Amount", parsed.value, m) \cup Values(StakingEntries, m)
               \cup Shown(parsed.fee # 0, "Fee", parsed.fee, m)
               \cup Shown(TRUE, "Network", parsed.network, m)
  <2>1. BaglEntries = AmountEntry \o StakingEntries \o FeeAndNetwork
    BY <1>1 DEF BaglEntries, StakingEntries
  <2> QED BY <2>1, StakingValues, ReviewValues
<1>6. Values(BaglEntries, "Amount") = (IF parsed.value # 0 THEN {parsed.value} ELSE {})
        \cup (IF specific.stakingType \in AmountTypes THEN {specific.amount} ELSE {})
  BY <1>4, <1>5 DEF Shown
<1>7. Values(BaglEntries, "Fee") = IF parsed.fee # 0 THEN {parsed.fee} ELSE {}
  BY <1>4, <1>5 DEF Shown
<1>8. Values(BaglEntries, "Staker") = IF specific.staker # EMPTY THEN {specific.staker} ELSE {}
  BY <1>4, <1>5 DEF Shown
<1>9. Values(BaglEntries, "Delegation")
        = IF specific.stakingType \in StakerTypes /\ specific.delegation # EMPTY
          THEN {specific.delegation} ELSE {}
  BY <1>4, <1>5 DEF Shown
<1>10. Values(BaglEntries, "Reactivate all Stake")
         = IF specific.stakingType = "UPDATE_STAKER" THEN {specific.reactivate} ELSE {}
  BY <1>4, <1>5 DEF Shown
<1>11. Says("Amount", 0) = {MovedAmount}
  <2>1. CASE d.type \in AmountTypes
    <3>1. tx.value = 0
      BY <1>1, <2>1 DEF ValidOnNetwork
    <3>2. Values(BaglEntries, "Amount") = {d.amount}
      BY <1>2, <1>6, <2>1, <3>1
    <3>3. MovedAmount = d.amount
      BY <1>1, <2>1 DEF MovedAmount
    <3> QED BY <3>2, <3>3 DEF Says
  <2>2. CASE d.type \notin AmountTypes
    <3>1. Values(BaglEntries, "Amount") = IF tx.value # 0 THEN {tx.value} ELSE {}
      BY <1>2, <1>6, <2>2
    <3>2. MovedAmount = tx.value
      BY <2>2 DEF MovedAmount
    <3> QED BY <3>1, <3>2 DEF Says
  <2> QED BY <2>1, <2>2
<1>12. Says("Fee", 0) = {parsed.fee}
  BY <1>7 DEF Says
<1>13. Says("Staker", tx.sender) = {Staker(tx)}
  BY <1>2, <1>3, <1>8 DEF Says
<1>14. Says("Delegation", EMPTY) = {IF d.type \in StakerTypes THEN d.delegation ELSE EMPTY}
  BY <1>2, <1>9 DEF Says
<1>15. Says("Reactivate all Stake", EMPTY) =
         {IF d.type = "UPDATE_STAKER" THEN d.reactivate ELSE EMPTY}
  BY <1>2, <1>10 DEF Says
<1> QED BY <1>1, <1>11, <1>12, <1>13, <1>14, <1>15 DEF StakingReviewTells

(* The entries of a review, and those that are left out as redundant, tell what the
   transaction under review does, whatever was in that memory before. *)
THEOREM ReviewsTellEffect == Spec => []ReviewTellsEffect
<1>1. ASSUME PInv, InReview, ValidOnNetwork(tx)
      PROVE  /\ Says("Amount", 0) = {MovedAmount} /\ Says("Fee", 0) = {tx.fee}
             /\ parsed.type \in {"NORMAL", "STAKING_OUTGOING"} => NormalReviewTells
             /\ parsed.type = "HTLC_CREATION" => HtlcReviewTells
             /\ parsed.type = "VESTING_CREATION" => VestingReviewTells
             /\ parsed.type = "STAKING_INCOMING" => StakingReviewTells
  <2>1. tx \in Transactions
    BY <1>1, Reviewed
  <2>2. PICK result \in ParseTx(tx) :
          /\ parsed.type = result.type /\ parsed.label = result.label
          /\ parsed.value = tx.value /\ parsed.fee = tx.fee
          /\ parsed.network = NetworkName(tx.version, tx.networkId)
          /\ specific = Written(result.fields)
    BY <1>1, Reviewed
  <2>3. CASE OutgoingCase(tx, result) \/ NormalCase(tx, result)
    <3>1. /\ Says("Amount", 0) = {parsed.value} /\ Says("Fee", 0) = {parsed.fee}
          /\ NormalReviewTells
      BY <2>2, <2>3, TransferTells
    <3>2. /\ parsed.type \in {"NORMAL", "STAKING_OUTGOING"}
          /\ tx.recipientType = "BASIC" \/ tx.data.kind = "empty"
      BY <2>2, <2>3 DEF OutgoingCase, NormalCase
    <3>3. MovedAmount = tx.value
      BY <3>2 DEF MovedAmount
    <3> QED BY <2>2, <3>1, <3>2, <3>3
  <2>4. CASE VestingCase(tx, result)
    <3>1. /\ Says("Amount", 0) = {parsed.value} /\ Says("Fee", 0) = {parsed.fee}
          /\ VestingReviewTells
      BY <2>2, <2>4, VestingTells
    <3>2. parsed.type = "VESTING_CREATION" /\ tx.recipientType = "VESTING"
      BY <2>2, <2>4 DEF VestingCase
    <3>3. MovedAmount = tx.value
      BY <3>2 DEF MovedAmount
    <3> QED BY <2>2, <3>1, <3>2, <3>3
  <2>5. CASE HtlcCase(tx, result)
    <3>1. /\ Says("Amount", 0) = {parsed.value} /\ Says("Fee", 0) = {parsed.fee}
          /\ HtlcReviewTells
      BY <2>1, <2>2, <2>5, HtlcTells
    <3>2. parsed.type = "HTLC_CREATION" /\ tx.recipientType = "HTLC"
      BY <2>2, <2>5 DEF HtlcCase
    <3>3. MovedAmount = tx.value
      BY <3>2 DEF MovedAmount
    <3> QED BY <2>2, <3>1, <3>2, <3>3
  <2>6. CASE IncomingCase(tx, result)
    <3>1. /\ Says("Amount", 0) = {MovedAmount} /\ Says("Fee", 0) = {parsed.fee}
          /\ StakingReviewTells
      BY <1>1, <2>1, <2>2, <2>6, StakingTells
    <3>2. parsed.type = "STAKING_INCOMING"
      BY <2>2, <2>6 DEF IncomingCase
    <3> QED BY <2>2, <3>1, <3>2
  <2> QED BY <2>3, <2>4, <2>5, <2>6, ParseCases
<1>2. PInv => ReviewTellsEffect
  BY <1>1, Zenon DEF ReviewTellsEffect
<1> QED BY <1>2, ParsedIsOfTransaction, PTL
=============================================================================
