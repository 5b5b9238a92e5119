------------------------- MODULE ButtonDeviceProofs -------------------------
(***************************************************************************)
(* The command loop and the review flows together do what each of them     *)
(* does alone, so both of their inductive invariants hold of the device.   *)
(* One more invariant ties them together: unless the review was overtaken, *)
(* the flow on the screen is that of the request in ctx.                   *)
(***************************************************************************)
EXTENDS ButtonDevice, NimiqAppProofs

\* The flows with what is proved about them.
Device == INSTANCE BaglFlowProofs WITH Flows <- Flow!AllFlows

-----------------------------------------------------------------------------
(* ButtonDevice refers to the flows without their proofs *)

\* The flows are the same,
LEMMA SameFlows ==
  /\ Flow!PublicKeyFlow = Device!PublicKeyFlow /\ Flow!NormalFlow = Device!NormalFlow
  /\ Flow!HtlcFlow = Device!HtlcFlow /\ Flow!VestingFlow = Device!VestingFlow
  /\ Flow!StakingFlow = Device!StakingFlow /\ Flow!MessageFlow = Device!MessageFlow
  /\ Flow!AllFlows = Device!AllFlows /\ Flow!DisplayTypes = Device!DisplayTypes
BY Zenon DEF Flow!PublicKeyFlow, Device!PublicKeyFlow, Flow!NormalFlow, Device!NormalFlow,
   Flow!HtlcFlow, Device!HtlcFlow, Flow!VestingFlow, Device!VestingFlow,
   Flow!StakingFlow, Device!StakingFlow, Flow!MessageFlow, Device!MessageFlow,
   Flow!TransactionFlow, Device!TransactionFlow, Flow!Step, Device!Step,
   Flow!Optional, Device!Optional, Flow!Decide, Device!Decide,
   Flow!AllFlows, Device!AllFlows, Flow!DisplayTypes, Device!DisplayTypes

\* so that what is assumed of the flows that are launched holds,
LEMMA FlowsAreFlows == Flow!AllFlows \subseteq Device!AllFlows
BY SameFlows

\* and so are their steps.
LEMMA SameSteps ==
  /\ Flow!Init => Device!Init
  /\ \A f : Flow!Launch(f) => Device!Launch(f)
  /\ Flow!Right => Device!Right
  /\ Flow!Left => Device!Left
  /\ Flow!SwitchDisplay => Device!SwitchDisplay
  /\ Flow!Validate => Device!Validate
  /\ Flow!Reset => Device!Reset
  /\ Flow!InFlow <=> Device!InFlow
  /\ \A i : Flow!Visible(i) <=> Device!Visible(i)
<1>1. /\ Flow!Init => Device!Init
      /\ Flow!Validate => Device!Validate
      /\ Flow!Reset => Device!Reset
      /\ Flow!InFlow <=> Device!InFlow
  BY DEF Flow!Init, Device!Init, Flow!Validate, Device!Validate, Flow!Reset, Device!Reset,
     Flow!InFlow, Device!InFlow, Flow!BackToMenu, Device!BackToMenu
<1>2. \A i : Flow!Visible(i) <=> Device!Visible(i)
  BY DEF Flow!Visible, Device!Visible, Flow!IsShown, Device!IsShown
<1>3. ASSUME NEW f, Flow!Launch(f) PROVE Device!Launch(f)
  <2>1. \A holding : Flow!ArePossible(f, holding) <=> Device!ArePossible(f, holding)
    BY SameFlows DEF Flow!ArePossible, Device!ArePossible
  <2>2. \A type, holding : Flow!CanDisplay(type, holding) <=> Device!CanDisplay(type, holding)
    BY DEF Flow!CanDisplay, Device!CanDisplay
  <2>3. Flow!ConditionsOf(f) = Device!ConditionsOf(f)
    BY DEF Flow!ConditionsOf, Device!ConditionsOf
  <2>4. Flow!Content(f[1], displayType') = Device!Content(f[1], displayType')
    BY DEF Flow!Content, Device!Content
  <2> QED BY <1>3, <2>1, <2>2, <2>3, <2>4, SameFlows DEF Flow!Launch, Device!Launch
<1>4. \A f, i, type : Flow!Show(f, i, type) => Device!Show(f, i, type)
  BY DEF Flow!Show, Device!Show, Flow!Printed, Device!Printed, Flow!Content, Device!Content
<1>5. \A i, direction : Flow!Rest(i, direction) = Device!Rest(i, direction)
  BY Zenon DEF Flow!Rest, Device!Rest, Flow!Directions, Device!Directions,
     Flow!Visible, Device!Visible, Flow!IsShown, Device!IsShown
<1>6. /\ Flow!Right => Device!Right
      /\ Flow!Left => Device!Left
  BY <1>4, <1>5 DEF Flow!Right, Device!Right, Flow!Left, Device!Left
<1>7. Flow!SwitchDisplay => Device!SwitchDisplay
  BY <1>4, SameFlows DEF Flow!SwitchDisplay, Device!SwitchDisplay,
     Flow!MessageStep, Device!MessageStep
<1> QED BY <1>1, <1>2, <1>3, <1>6, <1>7

-----------------------------------------------------------------------------
(* Requests that have a flow *)

\* What a handler leaves in ctx when it awaits a decision.
HasFlow(c) ==
  \/ c.kind = "pk"
  \/ c.kind = "msg" /\ c.displayType \in Flow!DisplayTypes
  \/ c.kind = "tx" /\ c.parsed.type \in TransactionTypes

\* Only requests for a message signature have the message flow.
LEMMA FlowOfRequest ==
  ASSUME NEW c, HasFlow(c)
  PROVE  /\ FlowOf(c) \in Device!AllFlows
         /\ c.kind = "msg" => FlowOf(c) = Device!MessageFlow
         /\ c.kind # "msg" =>
              FlowOf(c) \in {Device!PublicKeyFlow, Device!NormalFlow, Device!HtlcFlow,
                            Device!VestingFlow, Device!StakingFlow}
<1>1. CASE c.kind = "pk"
  <2>1. FlowOf(c) = Device!PublicKeyFlow
    BY <1>1, SameFlows DEF FlowOf
  <2> QED BY <1>1, <2>1 DEF Device!AllFlows
<1>2. CASE c.kind = "msg"
  <2>1. FlowOf(c) = Device!MessageFlow
    BY <1>2, SameFlows DEF FlowOf
  <2> QED BY <1>2, <2>1 DEF Device!AllFlows
<1>3. CASE c.kind = "tx" /\ c.parsed.type \in TransactionTypes
  <2>1. c.parsed.type \in {"NORMAL", "VESTING_CREATION", "HTLC_CREATION",
                          "STAKING_OUTGOING", "STAKING_INCOMING"}
    BY <1>3 DEF TransactionTypes
  <2>2. FlowOf(c) \in {Device!NormalFlow, Device!HtlcFlow, Device!VestingFlow, Device!StakingFlow}
    BY <1>3, <2>1, SameFlows DEF FlowOf
  <2> QED BY <1>3, <2>2 DEF Device!AllFlows
<1> QED BY <1>1, <1>2, <1>3 DEF HasFlow

\* A handler that launches a review leaves a request in ctx that has a flow, or memory
\* of two kinds; every other one overtakes the review on the screen.
LEMMA CommandLaunches ==
  ASSUME IInv, GetPublicKey \/ SignTransaction \/ SignMessage \/ Unsupported
  PROVE  \/ /\ screen' = Review(ctx') /\ media' # NONE
            /\ HasFlow(ctx') \/ overtaken'
         \/ screen' = screen /\ media' = NONE /\ (InReview => overtaken')
<1> DEFINE Launches == \/ /\ screen' = Review(ctx') /\ media' # NONE
                          /\ HasFlow(ctx') \/ overtaken'
                       \/ screen' = screen /\ media' = NONE /\ (InReview => overtaken')
<1>1. NONE \notin Media
  BY MediaAssumption DEF NONE
<1>2. ASSUME NEW m, Receive(m), NEW sw, NEW c, NEW result, Respond(sw, c, result)
      PROVE  Launches
  BY <1>2 DEF Receive, Respond
<1>3. ASSUME NEW m \in Media, NEW c, HasFlow(c) \/ c.kind = "mixed", AwaitDecision(m, c)
      PROVE  Launches
  BY <1>1, <1>3 DEF AwaitDecision
<1>4. ASSUME NEW m, Receive(m), NEW c, AssertFails(c) PROVE Launches
  BY <1>4 DEF Receive, AssertFails
<1> SUFFICES Launches
  OBVIOUS
<1> HIDE DEF Launches
<1>5. ASSUME NEW m \in Media, Receive(m), NEW kind, NEW last, Misread(m, kind, last)
      PROVE  Launches
  <2>1. Mixed(kind).kind = "mixed"
    BY DEF Mixed
  <2>2. \/ \E sw : Respond(sw, Mixed(kind), NoResult)
        \/ AwaitDecision(m, Mixed(kind))
        \/ AssertFails(Mixed(kind))
    BY <1>5 DEF Misread
  <2> QED BY <1>2, <1>3, <1>4, <1>5, <2>1, <2>2
<1>6. CASE GetPublicKey
  <2>1. PICK m \in Media, path \in Paths, returnSignature \in BOOLEAN, confirm \in BOOLEAN :
          HandleGetPublicKey(m, path, returnSignature, confirm)
    BY <1>6 DEF GetPublicKey
  <2> DEFINE pk == [kind |-> "pk", publicKey |-> path, returnSignature |-> returnSignature]
  <2>2. HasFlow(pk)
    BY DEF HasFlow
  <2>3. \/ \E sw, c, result : Respond(sw, c, result)
        \/ AwaitDecision(m, pk)
    BY <2>1 DEF HandleGetPublicKey
  <2>4. Receive(m)
    BY <2>1 DEF HandleGetPublicKey
  <2> HIDE DEF pk
  <2> QED BY <1>2, <1>3, <2>2, <2>3, <2>4
<1>7. CASE SignTransaction
  <2>1. ASSUME NEW m \in Media, Receive(m), NEW tx, NEW last, tx.kind = "tx", tx \in TxContext,
               EndTransactionChunk(m, tx, last)
        PROVE  Launches
    <3>1. CASE \E sw, c, result : Respond(sw, c, result)
      BY <1>2, <2>1, <3>1
    <3>2. CASE \E parsed \in ParseResults(tx) :
                 LET parsedTx == [tx EXCEPT !.parsed = parsed] IN
                 AssertFails(parsedTx) \/ AwaitDecision(m, parsedTx)
      <4>1. PICK parsed \in ParseResults(tx) :
                 LET parsedTx == [tx EXCEPT !.parsed = parsed] IN
                 AssertFails(parsedTx) \/ AwaitDecision(m, parsedTx)
        BY <3>2
      <4> DEFINE parsedTx == [tx EXCEPT !.parsed = parsed]
      <4>2. parsed.type \in TransactionTypes
        BY DEF ParseResults, TransactionTypes
      <4>3. HasFlow(parsedTx)
        BY <2>1, <4>2 DEF HasFlow, TxContext
      <4>4. AssertFails(parsedTx) \/ AwaitDecision(m, parsedTx)
        BY <4>1
      <4> HIDE DEF parsedTx
      <4> QED BY <1>3, <1>4, <2>1, <4>3, <4>4
    <3> QED BY <2>1, <3>1, <3>2 DEF EndTransactionChunk
  <2>2. PICK m \in Media, data \in ApduData, last \in BOOLEAN :
          \/ \E path \in Paths, version \in TransactionVersions :
               HandleSignTransactionFirst(m, path, version, data, last)
          \/ HandleSignTransactionMore(m, data, last)
    BY <1>7 DEF SignTransaction
  <2>3. CASE \E path \in Paths, version \in TransactionVersions :
               HandleSignTransactionFirst(m, path, version, data, last)
    <3>1. PICK path \in Paths, version \in TransactionVersions :
               HandleSignTransactionFirst(m, path, version, data, last)
      BY <2>3
    <3> DEFINE tx == NewTransaction(path, version, data)
    <3>2. tx \in TxContext /\ tx.kind = "tx"
      BY NewTransactionType DEF NewTransaction
    <3>3. Receive(m)
      BY <3>1 DEF HandleSignTransactionFirst
    <3>4. (\E sw : Respond(sw, ctx, NoResult)) \/ EndTransactionChunk(m, tx, last)
      BY <3>1 DEF HandleSignTransactionFirst
    <3> HIDE DEF tx
    <3> QED BY <1>2, <2>1, <3>2, <3>3, <3>4
  <2>4. CASE HandleSignTransactionMore(m, data, last)
    <3> DEFINE base == IF ctx.kind = "tx" THEN ctx ELSE NewTransaction(NoPath, "LEGACY", <<>>)
               longer == [base EXCEPT !.rawTxLength = @ + DataLength(data)]
               tx == [longer EXCEPT !.rawTx = @ \o data]
    <3>1. Receive(m)
      BY <2>4 DEF HandleSignTransactionMore
    <3>2. \/ \E sw, c : Respond(sw, c, NoResult)
          \/ Misread(m, "tx", last)
          \/ EndTransactionChunk(m, tx, last)
      BY <2>4 DEF HandleSignTransactionMore
    <3>3. base \in TxContext
      <4>1. CASE ctx.kind = "tx"
        BY <4>1 DEF IInv, TypeOK, Contexts, Zeroed, PkContext, MsgContext, MixedContext, Mixed
      <4>2. CASE ctx.kind # "tx"
        <5>1. <<>> \in ApduData /\ "LEGACY" \in TransactionVersions
          BY DEF ApduData, TransactionVersions
        <5>2. NewTransaction(NoPath, "LEGACY", <<>>) \in TxContext
          BY <5>1, NewTransactionType
        <5> QED BY <4>2, <5>2
      <4> QED BY <4>1, <4>2
    <3> HIDE DEF base
    <3>4. data \in Seq(Chunks) /\ DataLength(data) \in Nat
      BY ApduDataType
    <3>5. base.rawTx \o data \in Seq(Chunks) /\ base.rawTxLength + DataLength(data) \in Nat
      BY <3>3, <3>4 DEF TxContext
    <3>6. tx \in TxContext /\ tx.kind = "tx"
      BY <3>3, <3>5 DEF TxContext
    <3> HIDE DEF tx
    <3> QED BY <1>2, <1>5, <2>1, <3>1, <3>2, <3>6
  <2> QED BY <2>2, <2>3, <2>4
<1>8. CASE SignMessage
  <2>1. ASSUME NEW m \in Media, Receive(m), NEW msg \in MsgContext, NEW data \in ApduData,
               NEW last, HandleMessageChunk(m, msg, data, last)
        PROVE  Launches
    <3> DEFINE added == AddToMessage(msg, data)
               complete == [added EXCEPT !.phase = "confirm",
                                         !.displayType = DefaultDisplayType(added)]
    <3>1. added \in MsgContext
      BY AddToMessageType
    <3>2. (\E sw, c : Respond(sw, c, NoResult)) \/ AwaitDecision(m, complete)
      BY <2>1 DEF HandleMessageChunk
    <3> HIDE DEF added
    <3>3. DefaultDisplayType(added) \in Flow!DisplayTypes
      BY DEF DefaultDisplayType, Flow!DisplayTypes
    <3>4. HasFlow(complete)
      BY <3>1, <3>3 DEF HasFlow, MsgContext
    <3> HIDE DEF complete
    <3> QED BY <1>2, <1>3, <2>1, <3>2, <3>4
  <2>2. PICK m \in Media, data \in ApduData, last \in BOOLEAN :
          \/ \E path \in Paths, flags \in SUBSET DisplayFlags, length \in MessageLengths :
               HandleSignMessageFirst(m, path, flags, length, data, last)
          \/ HandleSignMessageMore(m, data, last)
    BY <1>8 DEF SignMessage
  <2>3. CASE \E path \in Paths, flags \in SUBSET DisplayFlags, length \in MessageLengths :
               HandleSignMessageFirst(m, path, flags, length, data, last)
    <3>1. PICK path \in Paths, flags \in SUBSET DisplayFlags, length \in MessageLengths :
               HandleSignMessageFirst(m, path, flags, length, data, last)
      BY <2>3
    <3> DEFINE msg == NewMessage(path, flags, length)
    <3>2. msg \in MsgContext
      BY NewMessageType
    <3>3. Receive(m)
      BY <3>1 DEF HandleSignMessageFirst
    <3>4. (\E sw : Respond(sw, ctx, NoResult)) \/ HandleMessageChunk(m, msg, data, last)
      BY <3>1 DEF HandleSignMessageFirst
    <3> HIDE DEF msg
    <3> QED BY <1>2, <2>1, <3>2, <3>3, <3>4
  <2>4. CASE HandleSignMessageMore(m, data, last)
    <3>1. /\ Receive(m)
          /\ \/ \E sw : Respond(sw, ctx, NoResult)
             \/ Preparing /\ HandleMessageChunk(m, ctx, data, last)
             \/ Misread(m, "msg", last)
      BY <2>4 DEF HandleSignMessageMore
    <3>2. Preparing => ctx \in MsgContext
      BY DEF Preparing, IInv, TypeOK, Contexts, Zeroed, PkContext, TxContext, MixedContext,
         Mixed
    <3> QED BY <1>2, <1>5, <2>1, <3>1, <3>2
  <2> QED BY <2>2, <2>3, <2>4
<1>9. CASE Unsupported
  <2>1. PICK m \in Media : Receive(m) /\ \E sw : Respond(sw, ctx, NoResult)
    BY <1>9 DEF Unsupported, HandleUnsupported
  <2> QED BY <1>2, <2>1
<1> QED BY <1>6, <1>7, <1>8, <1>9

-----------------------------------------------------------------------------
(* The flow on the screen and the request in ctx *)

\* The invariant that ties both components together.
FlowMatches ==
  /\ Flow!InFlow <=> InReview /\ ~overtaken
  /\ InReview /\ ~overtaken =>
       /\ HasFlow(ctx)
       /\ flow = FlowOf(ctx)
       /\ displayType = IF ctx.kind = "msg" THEN ctx.displayType ELSE "none"
       /\ ctx.kind = "msg" => conditions = ConditionsOfMessage(ctx)

\* A flow that is left, or was, leaves nothing to match.
LEMMA LeavingKeepsFlow ==
  ASSUME FlowMatches, LeaveFlow, ~InReview' \/ overtaken'
  PROVE  FlowMatches' /\ [Device!Next]_flowVars
<1>1. flow' = <<>>
  BY DEF LeaveFlow, Flow!Reset, Flow!BackToMenu, Flow!InFlow, flowVars
<1>2. FlowMatches'
  BY <1>1 DEF FlowMatches, InReview, Flow!InFlow
<1>3. CASE Flow!InFlow
  BY <1>2, <1>3, SameSteps DEF LeaveFlow, Device!Next
<1>4. CASE ~Flow!InFlow
  BY <1>2, <1>4 DEF LeaveFlow
<1> QED BY <1>3, <1>4

\* What leaves the flow, the screen and ctx alone keeps them together.
LEMMA UnchangedKeepsFlow ==
  ASSUME FlowMatches, UNCHANGED <<flow, conditions, displayType, ctx, screen, overtaken>>
  PROVE  FlowMatches'
BY DEF FlowMatches, InReview, Flow!InFlow

\* A handler that awaits a decision launches the flow of the request, every other
\* command leaves the flow on the screen.
LEMMA CommandKeepsFlow ==
  ASSUME IInv, FlowMatches, Command
  PROVE  FlowMatches' /\ [Device!Next]_flowVars
<1>1. FlowFollows
  BY DEF Command
<1>2. CASE overtaken'
  BY <1>1, <1>2, LeavingKeepsFlow DEF FlowFollows
<1>3. CASE ~overtaken' /\ media' # NONE
  <2>1. screen' = Review(ctx') /\ HasFlow(ctx')
    BY <1>3, CommandLaunches DEF Command
  <2>2. /\ Flow!Launch(FlowOf(ctx'))
        /\ conditions' \in PossibleConditions(ctx')
        /\ displayType' = IF ctx'.kind = "msg" THEN ctx'.displayType ELSE "none"
    BY <1>1, <1>3 DEF FlowFollows
  <2>3. FlowOf(ctx') \in Device!AllFlows
    BY <2>1, FlowOfRequest
  <2>4. flow' = FlowOf(ctx') /\ flow' # <<>>
    BY <2>2, <2>3, FlowsAreFlows, Device!FlowFacts DEF Flow!Launch
  <2>5. ctx'.kind = "msg" => conditions' = ConditionsOfMessage(ctx')
    BY <2>2 DEF PossibleConditions
  <2>6. Device!Next
    BY <2>2, <2>3, SameFlows, SameSteps DEF Device!Next
  <2>7. screen'.view = "review"
    BY <2>1 DEF Review
  <2>8. FlowMatches'
    BY <1>3, <2>1, <2>2, <2>4, <2>5, <2>7 DEF FlowMatches, InReview, Flow!InFlow
  <2> QED BY <2>6, <2>8
<1>4. CASE ~overtaken' /\ media' = NONE
  <2>1. UNCHANGED flowVars
    BY <1>1, <1>4 DEF FlowFollows
  <2>2. ~InReview /\ ~InReview'
    BY <1>4, CommandLaunches DEF Command, InReview
  <2> QED BY <2>1, <2>2 DEF FlowMatches, InReview, Flow!InFlow, flowVars
<1> QED BY <1>2, <1>3, <1>4

\* A decision or a reset ends the flow together with the review.
LEMMA EndKeepsFlow ==
  ASSUME FlowMatches, ~InReview', flow' = <<>>
  PROVE  FlowMatches'
BY DEF FlowMatches, InReview, Flow!InFlow

\* A decision leaves the review.
LEMMA DecisionLeavesReview ==
  ASSUME UserDecides
  PROVE  ~InReview'
<1>1. ASSUME NEW sw, NEW c, NEW result, FinalizeAsyncReply(sw, c, result)
      PROVE  ~InReview'
  <2>1. screen' \in {Menu, Status}
    BY <1>1 DEF FinalizeAsyncReply, Reset
  <2> QED BY <2>1 DEF Menu, Status, InReview
<1>2. \E sw, c, result : FinalizeAsyncReply(sw, c, result)
  BY DEF UserDecides, OnRejected, OnAddressApproved, OnTransactionApproved,
     SignReviewedTransaction, SignOvertakenTransaction, OnMessageApproved
<1> QED BY <1>1, <1>2

\* A display type step relaunches the review and its flow with the same display type.
LEMMA SwitchKeepsFlow ==
  ASSUME IInv, FlowMatches, SwitchMessageFlow
  PROVE  FlowMatches'
<1>1. PICK type \in {"ASCII", "HEX", "HASH"} : SwitchMessageDisplay(type)
  BY DEF SwitchMessageFlow, SwitchDisplay
<1>2. /\ InReview /\ ctx.kind = "msg" /\ ~overtaken /\ ~overtaken'
      /\ ctx' = [ctx EXCEPT !.displayType = type]
      /\ screen' = Review(ctx')
  BY <1>1, ReviewingKind DEF SwitchMessageDisplay
<1>3. ctx \in MsgContext
  BY <1>2, ReviewedContext DEF Contexts, Zeroed, PkContext, TxContext, MixedContext, Mixed
<1>4. /\ ctx'.kind = "msg" /\ ctx'.displayType = type
      /\ ctx'.isPrintableAscii = ctx.isPrintableAscii
      /\ ctx'.messageLength = ctx.messageLength
  BY <1>2, <1>3 DEF MsgContext
<1>5. /\ flow' = flow /\ conditions' = conditions /\ displayType' = ctx'.displayType
  BY DEF SwitchMessageFlow, Flow!SwitchDisplay
<1>6. /\ flow = FlowOf(ctx) /\ conditions = ConditionsOfMessage(ctx) /\ Flow!InFlow
  BY <1>2 DEF FlowMatches
<1>7. FlowOf(ctx) = Flow!MessageFlow /\ FlowOf(ctx') = Flow!MessageFlow
  BY <1>2, <1>4 DEF FlowOf
<1>8. ConditionsOfMessage(ctx') = ConditionsOfMessage(ctx)
  BY <1>4 DEF ConditionsOfMessage
<1>9. HasFlow(ctx') /\ InReview'
  BY <1>2, <1>4 DEF HasFlow, Flow!DisplayTypes, Review, InReview
<1> QED BY <1>2, <1>4, <1>5, <1>6, <1>7, <1>8, <1>9 DEF FlowMatches, Flow!InFlow

\* Every step of the device is one of the command loop and one of the flow, or leaves
\* one of them alone, and keeps both together.
LEMMA DeviceStep ==
  ASSUME IInv, FlowMatches, [DeviceNext]_allVars
  PROVE  [Next]_vars /\ [Device!Next]_flowVars /\ FlowMatches'
<1>1. CASE Command
  BY <1>1, CommandKeepsFlow DEF Command, Next
<1>2. CASE KeepAlive
  BY <1>2, UnchangedKeepsFlow DEF KeepAlive, RenewReply, HandleKeepAlive, Next, flowVars
<1>3. CASE PressRight \/ PressLeft
  <2>1. UNCHANGED vars /\ UNCHANGED <<flow, conditions, displayType>>
    BY <1>3 DEF PressRight, PressLeft, Flow!Right, Flow!Left
  <2>2. Device!Next
    BY <1>3, SameSteps DEF PressRight, PressLeft, Device!Next
  <2>3. FlowMatches'
    BY <2>1, UnchangedKeepsFlow DEF vars
  <2> QED BY <2>1, <2>2, <2>3
<1>4. CASE Approve \/ Reject
  <2>1. UserDecides /\ ~InReview'
    BY <1>4, DecisionLeavesReview DEF Approve, Reject, UserDecides
  <2>2. CASE overtaken
    <3>1. UNCHANGED flowVars /\ ~Flow!InFlow
      BY <1>4, <2>2 DEF Approve, Reject, Decide, FlowMatches
    <3> QED BY <2>1, <3>1, EndKeepsFlow DEF Next, flowVars, Flow!InFlow
  <2>3. CASE ~overtaken
    <3>1. Flow!Validate
      BY <1>4, <2>3 DEF Approve, Reject, Decide, PressBoth
    <3>2. FlowMatches'
      BY <2>1, <3>1, EndKeepsFlow DEF Flow!Validate, Flow!BackToMenu
    <3> QED BY <2>1, <3>1, <3>2, SameSteps DEF Next, Device!Next
  <2> QED BY <2>2, <2>3
<1>5. CASE SwitchMessageFlow
  BY <1>5, SwitchKeepsFlow, SameSteps DEF SwitchMessageFlow, Next, Device!Next
<1>6. CASE LosePower
  <2>1. LoseUsbPower /\ ~InReview'
    BY <1>6 DEF LosePower, LoseUsbPower, Reset, Menu, InReview
  <2> QED BY <1>6, <2>1, LeavingKeepsFlow DEF LosePower, Next
<1>7. CASE Elsewhere
  <2>1. CASE RedrawOvertaken
    <3>1. UNCHANGED flowVars /\ overtaken /\ overtaken'
      BY <1>7, <2>1 DEF Elsewhere, RedrawOvertaken
    <3> QED BY <2>1, <3>1 DEF Next, FlowMatches, flowVars, Flow!InFlow
  <2>2. CASE ~RedrawOvertaken
    BY <1>7, <2>2, UnchangedKeepsFlow DEF Elsewhere, Quit, Tick, Next, flowVars
  <2> QED BY <2>1, <2>2
<1>8. CASE UNCHANGED allVars
  BY <1>8, UnchangedKeepsFlow DEF allVars, flowVars, vars
<1> QED BY <1>1, <1>2, <1>3, <1>4, <1>5, <1>6, <1>7, <1>8 DEF DeviceNext

\* When the app starts no review is on the screen.
LEMMA DeviceStarts == DeviceInit => IInv /\ Device!Init /\ FlowMatches
<1> SUFFICES ASSUME DeviceInit PROVE IInv /\ Device!Init /\ FlowMatches
  OBVIOUS
<1>1. IInv /\ Device!Init
  BY InitIInv, SameSteps DEF DeviceInit
<1>2. FlowMatches
  BY DEF DeviceInit, Init, Flow!Init, FlowMatches, Flow!InFlow, InReview, Menu
<1> QED BY <1>1, <1>2

\* Both invariants hold throughout.
LEMMA DeviceInvariance == DeviceSpec => [](IInv /\ FlowMatches)
<1>1. ASSUME IInv, FlowMatches, [DeviceNext]_allVars PROVE IInv' /\ FlowMatches'
  BY <1>1, DeviceStep, NextIInv
<1> QED BY <1>1, DeviceStarts, PTL DEF DeviceSpec

\* The command loop of the device is that of NimiqApp, so that whatever is proved of
\* it holds of the device.
THEOREM DeviceRunsCommandLoop == DeviceSpec => Spec
<1>1. IInv /\ FlowMatches /\ [DeviceNext]_allVars => [Next]_vars
  BY DeviceStep
<1>2. DeviceInit => Init
  BY DEF DeviceInit
<1> QED BY <1>1, <1>2, DeviceInvariance, PTL DEF DeviceSpec, Spec

\* Its reviews are those of BaglFlow.
THEOREM DeviceRunsFlows == DeviceSpec => Device!Spec
<1>1. IInv /\ FlowMatches /\ [DeviceNext]_allVars => [Device!Next]_(Device!vars)
  BY DeviceStep DEF flowVars, Device!vars
<1> QED BY <1>1, DeviceStarts, DeviceInvariance, PTL DEF DeviceSpec, Device!Spec

-----------------------------------------------------------------------------
(* What both invariants together imply *)

\* The flow is that of the request, and leads to display types only that the command
\* loop can switch to: the conditions of these steps are what makes them possible.
THEOREM FlowsAreOfContext == DeviceSpec => []FlowIsOfContext
<1>1. ASSUME IInv, FlowMatches, Device!FlowInv, InReview, ~overtaken,
             flow[index].name \in Flow!DisplayTypes
      PROVE  /\ flow[index].name # ctx.displayType
             /\ CanDisplay([ctx EXCEPT !.displayType = flow[index].name])
  <2> DEFINE name == flow[index].name
  <2>1. /\ flow = FlowOf(ctx) /\ HasFlow(ctx)
        /\ displayType = IF ctx.kind = "msg" THEN ctx.displayType ELSE "none"
        /\ ctx.kind = "msg" => conditions = ConditionsOfMessage(ctx)
        /\ Device!InFlow
    BY <1>1, SameSteps DEF FlowMatches
  <2>2. index \in Device!VisibleSteps
    BY <1>1, <2>1 DEF Device!FlowInv
  <2>3. index \in 1..Len(flow) /\ Device!IsShown(flow[index], displayType)
    BY <2>2 DEF Device!VisibleSteps, Device!Visible
  <2>4. name \in {"ASCII", "HEX", "HASH"}
    BY <1>1 DEF Flow!DisplayTypes
  <2>5. ctx.kind = "msg" /\ flow = Device!MessageFlow
    <3>1. ASSUME ctx.kind # "msg" PROVE FALSE
      <4>1. Device!IsPart(flow, Device!Plain)
        BY <2>1, <3>1, FlowsAreFlows, FlowOfRequest, Device!OtherFlowsAreFlows
      <4>2. name \notin Device!Plain
        BY <2>3, <4>1 DEF Device!IsPart
      <4> QED BY <2>4, <4>2 DEF Device!Plain, Device!MessageNames, Device!DisplayTypes
    <3> QED BY <2>1, <3>1, FlowOfRequest
  <2>6. /\ name = "ASCII" => flow[index].condition = "ascii"
        /\ name = "HEX" => flow[index].condition = "printable"
    BY <2>3, <2>5, FlowsAreFlows, Device!DisplayTypesRequire DEF Device!Requires
  <2>7. /\ name # ctx.displayType
        /\ flow[index].condition \in ConditionsOfMessage(ctx) \cup {"always"}
    BY <2>1, <2>3, <2>5 DEF Device!IsShown
  <2>8. /\ name = "ASCII" => ctx.isPrintableAscii
        /\ name = "HEX" => ctx.messageLength <= MAX_PRINTABLE_MESSAGE_LENGTH
    BY <2>6, <2>7 DEF ConditionsOfMessage
  <2>9. ctx \in MsgContext /\ BelongsTo(ctx, request)
    BY <1>1, <2>5, ReviewedContext
       DEF Contexts, Zeroed, PkContext, TxContext, MixedContext, Mixed
  <2>10. ctx.isPrintableAscii =>
           /\ ctx.messageLength <= MAX_PRINTABLE_MESSAGE_LENGTH
           /\ \A i \in DOMAIN ctx.messageHash : ctx.messageHash[i] \in AsciiChunks
    BY <2>5, <2>9 DEF BelongsTo
  <2> HIDE DEF name
  <2>11. CanDisplay([ctx EXCEPT !.displayType = name])
    BY <2>8, <2>9, <2>10 DEF CanDisplay, MsgContext
  <2> QED BY <2>7, <2>11 DEF name
<1>2. IInv /\ FlowMatches /\ Device!FlowInv => FlowIsOfContext
  BY <1>1 DEF FlowIsOfContext, FlowMatches
<1>3. Device!Spec => []Device!FlowInv
  BY FlowsAreFlows, Device!AlwaysInvariant
<1> QED BY <1>2, <1>3, DeviceInvariance, DeviceRunsFlows, PTL

\* A command or a rejection delivers no signature, so an approval does, of which the
\* flow is at its approve step.
LEMMA DeliveryIsApproved ==
  ASSUME IInv, RInv, FlowMatches, [DeviceNext]_allVars, ~overtaken,
         NEW kind \in {"tx", "msg", "foreign"}, Delivers(kind)
  PROVE  InReview /\ Flow!InFlow /\ flow[index].name = "approve"
<1>1. reply' # reply /\ reply'.result.kind \notin {"none", "pk"}
  BY DEF Delivers
<1>2. OnTransactionApproved \/ OnMessageApproved
  BY <1>1, DeviceStep, OnlyApprovalsDeliver
<1>3. InReview /\ Flow!InFlow
  BY <1>2 DEF OnTransactionApproved, OnMessageApproved, Reviewing, FlowMatches
<1>4. CASE Command
  BY <1>1, <1>4, CommandsConsent DEF Command
<1>5. CASE Reject
  <2>1. reply'.result = NoResult
    BY <1>1, <1>5, FinalizedReply DEF Reject, OnRejected
  <2> QED BY <1>1, <2>1 DEF NoResult
<1>6. CASE KeepAlive \/ Elsewhere
  BY <1>1, <1>6 DEF KeepAlive, RenewReply, Elsewhere, HandleKeepAlive, RedrawOvertaken, Quit,
     Tick, NoReply, NoResult
<1>7. CASE PressRight \/ PressLeft \/ SwitchMessageFlow \/ LosePower \/ UNCHANGED allVars
  <2>1. reply' = reply
    BY <1>7 DEF PressRight, PressLeft, SwitchMessageFlow, SwitchDisplay, SwitchMessageDisplay,
       LosePower, LoseUsbPower, allVars, vars
  <2> QED BY <1>1, <2>1
<1>8. CASE Approve
  BY <1>3, <1>8 DEF Approve, Decide, PressBoth
<1> QED BY <1>3, <1>4, <1>5, <1>6, <1>7, <1>8 DEF DeviceNext

\* A signature is delivered, out of a review that was not overtaken, only if every step
\* of the review that is not hidden was on the screen, the message in the way its
\* display type says.
THEOREM SignedIsSeen == DeviceSpec => SignedOnlyAfterSeen
<1> DEFINE SeenBefore ==
      ~overtaken /\ (\E kind \in {"tx", "msg", "foreign"} : Delivers(kind)) =>
        /\ Flow!InFlow /\ flow = FlowOf(ctx)
        /\ \A i \in 1..(index - 1) :
             Flow!Visible(i) =>
               \/ <<flow[i].name, "fixed">> \in seen
               \/ <<flow[i].name, ctx.displayType>> \in seen
<1>1. ASSUME IInv, RInv, FlowMatches, Device!FlowInv, Device!NothingIsApprovedUnseen,
             [DeviceNext]_allVars, ~overtaken,
             NEW kind \in {"tx", "msg", "foreign"}, Delivers(kind)
      PROVE  /\ Flow!InFlow /\ flow = FlowOf(ctx)
             /\ \A i \in 1..(index - 1) :
                  Flow!Visible(i) =>
                    \/ <<flow[i].name, "fixed">> \in seen
                    \/ <<flow[i].name, ctx.displayType>> \in seen
  <2>1. InReview /\ Flow!InFlow /\ flow[index].name = "approve"
    BY <1>1, DeliveryIsApproved
  <2>2. /\ flow = FlowOf(ctx) /\ HasFlow(ctx)
        /\ displayType = IF ctx.kind = "msg" THEN ctx.displayType ELSE "none"
    BY <1>1, <2>1 DEF FlowMatches
  <2>3. ASSUME NEW i \in 1..(index - 1), Flow!Visible(i)
        PROVE  \/ <<flow[i].name, "fixed">> \in seen
               \/ <<flow[i].name, ctx.displayType>> \in seen
    <3>1. <<flow[i].name, Device!Content(flow[i], displayType)>> \in seen
      BY <1>1, <2>1, <2>3, SameSteps DEF Device!NothingIsApprovedUnseen
    <3>2. CASE flow[i].name # "message"
      BY <3>1, <3>2 DEF Device!Content
    <3>3. CASE flow[i].name = "message" /\ ctx.kind = "msg"
      BY <2>2, <3>1, <3>3 DEF Device!Content
    <3>4. CASE flow[i].name = "message" /\ ctx.kind # "msg"
      <4>1. Device!IsPart(flow, Device!Plain)
        BY <2>2, <3>4, FlowsAreFlows, FlowOfRequest, Device!OtherFlowsAreFlows
      <4>2. index \in 1..Len(flow)
        BY <1>1, <2>1, SameSteps DEF Device!FlowInv, Device!VisibleSteps
      <4>3. Len(flow) \in Nat
        BY <2>2, FlowsAreFlows, FlowOfRequest, Device!FlowFacts
      <4>4. i \in 1..Len(flow)
        BY <2>3, <4>2, <4>3
      <4>5. "message" \in Device!Plain
        BY DEF Device!Plain, Device!MessageNames
      <4> QED BY <3>4, <4>1, <4>4, <4>5 DEF Device!IsPart
    <3> QED BY <3>2, <3>3, <3>4
  <2> QED BY <2>1, <2>2, <2>3
<1>2. (/\ IInv /\ RInv /\ FlowMatches /\ Device!FlowInv /\ Device!NothingIsApprovedUnseen
       /\ [DeviceNext]_allVars) => SeenBefore
  BY <1>1
<1>3. Device!Spec => [](Device!FlowInv /\ Device!NothingIsApprovedUnseen)
  BY FlowsAreFlows, Device!AlwaysInvariant, Device!ApprovedIsSeen, PTL
<1> HIDE DEF SeenBefore
<1>4. DeviceSpec => [][SeenBefore]_allVars
  BY <1>2, <1>3, DeviceInvariance, DeviceRunsCommandLoop, DeviceRunsFlows, RepliesInvariant,
     PTL DEF DeviceSpec
<1> QED BY <1>4 DEF SignedOnlyAfterSeen, SeenBefore
=============================================================================
