---------------------------- MODULE ButtonDevice ----------------------------
(***************************************************************************)
(* A device with two buttons: the command loop (NimiqApp, with UI =        *)
(* "bagl") and the review flows (BaglFlow) together.  A handler that       *)
(* awaits a decision launches the flow for what it left in ctx; from then  *)
(* on the buttons move through the flow while ticks, heartbeats and resets *)
(* go on, and the decision steps call on_rejected() or the on_..._approved *)
(* function of the flow.                                                   *)
(*                                                                         *)
(* The steps of a flow read their texts and conditions from ctx.  Behind a *)
(* review that was overtaken they are whatever ctx holds by then: the flow *)
(* is not followed any further, and the user may decide at any step.       *)
(***************************************************************************)
EXTENDS NimiqApp

VARIABLES flow, conditions, displayType, index, printedMessage, seen

Flow == INSTANCE BaglFlow WITH Flows <- {}

flowVars == <<flow, conditions, displayType, index, printedMessage, seen>>
allVars == <<vars, flowVars>>

-----------------------------------------------------------------------------
(* Launching the flow of a request *)

FlowOf(c) ==
  CASE c.kind = "pk" -> Flow!PublicKeyFlow
    [] c.kind = "msg" -> Flow!MessageFlow
    [] c.kind = "tx" /\ c.parsed.type = "HTLC_CREATION" -> Flow!HtlcFlow
    [] c.kind = "tx" /\ c.parsed.type = "VESTING_CREATION" -> Flow!VestingFlow
    [] c.kind = "tx" /\ c.parsed.type = "STAKING_INCOMING" -> Flow!StakingFlow
    [] c.kind = "tx" /\ c.parsed.type \in {"NORMAL", "STAKING_OUTGOING"} -> Flow!NormalFlow

\* Faulty variant: the entry to the hex display is there for messages of any length.
ConditionsOfMessageUnchecked(c) ==
  (IF c.isPrintableAscii THEN {"ascii"} ELSE {}) \cup {"printable"}

ConditionsOfMessage(c) ==
  (IF c.isPrintableAscii THEN {"ascii"} ELSE {})
  \cup (IF c.messageLength <= MAX_PRINTABLE_MESSAGE_LENGTH THEN {"printable"} ELSE {})

\* Which steps of a transaction are displayed depends on data that is abstract here:
\* either all that can be displayed together are, or none that is optional.
PossibleConditions(c) ==
  IF c.kind = "msg" THEN {ConditionsOfMessage(c)}
  ELSE LET all == Flow!ConditionsOf(FlowOf(c)) IN
       {holding \in {all \ {"single"}, all \cap {"single"}} : Flow!ArePossible(FlowOf(c), holding)}

LeaveFlow == IF Flow!InFlow THEN Flow!Reset ELSE UNCHANGED flowVars

\* A command of which the handler awaits a decision launches a flow; any other one
\* overtakes the flow on the screen.
FlowFollows ==
  IF overtaken' THEN LeaveFlow
  ELSE IF media' # NONE
  THEN /\ conditions' \in PossibleConditions(ctx')
       /\ displayType' = IF ctx'.kind = "msg" THEN ctx'.displayType ELSE "none"
       /\ Flow!Launch(FlowOf(ctx'))
  ELSE UNCHANGED flowVars

-----------------------------------------------------------------------------
(* Steps *)

DeviceInit == Init /\ Flow!Init

Command == (GetPublicKey \/ SignTransaction \/ SignMessage \/ Unsupported) /\ FlowFollows

KeepAlive == RenewReply /\ UNCHANGED flowVars

\* The buttons, of which the command loop takes no notice.
PressRight == running = "running" /\ Flow!Right /\ UNCHANGED vars
PressLeft == running = "running" /\ Flow!Left /\ UNCHANGED vars

\* Both buttons at once.
PressBoth(name) == Flow!InFlow /\ flow[index].name = name /\ Flow!Validate

Decide(name) == IF overtaken THEN UNCHANGED flowVars ELSE PressBoth(name)

Approve ==
  /\ OnAddressApproved \/ OnTransactionApproved \/ OnMessageApproved
  /\ Decide("approve")
Reject == OnRejected /\ Decide("reject")

SwitchMessageFlow == SwitchDisplay /\ Flow!SwitchDisplay /\ displayType' = ctx'.displayType

LosePower == LoseUsbPower /\ LeaveFlow

Elsewhere == (RedrawOvertaken \/ Quit \/ Tick) /\ UNCHANGED flowVars

DeviceNext ==
  \/ Command
  \/ KeepAlive
  \/ PressRight
  \/ PressLeft
  \/ Approve
  \/ Reject
  \/ SwitchMessageFlow
  \/ LosePower
  \/ Elsewhere

DeviceSpec == DeviceInit /\ [][DeviceNext]_allVars

-----------------------------------------------------------------------------
(* Properties *)

\* Unless it was overtaken, the flow on the screen is that of the request in ctx, with
\* the display type and the steps that the command loop has in mind for it, also behind
\* a heartbeat, a renewal, a reset and any number of relaunches, and when it replaced
\* another flow; a step to change the display type is one the command loop can take.
FlowIsOfContext ==
  /\ Flow!InFlow <=> InReview /\ ~overtaken
  /\ InReview /\ ~overtaken =>
       /\ flow = FlowOf(ctx)
       /\ displayType = IF ctx.kind = "msg" THEN ctx.displayType ELSE "none"
       /\ flow[index].name \in Flow!DisplayTypes =>
            /\ flow[index].name # ctx.displayType
            /\ CanDisplay([ctx EXCEPT !.displayType = flow[index].name])

\* A signature is delivered, out of a review that was not overtaken, only if since the
\* request came in every step of its flow was displayed that is not hidden for it: all
\* of a transaction, and a message in the way its display type says.
SignedOnlyAfterSeen ==
  [][~overtaken /\ (\E kind \in {"tx", "msg", "foreign"} : Delivers(kind)) =>
       /\ Flow!InFlow /\ flow = FlowOf(ctx)
       /\ \A i \in 1..(index - 1) :
            Flow!Visible(i) =>
              \/ <<flow[i].name, "fixed">> \in seen
              \/ <<flow[i].name, ctx.displayType>> \in seen]_allVars
=============================================================================
