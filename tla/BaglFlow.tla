------------------------------ MODULE BaglFlow ------------------------------
(***************************************************************************)
(* The review flows of devices with two buttons (src/nimiq_ux_bagl.c).  A  *)
(* flow is a list of steps, one of which is on the screen.  The left and   *)
(* right button go to the previous and next step, both buttons together    *)
(* validate a step.  A step whose condition does not hold skips itself     *)
(* while it is initialized (src/nimiq_ux_bagl_macros.h), in the direction  *)
(* the user came from.  The steps of the message flow share one buffer,    *)
(* printedMessage, and three of them relaunch the flow with a different    *)
(* display type at the message step.                                       *)
(*                                                                         *)
(* The flow engine itself is part of the Ledger SDK.  The pages of a long  *)
(* text are not modelled.                                                  *)
(***************************************************************************)
EXTENDS Integers, Sequences, FiniteSets, FiniteSetsExt

CONSTANT Flows  \* the flows that are launched, of AllFlows

VARIABLES
  flow,            \* the steps of the flow on the screen, or <<>> for the menu
  conditions,      \* conditions of optional steps that hold for the request
  displayType,     \* ctx.req.msg.confirm.displayType
  index,           \* the step on the screen
  printedMessage,  \* ctx.req.msg.confirm.printedMessage
  seen             \* steps displayed since the review began, with contents (history)

vars == <<flow, conditions, displayType, index, printedMessage, seen>>

-----------------------------------------------------------------------------
(* The flows *)

Step(name) == <<[name |-> name, condition |-> "always"]>>
Optional(name, condition) == <<[name |-> name, condition |-> condition]>>
Decide == Step("approve") \o Step("reject")

PublicKeyFlow == Step("address") \o Decide

TransactionFlow(specific) ==
  Step("transaction type") \o Optional("amount", "value") \o specific
  \o Optional("fee", "fee") \o Step("network") \o Decide

NormalFlow == TransactionFlow(Step("recipient") \o Optional("data", "data"))

HtlcFlow == TransactionFlow(
  Step("redeem address") \o Optional("refund address", "foreign refund")
  \o Step("hash root") \o Optional("hash algorithm", "algorithm")
  \o Optional("hash count", "count") \o Optional("timeout", "timeout"))

VestingFlow == TransactionFlow(
  Optional("owner address", "foreign owner") \o Optional("single vesting block", "single")
  \o Optional("start block", "multi") \o Optional("period", "multi")
  \o Optional("step count", "multi") \o Optional("step block count", "multi")
  \o Optional("first step block count", "first duration")
  \o Optional("step amount", "step amount")
  \o Optional("first step amount", "first amount")
  \o Optional("last step amount", "last amount")
  \o Optional("pre vested amount", "pre vested"))

StakingFlow == TransactionFlow(
  Optional("data amount", "data amount") \o Optional("staker", "foreign staker")
  \o Optional("delegation", "delegation") \o Optional("reactivate", "update staker"))

MessageFlow ==
  Step("intro") \o Step("message length") \o Step("message")
  \o Optional("ASCII", "ascii") \o Optional("HEX", "printable") \o Optional("HASH", "always")
  \o Decide

AllFlows == {PublicKeyFlow, NormalFlow, HtlcFlow, VestingFlow, StakingFlow, MessageFlow}
ASSUME FlowsAssumption == Flows \subseteq AllFlows

DisplayTypes == {"ASCII", "HEX", "HASH"}

ConditionsOf(f) == {f[i].condition : i \in DOMAIN f} \ {"always"}

\* Conditions that can hold together: a vesting contract has one step or several,
\* a message of ASCII characters only is printable.
ArePossible(f, holding) ==
  /\ f = VestingFlow => ("single" \in holding <=> "multi" \notin holding)
  /\ "ascii" \in holding => "printable" \in holding

\* The display type a review starts with.
CanDisplay(type, holding) ==
  /\ type = "ASCII" => "ascii" \in holding
  /\ type = "HEX" => "printable" \in holding

\* A display type step is also hidden if the message has that display type.
IsShown(step, type) == step.condition \in conditions \cup {"always"} /\ step.name # type
Visible(i) == IsShown(flow[i], displayType)

-----------------------------------------------------------------------------
(* Moving between steps *)

\* Faulty variant: hidden steps are displayed.
RestWithoutSkipping(i, direction) == i

\* Faulty variant: a hidden step always goes on to the next one.
RestForward(i, direction) ==
  LET rest[j \in DOMAIN flow] == IF Visible(j) THEN j ELSE rest[j + 1] IN rest[i]

\* UX_OPTIONAL_STEP: the step that is displayed once step i was reached in a direction.
Directions == {"forward", "backward"}
Rest(i, direction) ==
  LET rest[at \in (DOMAIN flow) \X Directions] ==
        IF Visible(at[1]) THEN at[1]
        ELSE IF (at[2] # "backward" /\ at[1] < Len(flow)) \/ at[1] = 1
        THEN rest[<<at[1] + 1, "forward">>]
        ELSE rest[<<at[1] - 1, "backward">>]
  IN rest[<<i, direction>>]

\* What a step displays that can change during a review.
Content(step, type) == IF step.name = "message" THEN type ELSE "fixed"

\* Faulty variant: the message is printed when its review begins only.
PrintLengthOnly(step, type) ==
  IF step.name = "message length" THEN "length" ELSE printedMessage

\* The init functions of the two steps that use the buffer.
Printed(step, type) ==
  IF step.name = "message length" THEN "length"
  ELSE IF step.name = "message" THEN type
  ELSE printedMessage

Show(f, i, type) ==
  /\ index' = i
  /\ printedMessage' = Printed(f[i], type)
  /\ seen' = seen \cup {<<f[i].name, Content(f[i], type)>>}

Init ==
  /\ flow = <<>>
  /\ conditions = {}
  /\ displayType = "none"
  /\ index = 0
  /\ printedMessage = "none"
  /\ seen = {}

\* ux_flow_init.  A flow that is on the screen is replaced.  The first step of every
\* flow is visible.
Launch(f) ==
  /\ flow' = f
  /\ conditions' \in {holding \in SUBSET ConditionsOf(f) : ArePossible(f, holding)}
  /\ displayType' \in IF f = MessageFlow
                      THEN {type \in DisplayTypes : CanDisplay(type, conditions')}
                      ELSE {"none"}
  /\ index' = 1
  /\ printedMessage' = "none"
  /\ seen' = {<<f[1].name, Content(f[1], displayType')>>}

Right ==
  /\ flow # <<>> /\ index < Len(flow)
  /\ Show(flow, Rest(index + 1, "forward"), displayType)
  /\ UNCHANGED <<flow, conditions, displayType>>

Left ==
  /\ flow # <<>> /\ index > 1
  /\ Show(flow, Rest(index - 1, "backward"), displayType)
  /\ UNCHANGED <<flow, conditions, displayType>>

\* Faulty variant: the flow is relaunched behind the message step.
BehindMessageStep == 4

MessageStep == 3

\* ui_message_signing(type, true)
SwitchDisplay ==
  /\ flow = MessageFlow
  /\ flow[index].name \in DisplayTypes
  /\ displayType' = flow[index].name
  /\ Show(flow, MessageStep, displayType')
  /\ UNCHANGED <<flow, conditions>>

\* ui_menu_main.  What a review was about is not looked at behind it.
BackToMenu ==
  /\ flow' = <<>>
  /\ conditions' = {}
  /\ displayType' = "none"
  /\ index' = 0
  /\ printedMessage' = "none"
  /\ seen' = {}

\* The approve and reject steps decide and return to the menu.
Validate ==
  /\ flow # <<>> /\ flow[index].name \in {"approve", "reject"}
  /\ BackToMenu

\* main() starts over in the middle of a review.
Reset == flow # <<>> /\ BackToMenu

Next == (\E f \in Flows : Launch(f)) \/ Right \/ Left \/ SwitchDisplay \/ Validate \/ Reset

Spec == Init /\ [][Next]_vars

-----------------------------------------------------------------------------
(* Properties *)

InFlow == flow # <<>>

\* A step whose condition does not hold is never on the screen, whichever way
\* the user came and after whichever change of the display type.
RestsOnVisibleStep == InFlow => index \in DOMAIN flow /\ Visible(index)

\* Skipping hidden steps goes no step too far and never turns round: the buttons
\* lead to the nearest visible step on their side.
NavigatesVisibleSteps ==
  InFlow =>
    /\ index < Len(flow) =>
         Rest(index + 1, "forward") = Min({i \in DOMAIN flow : i > index /\ Visible(i)})
    /\ index > 1 =>
         Rest(index - 1, "backward") = Max({i \in DOMAIN flow : i < index /\ Visible(i)})

\* Nobody gets to the approve step without every visible step of the review
\* having been displayed, the message with the current display type.
NothingIsApprovedUnseen ==
  InFlow /\ flow[index].name = "approve" =>
    \A i \in 1..(index - 1) :
      Visible(i) => <<flow[i].name, Content(flow[i], displayType)>> \in seen

\* The buffer that two steps share holds what the step on the screen is about.
PrintedMessageIsOfStep ==
  /\ InFlow /\ flow[index].name = "message length" => printedMessage = "length"
  /\ InFlow /\ flow[index].name = "message" => printedMessage = displayType
=============================================================================
