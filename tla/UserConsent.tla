---------------------------- MODULE UserConsent ----------------------------
(***************************************************************************)
(* What the app promises to its user about signatures: at any time at most *)
(* one payload is under review; a signature is granted only out of a       *)
(* review, which it ends, and only for the payload under review, unless    *)
(* another command overtook the review; a review that is not granted ends  *)
(* without a signature; and a granted signature is delivered once, it is   *)
(* gone with the next request.                                             *)
(***************************************************************************)
CONSTANTS
  None,
  Orderly    \* clients keep to the protocol: only overtaking disturbs a review
VARIABLES
  reviewed,  \* the payload under review, or None
  granted,   \* the payload the last reply signs, or None
  overtaken  \* what is displayed may not be what is signed any more

Init == reviewed = None /\ granted = None /\ overtaken = FALSE

\* The effects of overtaking can outlast the review, they never come from nowhere.
StaysUndisturbed == Orderly => (overtaken' => overtaken)

\* A payload is shown, in place of a review that awaits its continuation if any.
Ask ==
  /\ reviewed' # None
  /\ granted' = None
  /\ StaysUndisturbed

\* A command is handled behind a review.
Overtake ==
  /\ reviewed # None /\ reviewed' = reviewed
  /\ granted' = None
  /\ overtaken'

Grant ==
  /\ reviewed # None
  /\ granted' = reviewed \/ (overtaken /\ granted' # None)
  /\ reviewed' = None
  /\ StaysUndisturbed

Withhold ==
  /\ reviewed # None
  /\ reviewed' = None
  /\ granted' = None
  /\ StaysUndisturbed

NextRequest ==
  /\ reviewed = None /\ reviewed' = None
  /\ granted' = None
  /\ StaysUndisturbed

Next == Ask \/ Overtake \/ Grant \/ Withhold \/ NextRequest

Spec == Init /\ [][Next]_<<reviewed, granted, overtaken>>
=============================================================================
