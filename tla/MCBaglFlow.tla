----------------------------- MODULE MCBaglFlow -----------------------------
(* Constant values for model-checking BaglFlow: every flow of the app.      *)
EXTENDS BaglFlow

MCFlows == AllFlows
=============================================================================
