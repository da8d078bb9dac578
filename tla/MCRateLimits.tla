---------------------------- MODULE MCRateLimits ----------------------------
(* Instances of RateLimits for TLC: a conversation and its caller, and a   *)
(* login bucket.                                                           *)
EXTENDS RateLimits, TLC

CONSTANTS conversation, caller, login

Capacities == (conversation :> 2 @@ caller :> 1 @@ login :> 2)
OneConversation == {<<conversation, caller>>}
=============================================================================
