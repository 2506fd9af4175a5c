----------------------------- MODULE MCPushToTalk -----------------------------
(* Instances of PushToTalk for TLC: the configurations give every bound.     *)
EXTENDS PushToTalk
==============================================================================
