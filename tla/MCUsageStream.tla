---------------------------- MODULE MCUsageStream ----------------------------
(* Instances of UsageStream for TLC: the configurations give every bound. *)
EXTENDS UsageStream
==============================================================================
