--------------------------- MODULE MCRealtimeRelay ---------------------------
(* Instances of RealtimeRelay for TLC: the configurations give every bound.  *)
EXTENDS RealtimeRelay
==============================================================================
