--------------------------- MODULE MCSpeechPipeline ---------------------------
(* Instance checked by SpeechPipeline.cfg. *)
EXTENDS SpeechPipeline
=============================================================================
