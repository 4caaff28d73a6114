--------------------------- MODULE MCVoiceSession ---------------------------
(* VoiceSession for TLC.  RetryLimit is 1 instead of 5: two recoverable faults exhaust it. *)
EXTENDS VoiceSession
=============================================================================
