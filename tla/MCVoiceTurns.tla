---------------------------- MODULE MCVoiceTurns ----------------------------
(* VoiceTurns for TLC: queues of one or two instead of eight. *)
EXTENDS VoiceTurns
=============================================================================
