-------------------------- MODULE MCVoiceRecorder --------------------------
(* The button is held twice; two voice messages, which are alike, and a photo. *)
EXTENDS VoiceRecorder
=============================================================================
