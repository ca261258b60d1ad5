----------------------------- MODULE MCAudioSink -----------------------------
(* AudioSink with ten questions for the delay.                               *)
EXTENDS AudioSink
=============================================================================
