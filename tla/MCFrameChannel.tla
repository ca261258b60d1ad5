--------------------------- MODULE MCFrameChannel ---------------------------
(* FrameChannel on small instances: one WebProcess that laps the main loop, *)
(* and two of one view (a cross-site swap) that share descriptors and slots. *)
EXTENDS FrameChannel, TLC

Sym == Permutations(Procs) \cup Permutations(Fds)
=============================================================================
