---------------------------- MODULE MCPageBuffers ----------------------------
(* PageBuffers with one or two attaches.                                    *)
EXTENDS PageBuffers
=============================================================================
