------------------------------ MODULE MCPagePan ------------------------------
(* PagePan on a screen of three rows and a buffer of thirteen.              *)
EXTENDS PagePan
=============================================================================
