-------------------------- MODULE MCMediadHandoff --------------------------
(* MediadHandoff with two pages, one of which enters full screen often       *)
(* enough for the session of an overlapped entry to be answered in a later   *)
(* one.                                                                      *)
EXTENDS MediadHandoff

CONSTANTS p1, p2
Enters == [p \in Pages |-> IF p = p1 THEN 3 ELSE 1]
=============================================================================
