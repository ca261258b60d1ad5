----------------------------- MODULE MCReadback -----------------------------
(* Readback on frames of two rows of a page of three, or of three of four.  *)
EXTENDS Readback

(* Old pixels that make a hint, and some that make none.                    *)
SomeLeftovers == {[seq |-> 1, y0 |-> 0, h |-> 1, delta |-> -1],
                  [seq |-> 0, y0 |-> 0, h |-> 0, delta |-> 0]}
=============================================================================
