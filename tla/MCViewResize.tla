---------------------------- MODULE MCViewResize ----------------------------
(* ViewResize on a TouchPad: landscape, landscape above the keyboard,        *)
(* portrait, and two sizes of an adapter's placeholder.                      *)
EXTENDS ViewResize
Size(width, height) == [w |-> width, h |-> height]
MCPanel == Size(1024, 768)
MCSmall == Size(256, 256)
MCWindows == {Size(1024, 686), Size(1024, 400), Size(768, 942), Size(300, 150),
              Size(960, 1400)}
=============================================================================
