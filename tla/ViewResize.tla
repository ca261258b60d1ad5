------------------------------ MODULE ViewResize ------------------------------
(***************************************************************************)
(* The sizes of a card.  The page decides on a layout when its window      *)
(* changes, the view backend takes it over if it fits the segment that was *)
(* allocated at launch, and the WebProcess learns of it later; a slot's    *)
(* address is computed from the layout on both sides of the segment.       *)
(*                                                                         *)
(* A layout is a width and a height in pixels.  Output scaled to fit the   *)
(* screen (BPWPE_LAYOUT_WIDTH), other numbers of screens (the files        *)
(* atlas_bufscreens and atlas_simplescreens) and the surface of a full     *)
(* screen (atlas_fsresize) are off by default and left out.                *)
(***************************************************************************)
EXTENDS Integers, Sequences, FiniteSets

CONSTANTS
  Windows,      \* the sizes the card's window has, in any order
  Panel,        \* the size of the screen, from luna.conf
  Small,        \* the surface left while mediad plays (MediadHandoff)
  Heights,      \* what the adapter gives as the height of a card's buffer
  MaxResizes,   \* bound: changes of the window or the surface
  MaxQueue      \* bound: sizes and frames under way

Layout == [w : Nat, h : Nat]

ASSUME SizeAssumption ==
  /\ Windows \subseteq Layout /\ Panel \in Layout /\ Small \in Layout
  /\ \A l \in Windows \cup {Panel, Small} : l.w > 0 /\ l.h > 0
  /\ Heights \subseteq Nat \ {0}
  /\ {MaxResizes, MaxQueue} \subseteq Nat

VARIABLES
  simple,       \* m_simpleMode
  warm,         \* m_prewarmBlank: the view was built before the first URL
  virt,         \* m_virtualWindowHeight
  window,       \* m_windowWidth, and m_screenHeight which follows its height
  render,       \* m_renderWidth, m_renderHeight
  saved,        \* m_mediadSavedW, m_mediadSavedH, or Unsaved
  view,         \* atlas_view: width, height
  cap,          \* atlas_view: alloc_w * alloc_h, 0 before there is a view
  sizes,        \* what dispatch_set_size sent to the WebProcess
  target,       \* atlas_target: width, height
  slot,         \* atlas_target: cur_slot
  frames,       \* FRAME_READYs: the layout, the slot and the slot's offset
  shown,        \* the layout of the last frame onFrame kept, and the
                \* offsets it was written to and read from
  resizes       \* changes so far

vars == <<simple, warm, virt, window, render, saved, view, cap, sizes, target, slot, frames, shown, resizes>>
page == <<simple, warm, virt, window, render, saved, resizes>>
-----------------------------------------------------------------------------
Area(l) == l.w * l.h                      \* slot_bytes, in pixels
Offset(s, l) == s * Area(l)
None == [w |-> 0, h |-> 0]
Unsaved == None
Frame == [layout : Layout, slot : 0 .. 1, at : Nat]
AtLeast(x, y) == IF x < y THEN y ELSE x
AtMost(x, y) == IF x > y THEN y ELSE x

TypeOK ==
  /\ {simple, warm} \subseteq BOOLEAN /\ virt \in Nat /\ window \in Windows
  /\ {render, saved, view, target} \subseteq Layout
  /\ cap \in Nat /\ slot \in 0 .. 1 /\ resizes \in 0 .. MaxResizes
  /\ sizes \in Seq(Layout) /\ frames \in Seq(Frame)
  /\ shown \in [layout : Layout, wrote : Nat, read : Nat]

Init ==
  /\ simple = FALSE /\ warm = FALSE /\ virt \in Heights /\ window \in Windows
  /\ render = None /\ saved = Unsaved /\ view = None /\ cap = 0
  /\ sizes = <<>> /\ target = None /\ slot = 0 /\ frames = <<>>
  /\ shown = [layout |-> None, wrote |-> 0, read |-> 0] /\ resizes = 0
-----------------------------------------------------------------------------
(* ensureWebView and wpe_atlas_view_backend_create: as wide as the window   *)
(* unless that is a placeholder's width; four screens tall or, simple, two, *)
(* but no less than the height known so far.  The view is a new one, with   *)
(* a segment and a channel of its own.                                      *)
LaunchLayout(s) ==
  [w |-> AtLeast(IF window.w >= 600 THEN window.w ELSE Panel.w, window.w),
   h |-> AtLeast(AtMost(Panel.h * (IF s THEN 2 ELSE 4), 4096), virt)]
EnsureWebView(s) ==
  /\ LET l == LaunchLayout(s) IN
       render' = l /\ view' = l /\ cap' = Area(l) /\ target' = l /\ virt' = l.h
  /\ sizes' = <<>> /\ slot' = 0 /\ frames' = <<>>
  /\ UNCHANGED <<window, saved, shown, resizes>>

(* attachToBuffer with BPWPE_PRESPAWN: a blank page, before the first URL   *)
Prespawn == cap = 0 /\ warm' = TRUE /\ EnsureWebView(FALSE) /\ UNCHANGED simple

(* openUrl: a marker on the URL makes the card simple, or private; the warm *)
(* view serves neither and is built again.                                  *)
OpenUrl(marks) ==
  /\ simple' = (simple \/ "simple" \in marks) /\ warm' = FALSE
  /\ IF cap = 0 \/ (warm /\ marks # {})
       THEN EnsureWebView(simple')
       ELSE UNCHANGED <<virt, window, render, saved, view, cap, sizes, target, slot, frames, shown, resizes>>

SetVirtualWindowSize(h) ==
  /\ virt' = h
  /\ UNCHANGED <<simple, warm, window, render, saved, view, cap, sizes, target, slot, frames, shown, resizes>>

(* wpe_atlas_view_backend_resize: ignored if the segment is too small       *)
ResizeUnbounded(l) == view' = l /\ sizes' = Append(sizes, l)
ResizeQuietly(l) ==
  IF Area(l) > cap THEN UNCHANGED <<view, sizes>>
                   ELSE UNCHANGED view /\ sizes' = Append(sizes, l)
Resize(l) ==
  IF Area(l) > cap THEN UNCHANGED <<view, sizes>>
                   ELSE view' = l /\ sizes' = Append(sizes, l)

(* The layout of a card whose window has become w: simple, two of its own   *)
(* heights; otherwise as many pixels as before, or as a landscape card's if *)
(* those are implausibly few, and no less than 2048 rows.                   *)
RotatedAsIs(win) ==
  [w |-> win.w,
   h |-> IF simple THEN AtMost(2 * (IF win.h > 256 THEN win.h ELSE 768), 4096)
                   ELSE Area(render) \div win.w]
Rotated(win) ==
  [w |-> win.w,
   h |-> IF simple THEN AtMost(2 * (IF win.h > 256 THEN win.h ELSE 768), 4096)
         ELSE LET area == IF Area(render) < 2000000 THEN 3145728 ELSE Area(render)
              IN  AtLeast(area \div win.w, 2048)]

Changes == resizes < MaxResizes /\ resizes' = resizes + 1 /\ Len(sizes) < MaxQueue

(* setWindowSize: another width is a rotation, unless it is a placeholder's *)
SetWindowSizeStale(win) ==
  /\ Changes /\ window' = win
  /\ IF cap > 0 /\ win.w # window.w /\ win.w >= 600
       THEN /\ render' = (IF simple THEN render ELSE Rotated(win)) /\ Resize(Rotated(win))
            /\ virt' = IF simple THEN Rotated(win).h ELSE virt
       ELSE UNCHANGED <<virt, render, view, sizes>>
  /\ UNCHANGED <<simple, warm, saved, cap, target, slot, frames, shown>>
SetWindowSize(win) ==
  /\ Changes /\ window' = win
  /\ IF cap > 0 /\ win.w # window.w /\ win.w >= 600
       THEN /\ render' = Rotated(win) /\ Resize(Rotated(win))
            /\ virt' = IF simple THEN Rotated(win).h ELSE virt
       ELSE UNCHANGED <<virt, render, view, sizes>>
  /\ UNCHANGED <<simple, warm, saved, cap, target, slot, frames, shown>>

(* mediadFreeSurface and mediadRestoreSurface; a window may rotate between. *)
FreeSurface ==
  /\ Changes /\ cap > 0 /\ ~warm             \* a blank page has no video
  /\ saved' = IF saved = Unsaved THEN render ELSE saved
  /\ render' = Small /\ virt' = Small.h /\ Resize(Small)
  /\ UNCHANGED <<simple, warm, window, cap, target, slot, frames, shown>>
RestoreSurface ==
  /\ Changes /\ saved # Unsaved
  /\ saved' = Unsaved /\ render' = saved /\ virt' = saved.h /\ Resize(saved)
  /\ UNCHANGED <<simple, warm, window, cap, target, slot, frames, shown>>
-----------------------------------------------------------------------------
(* target_resize, when WebKit has handed on the new size                    *)
TargetResize ==
  /\ sizes # <<>> /\ target' = Head(sizes) /\ sizes' = Tail(sizes)
  /\ UNCHANGED <<page, view, cap, slot, frames, shown>>

(* target_frame_rendered: into the slot's place in its own layout           *)
FrameRendered ==
  /\ cap > 0 /\ Len(frames) < MaxQueue
  /\ frames' = Append(frames, [layout |-> target, slot |-> slot, at |-> Offset(slot, target)])
  /\ slot' = 1 - slot
  /\ UNCHANGED <<page, view, cap, sizes, target, shown>>

(* Another WebProcess: target_read_setup and target_initialize have the     *)
(* view's layout of that time, and no size is still under way to it.        *)
ProcessSwap ==
  /\ cap > 0 /\ target' = view /\ slot' = 0 /\ sizes' = <<>>
  /\ UNCHANGED <<page, view, cap, frames, shown>>

(* atlas_view_on_readable and onFrame: read at the slot's place in the      *)
(* view's layout, dropped if the adapter holds both buffers (PageBuffers)   *)
(* or it has not the size the page expects.                                 *)
OnReadable ==
  /\ frames # <<>> /\ frames' = Tail(frames)
  /\ LET m == Head(frames) IN
       \/ UNCHANGED shown
       \/ /\ m.layout = render
          /\ shown' = [layout |-> render, wrote |-> m.at, read |-> Offset(m.slot, view)]
  /\ UNCHANGED <<page, view, cap, sizes, target, slot>>
-----------------------------------------------------------------------------
Next ==
  \/ Prespawn \/ \E marks \in SUBSET {"private", "simple"} : OpenUrl(marks)
  \/ \E h \in Heights : SetVirtualWindowSize(h)
  \/ \E win \in Windows : SetWindowSize(win)
  \/ FreeSurface \/ RestoreSurface
  \/ TargetResize \/ FrameRendered \/ ProcessSwap \/ OnReadable

Spec == Init /\ [][Next]_vars
-----------------------------------------------------------------------------
(* Neither side ever addresses a slot beyond the segment, whatever order    *)
(* windows, surfaces, sizes under way and new processes come in.            *)
WithinSegment == Area(view) <= cap /\ Area(target) <= cap

(* A frame that is kept was read where it was written, although the two     *)
(* sides change their layouts at different times (slot 1 moves with them).  *)
ReadWhereWritten == shown.read = shown.wrote

(* A tall page never collapses, whatever placeholders, keyboards, rotations *)
(* and surfaces come in which order: but for the surface left to mediad, it *)
(* has a screen's width and the rows setWindowSize's clamp promises ("never *)
(* collapse the scroll buffer"), which the 1024x900 it warns of have not.   *)
IsTall(l) == l.w >= AtMost(Panel.w, 600) /\ l.h >= AtMost(4 * Panel.h, 2048)
NotCollapsed ==
  cap > 0 /\ ~simple => IsTall(render) \/ (saved # Unsaved /\ render = Small)

(* A layout that fits is the view's too, and the last one the WebProcess    *)
(* has or is to be told of, whichever side changes first and whether or not *)
(* the process is another one: no later frame is dropped for its size.      *)
Told == IF sizes = <<>> THEN target ELSE sizes[Len(sizes)]
LayoutsAgree == cap > 0 /\ Area(render) <= cap => view = render /\ Told = render

(* A rotated layout has no more pixels than the one launched with, so it    *)
(* fits (the comment in wpe_atlas_view_backend_resize).                     *)
RotatedFits == cap > 0 => Area(render) <= cap

(* A simple card's warm view is built again "at the simple size" (the       *)
(* comment in openUrl).                                                     *)
SimpleIsSmall == [][warm /\ simple' => virt' <= Panel.h * 2]_vars

(* A rotation keeps a simple card's pan buffer, the "same N-screen buffer   *)
(* ensureWebView chose" (the comment in setWindowSize).                     *)
SimpleKeepsItsBuffer == cap > 0 /\ simple /\ saved = Unsaved => render.h >= 2 * Panel.h
=============================================================================
