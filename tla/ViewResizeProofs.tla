-------------------------- MODULE ViewResizeProofs --------------------------
(***************************************************************************)
(* Whatever sizes a card's window takes, and however long they are under   *)
(* way: both sides address slots inside the segment, a frame that is kept  *)
(* is read where it was written, a layout that fits becomes everybody's,   *)
(* and a tall page keeps its buffer.                                       *)
(*                                                                         *)
(* A resize that does not fit is ignored by the view but not by the page,  *)
(* so the two differ from then on.  What saves the reader is that a frame  *)
(* has a layout that fitted once: if it is the page's, the view took the   *)
(* page's layout over.                                                     *)
(***************************************************************************)
EXTENDS ViewResize, SequenceTheorems, TLAPS

Fits(l) == Area(l) <= cap
Placed(m) == Fits(m.layout) /\ m.at = Offset(m.slot, m.layout)

Within == /\ Fits(view) /\ Fits(target)
          /\ \A i \in 1 .. Len(sizes) : Fits(sizes[i])
Agrees == (Fits(render) => view = render) /\ Told = view
Reads == /\ \A i \in 1 .. Len(frames) : Placed(frames[i])
         /\ shown.read = shown.wrote
IInv == TypeOK /\ Within /\ Agrees /\ Reads

(* A layout has a natural number of pixels, and a slot's offset is one too. *)
LEMMA AreaIsNat ==
  ASSUME NEW l \in Layout
  PROVE  Area(l) \in Nat
<1>1. l.w \in Nat /\ l.h \in Nat
  BY DEF Layout
<1>2. \A x, y \in Nat : x * y \in Nat
  OBVIOUS
<1> QED BY <1>1, <1>2 DEF Area

LEMMA OffsetIsNat ==
  ASSUME NEW l \in Layout, NEW s \in 0 .. 1
  PROVE  Offset(s, l) \in Nat
<1>1. Area(l) \in Nat
  BY AreaIsNat
<1>2. s = 0 \/ s = 1
  OBVIOUS
<1> QED BY <1>1, <1>2 DEF Offset

(* What ensureWebView and a rotation compute are layouts.                   *)
LEMMA LaunchIsLayout ==
  ASSUME TypeOK, NEW s \in BOOLEAN
  PROVE  LaunchLayout(s) \in Layout
<1>1. window.w \in Nat /\ Panel.w \in Nat /\ Panel.h \in Nat /\ virt \in Nat
  BY SizeAssumption DEF TypeOK, Layout
<1>2. (IF window.w >= 600 THEN window.w ELSE Panel.w) \in Nat
  BY <1>1
<1>3. Panel.h * (IF s THEN 2 ELSE 4) \in Nat /\ 4096 \in Nat
  BY <1>1
<1>4. AtLeast(IF window.w >= 600 THEN window.w ELSE Panel.w, window.w) \in Nat
  BY ONLY <1>1, <1>2 DEF AtLeast
<1>5. AtMost(Panel.h * (IF s THEN 2 ELSE 4), 4096) \in Nat
  BY ONLY <1>3 DEF AtMost
<1>6. AtLeast(AtMost(Panel.h * (IF s THEN 2 ELSE 4), 4096), virt) \in Nat
  BY ONLY <1>1, <1>5 DEF AtLeast
<1> QED BY <1>4, <1>6 DEF LaunchLayout, Layout

LEMMA RotatedIsLayout ==
  ASSUME TypeOK, NEW win \in Windows
  PROVE  Rotated(win) \in Layout /\ Rotated(win).h \in Nat
<1>1. win.w \in Nat /\ win.h \in Nat /\ win.w > 0
  BY SizeAssumption DEF Layout
<1>2. Area(render) \in Nat
  BY AreaIsNat DEF TypeOK
<1>3. AtMost(2 * (IF win.h > 256 THEN win.h ELSE 768), 4096) \in Nat
  <2>1. 2 * (IF win.h > 256 THEN win.h ELSE 768) \in Nat /\ 4096 \in Nat
    BY <1>1
  <2> QED BY ONLY <2>1 DEF AtMost
<1>4. ASSUME NEW area \in Nat
      PROVE  AtLeast(area \div win.w, 2048) \in Nat
  <2>1. area \div win.w \in Nat /\ 2048 \in Nat
    BY <1>1
  <2> QED BY ONLY <2>1 DEF AtLeast
<1>5. (IF Area(render) < 2000000 THEN 3145728 ELSE Area(render)) \in Nat
  BY <1>2
<1>6. CASE simple
  BY <1>1, <1>3, <1>6 DEF Rotated, Layout
<1>7. CASE ~simple
  BY <1>1, <1>4, <1>5, <1>7 DEF Rotated, Layout
<1> QED BY <1>6, <1>7

(* wpe_atlas_view_backend_resize keeps the view and what is under way       *)
(* inside the segment, and takes the page's layout over if it fits.         *)
LEMMA ResizeFits ==
  ASSUME TypeOK, Within, NEW l \in Layout, Resize(l), cap' = cap
  PROVE  /\ view' \in Layout /\ sizes' \in Seq(Layout)
         /\ Area(view') <= cap
         /\ \A i \in 1 .. Len(sizes') : Area(sizes'[i]) <= cap
         /\ Area(l) <= cap => view' = l
         /\ Told = view /\ target' = target => Told' = view'
<1>1. Area(l) \in Nat /\ cap \in Nat
  BY AreaIsNat DEF TypeOK
<1>2. CASE Area(l) > cap
  BY <1>1, <1>2 DEF Resize, TypeOK, Within, Fits, Told
<1>3. CASE ~(Area(l) > cap)
  <2>1. view' = l /\ sizes' = Append(sizes, l)
    BY <1>3 DEF Resize
  <2>2. sizes \in Seq(Layout)
    BY DEF TypeOK
  <2>3. /\ sizes' \in Seq(Layout) /\ Len(sizes') = Len(sizes) + 1
        /\ \A i \in 1 .. Len(sizes) : sizes'[i] = sizes[i]
        /\ sizes'[Len(sizes) + 1] = l
    BY <2>1, <2>2, AppendProperties
  <2>4. \A i \in 1 .. Len(sizes') : Area(sizes'[i]) <= cap
    <3> TAKE i \in 1 .. Len(sizes')
    <3>1. CASE i \in 1 .. Len(sizes)
      BY <2>3, <3>1 DEF Within, Fits
    <3>2. CASE i = Len(sizes) + 1
      BY <1>1, <1>3, <2>3, <3>2
    <3> QED BY <2>2, <2>3, <3>1, <3>2, LenProperties
  <2>5. Told' = view'
    <3>1. sizes' # <<>> /\ sizes'[Len(sizes')] = l
      BY <2>2, <2>3, LenProperties, EmptySeq
    <3> QED BY <2>1, <3>1 DEF Told
  <2> QED BY <1>1, <1>3, <2>1, <2>3, <2>4, <2>5
<1> QED BY <1>2, <1>3
-----------------------------------------------------------------------------
LEMMA Initially == Init => IInv
<1> SUFFICES ASSUME Init
             PROVE  IInv
  OBVIOUS
<1>1. None \in Layout /\ Area(None) = 0
  BY DEF None, Layout, Area
<1>2. /\ sizes = <<>> /\ frames = <<>> /\ cap = 0 /\ slot = 0 /\ resizes = 0
      /\ render = None /\ saved = None /\ view = None /\ target = None
      /\ shown = [layout |-> None, wrote |-> 0, read |-> 0]
  BY DEF Init, Unsaved
<1>3. sizes \in Seq(Layout) /\ frames \in Seq(Frame) /\ Len(sizes) = 0 /\ Len(frames) = 0
  BY <1>2, EmptySeq
<1>4. {simple, warm} \subseteq BOOLEAN /\ virt \in Nat /\ window \in Windows
  BY SizeAssumption DEF Init
<1>5. TypeOK
  BY <1>1, <1>2, <1>3, <1>4, SizeAssumption DEF TypeOK
<1>6. Within /\ Agrees /\ Reads
  BY <1>1, <1>2, <1>3 DEF Within, Agrees, Reads, Fits, Told
<1> QED BY <1>5, <1>6 DEF IInv

(* A step that changes the page's layout, and the view's by a resize.       *)
LEMMA Resized ==
  ASSUME IInv, NEW l \in Layout, render' = l, Resize(l),
         UNCHANGED <<cap, target, slot, frames, shown>>,
         {simple, warm}' \subseteq BOOLEAN, virt' \in Nat, window' \in Windows, saved' \in Layout,
         resizes' \in 0 .. MaxResizes
  PROVE  IInv'
<1>1. TypeOK /\ Within /\ Reads /\ cap' = cap
  BY DEF IInv
<1>2. /\ view' \in Layout /\ sizes' \in Seq(Layout)
      /\ Area(view') <= cap
      /\ \A i \in 1 .. Len(sizes') : Area(sizes'[i]) <= cap
      /\ Area(l) <= cap => view' = l
      /\ Told' = view'
  BY <1>1, ResizeFits DEF IInv, Agrees
<1>3. TypeOK'
  BY <1>1, <1>2 DEF TypeOK
<1>4. Within' /\ Agrees'
  BY <1>1, <1>2 DEF Within, Agrees, Fits
<1>5. Reads'
  BY <1>1 DEF Reads, Placed, Fits
<1> QED BY <1>3, <1>4, <1>5 DEF IInv

(* A view built by ensureWebView: everything is the new one's.              *)
LEMMA Built ==
  ASSUME IInv, NEW s \in BOOLEAN, EnsureWebView(s), {simple, warm}' \subseteq BOOLEAN
  PROVE  IInv'
<1> DEFINE l == LaunchLayout(s)
<1>1. l \in Layout /\ l.h \in Nat /\ Area(l) \in Nat
  BY LaunchIsLayout, AreaIsNat DEF IInv, Layout
<1>2. /\ render' = l /\ view' = l /\ cap' = Area(l) /\ target' = l /\ virt' = l.h
      /\ sizes' = <<>> /\ slot' = 0 /\ frames' = <<>>
      /\ UNCHANGED <<window, saved, shown, resizes>>
  BY DEF EnsureWebView
<1> HIDE DEF l
<1>3. sizes' \in Seq(Layout) /\ frames' \in Seq(Frame) /\ Len(sizes') = 0 /\ Len(frames') = 0
  BY <1>2, EmptySeq
<1>4. TypeOK'
  BY <1>1, <1>2, <1>3 DEF IInv, TypeOK
<1>5. Within' /\ Agrees' /\ Reads'
  BY <1>1, <1>2, <1>3 DEF IInv, Within, Agrees, Reads, Placed, Fits, Told
<1> QED BY <1>4, <1>5 DEF IInv

LEMMA Inductive == IInv /\ [Next]_vars => IInv'
<1> SUFFICES ASSUME IInv, [Next]_vars
             PROVE  IInv'
  OBVIOUS
<1>1. CASE Prespawn
  BY <1>1, Built DEF Prespawn, IInv, TypeOK
<1>2. ASSUME NEW marks \in SUBSET {"private", "simple"}, OpenUrl(marks)
       PROVE  IInv'
  <2>1. simple' \in BOOLEAN /\ warm' = FALSE
    BY <1>2 DEF OpenUrl, IInv, TypeOK
  <2>2. CASE cap = 0 \/ (warm /\ marks # {})
    BY <1>2, <2>1, <2>2, Built DEF OpenUrl
  <2>3. CASE ~(cap = 0 \/ (warm /\ marks # {}))
    <3>1. UNCHANGED <<virt, window, render, saved, view, cap, sizes, target, slot, frames, shown, resizes>>
      BY <1>2, <2>3 DEF OpenUrl
    <3>2. TypeOK'
      BY <2>1, <3>1 DEF IInv, TypeOK
    <3>3. Within' /\ Agrees' /\ Reads'
      BY <3>1 DEF IInv, Within, Agrees, Reads, Placed, Fits, Told
    <3> QED BY <3>2, <3>3 DEF IInv
  <2> QED BY <2>2, <2>3
<1>3. ASSUME NEW h \in Heights, SetVirtualWindowSize(h)
       PROVE  IInv'
  BY <1>3, SizeAssumption
     DEF SetVirtualWindowSize, IInv, TypeOK, Within, Agrees, Reads, Placed, Fits, Told
<1>4. ASSUME NEW win \in Windows, SetWindowSize(win)
      PROVE  IInv'
  <2>1. /\ window' = win /\ resizes' = resizes + 1 /\ resizes < MaxResizes
        /\ UNCHANGED <<simple, warm, saved, cap, target, slot, frames, shown>>
    BY <1>4 DEF SetWindowSize, Changes
  <2>2. resizes' \in 0 .. MaxResizes
    BY <2>1, SizeAssumption DEF IInv, TypeOK
  <2>3. CASE cap > 0 /\ win.w # window.w /\ win.w >= 600
    <3>1. /\ render' = Rotated(win) /\ Resize(Rotated(win))
          /\ virt' = IF simple THEN Rotated(win).h ELSE virt
      BY <1>4, <2>3 DEF SetWindowSize
    <3>2. Rotated(win) \in Layout /\ Rotated(win).h \in Nat
      BY RotatedIsLayout DEF IInv
    <3>3. {simple, warm}' \subseteq BOOLEAN /\ saved' \in Layout /\ virt' \in Nat
      BY <2>1, <3>1, <3>2 DEF IInv, TypeOK
    <3> QED BY <2>1, <2>2, <3>1, <3>2, <3>3, Resized
  <2>4. CASE ~(cap > 0 /\ win.w # window.w /\ win.w >= 600)
    <3>1. UNCHANGED <<virt, render, view, sizes>>
      BY <1>4, <2>4 DEF SetWindowSize
    <3> QED BY <2>1, <2>2, <3>1
            DEF IInv, TypeOK, Within, Agrees, Reads, Placed, Fits, Told
  <2> QED BY <2>3, <2>4
<1>5. CASE FreeSurface
  <2>1. /\ resizes' \in 0 .. MaxResizes /\ Small \in Layout
        /\ {simple, warm}' \subseteq BOOLEAN /\ window' \in Windows /\ saved' \in Layout
    BY <1>5, SizeAssumption DEF FreeSurface, Changes, IInv, TypeOK
  <2>3. virt' \in Nat
    BY <1>5, SizeAssumption DEF FreeSurface, Layout
  <2>2. /\ render' = Small /\ Resize(Small)
        /\ UNCHANGED <<cap, target, slot, frames, shown>>
    BY <1>5 DEF FreeSurface
  <2> QED BY <2>1, <2>2, <2>3, Resized
<1>6. CASE RestoreSurface
  <2>1. /\ resizes' \in 0 .. MaxResizes /\ saved \in Layout
        /\ {simple, warm}' \subseteq BOOLEAN /\ window' \in Windows
    BY <1>6, SizeAssumption DEF RestoreSurface, Changes, IInv, TypeOK
  <2>2. saved' = None /\ None \in Layout
    BY <1>6 DEF RestoreSurface, Unsaved, None, Layout
  <2>4. virt' \in Nat
    BY <1>6, <2>1 DEF RestoreSurface, Layout
  <2>3. /\ render' = saved /\ Resize(saved)
        /\ UNCHANGED <<cap, target, slot, frames, shown>>
    BY <1>6 DEF RestoreSurface
  <2> QED BY <2>1, <2>2, <2>3, <2>4, Resized
<1>7. CASE TargetResize
  <2>1. /\ sizes # <<>> /\ target' = Head(sizes) /\ sizes' = Tail(sizes)
        /\ UNCHANGED <<page, view, cap, slot, frames, shown>>
    BY <1>7 DEF TargetResize
  <2>2. sizes \in Seq(Layout)
    BY DEF IInv, TypeOK
  <2>3. /\ Head(sizes) = sizes[1] /\ Head(sizes) \in Layout /\ Tail(sizes) \in Seq(Layout)
        /\ Len(Tail(sizes)) = Len(sizes) - 1 /\ Len(sizes) \in Nat /\ Len(sizes) > 0
        /\ \A i \in 1 .. Len(Tail(sizes)) : Tail(sizes)[i] = sizes[i + 1]
    BY <2>1, <2>2, HeadTailProperties, LenProperties, EmptySeq
  <2>4. TypeOK'
    BY <2>1, <2>3 DEF IInv, TypeOK, page
  <2>5. Within'
    BY <2>1, <2>3 DEF IInv, Within, Fits
  <2>6. Told' = Told
    <3>1. CASE Tail(sizes) = <<>>
      BY <2>1, <2>3, <3>1, EmptySeq DEF Told
    <3>2. CASE Tail(sizes) # <<>>
      <4>1. Len(Tail(sizes)) \in 1 .. Len(Tail(sizes)) /\ Len(Tail(sizes)) + 1 = Len(sizes)
        BY <2>3, <3>2, LenProperties, EmptySeq
      <4>2. Tail(sizes)[Len(Tail(sizes))] = sizes[Len(sizes)]
        BY <2>3, <4>1
      <4> QED BY <2>1, <3>2, <4>2 DEF Told
    <3> QED BY <3>1, <3>2
  <2>7. Agrees' /\ Reads'
    BY <2>1, <2>6 DEF IInv, Agrees, Reads, Placed, Fits, page
  <2> QED BY <2>4, <2>5, <2>7 DEF IInv
<1>8. CASE FrameRendered
  <2> DEFINE m == [layout |-> target, slot |-> slot, at |-> Offset(slot, target)]
  <2>1. /\ frames' = Append(frames, m) /\ slot' = 1 - slot
        /\ UNCHANGED <<page, view, cap, sizes, target, shown>>
    BY <1>8 DEF FrameRendered
  <2>2. target \in Layout /\ slot \in 0 .. 1 /\ frames \in Seq(Frame)
    BY DEF IInv, TypeOK
  <2>3. m \in Frame
    BY <2>2, OffsetIsNat DEF Frame
  <2>4. Placed(m)
    BY DEF IInv, Within, Placed
  <2>5. m.layout = target /\ m.at = Offset(m.slot, target)
    OBVIOUS
  <2> HIDE DEF m
  <2>6. /\ frames' \in Seq(Frame) /\ Len(frames') = Len(frames) + 1
        /\ \A i \in 1 .. Len(frames) : frames'[i] = frames[i]
        /\ frames'[Len(frames) + 1] = m /\ Len(frames) \in Nat
    BY <2>1, <2>2, <2>3, AppendProperties, LenProperties
  <2>7. TypeOK'
    BY <2>1, <2>2, <2>6 DEF IInv, TypeOK, page
  <2>8. Within' /\ Agrees'
    BY <2>1 DEF IInv, Within, Agrees, Fits, Told, page
  <2>9. Reads'
    <3>1. \A i \in 1 .. Len(frames') : i \in 1 .. Len(frames) \/ i = Len(frames) + 1
      BY <2>6
    <3> QED BY <2>1, <2>4, <2>6, <3>1 DEF IInv, Reads, Placed, Fits
  <2> QED BY <2>7, <2>8, <2>9 DEF IInv
<1>9. CASE ProcessSwap
  <2>1. /\ target' = view /\ slot' = 0 /\ sizes' = <<>>
        /\ UNCHANGED <<page, view, cap, frames, shown>>
    BY <1>9 DEF ProcessSwap
  <2>2. sizes' \in Seq(Layout) /\ Len(sizes') = 0
    BY <2>1, EmptySeq
  <2>3. TypeOK'
    BY <2>1, <2>2 DEF IInv, TypeOK, page
  <2>4. Within' /\ Agrees' /\ Reads'
    BY <2>1, <2>2 DEF IInv, Within, Agrees, Reads, Placed, Fits, Told, page
  <2> QED BY <2>3, <2>4 DEF IInv
<1>10. CASE OnReadable
  <2> DEFINE m == Head(frames)
  <2>1. /\ frames # <<>> /\ frames' = Tail(frames)
        /\ \/ shown' = shown
           \/ /\ m.layout = render
              /\ shown' = [layout |-> render, wrote |-> m.at, read |-> Offset(m.slot, view)]
        /\ UNCHANGED <<page, view, cap, sizes, target, slot>>
    BY <1>10 DEF OnReadable
  <2>2. frames \in Seq(Frame) /\ render \in Layout /\ view \in Layout
    BY DEF IInv, TypeOK
  <2>3. /\ m = frames[1] /\ m \in Frame /\ Tail(frames) \in Seq(Frame)
        /\ Len(Tail(frames)) = Len(frames) - 1 /\ Len(frames) \in Nat /\ Len(frames) > 0
        /\ \A i \in 1 .. Len(Tail(frames)) : Tail(frames)[i] = frames[i + 1]
    BY <2>1, <2>2, HeadTailProperties, LenProperties, EmptySeq
  <2>4. Placed(m)
    BY <2>3 DEF IInv, Reads
  <2> HIDE DEF m
  \* The frame's layout fits; if it is the page's, it is the view's.
  <2>5. m.layout = render => m.at = Offset(m.slot, view)
    BY <2>4 DEF IInv, Agrees, Placed
  <2>6. m.slot \in 0 .. 1 /\ m.at \in Nat /\ Offset(m.slot, view) \in Nat
    BY <2>2, <2>3, OffsetIsNat DEF Frame
  <2>7. shown' \in [layout : Layout, wrote : Nat, read : Nat] /\ shown'.read = shown'.wrote
    BY <2>1, <2>2, <2>5, <2>6 DEF IInv, TypeOK, Reads
  <2>8. TypeOK'
    BY <2>1, <2>3, <2>7 DEF IInv, TypeOK, page
  <2>9. Within' /\ Agrees'
    BY <2>1 DEF IInv, Within, Agrees, Fits, Told, page
  <2>10. Reads'
    BY <2>1, <2>3, <2>7 DEF IInv, Reads, Placed, Fits
  <2> QED BY <2>8, <2>9, <2>10 DEF IInv
<1>11. CASE UNCHANGED vars
  BY <1>11 DEF vars, IInv, TypeOK, Within, Agrees, Reads, Placed, Fits, Told
<1> QED
  BY <1>1, <1>2, <1>3, <1>4, <1>5, <1>6, <1>7, <1>8, <1>9, <1>10, <1>11 DEF Next

(* Every reachable state is well typed, in particular every layout that a   *)
(* rotation computes.                                                       *)
THEOREM TypeCorrect == Spec => []TypeOK
<1>1. IInv => TypeOK
  BY DEF IInv
<1> QED BY <1>1, Initially, Inductive, PTL DEF Spec

(* Neither side addresses a slot beyond the segment.                        *)
THEOREM AddressesWithin == Spec => []WithinSegment
<1>1. IInv => WithinSegment
  BY DEF IInv, Within, Fits, WithinSegment
<1> QED BY <1>1, Initially, Inductive, PTL DEF Spec

(* A frame that is kept was read at the offset it was written to.           *)
THEOREM ReaderFindsFrame == Spec => []ReadWhereWritten
<1>1. IInv => ReadWhereWritten
  BY DEF IInv, Reads, ReadWhereWritten
<1> QED BY <1>1, Initially, Inductive, PTL DEF Spec

(* A layout that fits is the page's, the view's, and the last the           *)
(* WebProcess has or is to be told of.                                      *)
THEOREM EveryoneAgrees == Spec => []LayoutsAgree
<1>1. IInv => LayoutsAgree
  BY DEF IInv, Agrees, Fits, LayoutsAgree
<1> QED BY <1>1, Initially, Inductive, PTL DEF Spec
-----------------------------------------------------------------------------
(* While the surface is left to mediad it is the saved layout that has to   *)
(* be tall: it comes back whatever became of the window.  A view that is    *)
(* warm, and so may be built again, has none saved.                         *)
KeepsTall(l, s) == IF s = Unsaved THEN IsTall(l) ELSE IsTall(s) /\ (IsTall(l) \/ l = Small)
Upright == /\ cap > 0 /\ ~simple => KeepsTall(render, saved)
           /\ cap = 0 \/ warm => saved = Unsaved

LEMMA TallEnough ==
  ASSUME NEW l, NEW width, NEW rows, l.w = width, l.h = rows,
         width >= AtMost(Panel.w, 600), rows >= AtMost(4 * Panel.h, 2048)
  PROVE  IsTall(l)
BY DEF IsTall

LEMMA LaunchIsTall ==
  ASSUME TypeOK
  PROVE  IsTall(LaunchLayout(FALSE))
<1>1. window.w \in Nat /\ Panel.w \in Nat /\ Panel.h \in Nat /\ virt \in Nat
  BY SizeAssumption DEF TypeOK, Layout
<1> DEFINE given == IF window.w >= 600 THEN window.w ELSE Panel.w
           width == AtLeast(given, window.w)
           budget == AtMost(Panel.h * 4, 4096)
           rows == AtLeast(budget, virt)
           l == LaunchLayout(FALSE)
<1>2. l.w = width /\ l.h = rows
  BY DEF LaunchLayout
<1>3. width >= AtMost(Panel.w, 600)
  <2>1. given \in Nat /\ given >= AtMost(Panel.w, 600)
    BY <1>1 DEF AtMost
  <2> HIDE DEF given
  <2> QED BY <1>1, <2>1 DEF AtLeast, AtMost
<1>4. rows >= AtMost(4 * Panel.h, 2048)
  <2>1. budget \in Nat /\ budget >= AtMost(4 * Panel.h, 2048)
    BY <1>1 DEF AtMost
  <2> HIDE DEF budget
  <2> QED BY <1>1, <2>1 DEF AtLeast, AtMost
<1> HIDE DEF width, rows, l
<1>5. IsTall(l)
  BY <1>2, <1>3, <1>4, TallEnough
<1> QED BY <1>5 DEF l

LEMMA RotatedIsTall ==
  ASSUME TypeOK, ~simple, NEW win \in Windows, win.w >= 600
  PROVE  IsTall(Rotated(win))
<1>1. win.w \in Nat /\ win.w > 0 /\ Panel.w \in Nat /\ Panel.h \in Nat
  BY SizeAssumption DEF Layout
<1> DEFINE area == IF Area(render) < 2000000 THEN 3145728 ELSE Area(render)
           rows == AtLeast(area \div win.w, 2048)
<1>2. area \in Nat
  <2>1. Area(render) \in Nat
    BY AreaIsNat DEF TypeOK
  <2> QED BY <2>1, SMT
<1>3. Rotated(win).w = win.w /\ Rotated(win).h = rows
  BY SMT DEF Rotated
<1> HIDE DEF area
<1>4. rows >= AtMost(4 * Panel.h, 2048)
  <2>1. area \div win.w \in Nat
    BY <1>1, <1>2
  <2> QED BY <1>1, <2>1 DEF AtLeast, AtMost
<1>5. win.w >= AtMost(Panel.w, 600)
  BY <1>1 DEF AtMost
<1> HIDE DEF rows
<1> QED BY <1>3, <1>4, <1>5, TallEnough

LEMMA StaysUpright == IInv /\ Upright /\ [Next]_vars => Upright'
<1> SUFFICES ASSUME IInv, Upright, [Next]_vars
             PROVE  Upright'
  OBVIOUS
<1> USE DEF Upright, KeepsTall
<1>1. ASSUME EnsureWebView(simple'), simple' \in BOOLEAN, saved = Unsaved
      PROVE  Upright'
  <2>1. render' = LaunchLayout(simple') /\ saved' = Unsaved' /\ Unsaved' = Unsaved
    BY <1>1 DEF EnsureWebView, Unsaved, None
  <2>2. ~simple' => IsTall(LaunchLayout(simple'))
    BY <1>1, LaunchIsTall DEF IInv
  <2>3. ~simple' => IsTall(render')
    BY <2>1, <2>2
  <2> QED BY <2>1, <2>3 DEF IsTall
<1>2. CASE Prespawn
  <2>1. /\ EnsureWebView(FALSE) /\ simple' = simple /\ cap = 0 /\ saved = Unsaved
    BY <1>2 DEF Prespawn
  <2>2. /\ render' = LaunchLayout(FALSE) /\ saved' = Unsaved' /\ Unsaved' = Unsaved
    BY <2>1 DEF EnsureWebView, Unsaved, None
  <2>3. IsTall(LaunchLayout(FALSE))
    BY LaunchIsTall DEF IInv
  <2>4. IsTall(render')
    BY <2>2, <2>3
  <2>5. IsTall(render)' <=> IsTall(render')
    BY DEF IsTall
  <2> QED BY <2>2, <2>4, <2>5
<1>3. ASSUME NEW marks \in SUBSET {"private", "simple"}, OpenUrl(marks)
      PROVE  Upright'
  <2>1. simple' \in BOOLEAN /\ (~simple' => ~simple) /\ warm' = FALSE
    BY <1>3 DEF OpenUrl, IInv, TypeOK
  <2>2. CASE cap = 0 \/ (warm /\ marks # {})
    BY <1>1, <1>3, <2>1, <2>2 DEF OpenUrl
  <2>3. CASE ~(cap = 0 \/ (warm /\ marks # {}))
    <3>1. UNCHANGED <<cap, render, saved>> /\ cap # 0
      BY <1>3, <2>3 DEF OpenUrl
    <3> QED BY <2>1, <3>1 DEF IsTall, Unsaved, None
  <2> QED BY <2>2, <2>3
<1>4. ASSUME NEW win \in Windows, SetWindowSize(win)
      PROVE  Upright'
  <2>1. /\ UNCHANGED <<simple, warm, cap, saved>>
        /\ \/ win.w >= 600 /\ render' = Rotated(win)
           \/ UNCHANGED render
    BY <1>4 DEF SetWindowSize
  <2>2. win.w >= 600 /\ ~simple => IsTall(Rotated(win))
    BY RotatedIsTall DEF IInv
  <2> QED BY <2>1, <2>2 DEF IsTall, Unsaved, None
<1>5. CASE FreeSurface
  <2>1. /\ cap > 0 /\ ~warm /\ UNCHANGED <<simple, warm, cap>> /\ render' = Small
        /\ saved' = IF saved = Unsaved THEN render ELSE saved
    BY <1>5 DEF FreeSurface
  <2>2. ~IsTall(None)
    <3>1. Panel.w \in Nat /\ Panel.h \in Nat /\ Panel.w > 0
      BY SizeAssumption DEF Layout
    <3>2. ~(0 >= AtMost(Panel.w, 600))
      BY <3>1 DEF AtMost
    <3>3. None.w = 0
      BY DEF None
    <3> QED BY ONLY <3>2, <3>3 DEF IsTall
  <2>3. ~(cap = 0)
    BY <2>1 DEF IInv, TypeOK
  <2> QED BY <2>1, <2>2, <2>3 DEF IsTall, Unsaved, None
<1>6. CASE RestoreSurface
  <2>1. saved # Unsaved /\ saved' = Unsaved /\ render' = saved /\ UNCHANGED <<simple, warm, cap>>
    BY <1>6 DEF RestoreSurface
  <2> QED BY <2>1 DEF IsTall, Unsaved, None
<1>7. CASE \/ \E h \in Heights : SetVirtualWindowSize(h)
           \/ TargetResize \/ FrameRendered \/ ProcessSwap \/ OnReadable \/ UNCHANGED vars
  <2>1. UNCHANGED <<simple, warm, cap, render, saved>>
    BY <1>7 DEF SetVirtualWindowSize, TargetResize, FrameRendered, ProcessSwap, OnReadable, page, vars
  <2> QED BY <2>1 DEF IsTall, Unsaved, None
<1> QED BY <1>2, <1>3, <1>4, <1>5, <1>6, <1>7 DEF Next

(* Neither a placeholder's size, nor the keyboard, nor a rotation while     *)
(* mediad has the surface collapses a tall page: it has the rows of         *)
(* setWindowSize's clamp, whatever the window's sizes.                      *)
THEOREM NeverCollapsed == Spec => []NotCollapsed
<1>1. Init => Upright
  BY DEF Init, Upright
<1>2. Upright => NotCollapsed
  BY DEF Upright, KeepsTall, NotCollapsed
<1> QED BY <1>1, <1>2, Initially, Inductive, StaysUpright, PTL DEF Spec
=============================================================================
