------------------------------ MODULE Readback ------------------------------
(***************************************************************************)
(* target_frame_rendered (wpe-atlas-backend.c): how a rendered frame gets  *)
(* into a frame slot.  A full readback is slow, so there are three ways    *)
(* around it - a strip after a hinted pan, WebKit's damage rectangle, the  *)
(* rectangle of a playing video - which all patch the persistent master    *)
(* copy and publish from it, and the shared control page through which the *)
(* BrowserServer announces pans and videos.                                *)
(*                                                                         *)
(* A frame is H rows of a page of D rows.  What a buffer holds in a row is *)
(* the page row it was read from and whether that is how the page looks    *)
(* now.  Rectangles are as wide as the frame.  1:1 rendering is assumed:   *)
(* with fit-to-screen scaling none of the three paths is taken.            *)
(***************************************************************************)
EXTENDS Integers, Sequences, FiniteSets

CONSTANTS
  H,            \* rows of the frame (height of the pan buffer)
  D,            \* rows of the page
  VFULL,        \* a full readback every so many frames of a video
  DFULL,        \* ... of damage
  StripOn,      \* the paths' gates: /tmp/atlas_no_strip absent,
  DamageOn,     \*   WebKit reports damage and /tmp/atlas_no_damage is absent,
  VideoOn,      \*   /tmp/atlas_no_vrect absent
  Confirm,      \* pans wait for the page's answer (/tmp/atlas_noconfirm absent)
  Videos,       \* the rows a playing video may take up
  Leftovers,    \* what old pixels may read as, taken for a hint
  MaxHints,     \* bound: pan hints in a behaviour
  MaxEvals      \* bound: window.scrollTo evaluations in flight

ASSUME RowsAssumption   == H \in Nat \ {0} /\ D \in Nat /\ D >= H
ASSUME PeriodAssumption == VFULL \in Nat \ {0} /\ DFULL \in Nat \ {0}
ASSUME GateAssumption   == {StripOn, DamageOn, VideoOn, Confirm} \subseteq BOOLEAN
ASSUME VideosAssumption == \A R \in Videos : R \subseteq 0 .. H - 1 /\ R # {}
ASSUME HintAssumption   == MaxHints \in Nat /\ MaxEvals \in Nat
ASSUME LeftoversAssumption ==
  Leftovers \subseteq [seq : 0 .. MaxHints, y0 : 0 .. H - 1, h : 0 .. H - 1,
                       delta : 1 - H .. H - 1]

VARIABLES
  scroll,       \* window.scrollY in the WebProcess
  dirty,        \* rows of the view changed since the last frame
  slots,        \* the two frame slots
  cur,          \* atlas_target.cur_slot
  t,            \* the rest of the atlas_target
  ctrl,         \* atlas_ctrl: the pan hint
  video,        \* atlas_vrect: the rows of the playing video, {} when inactive
  top,          \* m_renderedY
  oldTop,       \* m_pendingOldY
  pan,          \* the BrowserServer between the hint's fields and its seq
  evals,        \* scrollTo evaluations on their way to the WebProcess
  replies,      \* their results on the way back
  path,         \* history: how the last frame was read back
  since         \* history: frames with a rectangle only since the last full
                \*   readback, up to DFULL * VFULL

webkit == <<scroll, dirty>>
server == <<top, oldTop, pan, evals, replies>>
history == <<path, since>>
vars == <<webkit, slots, cur, t, ctrl, video, server, history>>
-----------------------------------------------------------------------------
Rows == 0 .. H - 1
Tops == 0 .. D - H
Slots == {0, 1}                                         \* SLOTS

(* "now": as the page is; "past": as it was; "old": of another layout or   *)
(* another WebProcess's page; "none": whatever malloc or shmget left.      *)
Pixels == [row : 0 .. D - 1, is : {"now", "past", "old", "none"}]
Buffer == [Rows -> Pixels]
Blank  == [r \in Rows |-> [row |-> 0, is |-> "none"]]
Page   == [r \in Rows |-> [row |-> scroll + r, is |-> "now"]]  \* t->tex

Interval(a, n) == {r \in Rows : a <= r /\ r < a + n}
Box(R) == {r \in Rows : \E a, b \in R : a <= r /\ r <= b}

(* from's rows R over to's; memmove by d rows.                             *)
Splice(to, from, R) == [r \in Rows |-> IF r \in R THEN from[r] ELSE to[r]]
Shift(buf, d) == [r \in Rows |-> IF r + d \in Rows THEN buf[r + d] ELSE buf[r]]

(* target_create: calloc; dframe and vframe are counted modulo the period, *)
(* which is all that is ever asked of them.                                *)
NewTarget == [has |-> FALSE, master |-> Blank, lastSeq |-> 0, forceFull |-> FALSE,
              vframe |-> 0, dframe |-> 0, seed |-> 0]

Target == [has : BOOLEAN, master : Buffer, lastSeq : 0 .. MaxHints,
           forceFull : BOOLEAN, vframe : 0 .. VFULL - 1, dframe : 0 .. DFULL - 1,
           seed : 0 .. 1]

(* struct atlas_ctrl; a strip of no rows stands for all that cannot be one *)
(* (HintFits), and the number of the hint counts up to a bound.            *)
Hints == [seq : 0 .. MaxHints, y0 : Rows, h : 0 .. H - 1, delta : 1 - H .. H - 1]

NoJob == [at |-> "loop", goto |-> 0]

TypeOK ==
  /\ scroll \in Tops
  /\ dirty \subseteq Rows
  /\ slots \in [Slots -> Buffer]
  /\ cur \in Slots
  /\ t \in Target
  /\ ctrl \in Hints
  /\ video \in Videos \cup {{}}
  /\ top \in Tops
  /\ oldTop \in Tops
  /\ pan \in [at : {"loop", "bump", "bumpgo"}, goto : Tops]
  /\ evals \in Seq(Tops)
  /\ replies \in Seq(Tops)
  /\ path \in {"none", "strip", "damage", "video", "full"}
  /\ since \in 0 .. DFULL * VFULL

Init ==
  /\ scroll = 0
  /\ dirty = Rows
  /\ slots = [s \in Slots |-> Blank]
  /\ cur = 0
  /\ t = NewTarget
  /\ ctrl = [seq |-> 0, y0 |-> 0, h |-> 0, delta |-> 0]
  /\ video = {}
  /\ top = 0
  /\ oldTop = 0
  /\ pan = NoJob
  /\ evals = <<>>
  /\ replies = <<>>
  /\ path = "none"
  /\ since = 0
-----------------------------------------------------------------------------
(* The blocks of target_frame_rendered, in order.  Each takes the target   *)
(* as the block before left it.                                            *)

(* Strip block: a master is allocated whatever follows (ok: malloc         *)
(* succeeds), and a new hint is consumed even when it is not used.         *)
Hinted == StripOn /\ ~t.forceFull /\ ctrl.seq # t.lastSeq

StripBlock(ok) ==
  IF StripOn /\ ~t.forceFull
  THEN [t EXCEPT !.has = @ \/ ok, !.lastSeq = ctrl.seq]
  ELSE t

HintFits == /\ ctrl.h > 0
            /\ ctrl.y0 + ctrl.h <= H
            /\ ctrl.delta # 0

(* Damage block: consumes WebKit's rectangle (w, h <= 0 when nothing       *)
(* changed); the frame is read in full when the counter says so or all of  *)
(* it changed.                                                             *)
Damage == Box(dirty)
DamageSeen(x) == DamageOn /\ Damage # {} /\ x.has /\ ~x.forceFull
DamageBlockStuck(x) ==          \* variant: the counter stops at the first rectangle
  IF DamageSeen(x) THEN [x EXCEPT !.dframe = 1 % DFULL] ELSE x
DamageBlock(x) == IF DamageSeen(x) THEN [x EXCEPT !.dframe = (@ + 1) % DFULL] ELSE x
DamageFits(x) == DamageSeen(x) /\ x.dframe # 0 /\ Damage # Rows

(* Variant: a new master is used without a full readback.                  *)
MasterBlockUnseeded(x, ok) ==
  CASE VideoOn /\ video # {} /\ ~x.has -> [x EXCEPT !.has = ok, !.vframe = 1 % VFULL]
    [] VideoOn /\ video = {} -> [x EXCEPT !.has = FALSE, !.master = Blank]
    [] OTHER -> x

(* Video block: the master exists while a video plays, a new one forces a  *)
(* full readback; then the frame counter, unless the rectangle is being    *)
(* rewritten (torn).                                                       *)
MasterBlock(x, ok) ==
  CASE VideoOn /\ video # {} /\ ~x.has -> [x EXCEPT !.has = ok, !.forceFull = TRUE]
    [] VideoOn /\ video = {} -> [x EXCEPT !.has = FALSE, !.master = Blank]
    [] OTHER -> x

VideoSeen(x) == VideoOn /\ x.has /\ ~x.forceFull
VideoBlockNoRefresh(x, torn) ==  \* variant: full for the first frame only
  IF VideoSeen(x) THEN [x EXCEPT !.vframe = IF torn THEN 0 ELSE 1 % VFULL] ELSE x
VideoBlock(x, torn) ==
  IF VideoSeen(x) THEN [x EXCEPT !.vframe = IF torn THEN 0 ELSE (@ + 1) % VFULL] ELSE x
VideoFits(x, torn) == VideoSeen(x) /\ ~torn /\ x.vframe # 0
-----------------------------------------------------------------------------
(* The four ways to fill the slot, and FRAME_READY: x is the target by     *)
(* then, m the master, R the rows copied from it.                          *)
Publish(x, how) ==
  /\ t' = x
  /\ cur' = 1 - cur
  /\ dirty' = {}
  /\ path' = how
  /\ since' = IF how = "full" THEN 0
              ELSE IF how # "strip" /\ since < DFULL * VFULL THEN since + 1 ELSE since
  /\ UNCHANGED <<scroll, ctrl, video, server>>

(* Variants: the slots left to seed are counted past zero; the slot gets   *)
(* the master as it was.                                                   *)
PublishRectNoFloor(x, m, R, how) ==
  /\ slots' = [slots EXCEPT ![cur] = IF x.seed > 0 THEN m ELSE Splice(@, m, R)]
  /\ Publish([x EXCEPT !.master = m, !.seed = @ - 1], how)

PublishRectEarly(x, m, R, how) ==
  /\ slots' = [slots EXCEPT ![cur] =
                  IF x.seed > 0 THEN x.master ELSE Splice(@, x.master, R)]
  /\ Publish([x EXCEPT !.master = m, !.seed = IF @ > 0 THEN @ - 1 ELSE @], how)

(* A rectangle goes to the slot alone once every slot has been seeded.     *)
PublishRect(x, m, R, how) ==
  /\ slots' = [slots EXCEPT ![cur] = IF x.seed > 0 THEN m ELSE Splice(@, m, R)]
  /\ Publish([x EXCEPT !.master = m, !.seed = IF @ > 0 THEN @ - 1 ELSE @], how)

(* Variant: a strip is taken for a full readback.                          *)
FrameStripSeeds(x) ==
  LET strip == Interval(ctrl.y0, ctrl.h)
      m == Splice(Shift(x.master, ctrl.delta), Page, strip)
  IN  /\ slots' = [slots EXCEPT ![cur] = m]
      /\ Publish([x EXCEPT !.master = m, !.seed = 1, !.vframe = 1 % VFULL], "strip")

FrameStrip(x) ==
  LET strip == Interval(ctrl.y0, ctrl.h)
      m == Splice(Shift(x.master, ctrl.delta), Page, strip)
  IN  /\ slots' = [slots EXCEPT ![cur] = m]
      /\ Publish([x EXCEPT !.master = m, !.seed = 1], "strip")

FrameDamage(x) == PublishRect(x, Splice(x.master, Page, Damage), Damage, "damage")

FrameVideo(x) == PublishRect(x, Splice(x.master, Page, video), video, "video")

(* Variant: the other slot is not seeded again.                            *)
FrameFullNoReseed(x, locked) ==
  /\ slots' = [slots EXCEPT ![cur] = Page]
  /\ Publish([x EXCEPT !.master    = IF x.has THEN Page ELSE @,
                       !.forceFull = @ /\ ~x.has], "full")

(* The lock_surface readback re-arms seed whether or not there is a        *)
(* master, glReadPixels only with one.                                     *)
FrameFull(x, locked) ==
  /\ slots' = [slots EXCEPT ![cur] = Page]
  /\ Publish([x EXCEPT !.master    = IF x.has THEN Page ELSE @,
                       !.forceFull = @ /\ ~x.has,
                       !.seed      = IF x.has \/ locked THEN 1 ELSE @], "full")

FrameRendered ==
  \E ok, got, torn, locked \in BOOLEAN :
    LET x == StripBlock(ok)
        y == DamageBlock(x)
        z == MasterBlock(y, ok)
        v == VideoBlock(z, torn)
        strip  == Hinted /\ x.has /\ HintFits
        damage == ~strip /\ DamageFits(x) /\ got
        rect   == ~strip /\ ~damage /\ VideoFits(z, torn) /\ got
    IN  \/ strip  /\ FrameStrip(x)
        \/ damage /\ FrameDamage(y)
        \/ rect   /\ FrameVideo(v)
        \/ ~strip /\ ~damage /\ ~rect /\ FrameFull(v, locked)
-----------------------------------------------------------------------------
(* WebKit in the WebProcess.                                               *)

Age(buf, R) == [r \in Rows |-> IF buf[r].is = "now" /\ buf[r].row \in R
                                 THEN [buf[r] EXCEPT !.is = "past"] ELSE buf[r]]
Outdate(buf) == [r \in Rows |-> IF buf[r].is = "none" THEN buf[r]
                                 ELSE [buf[r] EXCEPT !.is = "old"]]

(* A row of the page changes.                                              *)
PageChanges(d) ==
  /\ dirty' = dirty \cup {r \in Rows : scroll + r = d}
  /\ slots' = [s \in Slots |-> Age(slots[s], {d})]
  /\ t' = [t EXCEPT !.master = Age(@, {d})]
  /\ UNCHANGED <<scroll, cur, ctrl, video, server, history>>

(* window.scrollTo, and its value on its way back.                         *)
ScrollTo ==
  /\ evals # <<>>
  /\ scroll' = Head(evals)
  /\ dirty' = IF scroll' = scroll THEN dirty ELSE Rows
  /\ evals' = Tail(evals)
  /\ replies' = IF Confirm THEN Append(replies, scroll') ELSE replies
  /\ UNCHANGED <<slots, cur, t, ctrl, video, top, oldTop, pan, history>>

(* The control page lies behind the slots of the current layout: after a   *)
(* change of layout it is found somewhere else, where there may be pixels. *)
ControlMoves ==
  /\ ctrl' \in Leftovers \cup {ctrl}
  /\ pan.at # "loop" => ctrl'.seq < MaxHints             \* bound
  /\ video' \in Videos \cup {{}}

(* Variant: the frame counters and force_full are left alone.              *)
ResizeNoReseed ==
  /\ t' = [t EXCEPT !.master = Outdate(@)]
  /\ slots' = [s \in Slots |-> Outdate(slots[s])]
  /\ dirty' = Rows
  /\ ControlMoves
  /\ UNCHANGED <<scroll, cur, server, history>>

(* target_resize: the layout changes, and with it every row.               *)
Resize ==
  /\ t' = [t EXCEPT !.master = Outdate(@), !.forceFull = TRUE, !.vframe = 0]
  /\ slots' = [s \in Slots |-> Outdate(slots[s])]
  /\ dirty' = Rows
  /\ ControlMoves
  /\ UNCHANGED <<scroll, cur, server, history>>

(* Another WebProcess draws the view (a cross-site load): a new target on  *)
(* the same segment.  clearToWhite resets the pan, or finds no buffer to   *)
(* blank and leaves it.                                                    *)
SwapProcess ==
  /\ t' = NewTarget
  /\ cur' = 0
  /\ slots' = [s \in Slots |-> Outdate(slots[s])]
  /\ scroll' = 0
  /\ dirty' = Rows
  /\ top' \in {0, top}
  /\ evals' = <<>>
  /\ path' = "none"
  /\ since' = 0
  /\ UNCHANGED <<ctrl, video, oldTop, pan, replies>>
-----------------------------------------------------------------------------
(* The BrowserServer's main loop.                                          *)

(* onVideoRect.                                                            *)
VideoRect(R) ==
  /\ pan.at = "loop"
  /\ video' = R
  /\ UNCHANGED <<webkit, slots, cur, t, ctrl, server, history>>

(* scroll_hint: the fields first, then seq.                                *)
HintFields(delta, then, goto) ==
  IF delta # 0 /\ delta \in 1 - H .. H - 1 /\ ctrl.seq < MaxHints
  THEN /\ ctrl' = [ctrl EXCEPT !.y0 = IF delta > 0 THEN H - delta ELSE 0,
                               !.h = IF delta > 0 THEN delta ELSE -delta,
                               !.delta = delta]
       /\ pan' = [at |-> then, goto |-> goto]
  ELSE UNCHANGED <<ctrl, pan>>

(* recenterForScroll decides to move the buffer to newTop.  With Confirm   *)
(* the evaluation comes first and the hint with its answer ...             *)
RecenterConfirm(newTop) ==
  /\ Confirm
  /\ pan.at = "loop"
  /\ newTop # top
  /\ Len(evals) + Len(replies) < MaxEvals
  /\ oldTop' = top
  /\ top' = newTop
  /\ evals' = Append(evals, newTop)
  /\ UNCHANGED <<webkit, slots, cur, t, ctrl, video, pan, replies, history>>

(* ... (onScrollConfirm) ...                                               *)
ScrollConfirm ==
  /\ pan.at = "loop"
  /\ replies # <<>>
  /\ HintFields(Head(replies) - oldTop, "bump", 0)
  /\ top' = Head(replies)
  /\ replies' = Tail(replies)
  /\ UNCHANGED <<webkit, slots, cur, t, video, oldTop, evals, history>>

(* ... without, the hint comes first; too long a jump has none.            *)
RecenterPlain(newTop) ==
  /\ ~Confirm
  /\ pan.at = "loop"
  /\ newTop # top
  /\ Len(evals) < MaxEvals
  /\ IF newTop - top \in 1 - H .. H - 1
     THEN /\ ctrl.seq < MaxHints
          /\ HintFields(newTop - top, "bumpgo", newTop)
          /\ UNCHANGED <<top, evals>>
     ELSE /\ top' = newTop
          /\ evals' = Append(evals, newTop)
          /\ UNCHANGED <<ctrl, pan>>
  /\ UNCHANGED <<webkit, slots, cur, t, video, oldTop, replies, history>>

HintSeq ==
  /\ pan.at # "loop"
  /\ ctrl' = [ctrl EXCEPT !.seq = @ + 1]
  /\ IF pan.at = "bumpgo" THEN top' = pan.goto /\ evals' = Append(evals, pan.goto)
                          ELSE UNCHANGED <<top, evals>>
  /\ pan' = NoJob
  /\ UNCHANGED <<webkit, slots, cur, t, video, oldTop, replies, history>>
-----------------------------------------------------------------------------
Next ==
  \/ FrameRendered
  \/ \E d \in 0 .. D - 1 : PageChanges(d)
  \/ ScrollTo
  \/ Resize
  \/ SwapProcess
  \/ \E R \in Videos \cup {{}} : VideoRect(R)
  \/ \E n \in Tops : RecenterConfirm(n) \/ RecenterPlain(n)
  \/ ScrollConfirm
  \/ HintSeq

Spec == Init /\ [][Next]_vars
-----------------------------------------------------------------------------
(* The slot of the frame just announced, and the step that announces one.  *)
Sent == slots[1 - cur]
Framed == cur' # cur /\ path' # "none"
Right(buf) == \A r \in Rows : buf[r] = Page[r]

(* No frame shows memory nothing was ever read into, a fresh master's for  *)
(* one.                                                                    *)
NoGarbage == path # "none" => \A r \in Rows : Sent[r].is # "none"

(* A frame announced after target_resize, or by another WebProcess, has    *)
(* nothing of the layout, or of the page, before it (force_full).          *)
NoOldLayout == [][Framed => \A r \in Rows : Sent'[r].is # "old"]_vars

(* Rectangles go to a slot alone only when the whole of it was seeded      *)
(* since the master was (slots_to_seed).                                   *)
SlotsSeeded ==
  t.has /\ ~t.forceFull /\ t.seed = 0
    => \A s \in Slots, r \in Rows : slots[s][r].is \in {"now", "past"}

(* The rows announced on the control page as a playing video are right in  *)
(* every frame.                                                            *)
VideoRowsRight == [][Framed => \A r \in video : Sent'[r] = Page[r]]_vars

(* What the video path leaves behind elsewhere in the frame - a change of  *)
(* the page, a pan without a hint, a strip read for another scroll - is    *)
(* gone before VFULL rectangles followed the last full readback.           *)
DriftBounded == [][Framed => Right(Sent)' \/ since' < VFULL]_vars

(* With damage in play the full readback of the video path is only asked   *)
(* for once in DFULL frames.                                               *)
DriftBoundedDamage == [][Framed => Right(Sent)' \/ since' < DFULL * VFULL]_vars

(* The backend's comment on the handshake: a hint that comes at the wrong  *)
(* time just means a full readback.  Once the page of the new scroll has   *)
(* been read, there is no strip left to take.  Not so: the late hint moves *)
(* a frame that is right already.                                          *)
LateHintReadsInFull ==
  [][Framed /\ (\A r \in Rows : Sent[r].row = scroll + r) => path' # "strip"]_vars
-----------------------------------------------------------------------------
(* Why it holds without the strip block: the inductive strengthening of    *)
(* TypeOK, NoGarbage and SlotsSeeded (ReadbackProofs).                     *)

(* No more hints are begun than the bound allows.                          *)
HintsCounted == pan.at # "loop" => ctrl.seq < MaxHints

(* A master in use was read in full since the layout last changed, and so  *)
(* was the slot sent last - or both slots, once none is left to seed.      *)
Seen(buf) == \A r \in Rows : buf[r].is \in {"now", "past"}
MasterSeeded ==
  t.has /\ ~t.forceFull => Seen(t.master) /\ Seen(Sent)

IInv == TypeOK /\ HintsCounted /\ NoGarbage /\ MasterSeeded /\ SlotsSeeded
=============================================================================
