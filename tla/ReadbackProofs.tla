--------------------------- MODULE ReadbackProofs ---------------------------
(***************************************************************************)
(* Proofs about Readback, for frames of any height, any periods, any       *)
(* videos and any number of hints: the state is well typed; with the strip *)
(* block off (/tmp/atlas_no_strip) no frame shows unseeded memory,         *)
(* rectangles go to seeded slots only and nothing of an old layout is      *)
(* announced; with the damage block off too, a video is right in every     *)
(* frame; and whatever is on, wrong rows go within the periods.            *)
(***************************************************************************)
EXTENDS Readback, SequenceTheorems, TLAPS

(* The operators on buffers keep their type.                               *)
LEMMA SpliceType ==
  ASSUME NEW to \in Buffer, NEW from \in Buffer, NEW R
  PROVE  Splice(to, from, R) \in Buffer
  BY DEF Splice, Buffer

LEMMA ShiftType ==
  ASSUME NEW buf \in Buffer, NEW d
  PROVE  Shift(buf, d) \in Buffer
  BY DEF Shift, Buffer

LEMMA PageType ==
  ASSUME scroll \in Tops
  PROVE  Page \in Buffer
<1>1. \A r \in Rows : scroll + r \in 0 .. D - 1
  BY RowsAssumption DEF Tops, Rows
<1> QED
  BY <1>1 DEF Page, Buffer, Pixels

LEMMA BlankType == Blank \in Buffer
  BY RowsAssumption DEF Blank, Buffer, Pixels, Rows

LEMMA AgeType ==
  ASSUME NEW buf \in Buffer, NEW R
  PROVE  Age(buf, R) \in Buffer
  BY DEF Age, Buffer, Pixels

LEMMA OutdateType ==
  ASSUME NEW buf \in Buffer
  PROVE  Outdate(buf) \in Buffer
  BY DEF Outdate, Buffer, Pixels

(* A counter modulo its period stays below it.                             *)
LEMMA Wraps ==
  ASSUME NEW n \in Nat \ {0}, NEW k \in 0 .. n - 1
  PROVE  (k + 1) % n \in 0 .. n - 1
  OBVIOUS

LEMMA NewTargetType == NewTarget \in Target
  BY BlankType, PeriodAssumption, HintAssumption DEF NewTarget, Target

(* So do the blocks.                                                       *)
LEMMA StripBlockType ==
  ASSUME TypeOK, NEW ok \in BOOLEAN
  PROVE  StripBlock(ok) \in Target
<1>1. t \in Target /\ ctrl.seq \in 0 .. MaxHints
  BY DEF TypeOK, Hints
<1> QED
  BY <1>1 DEF StripBlock, Target

LEMMA DamageBlockType ==
  ASSUME NEW x \in Target
  PROVE  DamageBlock(x) \in Target
<1>1. x.dframe \in 0 .. DFULL - 1
  BY DEF Target
<1>2. (x.dframe + 1) % DFULL \in 0 .. DFULL - 1
  BY <1>1, Wraps, PeriodAssumption
<1> QED
  BY <1>2 DEF DamageBlock, Target

LEMMA MasterBlockType ==
  ASSUME NEW x \in Target, NEW ok \in BOOLEAN
  PROVE  MasterBlock(x, ok) \in Target
  BY BlankType DEF MasterBlock, Target

LEMMA VideoBlockType ==
  ASSUME NEW x \in Target, NEW torn \in BOOLEAN
  PROVE  VideoBlock(x, torn) \in Target
<1>1. x.vframe \in 0 .. VFULL - 1
  BY DEF Target
<1>2. (x.vframe + 1) % VFULL \in 0 .. VFULL - 1 /\ 0 \in 0 .. VFULL - 1
  BY <1>1, Wraps, PeriodAssumption
<1> QED
  BY <1>2 DEF VideoBlock, Target

(* What announcing a frame does to everything but the slots.               *)
LEMMA PublishType ==
  ASSUME TypeOK, NEW x \in Target, NEW how \in {"strip", "damage", "video", "full"},
         Publish(x, how)
  PROVE  /\ t' \in Target /\ cur' \in Slots /\ dirty' \subseteq Rows
         /\ path' = how /\ since' \in 0 .. DFULL * VFULL
         /\ UNCHANGED <<scroll, ctrl, video, server>>
<1>1. DFULL * VFULL \in Nat
  BY PeriodAssumption
<1>2. since' \in 0 .. DFULL * VFULL
  <2> DEFINE B == DFULL * VFULL
  <2>1. B \in Nat /\ since \in 0 .. B
    BY <1>1 DEF TypeOK
  <2>2. since' = 0 \/ since' = since \/ (since < B /\ since' = since + 1)
    BY DEF Publish
  <2> HIDE DEF B
  <2>3. since' \in 0 .. B
    BY <2>1, <2>2
  <2> QED
    BY <2>3 DEF B
<1>3. cur' \in Slots
  BY DEF TypeOK, Publish, Slots
<1> QED
  BY <1>2, <1>3 DEF Publish

(* A target with another master, or seed, is a target.                     *)
LEMMA WithSeed ==
  ASSUME NEW x \in Target, NEW s \in 0 .. 1
  PROVE  [x EXCEPT !.seed = s] \in Target
  BY DEF Target

LEMMA WithMaster ==
  ASSUME NEW x \in Target, NEW m \in Buffer
  PROVE  [x EXCEPT !.master = m] \in Target
  BY DEF Target

LEMMA WithForce ==
  ASSUME NEW x \in Target, NEW f \in BOOLEAN
  PROVE  [x EXCEPT !.forceFull = f] \in Target
  BY DEF Target

LEMMA PublishRectType ==
  ASSUME TypeOK, NEW x \in Target, NEW m \in Buffer, NEW R, NEW how \in {"damage", "video"},
         PublishRect(x, m, R, how)
  PROVE  TypeOK'
<1> DEFINE y == [x EXCEPT !.master = m, !.seed = IF @ > 0 THEN @ - 1 ELSE @]
<1>1. y \in Target
  <2>1. (IF x.seed > 0 THEN x.seed - 1 ELSE x.seed) \in 0 .. 1
    BY DEF Target
  <2> QED
    BY <2>1, WithMaster, WithForce, WithSeed
<1>2. Publish(y, how)
  BY DEF PublishRect
<1>3. slots' \in [Slots -> Buffer]
  BY SpliceType DEF TypeOK, PublishRect
<1> HIDE DEF y
<1> QED
  BY <1>1, <1>2, <1>3, PublishType DEF TypeOK, server

LEMMA FrameStripType ==
  ASSUME TypeOK, NEW x \in Target, FrameStrip(x)
  PROVE  TypeOK'
<1> DEFINE m == Splice(Shift(x.master, ctrl.delta), Page, Interval(ctrl.y0, ctrl.h))
           y == [x EXCEPT !.master = m, !.seed = 1]
<1>1. x.master \in Buffer /\ Page \in Buffer
  BY PageType DEF Target, TypeOK
<1>2. m \in Buffer
  BY <1>1, ShiftType, SpliceType
<1>3. Publish(y, "strip") /\ slots' = [slots EXCEPT ![cur] = m]
  BY DEF FrameStrip
<1> HIDE DEF m
<1>4. y \in Target
  <2>1. [x EXCEPT !.master = m] \in Target /\ 1 \in 0 .. 1
    BY <1>2, WithMaster
  <2>2. [[x EXCEPT !.master = m] EXCEPT !.seed = 1] \in Target
    BY <2>1, WithSeed
  <2> QED
    BY <2>2
<1>5. slots' \in [Slots -> Buffer]
  BY <1>2, <1>3 DEF TypeOK
<1> HIDE DEF y
<1> QED
  BY <1>3, <1>4, <1>5, PublishType DEF TypeOK, server

LEMMA FrameFullType ==
  ASSUME TypeOK, NEW x \in Target, NEW locked \in BOOLEAN, FrameFull(x, locked)
  PROVE  TypeOK'
<1> DEFINE y == [x EXCEPT !.master    = IF x.has THEN Page ELSE @,
                          !.forceFull = @ /\ ~x.has,
                          !.seed      = IF x.has \/ locked THEN 1 ELSE @]
<1>1. Page \in Buffer
  BY PageType DEF TypeOK
<1>2. y \in Target
  <2>1. /\ (IF x.has THEN Page ELSE x.master) \in Buffer
        /\ (x.forceFull /\ ~x.has) \in BOOLEAN
        /\ (IF x.has \/ locked THEN 1 ELSE x.seed) \in 0 .. 1
    BY <1>1 DEF Target
  <2> QED
    BY <2>1, WithMaster, WithForce, WithSeed
<1>3. Publish(y, "full")
  BY DEF FrameFull
<1>4. slots' \in [Slots -> Buffer]
  BY <1>1 DEF FrameFull, TypeOK
<1> HIDE DEF y
<1> QED
  BY <1>2, <1>3, <1>4, PublishType DEF TypeOK, server

(* Which blocks a frame has been through when it is published.             *)
LEMMA FrameWays ==
  ASSUME TypeOK, FrameRendered
  PROVE  \E ok, torn, locked \in BOOLEAN :
           LET x == StripBlock(ok)
               y == DamageBlock(x)
               z == MasterBlock(y, ok)
               v == VideoBlock(z, torn)
           IN  /\ x \in Target /\ y \in Target /\ z \in Target /\ v \in Target
               /\ \/ Hinted /\ FrameStrip(x)
                  \/ DamageFits(x) /\ FrameDamage(y)
                  \/ VideoFits(z, torn) /\ FrameVideo(v)
                  \/ FrameFull(v, locked)
<1>1. PICK ok \in BOOLEAN, got \in BOOLEAN, torn \in BOOLEAN, locked \in BOOLEAN :
        LET x == StripBlock(ok)
            y == DamageBlock(x)
            z == MasterBlock(y, ok)
            v == VideoBlock(z, torn)
        IN  \/ Hinted /\ FrameStrip(x)
            \/ DamageFits(x) /\ FrameDamage(y)
            \/ VideoFits(z, torn) /\ FrameVideo(v)
            \/ FrameFull(v, locked)
  BY ZenonT(30) DEF FrameRendered
<1> DEFINE x == StripBlock(ok)
           y == DamageBlock(x)
           z == MasterBlock(y, ok)
           v == VideoBlock(z, torn)
<1>2. x \in Target /\ y \in Target /\ z \in Target /\ v \in Target
  BY StripBlockType, DamageBlockType, MasterBlockType, VideoBlockType
<1>3. \/ Hinted /\ FrameStrip(x)
      \/ DamageFits(x) /\ FrameDamage(y)
      \/ VideoFits(z, torn) /\ FrameVideo(v)
      \/ FrameFull(v, locked)
  BY <1>1 DEF Hinted
<1> QED
  BY <1>2, <1>3

LEMMA FrameType ==
  ASSUME TypeOK, FrameRendered
  PROVE  TypeOK'
<1>1. PICK ok \in BOOLEAN, torn \in BOOLEAN, locked \in BOOLEAN :
        LET x == StripBlock(ok)
            y == DamageBlock(x)
            z == MasterBlock(y, ok)
            v == VideoBlock(z, torn)
        IN  /\ x \in Target /\ y \in Target /\ z \in Target /\ v \in Target
            /\ \/ Hinted /\ FrameStrip(x)
               \/ DamageFits(x) /\ FrameDamage(y)
               \/ VideoFits(z, torn) /\ FrameVideo(v)
               \/ FrameFull(v, locked)
  BY FrameWays, Zenon
<1> DEFINE x == StripBlock(ok)
           y == DamageBlock(x)
           z == MasterBlock(y, ok)
           v == VideoBlock(z, torn)
<1>2. x \in Target /\ y \in Target /\ z \in Target /\ v \in Target
  BY <1>1
<1>3. Page \in Buffer
  BY PageType DEF TypeOK
<1> HIDE DEF x, y, z, v
<1>4. CASE FrameStrip(x)
  BY <1>2, <1>4, FrameStripType
<1>5. CASE FrameDamage(y)
  <2>1. Splice(y.master, Page, Damage) \in Buffer
    BY <1>2, <1>3, SpliceType DEF Target
  <2> QED
    BY <1>2, <1>5, <2>1, PublishRectType DEF FrameDamage
<1>6. CASE FrameVideo(v)
  <2>1. Splice(v.master, Page, video) \in Buffer
    BY <1>2, <1>3, SpliceType DEF Target
  <2> QED
    BY <1>2, <1>6, <2>1, PublishRectType DEF FrameVideo
<1>7. CASE FrameFull(v, locked)
  BY <1>2, <1>7, FrameFullType
<1> QED
  BY <1>1, <1>4, <1>5, <1>6, <1>7 DEF x, y, z, v

(* The fields of a hint are rows of the frame.                             *)
LEMMA HintType ==
  ASSUME TypeOK, HintsCounted, pan.at = "loop",
         NEW delta \in Int, NEW then \in {"bump", "bumpgo"}, NEW goto \in Tops,
         HintFields(delta, then, goto)
  PROVE  /\ ctrl' \in Hints
         /\ pan' \in [at : {"loop", "bump", "bumpgo"}, goto : Tops]
         /\ HintsCounted'
<1> USE DEF Hints
<1>1. CASE UNCHANGED <<ctrl, pan>>
  BY <1>1 DEF TypeOK, HintsCounted
<1>2. CASE /\ delta # 0 /\ delta \in 1 - H .. H - 1 /\ ctrl.seq < MaxHints
           /\ ctrl' = [ctrl EXCEPT !.y0 = IF delta > 0 THEN H - delta ELSE 0,
                                   !.h = IF delta > 0 THEN delta ELSE -delta,
                                   !.delta = delta]
           /\ pan' = [at |-> then, goto |-> goto]
  <2>1. /\ (IF delta > 0 THEN H - delta ELSE 0) \in Rows
        /\ (IF delta > 0 THEN delta ELSE -delta) \in 0 .. H - 1
    BY <1>2, RowsAssumption DEF Rows
  <2>2. ctrl' = [seq |-> ctrl.seq,
                 y0 |-> IF delta > 0 THEN H - delta ELSE 0,
                 h |-> IF delta > 0 THEN delta ELSE -delta, delta |-> delta]
    BY <1>2 DEF TypeOK
  <2>3. ctrl.seq \in 0 .. MaxHints
    BY DEF TypeOK
  <2> QED
    BY <1>2, <2>1, <2>2, <2>3 DEF HintsCounted
<1> QED
  BY <1>1, <1>2 DEF HintFields

(* Type correctness of a step.                                             *)
LEMMA TypeStep ==
  ASSUME TypeOK, HintsCounted, [Next]_vars
  PROVE  TypeOK' /\ HintsCounted'
<1> USE RowsAssumption, HintAssumption
<1>1. CASE FrameRendered
  <2>1. UNCHANGED <<pan, ctrl>>
    BY <1>1 DEF FrameRendered, FrameStrip, FrameDamage, FrameVideo, FrameFull,
                PublishRect, Publish, server
  <2> QED
    BY <1>1, <2>1, FrameType DEF HintsCounted
<1>2. ASSUME NEW d \in 0 .. D - 1, PageChanges(d) PROVE TypeOK' /\ HintsCounted'
  <2>1. t' \in Target
    <3>1. t.master \in Buffer
      BY DEF TypeOK, Target
    <3>2. Age(t.master, {d}) \in Buffer
      BY <3>1, AgeType
    <3> QED
      BY <1>2, <3>2, WithMaster DEF PageChanges, TypeOK
  <2>2. slots' \in [Slots -> Buffer]
    BY <1>2, AgeType DEF PageChanges, TypeOK
  <2>3. dirty' \subseteq Rows
    BY <1>2 DEF PageChanges, TypeOK
  <2> QED
    BY <1>2, <2>1, <2>2, <2>3 DEF PageChanges, TypeOK, HintsCounted, server, history
<1>3. CASE ScrollTo
  <2>1. evals \in Seq(Tops) /\ evals # <<>> /\ replies \in Seq(Tops)
    BY <1>3 DEF ScrollTo, TypeOK
  <2>2. Head(evals) \in Tops /\ Tail(evals) \in Seq(Tops)
    BY <2>1, HeadTailProperties
  <2>3. replies' \in Seq(Tops)
    BY <1>3, <2>1, <2>2 DEF ScrollTo
  <2> QED
    BY <1>3, <2>2, <2>3 DEF ScrollTo, TypeOK, HintsCounted, history
<1>4. CASE Resize
  <2>1. t' \in Target
    <3>1. t \in Target /\ t.master \in Buffer /\ 0 \in 0 .. VFULL - 1
      BY PeriodAssumption DEF TypeOK, Target
    <3>2. [[t EXCEPT !.master = Outdate(t.master)] EXCEPT !.forceFull = TRUE] \in Target
      BY <3>1, OutdateType, WithMaster, WithForce
    <3>3. \A x \in Target : [x EXCEPT !.vframe = 0] \in Target
      BY <3>1 DEF Target
    <3> QED
      BY <1>4, <3>2, <3>3 DEF Resize
  <2>2. slots' \in [Slots -> Buffer]
    BY <1>4, OutdateType DEF Resize, TypeOK
  <2>3. ctrl' \in Hints /\ video' \in Videos \cup {{}}
    BY <1>4, LeftoversAssumption DEF Resize, ControlMoves, TypeOK, Hints, Rows
  <2>4. HintsCounted'
    BY <1>4 DEF Resize, ControlMoves, HintsCounted, server
  <2> QED
    BY <1>4, <2>1, <2>2, <2>3, <2>4 DEF Resize, TypeOK, server, history
<1>5. CASE SwapProcess
  <2>1. slots' \in [Slots -> Buffer]
    BY <1>5, OutdateType DEF SwapProcess, TypeOK
  <2>2. 0 \in 0 .. DFULL * VFULL
    <3>1. DFULL * VFULL \in Nat
      BY PeriodAssumption
    <3> QED
      BY <3>1
  <2>3. 0 \in Tops /\ 0 \in Slots
    BY DEF Tops, Slots
  <2> QED
    BY <1>5, <2>1, <2>2, <2>3, NewTargetType DEF SwapProcess, TypeOK, HintsCounted
<1>6. ASSUME NEW R \in Videos \cup {{}}, VideoRect(R) PROVE TypeOK' /\ HintsCounted'
  BY <1>6 DEF VideoRect, TypeOK, HintsCounted, webkit, server, history
<1>7. ASSUME NEW n \in Tops, RecenterConfirm(n) PROVE TypeOK' /\ HintsCounted'
  BY <1>7 DEF RecenterConfirm, TypeOK, HintsCounted, webkit, history
<1>8. ASSUME NEW n \in Tops, RecenterPlain(n) PROVE TypeOK' /\ HintsCounted'
  <2>1. n - top \in Int
    BY DEF TypeOK, Tops
  <2>2. CASE HintFields(n - top, "bumpgo", n) /\ UNCHANGED <<top, evals>>
    BY <1>8, <2>1, <2>2, HintType DEF RecenterPlain, TypeOK, webkit, history
  <2>3. CASE top' = n /\ evals' = Append(evals, n) /\ UNCHANGED <<ctrl, pan>>
    BY <1>8, <2>3 DEF RecenterPlain, TypeOK, HintsCounted, webkit, history
  <2> QED
    BY <1>8, <2>2, <2>3 DEF RecenterPlain
<1>9. CASE ScrollConfirm
  <2>1. replies \in Seq(Tops) /\ replies # <<>>
    BY <1>9 DEF ScrollConfirm, TypeOK
  <2>2. Head(replies) \in Tops /\ Tail(replies) \in Seq(Tops)
    BY <2>1, HeadTailProperties
  <2>3. Head(replies) - oldTop \in Int /\ 0 \in Tops
    BY <2>2 DEF TypeOK, Tops
  <2> QED
    BY <1>9, <2>2, <2>3, HintType DEF ScrollConfirm, TypeOK, webkit, history
<1>10. CASE HintSeq
  <2>1. ctrl' \in Hints
    <3>1. ctrl.seq \in 0 .. MaxHints /\ ctrl.seq < MaxHints
      BY <1>10 DEF HintSeq, TypeOK, HintsCounted, Hints
    <3>2. ctrl.seq + 1 \in 0 .. MaxHints
      BY <3>1
    <3>3. ctrl' = [ctrl EXCEPT !.seq = ctrl.seq + 1]
      BY <1>10 DEF HintSeq
    <3> QED
      BY <3>2, <3>3 DEF TypeOK, Hints
  <2>2. pan' \in [at : {"loop", "bump", "bumpgo"}, goto : Tops] /\ pan'.at = "loop"
    BY <1>10 DEF HintSeq, NoJob, Tops
  <2>3. pan.goto \in Tops /\ evals \in Seq(Tops) /\ top \in Tops
    BY DEF TypeOK
  <2>4. top' \in Tops /\ evals' \in Seq(Tops)
    BY <1>10, <2>3 DEF HintSeq
  <2>5. UNCHANGED <<webkit, slots, cur, t, video, oldTop, replies, history>>
    BY <1>10 DEF HintSeq
  <2> QED
    BY <2>1, <2>2, <2>4, <2>5 DEF TypeOK, HintsCounted, webkit, history
<1>11. CASE UNCHANGED vars
  BY <1>11 DEF vars, TypeOK, HintsCounted, webkit, server, history
<1> QED
  BY <1>1, <1>2, <1>3, <1>4, <1>5, <1>6, <1>7, <1>8, <1>9, <1>10, <1>11 DEF Next

LEMMA InitType == Init => TypeOK /\ HintsCounted
<1>1. /\ 0 \in Tops /\ 0 \in Slots /\ 0 \in Rows /\ 0 \in 0 .. MaxHints
      /\ 0 \in 0 .. H - 1 /\ 0 \in 1 - H .. H - 1
  BY RowsAssumption, HintAssumption DEF Tops, Slots, Rows
<1>2. 0 \in 0 .. DFULL * VFULL
  <2>1. DFULL * VFULL \in Nat
    BY PeriodAssumption
  <2> QED
    BY <2>1
<1> QED
  BY <1>1, <1>2, NewTargetType, BlankType DEF Init, TypeOK, HintsCounted, NoJob, Hints

(* The state of the target, of the control page and of the two sides of a  *)
(* pan is well typed, with every path on or off.                           *)
THEOREM TypeCorrect == Spec => []TypeOK
<1>1. Init => TypeOK /\ HintsCounted
  BY InitType
<1>2. TypeOK /\ HintsCounted /\ [Next]_vars => TypeOK' /\ HintsCounted'
  BY TypeStep
<1> QED
  BY <1>1, <1>2, PTL DEF Spec
-----------------------------------------------------------------------------
(* What was read from the page now has been seen, and stays so in a patch. *)
LEMMA SeenPage == Seen(Page)
  BY DEF Seen, Page

LEMMA SeenSplice ==
  ASSUME NEW to, NEW from, NEW R, Seen(to), Seen(from)
  PROVE  Seen(Splice(to, from, R))
  BY DEF Seen, Splice

LEMMA SeenAge ==
  ASSUME NEW buf \in Buffer, NEW R, Seen(buf)
  PROVE  Seen(Age(buf, R))
  BY DEF Seen, Age, Buffer, Pixels

(* The slot just filled is the one announced.                              *)
LEMMA SentSlot ==
  ASSUME TypeOK, NEW x, NEW how, Publish(x, how)
  PROVE  Sent' = slots'[cur] /\ t' = x
  BY DEF TypeOK, Slots, Publish, Sent

(* What a rectangle path leaves: it only runs on a seeded master.          *)
LEMMA RectSeen ==
  ASSUME TypeOK, MasterSeeded, SlotsSeeded, t.has, ~t.forceFull,
         NEW x \in Target, x.seed = t.seed, NEW m \in Buffer, Seen(m), NEW R,
         NEW how \in {"damage", "video"}, PublishRect(x, m, R, how)
  PROVE  Seen(Sent') /\ MasterSeeded' /\ SlotsSeeded'
<1> DEFINE y == [x EXCEPT !.master = m, !.seed = IF @ > 0 THEN @ - 1 ELSE @]
<1>1. Publish(y, how)
  BY DEF PublishRect
<1>2. Sent' = slots'[cur] /\ t' = y
  BY <1>1, SentSlot
<1>3. cur \in Slots /\ slots \in [Slots -> Buffer] /\ t.seed \in 0 .. 1
  BY DEF TypeOK, Target
<1>4. slots'[cur] = IF x.seed > 0 THEN m ELSE Splice(slots[cur], m, R)
  BY <1>3 DEF PublishRect
<1>5. Seen(slots'[cur])
  <2>1. CASE t.seed = 0
    <3>1. Seen(slots[cur])
      BY <1>3, <2>1 DEF SlotsSeeded, Seen
    <3> QED
      BY <1>4, <2>1, <3>1, SeenSplice
  <2>2. CASE t.seed = 1
    BY <1>4, <2>2
  <2> QED
    BY <1>3, <2>1, <2>2
<1>6. t'.master = m
  BY <1>2 DEF Target
<1>7. Seen(t'.master) /\ Seen(Sent')
  BY <1>2, <1>5, <1>6
<1>8. MasterSeeded'
  BY <1>7 DEF MasterSeeded, Seen
<1>9. Seen(slots[1 - cur])
  BY DEF MasterSeeded, Sent
<1>10. slots'[1 - cur] = slots[1 - cur]
  BY <1>3 DEF PublishRect, Slots
<1>11. \A s \in Slots : s = cur \/ s = 1 - cur
  BY <1>3 DEF Slots
<1>12. \A s \in Slots : Seen(slots'[s])
  BY <1>5, <1>9, <1>10, <1>11
<1>13. SlotsSeeded'
  BY <1>12 DEF SlotsSeeded, Seen
<1> QED
  BY <1>7, <1>8, <1>13

(* A full readback seeds the master and the slot sent, and asks for the    *)
(* other.                                                                  *)
LEMMA FullSeen ==
  ASSUME TypeOK, NEW x \in Target, NEW locked \in BOOLEAN, FrameFull(x, locked)
  PROVE  Seen(Sent') /\ MasterSeeded' /\ SlotsSeeded'
<1> DEFINE y == [x EXCEPT !.master    = IF x.has THEN Page ELSE @,
                          !.forceFull = @ /\ ~x.has,
                          !.seed      = IF x.has \/ locked THEN 1 ELSE @]
<1>1. Publish(y, "full")
  BY DEF FrameFull
<1>2. Sent' = slots'[cur] /\ t' = y
  BY <1>1, SentSlot
<1>3. slots'[cur] = Page
  BY DEF FrameFull, TypeOK
<1>4. Seen(Sent')
  BY <1>2, <1>3, SeenPage
<1>5. /\ t'.has = x.has
      /\ x.has => t'.master = Page /\ t'.seed = 1
  BY <1>2 DEF Target
<1>6. t'.has => Seen(t'.master) /\ t'.seed = 1
  BY <1>5, SeenPage
<1> QED
  BY <1>4, <1>6 DEF MasterSeeded, SlotsSeeded, Seen

(* A video rectangle is only used on a master the video block left alone.  *)
LEMMA VideoMaster ==
  ASSUME NEW y \in Target, NEW ok \in BOOLEAN, NEW torn \in BOOLEAN,
         VideoFits(MasterBlock(y, ok), torn)
  PROVE  LET v == VideoBlock(MasterBlock(y, ok), torn)
         IN  y.has /\ ~y.forceFull /\ v.master = y.master /\ v.seed = y.seed
<1> DEFINE z == MasterBlock(y, ok)
<1>1. z.has /\ ~z.forceFull /\ VideoOn
  BY DEF VideoFits, VideoSeen
<1>2. CASE VideoOn /\ video # {} /\ ~y.has
  <2>1. z = [y EXCEPT !.has = ok, !.forceFull = TRUE]
    BY <1>2 DEF MasterBlock
  <2>2. z.forceFull
    BY <2>1 DEF Target
  <2> QED
    BY <1>1, <2>2
<1>3. CASE VideoOn /\ video = {}
  <2>1. z = [y EXCEPT !.has = FALSE, !.master = Blank]
    BY <1>3 DEF MasterBlock
  <2>2. ~z.has
    BY <2>1 DEF Target
  <2> QED
    BY <1>1, <2>2
<1>4. CASE video # {} /\ y.has
  <2>1. z = y
    BY <1>4 DEF MasterBlock
  <2>2. /\ VideoBlock(y, torn).master = y.master
        /\ VideoBlock(y, torn).seed = y.seed
    BY DEF VideoBlock, Target
  <2> QED
    BY <1>1, <2>1, <2>2
<1> QED
  BY <1>1, <1>2, <1>3, <1>4

(* With the strip block off, a frame shows only what was read since the    *)
(* layout last changed, and leaves the master and the slots that way.      *)
LEMMA FrameSeen ==
  ASSUME ~StripOn, TypeOK, MasterSeeded, SlotsSeeded, FrameRendered
  PROVE  Seen(Sent') /\ MasterSeeded' /\ SlotsSeeded'
<1>1. PICK ok \in BOOLEAN, torn \in BOOLEAN, locked \in BOOLEAN :
        LET x == StripBlock(ok)
            y == DamageBlock(x)
            z == MasterBlock(y, ok)
            v == VideoBlock(z, torn)
        IN  /\ x \in Target /\ y \in Target /\ z \in Target /\ v \in Target
            /\ \/ Hinted /\ FrameStrip(x)
               \/ DamageFits(x) /\ FrameDamage(y)
               \/ VideoFits(z, torn) /\ FrameVideo(v)
               \/ FrameFull(v, locked)
  BY FrameWays, Zenon
<1> DEFINE y == DamageBlock(t)
           z == MasterBlock(y, ok)
           v == VideoBlock(z, torn)
<1>2. StripBlock(ok) = t
  BY DEF StripBlock
<1>3. /\ t \in Target /\ y \in Target /\ z \in Target /\ v \in Target
      /\ \/ DamageFits(t) /\ FrameDamage(y)
         \/ VideoFits(z, torn) /\ FrameVideo(v)
         \/ FrameFull(v, locked)
  BY <1>1, <1>2 DEF Hinted
<1>4. y.has = t.has /\ y.forceFull = t.forceFull /\ y.master = t.master /\ y.seed = t.seed
  BY <1>3 DEF DamageBlock, Target
<1>5. t.has /\ ~t.forceFull => Seen(t.master)
  BY DEF MasterSeeded
<1>6. t.master \in Buffer /\ Page \in Buffer
  BY <1>3, PageType DEF Target, TypeOK
<1> HIDE DEF y
<1>7. CASE DamageFits(t) /\ FrameDamage(y)
  <2>1. t.has /\ ~t.forceFull
    BY <1>7 DEF DamageFits, DamageSeen
  <2>2. /\ Splice(y.master, Page, Damage) \in Buffer
        /\ Seen(Splice(y.master, Page, Damage))
    BY <1>4, <1>5, <1>6, <2>1, SpliceType, SeenSplice, SeenPage
  <2> QED
    BY <1>3, <1>4, <1>7, <2>1, <2>2, RectSeen DEF FrameDamage
<1>8. CASE VideoFits(z, torn) /\ FrameVideo(v)
  <2>1. y.has /\ ~y.forceFull /\ v.master = y.master /\ v.seed = y.seed
    BY <1>3, <1>8, VideoMaster
  <2> HIDE DEF v
  <2>2. /\ Splice(v.master, Page, video) \in Buffer
        /\ Seen(Splice(v.master, Page, video))
    BY <1>4, <1>5, <1>6, <2>1, SpliceType, SeenSplice, SeenPage
  <2> QED
    BY <1>3, <1>4, <1>8, <2>1, <2>2, RectSeen DEF FrameVideo
<1>9. CASE FrameFull(v, locked)
  <2> HIDE DEF v
  <2> QED
    BY <1>3, <1>9, FullSeen
<1> QED
  BY <1>3, <1>7, <1>8, <1>9

(* Every other step leaves buffers as they are, ages them, or invalidates  *)
(* the master with them.                                                   *)
LEMMA OtherSteps ==
  ASSUME TypeOK, [Next]_vars, ~FrameRendered
  PROVE  \/ UNCHANGED <<slots, cur, t, path, since>>
         \/ \E d \in 0 .. D - 1 : PageChanges(d)
         \/ Resize
         \/ SwapProcess
  BY DEF Next, vars, ScrollTo, VideoRect, RecenterConfirm, RecenterPlain, ScrollConfirm,
         HintSeq, history

LEMMA SeededStep ==
  ASSUME ~StripOn, IInv, [Next]_vars
  PROVE  NoGarbage' /\ MasterSeeded' /\ SlotsSeeded'
<1> USE DEF IInv
<1>1. CASE FrameRendered
  <2>1. Seen(Sent') /\ MasterSeeded' /\ SlotsSeeded'
    BY <1>1, FrameSeen
  <2> QED
    BY <2>1 DEF NoGarbage, Seen
<1>2. CASE UNCHANGED <<slots, cur, t, path, since>>
  BY <1>2 DEF NoGarbage, MasterSeeded, SlotsSeeded, Sent, Seen
<1>3. ASSUME NEW d \in 0 .. D - 1, PageChanges(d)
      PROVE  NoGarbage' /\ MasterSeeded' /\ SlotsSeeded'
  <2>1. /\ UNCHANGED <<cur, path>>
        /\ t' = [t EXCEPT !.master = Age(t.master, {d})]
        /\ \A s \in Slots : slots'[s] = Age(slots[s], {d})
    BY <1>3 DEF PageChanges, history
  <2>2. /\ t \in Target /\ t.master \in Buffer
        /\ cur \in Slots /\ slots \in [Slots -> Buffer] /\ 1 - cur \in Slots
    BY DEF TypeOK, Target, Slots
  <2>3. /\ t'.has = t.has /\ t'.forceFull = t.forceFull /\ t'.seed = t.seed
        /\ t'.master = Age(t.master, {d})
    BY <2>1, <2>2 DEF Target
  <2>4. Sent' = Age(Sent, {d}) /\ Sent \in Buffer
    BY <2>1, <2>2 DEF Sent
  <2>5. NoGarbage'
    BY <2>1, <2>4 DEF NoGarbage, Age, Buffer, Pixels
  <2>6. MasterSeeded'
    BY <2>2, <2>3, <2>4, SeenAge DEF MasterSeeded
  <2>7. SlotsSeeded'
    <3> SUFFICES ASSUME t.has, ~t.forceFull, t.seed = 0, NEW s \in Slots
                 PROVE  Seen(slots'[s])
      BY <2>3 DEF SlotsSeeded, Seen
    <3>1. Seen(slots[s]) /\ slots[s] \in Buffer
      BY <2>2 DEF SlotsSeeded, Seen
    <3> QED
      BY <2>1, <3>1, SeenAge
  <2> QED
    BY <2>5, <2>6, <2>7
<1>4. CASE Resize
  <2>1. /\ UNCHANGED <<cur, path>>
        /\ \A s \in Slots : slots'[s] = Outdate(slots[s])
    BY <1>4 DEF Resize, history
  <2>2. t'.forceFull
    BY <1>4 DEF Resize, TypeOK, Target
  <2>3. cur \in Slots /\ slots \in [Slots -> Buffer] /\ 1 - cur \in Slots
    BY DEF TypeOK, Slots
  <2>4. Sent' = Outdate(Sent) /\ Sent \in Buffer
    BY <2>1, <2>3 DEF Sent
  <2>5. NoGarbage'
    BY <2>1, <2>4 DEF NoGarbage, Outdate, Buffer, Pixels
  <2> QED
    BY <2>2, <2>5 DEF MasterSeeded, SlotsSeeded
<1>5. CASE SwapProcess
  BY <1>5 DEF SwapProcess, NewTarget, NoGarbage, MasterSeeded, SlotsSeeded
<1> QED
  BY <1>1, <1>2, <1>3, <1>4, <1>5, OtherSteps

(* The inductive invariant, with the strip block off.                      *)
THEOREM Seeding == ASSUME ~StripOn PROVE Spec => []IInv
<1>1. Init => IInv
  BY InitType DEF Init, IInv, NoGarbage, MasterSeeded, SlotsSeeded, NewTarget
<1>2. IInv /\ [Next]_vars => IInv'
  <2> SUFFICES ASSUME IInv, [Next]_vars PROVE IInv'
    OBVIOUS
  <2> QED
    BY TypeStep, SeededStep DEF IInv
<1> QED
  BY <1>1, <1>2, PTL DEF Spec

(* No frame shows memory nothing was read into: the master is only used    *)
(* once a full readback has filled it.  (Without the strip block, which    *)
(* allocates a master and uses it unread.)                                 *)
THEOREM NothingUnread == ASSUME ~StripOn PROVE Spec => []NoGarbage
<1>1. IInv => NoGarbage
  BY DEF IInv
<1> QED
  BY <1>1, Seeding, PTL

(* slots_to_seed: a rectangle goes to a slot alone only when the whole of  *)
(* that slot was seeded since the master was.                              *)
THEOREM RectanglesOnSeededSlots == ASSUME ~StripOn PROVE Spec => []SlotsSeeded
<1>1. IInv => SlotsSeeded
  BY DEF IInv
<1> QED
  BY <1>1, Seeding, PTL

(* force_full: nothing of the layout before a target_resize, or of another *)
(* WebProcess's page, is in a frame announced after it.                    *)
THEOREM LayoutsApart == ASSUME ~StripOn PROVE Spec => NoOldLayout
<1>1. IInv /\ [Next]_vars => [Framed => \A r \in Rows : Sent'[r].is # "old"]_vars
  <2> SUFFICES ASSUME IInv, [Next]_vars, Framed, NEW r \in Rows
               PROVE  Sent'[r].is # "old"
    OBVIOUS
  <2>1. CASE FrameRendered
    <3>1. Seen(Sent')
      BY <2>1, FrameSeen DEF IInv
    <3> QED
      BY <3>1 DEF Seen
  <2>2. CASE ~FrameRendered
    <3>1. ~Framed
      BY <2>2, OtherSteps DEF IInv, Framed, PageChanges, Resize, SwapProcess
    <3> QED
      BY <3>1
  <2> QED
    BY <2>1, <2>2
<1> QED
  BY <1>1, Seeding, PTL DEF Spec, NoOldLayout


-----------------------------------------------------------------------------
(* What is in the frames that are announced.                                *)

(* Only target_frame_rendered announces one.                                *)
LEMMA OthersAnnounceNothing ==
  ASSUME TypeOK, [Next]_vars, ~FrameRendered
  PROVE  ~Framed
  BY OtherSteps DEF Framed, PageChanges, Resize, SwapProcess, history

(* A full readback is the page, and the count of frames since starts again. *)
LEMMA FullRight ==
  ASSUME TypeOK, NEW x, NEW locked, FrameFull(x, locked)
  PROVE  Sent' = Page /\ Right(Sent)' /\ since' = 0 /\ scroll' = scroll
<1> DEFINE y == [x EXCEPT !.master    = IF x.has THEN Page ELSE @,
                          !.forceFull = @ /\ ~x.has,
                          !.seed      = IF x.has \/ locked THEN 1 ELSE @]
<1>1. Publish(y, "full") /\ slots' = [slots EXCEPT ![cur] = Page]
  BY DEF FrameFull
<1> HIDE DEF y
<1>2. Sent' = slots'[cur]
  BY <1>1, SentSlot
<1>3. slots'[cur] = Page
  BY <1>1 DEF TypeOK
<1>4. scroll' = scroll /\ since' = 0
  BY <1>1 DEF Publish
<1>5. Page' = Page
  BY <1>4 DEF Page
<1> QED
  BY <1>2, <1>3, <1>4, <1>5 DEF Right

(* The rows of a rectangle are as they were read, whichever way the slot    *)
(* was filled.                                                              *)
LEMMA RectRows ==
  ASSUME TypeOK, NEW x, NEW m, NEW R, NEW how, PublishRect(x, m, R, how), NEW r \in R \cap Rows
  PROVE  Sent'[r] = m[r]
<1> DEFINE y == [x EXCEPT !.master = m, !.seed = IF @ > 0 THEN @ - 1 ELSE @]
<1>1. Publish(y, how) /\ slots' = [slots EXCEPT ![cur] = IF x.seed > 0 THEN m ELSE Splice(@, m, R)]
  BY DEF PublishRect
<1> HIDE DEF y
<1>2. Sent' = slots'[cur]
  BY <1>1, SentSlot
<1>3. slots'[cur] = IF x.seed > 0 THEN m ELSE Splice(slots[cur], m, R)
  BY <1>1 DEF TypeOK
<1> QED
  BY <1>2, <1>3 DEF Splice

(* A playing video is right in every frame: its rectangle is read into      *)
(* whatever is published, or all of the frame is.  (With the strip and      *)
(* damage blocks off, whose frames may leave the video out.)                *)
THEOREM VideoAlwaysRight == ASSUME ~StripOn, ~DamageOn PROVE Spec => VideoRowsRight
<1>1. TypeOK /\ [Next]_vars => [Framed => \A r \in video : Sent'[r] = Page[r]]_vars
  <2> SUFFICES ASSUME TypeOK, [Next]_vars, Framed, NEW r \in video
               PROVE  Sent'[r] = Page[r]
    OBVIOUS
  <2>1. FrameRendered
    BY OthersAnnounceNothing
  <2>2. r \in Rows
    BY VideosAssumption DEF TypeOK, Rows
  <2>3. PICK ok \in BOOLEAN, torn \in BOOLEAN, locked \in BOOLEAN :
          LET x == StripBlock(ok)
              y == DamageBlock(x)
              z == MasterBlock(y, ok)
              v == VideoBlock(z, torn)
          IN  /\ x \in Target /\ y \in Target /\ z \in Target /\ v \in Target
              /\ \/ Hinted /\ FrameStrip(x)
                 \/ DamageFits(x) /\ FrameDamage(y)
                 \/ VideoFits(z, torn) /\ FrameVideo(v)
                 \/ FrameFull(v, locked)
    BY <2>1, FrameWays, Zenon
  <2> DEFINE v == VideoBlock(MasterBlock(DamageBlock(StripBlock(ok)), ok), torn)
  <2>4. FrameVideo(v) \/ FrameFull(v, locked)
    BY <2>3 DEF Hinted, DamageFits, DamageSeen
  <2> HIDE DEF v
  <2>5. CASE FrameVideo(v)
    <3>1. PublishRect(v, Splice(v.master, Page, video), video, "video")
      BY <2>5 DEF FrameVideo
    <3>2. Sent'[r] = Splice(v.master, Page, video)[r]
      BY <2>2, <3>1, RectRows
    <3> QED
      BY <2>2, <3>2 DEF Splice
  <2>6. CASE FrameFull(v, locked)
    BY <2>6, FullRight
  <2> QED
    BY <2>4, <2>5, <2>6
<1> QED
  BY <1>1, TypeCorrect, PTL DEF Spec, VideoRowsRight

(* A target that is used without a video playing is read in full, for the   *)
(* video block has just freed its master.                                   *)
LEMMA NoVideoNoRectangle ==
  ASSUME NEW y \in Target, NEW ok, NEW torn, video = {}
  PROVE  ~VideoFits(MasterBlock(y, ok), torn)
<1>1. VideoOn => ~MasterBlock(y, ok).has
  BY DEF MasterBlock, Target
<1> QED
  BY <1>1 DEF VideoFits, VideoSeen

-----------------------------------------------------------------------------
(* How long a frame may go without a full readback.  A counter that is 0    *)
(* asks for one at the next frame that sees it, so it counts the turns of   *)
(* its period up to the period.  A strip counts for nothing and asks for    *)
(* nothing.                                                                 *)
Turn(n, period) == IF n = 0 THEN period ELSE n

VideoDrift  == since < Turn(t.vframe, VFULL)
DamageDrift == since < (Turn(t.vframe, VFULL) - 1) * DFULL + Turn(t.dframe, DFULL)

LEMMA TurnType ==
  ASSUME NEW period \in Nat \ {0}, NEW n \in 0 .. period - 1
  PROVE  Turn(n, period) \in 1 .. period
  BY DEF Turn

(* The next turn is the next number, or after the last one the first.       *)
LEMMA NextTurn ==
  ASSUME NEW period \in Nat \ {0}, NEW n \in 0 .. period - 1
  PROVE  /\ n # 0 => Turn((n + 1) % period, period) = n + 1
         /\ n = 0 => Turn((n + 1) % period, period) = 1
<1>1. CASE n + 1 < period
  <2>1. (n + 1) % period = n + 1
    BY <1>1
  <2> QED
    BY <2>1 DEF Turn
<1>2. CASE n + 1 = period
  <2>1. (n + 1) % period = 0
    BY <1>2
  <2> QED
    BY <1>2, <2>1 DEF Turn
<1> QED
  BY <1>1, <1>2

(* The counters behind what a frame publishes.                              *)
LEMMA Counts ==
  ASSUME TypeOK, FrameRendered
  PROVE  \/ Right(Sent)' /\ since' = 0
         \/ t'.vframe = t.vframe /\ t'.dframe = t.dframe /\ since' = since
         \/ /\ DamageOn /\ t.dframe # 0
            /\ t'.vframe = t.vframe /\ t'.dframe = (t.dframe + 1) % DFULL
            /\ since' \in {since, since + 1}
         \/ /\ t.vframe # 0
            /\ t'.vframe = (t.vframe + 1) % VFULL
            /\ t'.dframe = t.dframe \/ t'.dframe = (t.dframe + 1) % DFULL
            /\ since' \in {since, since + 1}
<1>1. PICK ok \in BOOLEAN, torn \in BOOLEAN, locked \in BOOLEAN :
        LET x == StripBlock(ok)
            y == DamageBlock(x)
            z == MasterBlock(y, ok)
            v == VideoBlock(z, torn)
        IN  /\ x \in Target /\ y \in Target /\ z \in Target /\ v \in Target
            /\ \/ Hinted /\ FrameStrip(x)
               \/ DamageFits(x) /\ FrameDamage(y)
               \/ VideoFits(z, torn) /\ FrameVideo(v)
               \/ FrameFull(v, locked)
  BY FrameWays, Zenon
<1> DEFINE w == StripBlock(ok)
           y == DamageBlock(w)
           z == MasterBlock(y, ok)
           v == VideoBlock(z, torn)
<1>2. /\ t \in Target
      /\ w.vframe = t.vframe /\ w.dframe = t.dframe
  BY DEF StripBlock, TypeOK, Target
<1>3. /\ w \in Target /\ y \in Target /\ z \in Target /\ v \in Target
      /\ \/ Hinted /\ FrameStrip(w)
         \/ DamageFits(w) /\ FrameDamage(y)
         \/ VideoFits(z, torn) /\ FrameVideo(v)
         \/ FrameFull(v, locked)
  BY <1>1
<1>4. /\ y.vframe = t.vframe
      /\ y.dframe = t.dframe \/ y.dframe = (t.dframe + 1) % DFULL
      /\ DamageSeen(w) => y.dframe = (t.dframe + 1) % DFULL
  <2> HIDE DEF w
  <2> QED
    BY <1>2, <1>3 DEF DamageBlock, Target
<1>5. ASSUME NEW x \in Target, NEW m \in Buffer, NEW R, NEW how \in {"damage", "video"}, PublishRect(x, m, R, how)
      PROVE  /\ t'.vframe = x.vframe /\ t'.dframe = x.dframe
             /\ since' \in {since, since + 1}
  <2>1. t' = [x EXCEPT !.master = m, !.seed = IF @ > 0 THEN @ - 1 ELSE @]
    BY <1>5 DEF PublishRect, Publish
  <2>2. since' \in {since, since + 1}
    BY <1>5 DEF PublishRect, Publish
  <2> QED
    BY <2>1, <2>2 DEF Target
<1>6. Page \in Buffer
  BY PageType DEF TypeOK
<1>10. CASE FrameStrip(w)
  <2> DEFINE m == Splice(Shift(w.master, ctrl.delta), Page, Interval(ctrl.y0, ctrl.h))
  <2> HIDE DEF w
  <2>1. Publish([w EXCEPT !.master = m, !.seed = 1], "strip")
    BY <1>10 DEF FrameStrip
  <2> HIDE DEF m
  <2>2. t' = [w EXCEPT !.master = m, !.seed = 1] /\ since' = since
    BY <2>1 DEF Publish
  <2>3. t'.vframe = w.vframe /\ t'.dframe = w.dframe
    BY <1>3, <2>2 DEF Target
  <2> QED
    BY <1>2, <2>2, <2>3
<1>7. CASE DamageFits(w) /\ FrameDamage(y)
  <2> HIDE DEF y, w
  <2>1. DamageOn /\ DamageSeen(w) /\ t.dframe # 0
    BY <1>2, <1>7 DEF DamageFits, DamageSeen
  <2>2. Splice(y.master, Page, Damage) \in Buffer
    BY <1>3, <1>6, SpliceType DEF Target
  <2>3. t'.vframe = y.vframe /\ t'.dframe = y.dframe /\ since' \in {since, since + 1}
    BY <1>3, <1>5, <1>7, <2>2 DEF FrameDamage
  <2> QED
    BY <1>4, <2>1, <2>3
<1>8. CASE VideoFits(z, torn) /\ FrameVideo(v)
  <2> HIDE DEF w, y
  <2>1. y.has /\ ~y.forceFull
    BY <1>3, <1>8, VideoMaster
  <2>2. VideoOn /\ video # {}
    <3>1. video # {}
      BY <1>3, <1>8, NoVideoNoRectangle
    <3> QED
      BY <1>8, <3>1 DEF VideoFits, VideoSeen
  <2>3. z = y
    BY <2>1, <2>2 DEF MasterBlock
  <2>4. ~torn /\ y.vframe # 0 /\ VideoSeen(y)
    BY <1>8, <2>3 DEF VideoFits
  <2>5. v.vframe = (y.vframe + 1) % VFULL /\ v.dframe = y.dframe
    <3>1. v = [y EXCEPT !.vframe = (y.vframe + 1) % VFULL]
      BY <2>3, <2>4 DEF VideoBlock
    <3> QED
      BY <1>3, <3>1 DEF Target
  <2> HIDE DEF v, z
  <2>6. Splice(v.master, Page, video) \in Buffer
    BY <1>3, <1>6, SpliceType DEF Target
  <2>7. t'.vframe = v.vframe /\ t'.dframe = v.dframe /\ since' \in {since, since + 1}
    BY <1>3, <1>5, <1>8, <2>6 DEF FrameVideo
  <2> QED
    BY <1>4, <2>4, <2>5, <2>7
<1>9. CASE FrameFull(v, locked)
  <2> HIDE DEF v
  <2> QED
    BY <1>9, FullRight
<1> QED
  BY <1>3, <1>7, <1>8, <1>9, <1>10

(* A frame shows the page, or follows fewer frames than the periods allow.  *)
LEMMA DriftStep ==
  ASSUME TypeOK, TypeOK', FrameRendered
  PROVE  /\ DamageDrift => DamageDrift' /\ (Right(Sent)' \/ since' < DFULL * VFULL)
         /\ ~DamageOn /\ VideoDrift => VideoDrift' /\ (Right(Sent)' \/ since' < VFULL)
<1> DEFINE p  == Turn(t.vframe, VFULL)
           q  == Turn(t.dframe, DFULL)
           p1 == Turn(t'.vframe, VFULL)
           q1 == Turn(t'.dframe, DFULL)
<1>1. /\ VFULL \in Nat \ {0} /\ DFULL \in Nat \ {0}
      /\ t.vframe \in 0 .. VFULL - 1 /\ t.dframe \in 0 .. DFULL - 1
      /\ t'.vframe \in 0 .. VFULL - 1 /\ t'.dframe \in 0 .. DFULL - 1
      /\ since \in Int
  BY PeriodAssumption DEF TypeOK, Target
<1>2. p \in 1 .. VFULL /\ q \in 1 .. DFULL /\ p1 \in 1 .. VFULL /\ q1 \in 1 .. DFULL
  BY <1>1, TurnType
<1>3. /\ t.vframe # 0 => p = t.vframe
      /\ t.dframe # 0 => q = t.dframe
      /\ t.dframe = 0 => q = DFULL
  BY DEF Turn
<1>4. /\ t'.vframe = (t.vframe + 1) % VFULL /\ t.vframe # 0 => p1 = t.vframe + 1
      /\ t'.dframe = (t.dframe + 1) % DFULL /\ t.dframe # 0 => q1 = t.dframe + 1
      /\ t'.dframe = (t.dframe + 1) % DFULL /\ t.dframe = 0 => q1 = 1
      /\ t'.vframe = t.vframe => p1 = p
      /\ t'.dframe = t.dframe => q1 = q
  BY <1>1, NextTurn
<1>5. /\ VideoDrift = (since < p) /\ (VideoDrift' = (since' < p1))
      /\ DamageDrift = (since < (p - 1) * DFULL + q)
      /\ (DamageDrift' = (since' < (p1 - 1) * DFULL + q1))
  BY DEF VideoDrift, DamageDrift
<1> HIDE DEF p, q, p1, q1
<1>6. \A a, b \in 1 .. VFULL : a <= b => (a - 1) * DFULL \in Nat /\ (a - 1) * DFULL <= (b - 1) * DFULL
  BY <1>1
<1>7. (VFULL - 1) * DFULL + DFULL = DFULL * VFULL
  BY <1>1
<1>8. CASE Right(Sent)' /\ since' = 0
  <2>1. 0 < p1 /\ 0 < (p1 - 1) * DFULL + q1
    BY <1>2, <1>6
  <2> QED
    BY <1>5, <1>8, <2>1
<1>9. CASE /\ DamageOn /\ t.dframe # 0
           /\ t'.vframe = t.vframe /\ t'.dframe = (t.dframe + 1) % DFULL
           /\ since' \in {since, since + 1}
  <2>1. p1 = p /\ q1 = q + 1
    BY <1>3, <1>4, <1>9
  <2> DEFINE w == (p - 1) * DFULL
  <2>2. w \in Nat /\ w <= (VFULL - 1) * DFULL /\ (p1 - 1) * DFULL = w /\ (VFULL - 1) * DFULL \in Nat
    BY <1>1, <1>2, <1>6, <2>1
  <2>3. DamageDrift => since < w + q
    BY <1>5, <1>9
  <2> HIDE DEF w
  <2> DEFINE top1 == (VFULL - 1) * DFULL
  <2>4. top1 \in Nat /\ w <= top1 /\ top1 + DFULL = DFULL * VFULL
    BY <1>7, <2>2
  <2> HIDE DEF top1
  <2>5. since < w + q => since' < w + q1 /\ since' < top1 + DFULL
    BY <1>1, <1>2, <1>9, <2>1, <2>2, <2>4
  <2> QED
    BY <1>5, <1>9, <2>2, <2>3, <2>4, <2>5
<1>10. CASE /\ t.vframe # 0
            /\ t'.vframe = (t.vframe + 1) % VFULL
            /\ t'.dframe = t.dframe \/ t'.dframe = (t.dframe + 1) % DFULL
            /\ since' \in {since, since + 1}
  <2>1. p1 = p + 1 /\ p <= VFULL - 1 /\ (q1 >= q \/ (q = DFULL /\ q1 = 1))
    BY <1>1, <1>2, <1>3, <1>4, <1>10
  <2> DEFINE w == (p - 1) * DFULL
             w1 == (p1 - 1) * DFULL
             top1 == (VFULL - 1) * DFULL
  <2>2. w \in Nat /\ w1 = w + DFULL /\ w1 <= top1 /\ top1 \in Nat
    <3>1. p - 1 \in Nat /\ p1 - 1 = (p - 1) + 1
      BY <1>2, <2>1
    <3>2. \A a \in Nat : (a + 1) * DFULL = a * DFULL + DFULL /\ a * DFULL \in Nat
      BY <1>1
    <3>3. w1 <= top1
      <4>1. p1 \in 1 .. VFULL /\ VFULL \in 1 .. VFULL /\ p1 <= VFULL
        BY <1>1, <1>2
      <4>2. (p1 - 1) * DFULL <= (VFULL - 1) * DFULL
        BY <4>1, <1>6, Zenon
      <4> QED
        BY <4>2
    <3>4. top1 \in Nat
      BY <1>1
    <3> QED
      BY <3>1, <3>2, <3>3, <3>4
  <2>3. DamageDrift => since < w + q
    BY <1>5, <1>10
  <2>4. top1 + DFULL = DFULL * VFULL
    BY <1>7
  <2>5. DamageDrift' = (since' < w1 + q1)
    BY <1>5
  <2> HIDE DEF w, w1, top1
  <2>6. since < w + q => since' < w1 + q1 /\ since' < top1 + DFULL
    BY <1>1, <1>2, <1>10, <2>1, <2>2
  <2>7. VideoDrift => since' < p1 /\ since' < VFULL
    <3>1. VideoDrift => since < p
      BY <1>5, <1>10
    <3> QED
      BY <1>1, <1>2, <1>10, <2>1, <3>1
  <2> QED
    BY <1>5, <2>3, <2>4, <2>5, <2>6, <2>7
<1>11. CASE t'.vframe = t.vframe /\ t'.dframe = t.dframe /\ since' = since
  <2>1. p1 = p /\ q1 = q
    BY <1>4, <1>11
  <2> DEFINE a == (p - 1) * DFULL
             top1 == (VFULL - 1) * DFULL
  <2>2. a \in Nat /\ a <= top1 /\ top1 \in Nat /\ top1 + DFULL = DFULL * VFULL /\ (p1 - 1) * DFULL = a
    BY <1>1, <1>2, <1>6, <1>7, <2>1
  <2>3. /\ DamageDrift = (since < a + q)
        /\ DamageDrift' = (since' < a + q1)
    BY <1>5, <2>2
  <2>4. /\ VideoDrift = (since < p)
        /\ VideoDrift' = (since' < p)
    BY <1>5, <2>1
  <2> HIDE DEF a, top1
  <2>5. since < p => since' < p /\ since' < VFULL
    BY <1>1, <1>2, <1>11
  <2>6. since < a + q => since' < a + q1 /\ since' < top1 + DFULL
    BY <1>1, <1>2, <1>11, <2>1, <2>2
  <2>7. since < a + q => since' < DFULL * VFULL
    BY <2>2, <2>6
  <2>8. DamageDrift => DamageDrift' /\ since' < DFULL * VFULL
    BY <2>3, <2>6, <2>7
  <2>9. VideoDrift => VideoDrift' /\ since' < VFULL
    BY <2>4, <2>5
  <2> QED
    BY <2>8, <2>9
<1> QED
  BY <1>8, <1>9, <1>10, <1>11, Counts

(* Any other step leaves the counts alone, or calls a full readback.        *)
LEMMA DriftStays ==
  ASSUME TypeOK, [Next]_vars, ~FrameRendered
  PROVE  (VideoDrift => VideoDrift') /\ (DamageDrift => DamageDrift')
<1>1. CASE UNCHANGED <<slots, cur, t, path, since>>
  BY <1>1 DEF VideoDrift, DamageDrift
<1>2. ASSUME NEW d \in 0 .. D - 1, PageChanges(d)
      PROVE  (VideoDrift => VideoDrift') /\ (DamageDrift => DamageDrift')
  <2>1. since' = since /\ t' = [t EXCEPT !.master = Age(t.master, {d})]
    BY <1>2 DEF PageChanges, history
  <2>2. t'.vframe = t.vframe /\ t'.dframe = t.dframe
    BY <2>1 DEF TypeOK, Target
  <2> QED
    BY <2>1, <2>2 DEF VideoDrift, DamageDrift
<1>3. ASSUME Resize PROVE (VideoDrift => VideoDrift') /\ (DamageDrift => DamageDrift')
  <2>1. since' = since /\ t'.vframe = 0 /\ t'.dframe = t.dframe
    <3>1. t \in Target /\ t' = [t EXCEPT !.master = Outdate(@), !.forceFull = TRUE, !.vframe = 0]
      BY <1>3 DEF Resize, TypeOK
    <3>2. since' = since
      BY <1>3 DEF Resize, history
    <3> QED
      BY <3>1, <3>2 DEF Target
  <2> DEFINE p == Turn(t.vframe, VFULL)
             q == Turn(t.dframe, DFULL)
  <2>2. /\ p \in 1 .. VFULL /\ q \in 1 .. DFULL
        /\ VFULL \in Nat \ {0} /\ DFULL \in Nat \ {0} /\ since \in Nat
    BY TurnType, PeriodAssumption DEF TypeOK, Target
  <2>3. /\ VideoDrift = (since < p) /\ VideoDrift' = (since < VFULL)
        /\ DamageDrift = (since < (p - 1) * DFULL + q)
        /\ DamageDrift' = (since < (VFULL - 1) * DFULL + q)
    BY <2>1 DEF VideoDrift, DamageDrift, Turn
  <2> DEFINE a == (p - 1) * DFULL
             b == (VFULL - 1) * DFULL
  <2>4. a \in Nat /\ b \in Nat /\ a <= b
    BY <2>2
  <2>5. DamageDrift = (since < a + q) /\ DamageDrift' = (since < b + q)
    BY <2>3
  <2> HIDE DEF p, q, a, b
  <2>6. VideoDrift => VideoDrift'
    <3>1. since < p => since < VFULL
      BY <2>2
    <3> QED
      BY <2>3, <3>1
  <2>7. DamageDrift => DamageDrift'
    <3>1. since < a + q => since < b + q
      BY <2>2, <2>4
    <3> QED
      BY <2>5, <3>1
  <2> QED
    BY <2>6, <2>7
<1>4. ASSUME SwapProcess PROVE VideoDrift' /\ DamageDrift'
  <2>1. since' = 0 /\ t'.vframe = 0 /\ t'.dframe = 0
    BY <1>4 DEF SwapProcess, NewTarget
  <2> QED
    BY <2>1, PeriodAssumption DEF VideoDrift, DamageDrift, Turn
<1> QED
  BY <1>1, <1>2, <1>3, <1>4, OtherSteps

LEMMA DriftStarts == Init => VideoDrift /\ DamageDrift
<1> SUFFICES ASSUME Init PROVE VideoDrift /\ DamageDrift
  OBVIOUS
<1>1. since = 0 /\ t.vframe = 0 /\ t.dframe = 0
  BY DEF Init, NewTarget
<1> QED
  BY <1>1, PeriodAssumption DEF VideoDrift, DamageDrift, Turn

(* What a playing video's path leaves behind elsewhere - a change of the    *)
(* page, a pan without a hint, a strip read for another scroll - is gone    *)
(* before VFULL rectangles followed the last full readback, however often   *)
(* the rectangle is torn, the layout changes or the master is freed in      *)
(* between.                                                                 *)
THEOREM VideoDriftEnds == ASSUME ~DamageOn PROVE Spec => DriftBounded
<1>1. TypeOK /\ TypeOK' /\ VideoDrift /\ [Next]_vars => VideoDrift'
  BY DriftStep, DriftStays DEF vars
<1>2. TypeOK /\ TypeOK' /\ VideoDrift /\ [Next]_vars => [Framed => Right(Sent)' \/ since' < VFULL]_vars
  BY DriftStep, OthersAnnounceNothing
<1> QED
  BY <1>1, <1>2, DriftStarts, TypeCorrect, PTL DEF Spec, DriftBounded

(* With damage in play the two periods multiply: each full readback that    *)
(* the damage block asks for is one frame to the video block.  Strips, late *)
(* or not, change nothing about it: they leave both counters where they are.*)
THEOREM DamageDriftEnds == Spec => DriftBoundedDamage
<1>1. TypeOK /\ TypeOK' /\ DamageDrift /\ [Next]_vars => DamageDrift'
  BY DriftStep, DriftStays DEF vars
<1>2. TypeOK /\ TypeOK' /\ DamageDrift /\ [Next]_vars => [Framed => Right(Sent)' \/ since' < DFULL * VFULL]_vars
  BY DriftStep, OthersAnnounceNothing
<1> QED
  BY <1>1, <1>2, DriftStarts, TypeCorrect, PTL DEF Spec, DriftBoundedDamage
=============================================================================
