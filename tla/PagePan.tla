------------------------------- MODULE PagePan -------------------------------
(***************************************************************************)
(* The windowed pan of a BrowserPageWPE (setScrollPosition,                *)
(* recenterForScroll, onFrame, onScrollConfirm, onSettleTimer,             *)
(* onContentHeight): the page is rendered RenderH rows tall around the     *)
(* user's position, the adapter pans inside what was rendered, and the     *)
(* buffer is moved with window.scrollTo when the viewport nears its edge.  *)
(*                                                                         *)
(* The request travels to the WebProcess; its answer comes back as a       *)
(* result of the evaluation, the frame through the frame channel.          *)
(* Positions are rows at zoom 1, times are whether they exceed a budget.   *)
(* The files and variables that change the pan (/tmp/atlas_noconfirm,      *)
(* /tmp/atlas_nosettle, BPWPE_STICKY, BPWPE_NO_PAN) are at their defaults. *)
(***************************************************************************)
EXTENDS Integers, SequencesExt

CONSTANTS
  ScreenH,      \* m_screenHeight
  RenderH,      \* m_renderHeight, as tall as the WebView
  Heights,      \* heights a document may have
  Positions,    \* rows the user scrolls to
  MaxScrolls,   \* bound: setScrollPosition calls
  MaxEvals,     \* bound: evaluations in flight
  MaxChanges,   \* bound: times the document changes its height
  Animates,     \* whether the page repaints without a scroll
  Slow,         \* whether a render may take longer than its budget
  InOrder       \* whether results and frames arrive in the order sent

ASSUME SizeAssumption  == ScreenH \in Nat \ {0} /\ RenderH \in Nat /\ RenderH > ScreenH
ASSUME PageAssumption  == Heights \subseteq Nat /\ Positions \subseteq Nat
ASSUME BoundAssumption == MaxScrolls \in Nat /\ MaxEvals \in Nat \ {0} /\ MaxChanges \in Nat
ASSUME WorldAssumption == {Animates, Slow, InOrder} \subseteq BOOLEAN

VARIABLES
  scrollY,      \* m_scrollY: where the user is
  speed,        \* how fast the last move was (m_scrollVel),
  lead,         \*   and how far the buffer runs ahead of it (m_dirStreak)
  top,          \* m_renderedY
  oldTop,       \* m_pendingOldY
  pending,      \* m_renderPending
  recent,       \* a re-render was issued less than the budget ago
  settle,       \* m_settleTimer is armed
  height,       \* m_pageHeight, 0 while unknown
  scrolls,      \* setScrollPosition calls so far
  doc,          \* the document's height in the WebProcess
  win,          \* window.scrollY there
  owed,         \* something was painted that no frame shows yet
  evals,        \* evaluations on their way to the WebProcess
  news,         \* results and frames on their way back
  shown,        \* what the adapter has: the top the header says, the real one
  lost,         \* history: the last frame found both buffers held
  shrunk,       \* history: the document got shorter once
  changes       \* times the document changed its height

user == <<scrollY, speed, lead, scrolls>>
pan  == <<top, oldTop, pending, recent, settle>>
page == <<user, pan, height>>
webprocess == <<doc, win, owed, changes>>
adapter == <<shown, lost, shrunk>>
vars == <<page, webprocess, evals, news, adapter>>
-----------------------------------------------------------------------------
Slack == RenderH - ScreenH
Near  == ScreenH \div 3                                 \* guard, and lead's margin
Ahead == IF Slack < ScreenH THEN Slack \div 2 ELSE ScreenH  \* guard when moving fast

(* m_scrollVel by what is asked of it: over 700 a lead, over 1000 the wide *)
(* guard, over 1500 (BPWPE_SETTLE_VEL) no re-render until the flick stops. *)
(* The lead grows with the speed, up to that of 1500, and is none unless   *)
(* three moves went the same way.                                          *)
Speeds == {"slow", "steady", "brisk", "fast"}
LeadsAt(v) == IF v \in {"slow", "fast"} THEN {0}
              ELSE 0 .. Max({0, Min({Slack \div 2 - Near, (3 * ScreenH) \div 8})})

MaxTop(h) == IF h > RenderH THEN h - RenderH ELSE 0
Tops == 0 .. MaxTop(Max(Heights \cup {RenderH}))
Asked == [op : {"scroll", "plain"}, to : Tops] \cup {[op |-> "height"]}
News == [is : {"frame", "scroll"}, y : Tops] \cup [is : {"height"}, y : Heights]

TypeOK ==
  /\ scrollY \in Positions \cup {0}
  /\ speed \in Speeds
  /\ lead \in LeadsAt(speed) \cup {-l : l \in LeadsAt(speed)}
  /\ {top, oldTop, win} \subseteq Tops
  /\ {pending, recent, settle, owed, lost, shrunk} \subseteq BOOLEAN
  /\ height \in Heights \cup {0}
  /\ scrolls \in 0 .. MaxScrolls
  /\ doc \in Heights /\ changes \in 0 .. MaxChanges
  /\ evals \in Seq(Asked)
  /\ news \in Seq(News)
  /\ shown \in [label : Tops, at : Tops]

Init ==
  /\ scrollY = 0 /\ speed = "slow" /\ lead = 0
  /\ top = 0 /\ oldTop = 0
  /\ pending = FALSE /\ recent = FALSE /\ settle = FALSE
  /\ height = 0
  /\ scrolls = 0
  /\ doc \in Heights /\ win = 0 /\ owed = TRUE /\ changes = 0
  /\ evals = <<>> /\ news = <<>>
  /\ shown = [label |-> 0, at |-> 0] /\ lost = FALSE /\ shrunk = FALSE
-----------------------------------------------------------------------------
(* recenterForScroll.                                                      *)

InBuffer(y, v) ==
  LET guard == IF v \in {"brisk", "fast"} THEN Ahead ELSE Near
  IN  Slack > 2 * guard /\ y >= top + guard /\ y <= top + Slack - guard

NewTop(y, l) == Min({Max({0, y - Slack \div 2 + l}), MaxTop(height)})

(* Variant: a buffer that is where it should be is moved all the same.     *)
MovesAlways(newTop) == TRUE
Moves(newTop) == newTop # top

Issue(newTop, queue) ==
  /\ Len(queue) < MaxEvals
  /\ evals' = Append(queue, [op |-> "scroll", to |-> newTop])
  /\ oldTop' = top
  /\ top' = newTop
  /\ pending' = TRUE
  /\ recent' = TRUE

Leave(flying, queue) ==
  /\ pending' = flying
  /\ evals' = queue
  /\ UNCHANGED <<top, oldTop, recent>>

(* y, v, l: the position, speed and lead by now; flying, armed, queue: the *)
(* caller's m_renderPending, m_settleTimer and evaluations.  A flick is    *)
(* deferred while the last re-render is recent, and centred on when it no  *)
(* longer is; one re-render at a time, until it is given up for lost.      *)
RecenterForScroll(y, v, l, force, flying, armed, queue) ==
  LET stays  == height <= RenderH \/ InBuffer(y, v)
      defers == ~force /\ v = "fast" /\ recent
      newTop == NewTop(y, IF force THEN 0 ELSE l)
      gated  == (flying /\ recent) \/ ~Moves(newTop)
  IN  \/ stays /\ settle' = armed /\ Leave(flying, queue)
      \/ ~stays /\ defers /\ settle' = TRUE /\ Leave(flying, queue)
      \/ ~stays /\ ~defers /\ settle' = FALSE /\ gated /\ Leave(flying, queue)
      \/ ~stays /\ ~defers /\ settle' = FALSE /\ ~gated /\ Issue(newTop, queue)
-----------------------------------------------------------------------------
(* The page's main loop.                                                   *)

(* setScrollPosition: the adapter stays within the height it was told.  A  *)
(* page that fits the buffer is rendered from its top, once.               *)
SetScrollPosition(y, v, l) ==
  /\ scrolls < MaxScrolls
  /\ y <= (IF height = 0 THEN RenderH ELSE height) - ScreenH
  /\ scrolls = 0 \/ y = scrollY => v = "slow"
  /\ scrolls' = scrolls + 1
  /\ scrollY' = y
  /\ speed' = v
  /\ lead' = IF y > scrollY THEN l ELSE -l
  /\ IF height \in 1 .. RenderH
     THEN /\ top' = 0
          /\ IF top = 0 THEN UNCHANGED evals
             ELSE /\ Len(evals) < MaxEvals
                  /\ evals' = Append(evals, [op |-> "plain", to |-> 0])
          /\ UNCHANGED <<oldTop, pending, recent, settle>>
     ELSE RecenterForScroll(y, v, lead', FALSE, pending, settle, evals)
  /\ UNCHANGED <<height, webprocess, news, adapter>>

(* The next of what is on its way back: of its kind, or of all.            *)
Arrives(kind, i) ==
  /\ i \in DOMAIN news
  /\ news[i].is = kind
  /\ \A j \in 1 .. i - 1 : ~InOrder /\ (news[j].is = "frame") # (kind = "frame")
  /\ news' = RemoveAt(news, i)

(* The evaluations, with or without the height asked for once more.        *)
Unasked ==
  /\ Len(evals) < MaxEvals
  /\ \A i \in DOMAIN evals : evals[i].op # "height"
  /\ \A i \in DOMAIN news : news[i].is # "height"
Queues == {evals} \cup IF Unasked THEN {Append(evals, [op |-> "height"])} ELSE {}

(* onFrame: copied out under the top of this moment, unless both buffers   *)
(* are held; the height may be asked for, as the page loads; then the pan  *)
(* catches up with the user.                                               *)
OnFrameDrop(i) ==
  /\ Arrives("frame", i)
  /\ pending' = FALSE
  /\ lost' = TRUE
  /\ UNCHANGED <<user, top, oldTop, recent, settle, height, webprocess, evals, shown, shrunk>>

(* Variants: no catch-up; the header gets the top of the frame before.     *)
OnFrameStill(i) ==
  /\ Arrives("frame", i)
  /\ shown' = [label |-> top, at |-> news[i].y]
  /\ lost' = FALSE
  /\ pending' = FALSE
  /\ UNCHANGED <<user, top, oldTop, recent, settle, height, webprocess, evals, shrunk>>

OnFrameLabelledLast(i) ==
  /\ Arrives("frame", i)
  /\ shown' = [label |-> oldTop, at |-> news[i].y]
  /\ \E queue \in Queues : RecenterForScroll(scrollY, speed, lead, FALSE, FALSE, settle, queue)
  /\ lost' = FALSE
  /\ UNCHANGED <<user, height, webprocess, shrunk>>

OnFrame(i) ==
  /\ Arrives("frame", i)
  /\ shown' = [label |-> top, at |-> news[i].y]
  /\ \E queue \in Queues : RecenterForScroll(scrollY, speed, lead, FALSE, FALSE, settle, queue)
  /\ lost' = FALSE
  /\ UNCHANGED <<user, height, webprocess, shrunk>>

(* onScrollConfirm: the buffer's top is where the page really went (the    *)
(* hint it gives the backend is modelled in Readback).                     *)
OnScrollConfirm(i) ==
  /\ Arrives("scroll", i)
  /\ top' = news[i].y
  /\ UNCHANGED <<user, oldTop, pending, recent, settle, height, webprocess, evals, adapter>>

(* onContentHeight: the viewport's own height is taken for an artifact.    *)
OnContentHeight(i) ==
  /\ Arrives("height", i)
  /\ height' = IF news[i].y \in {0, RenderH} THEN height ELSE news[i].y
  /\ UNCHANGED <<user, pan, webprocess, evals, adapter>>

OnSettleTimer ==
  /\ settle
  /\ RecenterForScroll(scrollY, speed, lead, TRUE, pending, FALSE, evals)
  /\ UNCHANGED <<user, height, webprocess, news, adapter>>

(* updateContentsSize: at load-finished, then polled, one at a time.       *)
UpdateContentsSize ==
  /\ evals' \in Queues \ {evals}
  /\ UNCHANGED <<page, webprocess, news, adapter>>

(* The budget of the last re-render (BPWPE_RENDER_MS) runs out.            *)
Elapse ==
  /\ recent
  /\ Slow \/ (evals = <<>> /\ news = <<>> /\ ~owed)
  /\ recent' = FALSE
  /\ UNCHANGED <<user, top, oldTop, pending, settle, height, webprocess, evals, news, adapter>>
-----------------------------------------------------------------------------
(* The WebProcess (external).                                              *)
Evaluate ==
  /\ evals # <<>>
  /\ evals' = Tail(evals)
  /\ IF Head(evals).op = "height"
     THEN news' = Append(news, [is |-> "height", y |-> doc]) /\ UNCHANGED <<win, owed>>
     ELSE /\ win' = Min({Head(evals).to, MaxTop(doc)})
          /\ owed' = (owed \/ win' # win)
          /\ news' = IF Head(evals).op = "plain" THEN news
                     ELSE Append(news, [is |-> "scroll", y |-> win'])
  /\ UNCHANGED <<page, doc, changes, adapter>>

RenderFrame ==
  /\ owed
  /\ \A i \in DOMAIN news : news[i].is # "frame"
  /\ owed' = FALSE
  /\ news' = Append(news, [is |-> "frame", y |-> win])
  /\ UNCHANGED <<page, doc, changes, win, evals, adapter>>

Repaint ==
  /\ Animates
  /\ owed' = TRUE
  /\ UNCHANGED <<page, doc, changes, win, evals, news, adapter>>

DocChanges(h) ==
  /\ h # doc /\ changes < MaxChanges
  /\ changes' = changes + 1
  /\ doc' = h
  /\ win' = Min({win, MaxTop(h)})
  /\ owed' = (owed \/ win' # win)
  /\ shrunk' = (shrunk \/ h < doc)
  /\ UNCHANGED <<page, evals, news, shown, lost>>
-----------------------------------------------------------------------------
Next ==
  \/ \E y \in Positions, v \in Speeds : \E l \in LeadsAt(v) : SetScrollPosition(y, v, l)
  \/ \E i \in DOMAIN news : \/ OnFrameDrop(i) \/ OnFrame(i)
                            \/ OnScrollConfirm(i) \/ OnContentHeight(i)
  \/ OnSettleTimer
  \/ UpdateContentsSize
  \/ Elapse
  \/ Evaluate \/ RenderFrame \/ Repaint
  \/ \E h \in Heights : DocChanges(h)

(* Timers fire and what is under way gets there; the WebProcess evaluates  *)
(* and renders what it painted.  Nothing obliges the user, the page or the *)
(* poll.                                                                   *)
Fairness ==
  /\ WF_vars(\E i \in DOMAIN news : OnFrameDrop(i) \/ OnFrame(i))
  /\ WF_vars(\E i \in DOMAIN news : OnScrollConfirm(i) \/ OnContentHeight(i))
  /\ WF_vars(OnSettleTimer)
  /\ WF_vars(Elapse)
  /\ WF_vars(Evaluate)
  /\ WF_vars(RenderFrame)

Spec == Init /\ [][Next]_vars /\ Fairness
-----------------------------------------------------------------------------
(* "Never deadlock": once the user stops, what the adapter has covers the  *)
(* viewport, whatever was gated, deferred or in flight when he did; as     *)
(* long as the last frame found a buffer, on a document that only grows.   *)
Covers == shown.label <= scrollY /\ scrollY <= shown.label + Slack
CatchUp == <>[]~lost => <>[](Covers \/ shrunk)

(* As the code's comments have it, with no condition on the frames: the     *)
(* buffer does not "freeze behind the scroll".                             *)
FollowsScroll == <>[](Covers \/ shrunk)

(* "The buffer label matches where the frame truly rendered": in the end   *)
(* the adapter pans over the buffer at the place it was rendered.          *)
LabelSettles == <>[]~lost => <>[](shown.label = shown.at \/ shrunk)

(* Once the user stops the page stops moving its buffer, whatever it       *)
(* repaints: frames and re-renders do not chase each other.                *)
Requests == Len(SelectSeq(evals, LAMBDA e : e.op = "scroll"))
Quiesces == <>[]((Requests = 0 /\ ~settle) \/ shrunk)
=============================================================================
