----------------------------- MODULE PageBuffers -----------------------------
(***************************************************************************)
(* The double buffer between a BrowserPageWPE and the BrowserAdapter: two  *)
(* shared offscreens named by their keys, handed back and forth by         *)
(* messages (msgPainted one way, bufferReturned the other), purged by      *)
(* freeze and replaced by thaw, blanked when a page commits.               *)
(*                                                                         *)
(* The adapter is not in the repository: it is modelled from the messages  *)
(* the page is written against.  It shows the buffer last painted, returns *)
(* the one it showed before, and brings keys of its own making with every  *)
(* attach; a key of an earlier attach that is still painted it drops, or   *)
(* returns.  Each direction of its connection is in order.                 *)
(*                                                                         *)
(* What is painted is stamped in the order of painting and named by the    *)
(* page (the count of navigations) it is a frame of.                       *)
(***************************************************************************)
EXTENDS Naturals, Sequences, FiniteSets

CONSTANTS
  MaxAttaches,  \* bound: attaches and thaws
  MaxPaints,    \* bound: frames and blanks painted
  MaxNavs,      \* bound: navigations
  MaxFrames,    \* bound: frames on their way from the WebProcess
  GoesBack,     \* whether the user goes back or forward
  Resizes       \* whether the window is resized

ASSUME UserAssumption  == {GoesBack, Resizes} \subseteq BOOLEAN
ASSUME BoundAssumption == {MaxAttaches, MaxPaints, MaxNavs, MaxFrames} \subseteq Nat

VARIABLES
  alive,        \* the page is in g_livePages
  off,          \* m_offscreen0, m_offscreen1: the key of each, or NoKey
  own,          \* m_ownOffscreen0, m_ownOffscreen1
  byHistory,    \* m_navByHistory
  gen,          \* the page committed last, and how it was reached
  web,          \* the page the WebProcess draws
  goBack,       \* a go_back that has somewhere to go, not yet navigated
  commits,      \* LOAD_COMMITTED signals not yet delivered
  frames,       \* frames on their way: the page each shows, and whether its
                \*   size is still the one the page renders at
  painted,      \* stamps given out
  pix,          \* what each key's segment holds
  shown,        \* the key on screen, or NoKey
  known,        \* the adapter's keys; {} while it has none attached
  attaches,     \* attaches so far
  toAdapter,    \* msgPainted keys on their way
  toServer      \* the adapter's calls on their way

page    == <<alive, off, own, byHistory, gen>>
webkit  == <<web, goBack, commits, frames>>
adapter == <<shown, known, attaches>>
vars == <<page, webkit, painted, pix, adapter, toAdapter, toServer>>
-----------------------------------------------------------------------------
Bufs == {0, 1}

(* Shared-memory keys: the two of each attach are new.                     *)
Keys == (1 .. MaxAttaches) \X Bufs
NoKey == <<0, 0>>
Pages == 0 .. MaxNavs
Ways  == {"load", "history"}
Picture == [stamp : 0 .. MaxPaints, of : Pages]
Call == [op : {"attach"}, keys : [Bufs -> Keys]]
        \cup [op : {"return"}, key : Keys] \cup [op : {"freeze"}]

TypeOK ==
  /\ alive \in BOOLEAN
  /\ off \in [Bufs -> Keys \cup {NoKey}]
  /\ own \in [Bufs -> BOOLEAN]
  /\ byHistory \in BOOLEAN
  /\ gen \in [page : Pages, way : Ways]
  /\ web \in Pages
  /\ goBack \in BOOLEAN
  /\ commits \in Seq([page : Pages, way : Ways])
  /\ frames \in Seq([of : Pages, fits : BOOLEAN])
  /\ painted \in 0 .. MaxPaints
  /\ pix \in [Keys -> Picture]
  /\ shown \in Keys \cup {NoKey}
  /\ known \subseteq Keys
  /\ attaches \in 0 .. MaxAttaches
  /\ toAdapter \in Seq(Keys)
  /\ toServer \in Seq(Call)

Init ==
  /\ alive = TRUE
  /\ off = [b \in Bufs |-> NoKey]
  /\ own = [b \in Bufs |-> FALSE]
  /\ byHistory = FALSE
  /\ gen = [page |-> 0, way |-> "load"]
  /\ web = 0
  /\ goBack = FALSE
  /\ commits = <<>>
  /\ frames = <<>>
  /\ painted = 0
  /\ pix = [k \in Keys |-> [stamp |-> 0, of |-> 0]]
  /\ shown = NoKey
  /\ known = {}
  /\ attaches = 0
  /\ toAdapter = <<>>
  /\ toServer = <<>>
-----------------------------------------------------------------------------
(* The page.                                                               *)

Attached == \A b \in Bufs : off[b] # NoKey

(* Variant: 1 when 0 is not free.                                          *)
FreeUnchecked(b) == b = IF own[0] THEN 0 ELSE 1

(* The buffer onFrame and clearToWhite paint into: 0 before 1.             *)
Free(b) == own[b] /\ (b = 1 => ~own[0])
NoneFree == \A b \in Bufs : ~own[b]

(* Variant: the page keeps the buffer it flushed.                          *)
PaintAndKeep(b, p) ==
  /\ painted < MaxPaints
  /\ painted' = painted + 1
  /\ pix' = [pix EXCEPT ![off[b]] = [stamp |-> painted + 1, of |-> p]]
  /\ toAdapter' = IF Attached THEN Append(toAdapter, off[b]) ELSE toAdapter
  /\ UNCHANGED own

(* Paint a picture of page p into buffer b and flush it (flushBuffer, which *)
(* does nothing while one of the two is missing).                          *)
PaintAndFlush(b, p) ==
  /\ painted < MaxPaints
  /\ painted' = painted + 1
  /\ pix' = [pix EXCEPT ![off[b]] = [stamp |-> painted + 1, of |-> p]]
  /\ IF Attached
     THEN /\ own' = [own EXCEPT ![b] = FALSE]
          /\ toAdapter' = Append(toAdapter, off[b])
     ELSE UNCHANGED <<own, toAdapter>>

(* onFrame: with the page destroyed, both buffers held by the adapter, or  *)
(* a frame of another size than the page renders at, the frame is dropped. *)
OnFrameDrop ==
  /\ frames # <<>>
  /\ ~alive \/ NoneFree \/ ~Head(frames).fits
  /\ frames' = Tail(frames)
  /\ UNCHANGED <<page, web, goBack, commits, painted, pix, adapter, toAdapter, toServer>>

OnFramePaint ==
  /\ alive
  /\ frames # <<>>
  /\ Head(frames).fits
  /\ \E b \in Bufs : Free(b) /\ PaintAndFlush(b, Head(frames).of)
  /\ frames' = Tail(frames)
  /\ UNCHANGED <<alive, off, byHistory, gen, web, goBack, commits, adapter, toServer>>

(* onLoadChanged(LOAD_COMMITTED): back and forward leave the buffer to the *)
(* restored page; any other load blanks it (clearToWhite), unless the      *)
(* adapter holds both.                                                     *)
Committed ==
  /\ alive
  /\ commits # <<>>
  /\ commits' = Tail(commits)
  /\ gen' = Head(commits)
  /\ byHistory' = FALSE
  /\ UNCHANGED <<alive, off, web, goBack, frames, adapter, toServer>>

CommitHistory == byHistory /\ Committed /\ UNCHANGED <<own, painted, pix, toAdapter>>

CommitBlank ==
  /\ ~byHistory
  /\ Committed
  /\ \E b \in Bufs : Free(b) /\ PaintAndFlush(b, Head(commits).page)

CommitHeld ==
  /\ ~byHistory
  /\ NoneFree
  /\ Committed
  /\ UNCHANGED <<own, painted, pix, toAdapter>>

(* pageBackward, pageForward: go_back does nothing when there is no page   *)
(* to go to.                                                               *)
PageBackward ==
  /\ alive
  /\ GoesBack
  /\ byHistory' = TRUE
  /\ goBack' \in {goBack, TRUE}
  /\ UNCHANGED <<alive, off, own, gen, web, commits, frames, painted, pix, adapter,
                 toAdapter, toServer>>

(* The adapter's calls, in the order it made them.                         *)
Called(op) == toServer # <<>> /\ Head(toServer).op = op /\ toServer' = Tail(toServer)

(* attachToBuffer, thaw: either attach may fail.                           *)
AttachToBuffer ==
  /\ Called("attach")
  /\ alive
  /\ \E got \in [Bufs -> BOOLEAN] :
       /\ off' = [b \in Bufs |-> IF got[b] THEN Head(toServer).keys[b] ELSE NoKey]
       /\ own' = got
  /\ UNCHANGED <<alive, byHistory, gen, webkit, painted, pix, adapter, toAdapter>>

(* Variants: a key that is not the first's is the second's; only the first *)
(* is known.                                                               *)
BufferReturnedElse ==
  /\ Called("return")
  /\ alive
  /\ own' = [own EXCEPT ![IF off[0] = Head(toServer).key THEN 0 ELSE 1] = TRUE]
  /\ UNCHANGED <<alive, off, byHistory, gen, webkit, painted, pix, adapter, toAdapter>>

BufferReturnedFirst ==
  /\ Called("return")
  /\ alive
  /\ own' = [own EXCEPT ![0] = @ \/ off[0] = Head(toServer).key]
  /\ UNCHANGED <<alive, off, byHistory, gen, webkit, painted, pix, adapter, toAdapter>>

(* A key the page no longer has (it was purged) changes nothing.           *)
BufferReturned ==
  /\ Called("return")
  /\ alive
  /\ own' = [b \in Bufs |-> own[b] \/ off[b] = Head(toServer).key]
  /\ UNCHANGED <<alive, off, byHistory, gen, webkit, painted, pix, adapter, toAdapter>>

Freeze ==
  /\ Called("freeze")
  /\ alive
  /\ off' = [b \in Bufs |-> NoKey]
  /\ own' = [b \in Bufs |-> FALSE]
  /\ UNCHANGED <<alive, byHistory, gen, webkit, painted, pix, adapter, toAdapter>>

(* setWindowSize: the frames on their way are of the size before.          *)
SetWindowSize ==
  /\ alive
  /\ Resizes
  /\ frames' = [i \in DOMAIN frames |-> [frames[i] EXCEPT !.fits = FALSE]]
  /\ UNCHANGED <<page, web, goBack, commits, painted, pix, adapter, toAdapter, toServer>>

(* ~BrowserPageWPE.                                                        *)
Destroy ==
  /\ alive
  /\ alive' = FALSE
  /\ off' = [b \in Bufs |-> NoKey]
  /\ own' = [b \in Bufs |-> FALSE]
  /\ commits' = <<>>
  /\ toServer' = <<>>
  /\ UNCHANGED <<byHistory, gen, web, goBack, frames, painted, pix, adapter, toAdapter>>
-----------------------------------------------------------------------------
(* WebKit (external).  Signals and frames reach the page by different      *)
(* routes.                                                                 *)
Navigate(way) ==
  /\ web < MaxNavs
  /\ way = "history" => goBack
  /\ web' = web + 1
  /\ goBack' = (goBack /\ way # "history")
  /\ commits' = IF alive THEN Append(commits, [page |-> web + 1, way |-> way]) ELSE commits
  /\ UNCHANGED <<page, frames, painted, pix, adapter, toAdapter, toServer>>

Render ==
  /\ Len(frames) < MaxFrames
  /\ frames' = Append(frames, [of |-> web, fits |-> TRUE])
  /\ UNCHANGED <<page, web, goBack, commits, painted, pix, adapter, toAdapter, toServer>>
-----------------------------------------------------------------------------
(* The adapter (external).                                                 *)
Send(call) == toServer' = IF alive THEN Append(toServer, call) ELSE toServer

Attach ==
  /\ known = {}
  /\ attaches < MaxAttaches
  /\ attaches' = attaches + 1
  /\ known' = {attaches'} \X Bufs
  /\ Send([op |-> "attach", keys |-> [b \in Bufs |-> <<attaches', b>>]])
  /\ UNCHANGED <<page, webkit, painted, pix, shown, toAdapter>>

Show ==
  /\ toAdapter # <<>>
  /\ toAdapter' = Tail(toAdapter)
  /\ \/ /\ Head(toAdapter) \in known
        /\ shown' = Head(toAdapter)
        /\ IF shown # NoKey THEN Send([op |-> "return", key |-> shown])
                            ELSE UNCHANGED toServer
     \/ /\ Head(toAdapter) \notin known
        /\ Send([op |-> "return", key |-> Head(toAdapter)]) \/ UNCHANGED toServer
        /\ UNCHANGED shown
  /\ UNCHANGED <<page, webkit, painted, pix, known, attaches>>

Background ==
  /\ known # {}
  /\ known' = {}
  /\ shown' = NoKey
  /\ Send([op |-> "freeze"])
  /\ UNCHANGED <<page, webkit, painted, pix, attaches, toAdapter>>
-----------------------------------------------------------------------------
Next ==
  \/ OnFrameDrop \/ OnFramePaint
  \/ CommitHistory \/ CommitBlank \/ CommitHeld
  \/ PageBackward
  \/ AttachToBuffer \/ BufferReturned \/ Freeze
  \/ SetWindowSize
  \/ Destroy
  \/ \E way \in Ways : Navigate(way)
  \/ Render
  \/ Attach \/ Show \/ Background

Serve == AttachToBuffer \/ BufferReturned \/ Freeze
Deliver == OnFrameDrop \/ OnFramePaint
Commit == CommitHistory \/ CommitBlank \/ CommitHeld

Spec == Init /\ [][Next]_vars

(* Both ends of the connection read it, the main loop takes frames and     *)
(* delivers WebKit's signals.  Nothing obliges a page to render.           *)
LiveSpec ==
  Spec /\ WF_vars(Serve) /\ WF_vars(Show) /\ WF_vars(Deliver) /\ WF_vars(Commit)
-----------------------------------------------------------------------------
(* While both buffers are attached and the adapter uses them, each is in   *)
(* exactly one place: free, painted and on its way, on screen, or on its   *)
(* way back.  None is lost, none is held twice.                            *)
Backlog(k) == Cardinality({i \in DOMAIN toServer : toServer[i] = [op |-> "return", key |-> k]})
OnePlace ==
  \A b \in Bufs : Attached /\ off[b] \in known =>
    Cardinality({i \in DOMAIN toAdapter : toAdapter[i] = off[b]})
      + Backlog(off[b])
      + (IF own[b] THEN 1 ELSE 0)
      + (IF shown = off[b] THEN 1 ELSE 0) = 1

(* What is on screen is never painted over.                                *)
NeverPaintedOver ==
  [][shown # NoKey /\ shown' = shown => pix'[shown] = pix[shown]]_vars

(* The screen never goes back to an earlier picture.                       *)
NeverBackwards ==
  [][shown # NoKey /\ shown' \notin {NoKey, shown}
       => pix[shown'].stamp > pix[shown].stamp]_vars

(* A page whose two buffers are both out gets one back, unless the adapter *)
(* freezes it or it is destroyed.                                          *)
Out == Attached /\ NoneFree
BufferComesBack == Out ~> ~Out

(* "No stale last-page during load / on blank": once a load (not a step    *)
(* through the history) has committed, the screen comes to show that page, *)
(* or white, or a later page is committed.                                 *)
Stale == /\ alive
         /\ gen.way = "load"
         /\ shown # NoKey
         /\ pix[shown].of < gen.page
NoStalePage == \A p \in 1 .. MaxNavs : (gen.page = p /\ Stale) ~> ~(gen.page = p /\ Stale)
=============================================================================
