--------------------------- MODULE MediadHandoff ---------------------------
(***************************************************************************)
(* The hand-off of a full-screen video to the system media server          *)
(* (BrowserPageWPE::mediadBegin .. mediadEnd).  Several pages share one    *)
(* hardware decoder, claimed with the global g_mediadBusy; a page that     *)
(* enters full screen takes the video out of its document, shrinks its     *)
(* surface, waits, opens a session, loads, waits, and plays; one that      *)
(* leaves takes everything back.                                           *)
(*                                                                         *)
(* Timers fire in any order and results come at any time.  The opt-in      *)
(* file /tmp/atlas_mediad is there; whether the bus can be called at all   *)
(* is settled at the start, and calls on an open session succeed.          *)
(***************************************************************************)
EXTENDS Integers, FiniteSets

CONSTANTS
  Pages,        \* BrowserPageWPE objects, one per card
  Sessions,     \* tokens of playback calls, one per session mediad opens
  NoSession,    \* an empty m_mediadSubToken or m_mediadLoc
  MaxEnters     \* bound: times each page enters full screen

ASSUME SessionAssumption == NoSession \notin Sessions
ASSUME EnterAssumption   == MaxEnters \in [Pages -> Nat]

VARIABLES
  alive,        \* the page is in g_livePages
  fs,           \* its document has a full-screen element
  fsPending,    \* m_fsPending
  waits,        \* timers it has queued, by the callback they are for
  busy,         \* g_mediadBusy
  asked,        \* its evaluations whose onFsVideoInfo has not run
  active,       \* m_mediadActive
  sub,          \* m_mediadSubToken
  loc,          \* m_mediadLoc
  calls,        \* m_mediadCallTokens: the control calls mediad holds for it
  small,        \* its surface has the size mediadFreeSurface gave it
  saved,        \* m_mediadSavedW, H: nothing, the page's size or the small one
  src,          \* m_mediadSrc is set
  video,        \* its <video> has a source, and so may have the decoder
  opened,       \* sessions mediad has open, with the page each is of
  refused,      \* those it has answered without a location
  bus,          \* BrowserServer has handles, and LSCall succeeds
  enters,       \* full-screen entries so far
  freed         \* a timer has read a page that was destroyed

fullscreen == <<fs, fsPending, enters>>
handoff == <<active, sub, loc, calls>>
surface == <<small, saved>>
vars == <<alive, fullscreen, waits, busy, asked, handoff, surface, src, video,
          opened, refused, bus, freed>>
-----------------------------------------------------------------------------
Timers == {"begin", "open", "play"}
Methods == {"load", "play", "unload"}
Wait(p, t) == waits' = [waits EXCEPT ![p][t] = @ + 1]
Waited(p, t) == waits[p][t] > 0 /\ waits' = [waits EXCEPT ![p][t] = @ - 1]
SessionsOf(p) == {s \in DOMAIN opened : opened[s] = p}

TypeOK ==
  /\ {alive, fs, fsPending, active, small, src, video} \subseteq [Pages -> BOOLEAN]
  /\ busy \in BOOLEAN /\ bus \in BOOLEAN /\ freed \in BOOLEAN
  /\ waits \in [Pages -> [Timers -> Nat]]
  /\ asked \in [Pages -> Nat]
  /\ enters \in [Pages -> Nat] /\ \A p \in Pages : enters[p] <= MaxEnters[p]
  /\ sub \in [Pages -> Sessions \cup {NoSession}]
  /\ loc \in [Pages -> Sessions \cup {NoSession}]
  /\ calls \in [Pages -> SUBSET (Methods \X Sessions)]
  /\ saved \in [Pages -> {"none", "full", "small"}]
  /\ \E S \in SUBSET Sessions : opened \in [S -> Pages]
  /\ refused \subseteq Sessions

Init ==
  /\ alive = [p \in Pages |-> TRUE] /\ video = [p \in Pages |-> TRUE]
  /\ fs = [p \in Pages |-> FALSE] /\ fsPending = fs /\ active = fs
  /\ small = fs /\ src = fs /\ busy = FALSE /\ freed = FALSE
  /\ waits = [p \in Pages |-> [t \in Timers |-> 0]]
  /\ asked = [p \in Pages |-> 0] /\ enters = asked
  /\ sub = [p \in Pages |-> NoSession] /\ loc = sub
  /\ calls = [p \in Pages |-> {}] /\ saved = [p \in Pages |-> "none"]
  /\ opened = [s \in {} |-> CHOOSE p \in Pages : TRUE]
  /\ refused = {} /\ bus \in BOOLEAN
-----------------------------------------------------------------------------
(* Helpers that a handler calls.                                            *)

(* mediadFreeSurface: the size is saved once, however often it shrinks.     *)
FreeSurfaceAlways(p) ==
  /\ saved' = [saved EXCEPT ![p] = IF small[p] THEN "small" ELSE "full"]
  /\ small' = [small EXCEPT ![p] = TRUE]
FreeSurface(p) ==
  /\ saved' = [saved EXCEPT ![p] = IF @ # "none" THEN @
                                   ELSE IF small[p] THEN "small" ELSE "full"]
  /\ small' = [small EXCEPT ![p] = TRUE]

(* mediadRestoreSurface                                                     *)
RestoreSurface(p) ==
  IF saved[p] = "none" THEN UNCHANGED surface
  ELSE /\ small' = [small EXCEPT ![p] = saved[p] = "small"]
       /\ saved' = [saved EXCEPT ![p] = "none"]

(* mediadCall: mediad ties the pipeline to the call it holds, so the token  *)
(* is kept until mediadEnd cancels it.                                      *)
Held(p, s, methods) ==
  IF s = NoSession THEN calls[p] ELSE calls[p] \cup (methods \X {s})

(* mediadEnd.  unload is called and cancelled with the others; the session  *)
(* cancelled is that of the last playback call.                             *)
EndForgetsLoc(p) ==
  /\ calls' = [calls EXCEPT ![p] = {}]
  /\ opened' = [s \in DOMAIN opened \ {sub[p]} |-> opened[s]]
  /\ sub' = [sub EXCEPT ![p] = NoSession]
  /\ active' = [active EXCEPT ![p] = FALSE] /\ busy' = FALSE
  /\ RestoreSurface(p)
  /\ video' = [video EXCEPT ![p] = @ \/ src[p]]
  /\ src' = [src EXCEPT ![p] = FALSE] /\ UNCHANGED loc
End(p) ==
  /\ calls' = [calls EXCEPT ![p] = {}]
  /\ opened' = [s \in DOMAIN opened \ {sub[p]} |-> opened[s]]
  /\ sub' = [sub EXCEPT ![p] = NoSession] /\ loc' = [loc EXCEPT ![p] = NoSession]
  /\ active' = [active EXCEPT ![p] = FALSE] /\ busy' = FALSE
  /\ RestoreSurface(p)
  /\ video' = [video EXCEPT ![p] = @ \/ src[p]]   \* its src is set, and it plays
  /\ src' = [src EXCEPT ![p] = FALSE]
-----------------------------------------------------------------------------
(* What WebKit signals, and the timer that takes it out of its state machine *)

EnterFullscreen(p) ==
  /\ alive[p] /\ ~fs[p] /\ enters[p] < MaxEnters[p]
  /\ fs' = [fs EXCEPT ![p] = TRUE] /\ fsPending' = [fsPending EXCEPT ![p] = TRUE]
  /\ enters' = [enters EXCEPT ![p] = @ + 1] /\ Wait(p, "begin")
  /\ UNCHANGED <<alive, busy, asked, handoff, surface, src, video, opened, refused, bus, freed>>

LeaveFullscreen(p) ==
  /\ alive[p] /\ fs[p]
  /\ fs' = [fs EXCEPT ![p] = FALSE] /\ fsPending' = [fsPending EXCEPT ![p] = FALSE]
  /\ IF active[p] THEN End(p)
                  ELSE UNCHANGED <<busy, handoff, surface, src, video, opened>>
  /\ UNCHANGED <<alive, enters, waits, asked, refused, bus, freed>>

(* The timer of enter-fullscreen: mediadBegin, unless a page has the        *)
(* decoder.  It does not ask whether its page is still there (nor does the  *)
(* one set without the opt-in file): reading one that is not may do         *)
(* anything, here nothing or the end of the process.                        *)
BeginTimerAnyway(p) ==
  /\ Waited(p, "begin")
  /\ alive[p]
  /\ fsPending' = [fsPending EXCEPT ![p] = FALSE]
  /\ IF fsPending[p] /\ ~active[p]
       THEN busy' = TRUE /\ asked' = [asked EXCEPT ![p] = @ + 1]
       ELSE UNCHANGED <<busy, asked>>
  /\ UNCHANGED <<alive, fs, enters, handoff, surface, src, video, opened, refused, bus, freed>>
BeginTimer(p) ==
  /\ Waited(p, "begin")
  /\ alive[p]
  /\ fsPending' = [fsPending EXCEPT ![p] = FALSE]
  /\ IF fsPending[p] /\ ~active[p] /\ ~busy
       THEN busy' = TRUE /\ asked' = [asked EXCEPT ![p] = @ + 1]
       ELSE UNCHANGED <<busy, asked>>
  /\ UNCHANGED <<alive, fs, enters, handoff, surface, src, video, opened, refused, bus, freed>>

BeginTimerFreed(p) ==
  /\ ~alive[p] /\ Waited(p, "begin") /\ freed' \in {freed, TRUE}
  /\ UNCHANGED <<alive, fullscreen, busy, asked, handoff, surface, src, video, opened, refused, bus>>

(* onFsVideoInfo.  The script takes a video's source away before anyone     *)
(* knows whether mediad can play it.                                        *)
VideoInfo(p, answer) ==
  /\ asked[p] > 0 /\ asked' = [asked EXCEPT ![p] = @ - 1]
  /\ video' = [video EXCEPT ![p] = @ /\ answer \in {"none", "failed"}]
  /\ IF ~alive[p] \/ answer = "failed"
       THEN UNCHANGED <<busy, active, src, surface, waits>>
     ELSE IF answer \in {"none", "blob"}
       THEN busy' = FALSE /\ UNCHANGED <<active, src, surface, waits>>
     ELSE /\ src' = [src EXCEPT ![p] = TRUE] /\ active' = [active EXCEPT ![p] = TRUE]
          /\ FreeSurface(p) /\ Wait(p, "open") /\ UNCHANGED busy
  /\ UNCHANGED <<alive, fullscreen, sub, loc, calls, opened, refused, bus, freed>>

(* mediadOpenSession                                                        *)
OpenTimer(p) ==
  /\ Waited(p, "open")
  /\ IF ~alive[p] \/ ~active[p] THEN UNCHANGED <<busy, active, sub, opened, refused>>
     ELSE IF ~bus
       THEN /\ active' = [active EXCEPT ![p] = FALSE] /\ busy' = FALSE
            /\ UNCHANGED <<sub, opened, refused>>
     ELSE \E s \in Sessions \ DOMAIN opened :
            /\ opened' = [t \in DOMAIN opened \cup {s} |-> IF t = s THEN p ELSE opened[t]]
            /\ sub' = [sub EXCEPT ![p] = s] /\ refused' = refused \ {s}
            /\ UNCHANGED <<busy, active>>
  /\ UNCHANGED <<alive, fullscreen, asked, loc, calls, surface, src, video, bus, freed>>

(* mediad answers a playback call, as often as it likes while it is         *)
(* subscribed to: onMediadPlayback takes the first.                         *)
PlaybackReply(s) ==
  LET p == opened[s] IN
  /\ s \in DOMAIN opened /\ alive[p] /\ loc[p] = NoSession
  /\ loc' = [loc EXCEPT ![p] = s]
  /\ calls' = [calls EXCEPT ![p] = Held(p, s, {"load"})]
  /\ Wait(p, "play")
  /\ UNCHANGED <<alive, fullscreen, busy, asked, active, sub, surface, src, video, opened, refused, bus, freed>>

(* ... unless it has no location, or an empty one.                          *)
PlaybackRefusal(s) ==
  /\ s \in DOMAIN opened \ refused
  /\ refused' = refused \cup {s}
  /\ UNCHANGED <<alive, fullscreen, waits, busy, asked, handoff, surface, src, video, opened, bus, freed>>

(* mediadFirePlay: bounds, fit, seek and play                               *)
PlayTimer(p) ==
  /\ Waited(p, "play")
  /\ calls' = [calls EXCEPT ![p] = IF alive[p] /\ active[p] THEN Held(p, loc[p], {"play"}) ELSE @]
  /\ UNCHANGED <<alive, fullscreen, busy, asked, active, sub, loc, surface, src, video, opened, refused, bus, freed>>

(* ~BrowserPageWPE: nothing of the hand-off is undone.                      *)
Destroy(p) ==
  /\ alive[p] /\ alive' = [alive EXCEPT ![p] = FALSE] /\ fs' = [fs EXCEPT ![p] = FALSE]
  /\ UNCHANGED <<fsPending, enters, waits, busy, asked, handoff, surface, src, video, opened, refused, bus, freed>>
-----------------------------------------------------------------------------
Answers == {"none", "blob", "direct", "failed"}
Timed(p) == BeginTimer(p) \/ OpenTimer(p) \/ PlayTimer(p)
Step == \/ \E p \in Pages : \/ EnterFullscreen(p) \/ LeaveFullscreen(p) \/ Destroy(p)
                            \/ BeginTimerFreed(p) \/ Timed(p)
                            \/ \E a \in Answers : VideoInfo(p, a)
        \/ \E s \in Sessions : PlaybackReply(s) \/ PlaybackRefusal(s)
Next == ~freed /\ Step

(* Timers fire, evaluations end and mediad answers, if not with a location; *)
(* no page has to enter or leave full screen.                               *)
Fairness ==
  /\ \A p \in Pages : /\ WF_vars(~freed /\ Timed(p))
                      /\ WF_vars(~freed /\ \E a \in Answers : VideoInfo(p, a))
  /\ \A s \in Sessions : WF_vars(~freed /\ s \notin refused /\ PlaybackReply(s))

Spec == Init /\ [][Next]_vars /\ Fairness
-----------------------------------------------------------------------------
(* At most one page has a claim on the decoder, even one that was closed:   *)
(* the question it asked its document, or the hand-off under way.  While    *)
(* one has, g_mediadBusy keeps every other out.                             *)
Claims(p) == asked[p] > 0 \/ active[p]
OneDecoder ==
  /\ \A p, q \in Pages : Claims(p) /\ Claims(q) => p = q
  /\ \A p \in Pages : Claims(p) => busy /\ asked[p] <= 1 /\ (asked[p] = 0 \/ ~active[p])

(* mediadRestoreSurface never gives a page the small surface for its own,   *)
(* whatever hand-offs failed before: the size that is saved is the page's.  *)
SavedIsFull == \A p \in Pages : saved[p] # "small" /\ (small[p] <=> saved[p] = "full")

(* No page is handed a session that it then ignores: a hand-off that is     *)
(* under way plays, unless it ends, its session is answered without a       *)
(* location, or the page has a second one open (left and entered within     *)
(* 900 ms, when the token of the first is overwritten).                     *)
Disturbed(p) == Cardinality(SessionsOf(p)) > 1 \/ SessionsOf(p) \cap refused # {}
HandoffPlays == \A p \in Pages :
  active[p] ~> \/ \E s \in SessionsOf(p) : {<<"load", s>>, <<"play", s>>} \subseteq calls[p]
               \/ Disturbed(p)
               \/ ~active[p] \/ ~alive[p] \/ freed

(* On leave-fullscreen the <video> resumes and the page has its surface     *)
(* back (the comment above mediadBegin).                                    *)
LeaveResumes == \A p \in Pages :
  ~fs[p] ~> (video[p] /\ ~small[p]) \/ fs[p] \/ ~alive[p] \/ freed
=============================================================================
