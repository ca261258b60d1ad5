------------------------- MODULE MediadHandoffProofs -------------------------
(***************************************************************************)
(* The hand-off of full-screen video, for any number of pages, sessions    *)
(* and full-screen entries: one page at a time has a claim on the decoder, *)
(* and the surface that is given back is always the page's own.            *)
(***************************************************************************)
EXTENDS MediadHandoff, TLAPS

(* What a timer that is queued or fires does to the waits.                  *)
LEMMA WaitType ==
  ASSUME TypeOK, NEW p \in Pages, NEW t \in Timers, Wait(p, t) \/ Waited(p, t)
  PROVE  waits' \in [Pages -> [Timers -> Nat]]
<1>1. waits[p] \in [Timers -> Nat] /\ waits[p][t] \in Nat
  BY DEF TypeOK
<1>2. CASE Wait(p, t)
  BY <1>1, <1>2 DEF TypeOK, Wait
<1>3. CASE Waited(p, t)
  BY <1>1, <1>3 DEF TypeOK, Waited
<1> QED BY <1>2, <1>3

(* Sessions are opened and cancelled one by one.                            *)
LEMMA OpenedType ==
  ASSUME TypeOK, NEW p \in Pages, NEW s \in Sessions
  PROVE  /\ \E S \in SUBSET Sessions : [t \in DOMAIN opened \ {sub[p]} |-> opened[t]] \in [S -> Pages]
         /\ \E S \in SUBSET Sessions :
              [t \in DOMAIN opened \cup {s} |-> IF t = s THEN p ELSE opened[t]] \in [S -> Pages]
<1>1. PICK S \in SUBSET Sessions : opened \in [S -> Pages]
  BY DEF TypeOK
<1>2. DOMAIN opened = S
  BY <1>1
<1>3. [t \in S \ {sub[p]} |-> opened[t]] \in [S \ {sub[p]} -> Pages]
  BY <1>1
<1>4. [t \in S \cup {s} |-> IF t = s THEN p ELSE opened[t]] \in [S \cup {s} -> Pages]
  BY <1>1
<1>5. S \ {sub[p]} \in SUBSET Sessions /\ S \cup {s} \in SUBSET Sessions
  OBVIOUS
<1> QED BY <1>2, <1>3, <1>4, <1>5

(* mediadFreeSurface and mediadRestoreSurface.                              *)
LEMMA SurfaceType ==
  ASSUME TypeOK, NEW p \in Pages,
         FreeSurface(p) \/ RestoreSurface(p) \/ UNCHANGED surface
  PROVE  small' \in [Pages -> BOOLEAN] /\ saved' \in [Pages -> {"none", "full", "small"}]
<1>1. CASE FreeSurface(p)
  BY <1>1 DEF TypeOK, FreeSurface
<1>2. CASE RestoreSurface(p)
  BY <1>2 DEF TypeOK, RestoreSurface, surface
<1>3. CASE UNCHANGED surface
  BY <1>3 DEF TypeOK, surface
<1> QED BY <1>1, <1>2, <1>3

(* The calls a page holds with one more session.                            *)
LEMMA HeldType ==
  ASSUME TypeOK, NEW p \in Pages, NEW s \in Sessions \cup {NoSession},
         NEW methods \in SUBSET Methods
  PROVE  Held(p, s, methods) \in SUBSET (Methods \X Sessions)
BY DEF TypeOK, Held

LEMMA EndType ==
  ASSUME TypeOK, NEW p \in Pages, End(p)
  PROVE  /\ busy' \in BOOLEAN
         /\ {active, small, src, video}' \subseteq [Pages -> BOOLEAN]
         /\ sub' \in [Pages -> Sessions \cup {NoSession}]
         /\ loc' \in [Pages -> Sessions \cup {NoSession}]
         /\ calls' \in [Pages -> SUBSET (Methods \X Sessions)]
         /\ saved' \in [Pages -> {"none", "full", "small"}]
         /\ \E S \in SUBSET Sessions : opened' \in [S -> Pages]
<1>1. small' \in [Pages -> BOOLEAN] /\ saved' \in [Pages -> {"none", "full", "small"}]
  BY SurfaceType DEF End
<1>2. \E S \in SUBSET Sessions : opened' \in [S -> Pages]
  <2>1. PICK S \in SUBSET Sessions : opened \in [S -> Pages]
    BY DEF TypeOK
  <2>2. opened' = [t \in S \ {sub[p]} |-> opened[t]]
    BY <2>1 DEF End
  <2> QED BY <2>1, <2>2
<1>3. active' \in [Pages -> BOOLEAN] /\ src' \in [Pages -> BOOLEAN] /\ busy' \in BOOLEAN
  BY DEF TypeOK, End
<1>4. video' \in [Pages -> BOOLEAN]
  BY DEF TypeOK, End
<1>5. /\ sub' \in [Pages -> Sessions \cup {NoSession}]
      /\ loc' \in [Pages -> Sessions \cup {NoSession}]
      /\ calls' \in [Pages -> SUBSET (Methods \X Sessions)]
  BY DEF TypeOK, End
<1> QED BY <1>1, <1>2, <1>3, <1>4, <1>5
-----------------------------------------------------------------------------
LEMMA TypeInit == Init => TypeOK
<1> SUFFICES ASSUME Init
             PROVE  TypeOK
  OBVIOUS
<1>1. {alive, fs, fsPending, active, small, src, video} \subseteq [Pages -> BOOLEAN]
  BY DEF Init
<1>2. busy \in BOOLEAN /\ bus \in BOOLEAN /\ freed \in BOOLEAN
  BY DEF Init
<1>3. waits \in [Pages -> [Timers -> Nat]]
  BY DEF Init
<1>4. /\ asked \in [Pages -> Nat] /\ refused \subseteq Sessions
      /\ enters \in [Pages -> Nat] /\ \A p \in Pages : enters[p] <= MaxEnters[p]
  BY EnterAssumption DEF Init
<1>5. /\ sub \in [Pages -> Sessions \cup {NoSession}]
      /\ loc \in [Pages -> Sessions \cup {NoSession}]
      /\ calls \in [Pages -> SUBSET (Methods \X Sessions)]
      /\ saved \in [Pages -> {"none", "full", "small"}]
  BY DEF Init
<1>6. opened \in [{} -> Pages] /\ {} \in SUBSET Sessions
  BY DEF Init
<1> QED BY <1>1, <1>2, <1>3, <1>4, <1>5, <1>6 DEF TypeOK

LEMMA TypeStep == TypeOK /\ [Next]_vars => TypeOK'
<1> SUFFICES ASSUME TypeOK, [Next]_vars
             PROVE  TypeOK'
  OBVIOUS
<1>1. ASSUME NEW p \in Pages, EnterFullscreen(p)
      PROVE  TypeOK'
  <2>1. waits' \in [Pages -> [Timers -> Nat]]
    BY <1>1, WaitType DEF EnterFullscreen, Timers
  <2>2. enters' \in [Pages -> Nat] /\ \A q \in Pages : enters'[q] <= MaxEnters[q]
    <3>1. /\ enters' = [enters EXCEPT ![p] = enters[p] + 1] /\ enters[p] < MaxEnters[p]
          /\ enters \in [Pages -> Nat] /\ \A q \in Pages : enters[q] <= MaxEnters[q]
      BY <1>1 DEF EnterFullscreen, TypeOK
    <3>2. enters[p] \in Nat /\ MaxEnters[p] \in Nat
      BY <3>1, EnterAssumption, Zenon
    <3>3. \A m, n \in Nat : n < m => n + 1 <= m /\ n + 1 \in Nat
      OBVIOUS
    <3>4. enters[p] + 1 <= MaxEnters[p] /\ enters[p] + 1 \in Nat
      BY <3>1, <3>2, <3>3
    <3> QED
      BY <3>1, <3>4
  <2>3. fs' \in [Pages -> BOOLEAN] /\ fsPending' \in [Pages -> BOOLEAN]
    BY <1>1 DEF EnterFullscreen, TypeOK
  <2> QED
    BY <1>1, <2>1, <2>2, <2>3 DEF EnterFullscreen, TypeOK, handoff, surface
<1>2. ASSUME NEW p \in Pages, LeaveFullscreen(p)
      PROVE  TypeOK'
  <2>1. fs' \in [Pages -> BOOLEAN] /\ fsPending' \in [Pages -> BOOLEAN]
    BY <1>2 DEF LeaveFullscreen, TypeOK
  <2>2. UNCHANGED <<alive, enters, waits, asked, refused, bus, freed>>
    BY <1>2 DEF LeaveFullscreen
  <2>3. CASE active[p]
    <3>1. End(p)
      BY <1>2, <2>3 DEF LeaveFullscreen
    <3> QED BY <2>1, <2>2, <3>1, EndType DEF TypeOK
  <2>4. CASE ~active[p]
    <3>1. UNCHANGED <<busy, handoff, surface, src, video, opened>>
      BY <1>2, <2>4 DEF LeaveFullscreen
    <3> QED BY <2>1, <2>2, <3>1 DEF TypeOK, handoff, surface
  <2> QED BY <2>3, <2>4
<1>3. ASSUME NEW p \in Pages, BeginTimer(p)
      PROVE  TypeOK'
  <2>1. waits' \in [Pages -> [Timers -> Nat]]
    BY <1>3, WaitType DEF BeginTimer, Timers
  <2>2. fsPending' \in [Pages -> BOOLEAN] /\ asked' \in [Pages -> Nat]
    <3>1. fsPending' \in [Pages -> BOOLEAN]
      BY <1>3 DEF BeginTimer, TypeOK
    <3>2. asked' = asked \/ asked' = [asked EXCEPT ![p] = @ + 1]
      BY <1>3 DEF BeginTimer
    <3> QED BY <3>1, <3>2 DEF TypeOK
  <2>3. busy' \in BOOLEAN
    BY <1>3 DEF BeginTimer, TypeOK
  <2> QED
    BY <1>3, <2>1, <2>2, <2>3 DEF BeginTimer, TypeOK, handoff, surface
<1>4. ASSUME NEW p \in Pages, BeginTimerFreed(p)
      PROVE  TypeOK'
  <2>1. waits' \in [Pages -> [Timers -> Nat]]
    BY <1>4, WaitType DEF BeginTimerFreed, Timers
  <2>2. freed' \in BOOLEAN
    BY <1>4 DEF BeginTimerFreed, TypeOK
  <2> QED
    BY <1>4, <2>1, <2>2 DEF BeginTimerFreed, TypeOK, handoff, surface, fullscreen
<1>5. ASSUME NEW p \in Pages, NEW answer \in Answers, VideoInfo(p, answer)
      PROVE  TypeOK'
  <2>1. asked' \in [Pages -> Nat]
    BY <1>5 DEF VideoInfo, TypeOK
  <2>2. video' \in [Pages -> BOOLEAN]
    BY <1>5 DEF VideoInfo, TypeOK
  <2>3. UNCHANGED <<alive, fullscreen, sub, loc, calls, opened, refused, bus, freed>>
    BY <1>5 DEF VideoInfo
  <2>4. CASE ~alive[p] \/ answer \in {"failed", "none", "blob"}
    <3>1. UNCHANGED <<active, src, surface, waits>> /\ busy' \in {busy, FALSE}
      BY <1>5, <2>4 DEF VideoInfo
    <3>2. busy' \in BOOLEAN
      BY <3>1 DEF TypeOK
    <3> QED BY <2>1, <2>2, <2>3, <3>1, <3>2 DEF TypeOK, fullscreen, surface
  <2>5. CASE ~(~alive[p] \/ answer \in {"failed", "none", "blob"})
    <3>1. /\ src' = [src EXCEPT ![p] = TRUE] /\ active' = [active EXCEPT ![p] = TRUE]
          /\ FreeSurface(p) /\ Wait(p, "open") /\ UNCHANGED busy
      BY <1>5, <2>5 DEF VideoInfo
    <3>2. waits' \in [Pages -> [Timers -> Nat]]
      BY <3>1, WaitType DEF Timers
    <3>3. small' \in [Pages -> BOOLEAN] /\ saved' \in [Pages -> {"none", "full", "small"}]
      BY <3>1, SurfaceType
    <3>4. active' \in [Pages -> BOOLEAN] /\ src' \in [Pages -> BOOLEAN]
      BY <3>1 DEF TypeOK
    <3> QED BY <2>1, <2>2, <2>3, <3>1, <3>2, <3>3, <3>4 DEF TypeOK, fullscreen
  <2> QED BY <2>4, <2>5
<1>6. ASSUME NEW p \in Pages, OpenTimer(p)
      PROVE  TypeOK'
  <2>1. waits' \in [Pages -> [Timers -> Nat]]
    BY <1>6, WaitType DEF OpenTimer, Timers
  <2>2. UNCHANGED <<alive, fullscreen, asked, loc, calls, surface, src, video, bus, freed>>
    BY <1>6 DEF OpenTimer
  <2>3. CASE ~alive[p] \/ ~active[p]
    BY <1>6, <2>1, <2>2, <2>3 DEF OpenTimer, TypeOK, fullscreen, surface
  <2>4. CASE alive[p] /\ active[p] /\ ~bus
    <3>1. active' = [active EXCEPT ![p] = FALSE] /\ busy' = FALSE /\ UNCHANGED <<sub, opened, refused>>
      BY <1>6, <2>4 DEF OpenTimer
    <3>2. active' \in [Pages -> BOOLEAN] /\ busy' \in BOOLEAN
      BY <3>1 DEF TypeOK
    <3> QED BY <2>1, <2>2, <3>1, <3>2 DEF TypeOK, fullscreen, surface
  <2>5. CASE alive[p] /\ active[p] /\ bus
    <3>1. PICK s \in Sessions \ DOMAIN opened :
            /\ opened' = [t \in DOMAIN opened \cup {s} |-> IF t = s THEN p ELSE opened[t]]
            /\ sub' = [sub EXCEPT ![p] = s] /\ refused' = refused \ {s}
            /\ UNCHANGED <<busy, active>>
      BY <1>6, <2>5 DEF OpenTimer
    <3>2. \E S \in SUBSET Sessions : opened' \in [S -> Pages]
      BY <3>1, OpenedType
    <3>3. sub' \in [Pages -> Sessions \cup {NoSession}]
      BY <3>1 DEF TypeOK
    <3> QED BY <2>1, <2>2, <3>1, <3>2, <3>3 DEF TypeOK, fullscreen, surface
  <2> QED BY <2>3, <2>4, <2>5
<1>7. ASSUME NEW s \in Sessions, PlaybackReply(s)
      PROVE  TypeOK'
  <2> DEFINE p == opened[s]
  <2>1. p \in Pages
    BY <1>7 DEF PlaybackReply, TypeOK
  <2>2. /\ loc' = [loc EXCEPT ![p] = s]
        /\ calls' = [calls EXCEPT ![p] = Held(p, s, {"load"})]
        /\ Wait(p, "play")
        /\ UNCHANGED <<alive, fullscreen, busy, asked, active, sub, surface, src, video,
                       opened, refused, bus, freed>>
    BY <1>7 DEF PlaybackReply
  <2> HIDE DEF p
  <2>3. waits' \in [Pages -> [Timers -> Nat]]
    BY <2>1, <2>2, WaitType DEF Timers
  <2>4. Held(p, s, {"load"}) \in SUBSET (Methods \X Sessions)
    BY <2>1, HeldType DEF Methods
  <2>5. /\ calls' \in [Pages -> SUBSET (Methods \X Sessions)]
        /\ loc' \in [Pages -> Sessions \cup {NoSession}]
    BY <2>1, <2>2, <2>4 DEF TypeOK
  <2> QED BY <2>2, <2>3, <2>5 DEF TypeOK, fullscreen, surface
<1>8. ASSUME NEW p \in Pages, PlayTimer(p)
      PROVE  TypeOK'
  <2>1. waits' \in [Pages -> [Timers -> Nat]]
    BY <1>8, WaitType DEF PlayTimer, Timers
  <2>2. Held(p, loc[p], {"play"}) \in SUBSET (Methods \X Sessions)
    BY HeldType DEF TypeOK, Methods
  <2>3. calls' \in [Pages -> SUBSET (Methods \X Sessions)]
    BY <1>8, <2>2 DEF PlayTimer, TypeOK
  <2> QED BY <1>8, <2>1, <2>3 DEF PlayTimer, TypeOK, fullscreen, surface
<1>9. ASSUME NEW p \in Pages, Destroy(p)
      PROVE  TypeOK'
  <2>1. alive' \in [Pages -> BOOLEAN] /\ fs' \in [Pages -> BOOLEAN]
    BY <1>9 DEF Destroy, TypeOK
  <2> QED BY <1>9, <2>1 DEF Destroy, TypeOK, handoff, surface
<1>10. CASE UNCHANGED vars
  BY <1>10 DEF vars, TypeOK, fullscreen, handoff, surface
<1>11. ASSUME NEW s \in Sessions, PlaybackRefusal(s)
       PROVE  TypeOK'
  BY <1>11 DEF PlaybackRefusal, TypeOK, fullscreen, handoff, surface
<1> QED
  BY <1>1, <1>2, <1>3, <1>4, <1>5, <1>6, <1>7, <1>8, <1>9, <1>10, <1>11 DEF Next, Step, Timed

(* Every reachable state of the hand-off is well typed, the sessions mediad *)
(* has open and the calls it holds among it.                                *)
THEOREM TypeCorrect == Spec => []TypeOK
BY TypeInit, TypeStep, PTL DEF Spec
-----------------------------------------------------------------------------
(* A step that asks nothing and starts nothing keeps the claims as they     *)
(* are, and so does one that ends the only claim with the flag.             *)
LEMMA NoNewClaim ==
  ASSUME TypeOK, OneDecoder, UNCHANGED <<asked, active, busy>>
  PROVE  OneDecoder'
BY DEF OneDecoder, Claims

LEMMA ClaimEnds ==
  ASSUME TypeOK, OneDecoder, NEW p \in Pages, Claims(p),
         \A q \in Pages : q # p => asked'[q] = asked[q] /\ active'[q] = active[q],
         asked'[p] = 0, active'[p] = FALSE
  PROVE  OneDecoder'
<1>1. \A q \in Pages : q # p => ~Claims(q)
  BY DEF OneDecoder
<1>2. \A q \in Pages : ~Claims(q)'
  BY <1>1 DEF Claims
<1> QED BY <1>2 DEF OneDecoder

LEMMA DecoderStep == TypeOK /\ OneDecoder /\ [Next]_vars => OneDecoder'
<1> SUFFICES ASSUME TypeOK, OneDecoder, [Next]_vars
             PROVE  OneDecoder'
  OBVIOUS
<1>1. ASSUME NEW p \in Pages,
             EnterFullscreen(p) \/ BeginTimerFreed(p) \/ PlayTimer(p) \/ Destroy(p)
      PROVE  OneDecoder'
  <2>1. UNCHANGED <<asked, active, busy>>
    BY <1>1 DEF EnterFullscreen, BeginTimerFreed, PlayTimer, Destroy, handoff
  <2> QED BY <2>1, NoNewClaim
<1>2. ASSUME NEW p \in Pages, LeaveFullscreen(p)
      PROVE  OneDecoder'
  <2>1. CASE active[p]
    <3>1. active' = [active EXCEPT ![p] = FALSE] /\ asked' = asked
      BY <1>2, <2>1 DEF LeaveFullscreen, End
    <3>2. Claims(p) /\ asked[p] = 0
      BY <2>1 DEF OneDecoder, Claims, TypeOK
    <3>3. active'[p] = FALSE /\ \A q \in Pages : q # p => active'[q] = active[q]
      BY <3>1 DEF TypeOK
    <3> QED BY <3>1, <3>2, <3>3, ClaimEnds
  <2>2. CASE ~active[p]
    <3>1. UNCHANGED <<asked, active, busy>>
      BY <1>2, <2>2 DEF LeaveFullscreen, handoff
    <3> QED BY <3>1, NoNewClaim
  <2> QED BY <2>1, <2>2
<1>3. ASSUME NEW p \in Pages, BeginTimer(p)
      PROVE  OneDecoder'
  <2>1. CASE fsPending[p] /\ ~active[p] /\ ~busy
    \* Nobody had a claim, or the flag would have been up.
    <3>1. busy' = TRUE /\ asked' = [asked EXCEPT ![p] = @ + 1] /\ active' = active
      BY <1>3, <2>1 DEF BeginTimer, handoff
    <3>2. \A q \in Pages : ~Claims(q)
      BY <2>1 DEF OneDecoder
    <3>3. \A q \in Pages : asked[q] = 0 /\ ~active[q]
      BY <3>2 DEF Claims, TypeOK
    <3>4. asked'[p] = 1 /\ \A q \in Pages : q # p => asked'[q] = 0
      BY <3>1, <3>3 DEF TypeOK
    <3>5. \A q \in Pages : Claims(q)' => q = p
      BY <3>1, <3>3, <3>4 DEF Claims
    <3> QED BY <3>1, <3>3, <3>4, <3>5 DEF OneDecoder
  <2>2. CASE ~(fsPending[p] /\ ~active[p] /\ ~busy)
    <3>1. UNCHANGED <<asked, active, busy>>
      BY <1>3, <2>2 DEF BeginTimer, handoff
    <3> QED BY <3>1, NoNewClaim
  <2> QED BY <2>1, <2>2
<1>4. ASSUME NEW p \in Pages, NEW answer \in Answers, VideoInfo(p, answer)
      PROVE  OneDecoder'
  <2>1. asked[p] > 0 /\ asked' = [asked EXCEPT ![p] = @ - 1]
    BY <1>4 DEF VideoInfo
  <2>2. Claims(p) /\ busy /\ asked[p] = 1 /\ ~active[p]
    BY <2>1 DEF OneDecoder, Claims, TypeOK
  <2>3. asked'[p] = 0 /\ \A q \in Pages : q # p => asked'[q] = asked[q]
    BY <2>1, <2>2 DEF TypeOK
  <2>4. CASE active' = active
    <3>1. active'[p] = FALSE
      BY <2>2, <2>4 DEF TypeOK
    <3> QED BY <2>2, <2>3, <2>4, <3>1, ClaimEnds
  <2>5. CASE active' # active
    \* The question becomes a hand-off, under the same claim.
    <3>1. active' = [active EXCEPT ![p] = TRUE] /\ busy' = busy
      BY <1>4, <2>5 DEF VideoInfo
    <3>2. \A q \in Pages : q # p => ~Claims(q)
      BY <2>2 DEF OneDecoder
    <3>3. \A q \in Pages : q # p => ~Claims(q)'
      BY <2>3, <3>1, <3>2 DEF Claims, TypeOK
    <3> QED BY <2>2, <2>3, <3>1, <3>3 DEF OneDecoder
  <2> QED BY <2>4, <2>5
<1>5. ASSUME NEW p \in Pages, OpenTimer(p)
      PROVE  OneDecoder'
  <2>1. asked' = asked
    BY <1>5 DEF OpenTimer
  <2>2. CASE alive[p] /\ active[p] /\ ~bus
    <3>1. active' = [active EXCEPT ![p] = FALSE]
      BY <1>5, <2>2 DEF OpenTimer
    <3>2. Claims(p) /\ asked[p] = 0
      BY <2>2 DEF OneDecoder, Claims, TypeOK
    <3>3. active'[p] = FALSE /\ \A q \in Pages : q # p => active'[q] = active[q]
      BY <3>1 DEF TypeOK
    <3> QED BY <2>1, <3>2, <3>3, ClaimEnds
  <2>3. CASE ~(alive[p] /\ active[p] /\ ~bus)
    <3>1. UNCHANGED <<asked, active, busy>>
      BY <1>5, <2>3 DEF OpenTimer
    <3> QED BY <3>1, NoNewClaim
  <2> QED BY <2>2, <2>3
<1>6. ASSUME NEW s \in Sessions, PlaybackReply(s) \/ PlaybackRefusal(s)
      PROVE  OneDecoder'
  <2>1. UNCHANGED <<asked, active, busy>>
    BY <1>6 DEF PlaybackReply, PlaybackRefusal, handoff
  <2> QED BY <2>1, NoNewClaim
<1>7. CASE UNCHANGED vars
  BY <1>7, NoNewClaim DEF vars, handoff
<1> QED
  BY <1>1, <1>2, <1>3, <1>4, <1>5, <1>6, <1>7 DEF Next, Step, Timed

(* One page at a time has a claim on the hardware decoder.                  *)
THEOREM DecoderIsOnes == Spec => []OneDecoder
<1>1. Init => OneDecoder
  BY DEF Init, OneDecoder, Claims
<1> QED BY <1>1, TypeInit, TypeStep, DecoderStep, PTL DEF Spec
-----------------------------------------------------------------------------
LEMMA SavedStep == TypeOK /\ SavedIsFull /\ [Next]_vars => SavedIsFull'
<1> SUFFICES ASSUME TypeOK, SavedIsFull, [Next]_vars
             PROVE  SavedIsFull'
  OBVIOUS
<1>1. ASSUME NEW p \in Pages, FreeSurface(p) \/ RestoreSurface(p)
      PROVE  SavedIsFull'
  <2>1. CASE FreeSurface(p)
    <3>1. small'[p] /\ saved'[p] = "full"
      BY <2>1 DEF FreeSurface, SavedIsFull, TypeOK
    <3>2. \A q \in Pages : q # p => small'[q] = small[q] /\ saved'[q] = saved[q]
      BY <2>1 DEF FreeSurface, TypeOK
    <3> QED BY <3>1, <3>2 DEF SavedIsFull
  <2>2. CASE RestoreSurface(p) /\ saved[p] # "none"
    <3>1. small'[p] = FALSE /\ saved'[p] = "none"
      BY <2>2 DEF RestoreSurface, SavedIsFull, TypeOK
    <3>2. \A q \in Pages : q # p => small'[q] = small[q] /\ saved'[q] = saved[q]
      BY <2>2 DEF RestoreSurface, TypeOK
    <3> QED BY <3>1, <3>2 DEF SavedIsFull
  <2>3. CASE RestoreSurface(p) /\ saved[p] = "none"
    BY <2>3 DEF RestoreSurface, surface, SavedIsFull
  <2> QED BY <1>1, <2>1, <2>2, <2>3
<1>2. CASE UNCHANGED surface
  BY <1>2 DEF surface, SavedIsFull
<1>3. \/ UNCHANGED surface
      \/ \E p \in Pages : FreeSurface(p) \/ RestoreSurface(p)
  <2>1. ASSUME NEW p \in Pages, EnterFullscreen(p) \/ BeginTimerFreed(p) \/ Timed(p) \/ Destroy(p)
        PROVE  UNCHANGED surface
    BY <2>1 DEF EnterFullscreen, BeginTimerFreed, Timed, BeginTimer, OpenTimer, PlayTimer, Destroy
  <2>2. ASSUME NEW p \in Pages, LeaveFullscreen(p)
        PROVE  UNCHANGED surface \/ RestoreSurface(p)
    BY <2>2 DEF LeaveFullscreen, End
  <2>3. ASSUME NEW p \in Pages, NEW answer \in Answers, VideoInfo(p, answer)
        PROVE  UNCHANGED surface \/ FreeSurface(p)
    BY <2>3 DEF VideoInfo
  <2>4. ASSUME NEW s \in Sessions, PlaybackReply(s) \/ PlaybackRefusal(s)
        PROVE  UNCHANGED surface
    BY <2>4 DEF PlaybackReply, PlaybackRefusal
  <2>5. CASE UNCHANGED vars
    BY <2>5 DEF vars
  <2> QED BY <2>1, <2>2, <2>3, <2>4, <2>5 DEF Next, Step
<1> QED BY <1>1, <1>2, <1>3

(* A page is always given its own surface back, never the small one.        *)
THEOREM OwnSurfaceBack == Spec => []SavedIsFull
<1>1. Init => SavedIsFull
  BY DEF Init, SavedIsFull
<1> QED BY <1>1, TypeInit, TypeStep, SavedStep, PTL DEF Spec
=============================================================================
