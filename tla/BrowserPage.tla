----------------------------- MODULE BrowserPage -----------------------------
(***************************************************************************)
(* A BrowserPageWPE with its view: one action per message of the           *)
(* WebProcess that the main loop handles, which calls what each part of    *)
(* the page does with it, and the parts' own timers and requests.          *)
(***************************************************************************)
EXTENDS LoginDeferral, Sensors, PointQueries

vars == <<vars0, login, sensors, world, queries>>

TypeOK == TypeOK0 /\ TypeOKLogin /\ TypeOKSensors /\ TypeOKQueries
Init == Init0 /\ InitLogin /\ InitSensors /\ InitQueries
-----------------------------------------------------------------------------
(* The main loop handles the message that has waited longest.               *)
Got(what) == news # <<>> /\ Head(news).is = what
Msg == Head(news)
Rest == Tail(news)
Answers(op) == Got("found") /\ Msg.of.op = op
Fails(op) == Got("failed") /\ Msg.of.op = op
KeepPage == UNCHANGED <<alive, card, guard, webprocess, crashes>>

OnPolicy ==
  /\ Got("policy") /\ PolicyNews(Msg, Rest)
  /\ KeepPage /\ UNCHANGED <<shown, up, navs, freed, sensors, world, queries>>

OnCaptured ==
  /\ Got("captured") \/ Fails("snap")
  /\ CapturedNews(Rest)
  /\ KeepPage /\ UNCHANGED <<shown, up, navs, freed, sensors, world, queries>>

(* onLoadChanged: STARTED, COMMITTED and FINISHED                           *)
OnLoadChanged ==
  /\ \/ Got("started") /\ StopSensors /\ UNCHANGED shown
     \/ Got("committed") /\ shown' = Msg.n /\ UNCHANGED sensors
     \/ Got("finished") /\ StartProbe /\ UNCHANGED shown
  /\ news' = Rest
  /\ KeepPage /\ UNCHANGED <<up, evals, navs, freed, login, world, queries>>

OnTerminated ==
  /\ Got("terminated") /\ TerminatedNews(Rest) /\ news' = Rest
  /\ UNCHANGED <<alive, card, webprocess, crashes, shown, freed, login, sensors, world, queries>>

OnWanted ==
  /\ Got("wanted") /\ WantedNews(Msg) /\ news' = Rest
  /\ KeepPage /\ UNCHANGED <<shown, up, evals, navs, login, world, queries>>

OnProbeFailed ==
  /\ Fails("probe") /\ news' = Rest
  /\ KeepPage /\ UNCHANGED <<shown, up, evals, navs, freed, login, sensors, world, queries>>

OnHit ==
  /\ \/ Answers("hit") /\ FoundHit(FALSE)
     \/ Fails("hit") /\ FoundHit(TRUE)
  /\ news' = Rest
  /\ KeepPage /\ UNCHANGED <<shown, up, evals, navs, freed, login, sensors, world>>

OnSrc ==
  /\ \/ Answers("src") /\ \E f \in Files \cup {NoFile}, ok \in BOOLEAN : FoundSrc(f, ok)
     \/ Fails("src") /\ FoundSrc(NoFile, FALSE)
  /\ news' = Rest
  /\ KeepPage /\ UNCHANGED <<shown, up, evals, navs, freed, login, sensors, world>>

(* ~BrowserPageWPE                                                          *)
Destroy == DestroyView /\ DestroyLogin /\ StopSensors /\ UNCHANGED <<recent, world, queries>>
-----------------------------------------------------------------------------
MainLoop == \/ OnPolicy \/ OnCaptured \/ OnLoadChanged \/ OnTerminated
            \/ OnWanted \/ OnProbeFailed \/ OnHit \/ OnSrc
Loads ==
  /\ \/ SetHtml \/ \E m \in SUBSET Marks : OpenUrl(m)
     \/ GuardOver \/ SiblingReloads \/ Finish
     \/ \E kind \in {"form", "link", "handoff"} : Navigate(kind)
     \/ Handle(wants)
  /\ UNCHANGED <<login, sensors, world, queries>>
(* A new document, or none, has no listeners.                               *)
Replaces == (Commit \/ Crash) /\ wants' = FALSE /\ UNCHANGED <<login, sensors, sensord, queries>>
Timers == \/ (Failsafe \/ DeferAgain) /\ UNCHANGED <<sensors, world, queries>>
          \/ (ProbeTimer \/ PushTimer) /\ UNCHANGED <<login, queries>>
World == (Listen \/ SensordToggles) /\ UNCHANGED <<login, queries>>
Questions == /\ HitTest \/ SaveImage \/ \E d \in downloads : DownloadDone(d)
             /\ UNCHANGED <<login, sensors, world>>
Next == MainLoop \/ Loads \/ Replaces \/ Timers \/ World \/ Questions \/ Destroy

(* The main loop runs its messages and its timers, and a WebProcess that is *)
(* up handles what it was sent.                                             *)
Fairness ==
  /\ WF_vars(MainLoop)
  /\ WF_vars(Handle(wants) /\ UNCHANGED <<login, sensors, world, queries>>)
  /\ WF_vars(Failsafe /\ UNCHANGED <<sensors, world, queries>>)
  /\ SF_vars(ProbeTimer /\ UNCHANGED <<login, queries>>)
  /\ WF_vars(PushTimer /\ UNCHANGED <<login, queries>>)
Spec == Init /\ [][Next]_vars /\ Fairness
-----------------------------------------------------------------------------
(* The answer of a sensor probe, the one callback here that looks at        *)
(* m_sensorCancel and not at g_livePages, never touches a page that was     *)
(* destroyed.  (The two timers of a page that enters full screen look at    *)
(* neither; they are in MediadHandoff.)                                     *)
ProbeNeverUsesFreed == ~freed
=============================================================================
