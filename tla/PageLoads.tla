------------------------------ MODULE PageLoads ------------------------------
(***************************************************************************)
(* A card's WebView and its WebProcess: what openUrl and setHTML build and *)
(* load, what comes back as signals, the recovery from a WebProcess that   *)
(* died, and the end of the page.  The WebProcess handles loads, policy answers  *)
(* and evaluations in the order they were sent, and what it sends is       *)
(* handled in that order too.                                              *)
(*                                                                         *)
(* A document is the number of the navigation that brought it.  What the   *)
(* other parts of the page do when a message comes is in LoginDeferral,    *)
(* Sensors and PointQueries; BrowserPage puts them together.               *)
(***************************************************************************)
EXTENDS Integers, Sequences, FiniteSets

CONSTANTS
  MaxNavs,      \* bound: navigations
  MaxCrashes,   \* bound: WebProcesses that die
  MaxQueue,     \* bound: evaluations and their results under way
  Marks,        \* the markers a card's first URL may carry: private, simple
  NoView        \* m_webView is null

ASSUME ViewAssumption == \A m \in SUBSET Marks : m # NoView
ASSUME BoundAssumption == MaxNavs \in Nat \ {0} /\ {MaxCrashes, MaxQueue} \subseteq Nat

VARIABLES
  alive,        \* the page is in g_livePages
  marks,        \* m_private, m_simpleMode: those that are set
  view,         \* the marks m_webView was built with, or NoView
  prewarm,      \* m_prewarmBlank
  opened,       \* openUrl or setHTML was called
  guard,        \* some page was reloaded less than 3 s ago (s_lastReloadMs)
  shown,        \* the document that was committed last, 0 if none
  up,           \* the view has a WebProcess
  doc,          \* its document
  asking,       \* the navigation it has asked about, 0 if none
  going,        \* the one that is allowed and has not committed
  loading,      \* its document is not loaded yet
  evals,        \* what was sent to the WebProcess
  news,         \* what it sent
  navs,         \* navigations so far
  crashes,      \* WebProcesses that died so far
  freed         \* a callback has used a page that was destroyed

card == <<marks, view, prewarm, opened>>
webprocess == <<doc, asking, going, loading>>
counters == <<navs, crashes>>
vars0 == <<alive, card, guard, shown, up, webprocess, evals, news, counters, freed>>
-----------------------------------------------------------------------------
Navs == 1 .. MaxNavs + MaxCrashes   \* a reload has a number of its own

(* Evaluations whose callback runs whatever becomes of them.                *)
Answered == {"snap", "probe", "hit", "src"}
Evaluation == [op : {"load", "use", "ignore"}, n : Navs] \cup [op : {"snap"}, from : {0} \cup Navs]
              \cup [op : {"probe"}, gen : Nat] \cup [op : {"hit", "src"}]
Message == [is : {"policy"}, n : Navs, kind : {"form", "link", "handoff", "other"}, from : {0} \cup Navs]
           \cup [is : {"committed"}, n : Navs]
           \cup [is : {"started", "finished", "captured", "terminated"}]
           \cup [is : {"wanted"}, gen : Nat, on : {0} \cup Navs, wants : BOOLEAN]
           \cup [is : {"found", "failed"}, of : {e \in Evaluation : e.op \in Answered}]

(* The numbers of I in order; the members of a sequence at such numbers.    *)
InOrder(I) == {f \in [1 .. Cardinality(I) -> I] : \A i, j \in DOMAIN f : i < j => f[i] < f[j]}
Picked(s, f) == [i \in DOMAIN f |-> s[f[i]]]

(* Every evaluation that is answered fails.                                 *)
Unanswered(es) == InOrder({i \in DOMAIN es : es[i].op \in Answered})
Failed(es, f) == [i \in DOMAIN f |-> [is |-> "failed", of |-> es[f[i]]]]
Room == Len(evals) + Len(news) < MaxQueue

(* webkit_web_view_evaluate_javascript, or the answer to a policy question, *)
(* while the messages waiting are rest.                                     *)
Send(rest, es) ==
  IF up THEN evals' = evals \o es /\ news' = rest
        ELSE evals' = evals /\ \E f \in Unanswered(es) : news' = rest \o Failed(es, f)

(* webkit_web_view_load_uri, while the messages waiting are rest: a view    *)
(* without a WebProcess gets a new one, and one that has not been told that *)
(* its WebProcess is gone sends the load to nobody.                         *)
Load(rest) ==
  /\ navs' = navs + 1
  /\ IF \E i \in DOMAIN rest : rest[i].is = "terminated" THEN UNCHANGED <<up, evals>>
     ELSE up' = TRUE /\ evals' = Append(evals, [op |-> "load", n |-> navs + 1])

(* A view's results are still delivered when it is gone, its signals not.   *)
IsResult(m) == m.is \in {"captured", "wanted", "found", "failed"}
KeepResults == \E g \in InOrder({i \in DOMAIN news : IsResult(news[i])}), f \in Unanswered(evals) :
                 news' = Picked(news, g) \o Failed(evals, f)

TypeOK0 ==
  /\ {alive, prewarm, opened, guard, up, loading, freed} \subseteq BOOLEAN
  /\ marks \subseteq Marks /\ (view = NoView \/ view \subseteq marks)
  /\ {doc, asking, going, shown} \subseteq {0} \cup Navs
  /\ navs \in {0} \cup Navs /\ crashes \in 0 .. MaxCrashes
  /\ up => view # NoView
  /\ evals \in Seq(Evaluation) /\ news \in Seq(Message)

(* A card that was attached: with BPWPE_PRESPAWN its view loads about:blank *)
Init0 ==
  /\ alive = TRUE /\ marks = {} /\ opened = FALSE /\ guard = FALSE /\ freed = FALSE /\ news = <<>>
  /\ doc = 0 /\ asking = 0 /\ going = 0 /\ loading = FALSE /\ crashes = 0 /\ shown = 0
  /\ \/ prewarm = FALSE /\ view = NoView /\ up = FALSE /\ evals = <<>> /\ navs = 0
     \/ prewarm = TRUE /\ view = {} /\ up = TRUE /\ navs = 1
        /\ evals = <<[op |-> "load", n |-> 1]>>
-----------------------------------------------------------------------------
(* The app puts its markers on what a card opens first; openUrl looks for   *)
(* them every time and would not notice that the view is there already.     *)
MarksFirst(m) == marks \subseteq m /\ (m = marks \/ ~opened)

(* openUrl with the card's markers: a warm view without them is dropped and *)
(* built again, which fails what was sent to it.                            *)
OpenUrlWarm(m) ==
  /\ alive /\ navs < MaxNavs /\ MarksFirst(m)
  /\ marks' = m /\ prewarm' = FALSE /\ opened' = TRUE
  /\ view' = IF view = NoView THEN m ELSE view
  /\ Load(news) /\ UNCHANGED <<alive, guard, shown, webprocess, news, crashes, freed>>
OpenUrl(m) ==
  /\ alive /\ navs < MaxNavs /\ MarksFirst(m)
  /\ marks' = m /\ prewarm' = FALSE /\ opened' = TRUE
  /\ IF prewarm /\ m # {}
       THEN /\ view' = m /\ up' = TRUE /\ navs' = navs + 1
            /\ evals' = <<[op |-> "load", n |-> navs + 1]>>
            /\ KeepResults
            /\ doc' = 0 /\ asking' = 0 /\ going' = 0 /\ loading' = FALSE
       ELSE /\ view' = IF view = NoView THEN m ELSE view
            /\ Load(news) /\ UNCHANGED <<webprocess, news>>
  /\ UNCHANGED <<alive, guard, shown, crashes, freed>>

(* setHTML, which looks for no markers and leaves a warm view marked so     *)
SetHtml ==
  /\ alive /\ navs < MaxNavs /\ opened' = TRUE
  /\ view' = IF view = NoView THEN marks ELSE view
  /\ Load(news)
  /\ UNCHANGED <<alive, marks, prewarm, guard, shown, webprocess, news, crashes, freed>>

(* onWebProcessTerminated, when it was not the destructor's doing           *)
TerminatedNews(rest) ==
  IF guard THEN UNCHANGED <<guard, up, evals, navs>> ELSE guard' = TRUE /\ Load(rest)

(* Three seconds since the last reload of any page; and the reload of       *)
(* another page, of which this one knows nothing.                           *)
GuardOver == guard /\ guard' = FALSE
             /\ UNCHANGED <<alive, card, shown, up, webprocess, evals, news, counters, freed>>
SiblingReloads == ~guard /\ guard' = TRUE
             /\ UNCHANGED <<alive, card, shown, up, webprocess, evals, news, counters, freed>>

(* ~BrowserPageWPE: terminate_web_process, and what was sent fails.         *)
DestroyView ==
  /\ alive /\ alive' = FALSE
  /\ up' = FALSE /\ doc' = 0 /\ asking' = 0 /\ going' = 0 /\ loading' = FALSE
  /\ evals' = <<>> /\ KeepResults
  /\ UNCHANGED <<guard, card, shown, counters, freed>>
-----------------------------------------------------------------------------
(* The WebProcess.                                                          *)

(* It asks about a navigation; one that was allowed and is overtaken fails. *)
Ask(n, kind) ==
  /\ asking' = n /\ going' = 0
  /\ news' = (IF going = 0 THEN news ELSE Append(news, [is |-> "finished"]))
             \o <<[is |-> "policy", n |-> n, kind |-> kind, from |-> doc]>>

(* A document submits a form, or a script or a link leaves it.  The blank   *)
(* one of a warm view does not.                                             *)
Navigate(kind) ==
  /\ up /\ doc # 0 /\ opened /\ navs < MaxNavs /\ navs' = navs + 1
  /\ Ask(navs + 1, kind)
  /\ UNCHANGED <<alive, card, guard, shown, up, doc, loading, evals, crashes, freed>>

(* It handles the next message; wants is whether its document listens to    *)
(* the sensors.                                                             *)
Handle(wants) ==
  /\ up /\ evals # <<>> /\ evals' = Tail(evals)
  /\ LET e == Head(evals) IN
     CASE e.op = "load" -> Ask(e.n, "other") /\ UNCHANGED <<doc, loading>>
       [] e.op \in {"use", "ignore"} /\ e.n = asking ->
            /\ asking' = 0 /\ UNCHANGED doc
            /\ IF e.op = "use" THEN /\ going' = e.n /\ loading' = FALSE
                                    /\ news' = Append(news, [is |-> "started"])
                               ELSE UNCHANGED <<going, loading, news>>
       [] e.op = "snap" -> /\ news' = Append(news, [is |-> "captured"])
                           /\ UNCHANGED webprocess
       [] e.op = "probe" ->
            /\ news' = Append(news, [is |-> "wanted", gen |-> e.gen, on |-> doc,
                                    wants |-> wants /\ doc # 0])
            /\ UNCHANGED webprocess
       [] e.op \in {"hit", "src"} -> /\ news' = Append(news, [is |-> "found", of |-> e])
                                     /\ UNCHANGED webprocess
       [] OTHER -> UNCHANGED <<news, webprocess>>
  /\ UNCHANGED <<alive, card, guard, shown, up, counters, freed>>

Commit ==
  /\ up /\ going # 0 /\ doc' = going /\ going' = 0 /\ loading' = TRUE
  /\ news' = Append(news, [is |-> "committed", n |-> going])
  /\ UNCHANGED <<alive, card, guard, shown, up, asking, evals, counters, freed>>

(* The document is loaded, or the navigation failed before it had one.      *)
Finish ==
  /\ up /\ (loading \/ going # 0) /\ loading' = FALSE /\ going' = 0
  /\ news' = Append(news, [is |-> "finished"])
  /\ UNCHANGED <<alive, card, guard, shown, up, doc, asking, evals, counters, freed>>

(* It dies: WebKit fails what it was sent, then tells of it.                *)
Crash ==
  /\ up /\ crashes < MaxCrashes /\ crashes' = crashes + 1
  /\ up' = FALSE /\ doc' = 0 /\ asking' = 0 /\ going' = 0 /\ loading' = FALSE
  /\ evals' = <<>>
  /\ \E f \in Unanswered(evals) : news' = (news \o Failed(evals, f)) \o <<[is |-> "terminated"]>>
  /\ UNCHANGED <<alive, card, guard, shown, navs, freed>>
-----------------------------------------------------------------------------
(* A card never shows a page in a view that was built before its markers    *)
(* were known, such as a private one in the persistent session because a    *)
(* view was warm.  (How tall the new view of a simple card is, ViewResize   *)
(* says.)                                                                   *)
ViewIsTheCards == view # NoView => view = marks

(* Between crashes the card recovers on its own instead of staying blank    *)
(* forever (the comment in onWebProcessTerminated).                         *)
Recovers == (view # NoView /\ ~up) ~> up \/ ~alive
=============================================================================
