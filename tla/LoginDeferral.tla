---------------------------- MODULE LoginDeferral ----------------------------
(* The decision of a navigation that may submit a login form is held until  *)
(* the form was scraped or half a second has passed (onDecidePolicy,        *)
(* onLoginCapture, onLoginDeferTimeout and the end of a page).              *)
EXTENDS PageLoads

VARIABLES
  held,         \* m_loginDecision: the navigation whose decision is held, or 0
  recent,       \* the last one was held less than 1800 ms ago
  failsafes,    \* timers of 500 ms that have not fired
  released      \* decisions made, by navigation

login == <<held, recent, failsafes, released>>

TypeOKLogin == /\ held \in {0} \cup Navs /\ recent \in BOOLEAN
               /\ failsafes \in 0 .. 1 /\ released \in [Navs -> 0 .. 1]
InitLogin == held = 0 /\ recent = FALSE /\ failsafes = 0 /\ released = [n \in Navs |-> 0]
-----------------------------------------------------------------------------
Decide(n, op, rest) == released' = [released EXCEPT ![n] = @ + 1]
                       /\ Send(rest, <<[op |-> op, n |-> n]>>)

(* onDecidePolicy of a navigation: refused if it is for the app or for the  *)
(* system's downloads, held if it may be a form's, allowed otherwise.       *)
PolicyNewsResumed(p, rest) ==
  IF p.kind \in {"form", "other"} /\ held = 0 /\ ~recent
    THEN /\ held' = p.n /\ recent' = TRUE /\ failsafes' = failsafes + 1
         /\ UNCHANGED released
         /\ Send(rest, <<[op |-> "use", n |-> p.n], [op |-> "snap", from |-> p.from]>>)
    ELSE Decide(p.n, IF p.kind = "handoff" THEN "ignore" ELSE "use", rest)
         /\ UNCHANGED <<held, recent, failsafes>>
PolicyNews(p, rest) ==
  IF p.kind \in {"form", "other"} /\ held = 0 /\ ~recent
    THEN /\ held' = p.n /\ recent' = TRUE /\ failsafes' = failsafes + 1
         /\ UNCHANGED released
         /\ Send(rest, <<[op |-> "snap", from |-> p.from]>>)
    ELSE Decide(p.n, IF p.kind = "handoff" THEN "ignore" ELSE "use", rest)
         /\ UNCHANGED <<held, recent, failsafes>>

(* What onLoginCapture and the timer have in common.                        *)
ReleaseHeld(rest) ==
  IF held = 0 THEN UNCHANGED <<held, released, evals>> /\ news' = rest
              ELSE held' = 0 /\ Decide(held, "use", rest)

(* onLoginCapture, with the form or with an error                           *)
CapturedNewsKeeps(rest) ==
  /\ IF ~alive \/ held = 0 THEN UNCHANGED <<released, evals>> /\ news' = rest
                             ELSE Decide(held, "use", rest)
  /\ UNCHANGED <<held, recent, failsafes>>
CapturedNews(rest) ==
  /\ IF alive THEN ReleaseHeld(rest) ELSE UNCHANGED <<held, released, evals>> /\ news' = rest
  /\ UNCHANGED <<recent, failsafes>>

Failsafe ==
  /\ failsafes > 0 /\ failsafes' = failsafes - 1
  /\ IF alive THEN ReleaseHeld(news) ELSE UNCHANGED <<held, released, evals, news>>
  /\ UNCHANGED <<recent, alive, card, guard, shown, up, webprocess, counters, freed>>

(* 1800 ms are longer than the timer's 500.                                 *)
DeferAgain ==
  /\ recent /\ failsafes = 0 /\ recent' = FALSE
  /\ UNCHANGED <<held, failsafes, released, vars0>>

(* The destructor lets a held decision go; its WebProcess is gone by then.  *)
DestroyLogin ==
  /\ IF held = 0 THEN UNCHANGED <<held, released>>
                 ELSE held' = 0 /\ released' = [released EXCEPT ![held] = @ + 1]
  /\ UNCHANGED <<recent, failsafes>>
-----------------------------------------------------------------------------
(* The scrape runs in the document whose form is submitted, not in the one  *)
(* it leads to, nor in one that was navigated to meanwhile.                 *)
ScrapesSubmitter ==
  evals # <<>> /\ Head(evals).op = "snap" => Head(evals).from = doc

(* A navigation that is held goes on, whether the scrape answers, fails or  *)
(* never comes back, and even if another page was opened meanwhile; no      *)
(* decision is made twice.                                                  *)
HeldGoesOn == \A n \in Navs : held = n ~> held # n /\ released[n] = 1
=============================================================================
