----------------------------- MODULE FrameFeed -----------------------------
(***************************************************************************)
(* What the frame transport of ARCHITECTURE.md ("Frame transport") promises *)
(* the BrowserServer, with sockets, descriptors, slots and acks left out:  *)
(* every WebProcess feeds its view a stream of frames, the view takes them *)
(* in order and each once, and it forgets the feed only when the           *)
(* WebProcess is gone and everything it sent has been taken.               *)
(*                                                                         *)
(* FrameChannel implements this module (FeedSpec there).                   *)
(***************************************************************************)
EXTENDS Naturals

CONSTANT Procs                  \* the WebProcesses that ever render the view

VARIABLES
  published,                    \* frames announced by each WebProcess
  taken,                        \* frames the view took from each
  feed                          \* "none" | "open" | "closed"

vars == <<published, taken, feed>>

Init ==
  /\ published = [p \in Procs |-> 0]
  /\ taken     = [p \in Procs |-> 0]
  /\ feed      = [p \in Procs |-> "none"]

Open(p) ==
  /\ feed[p] = "none"
  /\ feed' = [feed EXCEPT ![p] = "open"]
  /\ UNCHANGED <<published, taken>>

Publish(p) ==
  /\ feed[p] = "open"
  /\ published' = [published EXCEPT ![p] = @ + 1]
  /\ UNCHANGED <<taken, feed>>

Take(p) ==
  /\ feed[p] = "open"
  /\ taken[p] < published[p]
  /\ taken' = [taken EXCEPT ![p] = @ + 1]
  /\ UNCHANGED <<published, feed>>

Close(p) ==
  /\ feed[p] = "open"
  /\ taken[p] = published[p]
  /\ feed' = [feed EXCEPT ![p] = "closed"]
  /\ UNCHANGED <<published, taken>>

Next == \E p \in Procs : Open(p) \/ Publish(p) \/ Take(p) \/ Close(p)

(* The view's main loop serves every feed that has a frame to give.        *)
Spec == Init /\ [][Next]_vars /\ \A p \in Procs : WF_vars(Take(p))
=============================================================================
