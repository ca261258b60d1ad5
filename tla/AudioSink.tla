------------------------------ MODULE AudioSink ------------------------------
(***************************************************************************)
(* The PulseAudio sink (gst-pasink/gstpasink.c).  pa_simple may be used by *)
(* one thread at a time, but GStreamer calls the sink from three: the ring *)
(* buffer's thread writes, another asks for the delay whenever it likes,   *)
(* and a third prepares, resets and unprepares.  A mutex and a flag keep   *)
(* them apart.                                                             *)
(*                                                                         *)
(* A call of pa_simple takes as long as it likes but ends: PulseAudio      *)
(* keeps draining.  The mutex is GLib's, which whoever comes first takes.  *)
(***************************************************************************)
EXTENDS Naturals

CONSTANTS
  NoThread,     \* the mutex is free
  MaxDelays     \* bound: questions for the delay

ASSUME DelayAssumption == MaxDelays \in Nat
ASSUME ThreadAssumption == NoThread \notin {"ring", "clock", "control"}

VARIABLES
  pc,           \* where each thread is in the function it is in, if any
  op,           \* the function the controlling thread is in
  lock,         \* self->lock: who holds it
  flushing,     \* self->flushing
  pa,           \* self->pa is set
  ready,        \* prepare has succeeded and unprepare has not been called
  delays        \* questions so far

vars == <<pc, op, lock, flushing, pa, ready, delays>>
-----------------------------------------------------------------------------
Threads == {"ring", "clock", "control"}
Places == {"out", "locking", "calling", "leaving"}
Ops == {"prepare", "reset", "unprepare"}
At(t, place) == pc[t] = place
Goes(t, place) == pc' = [pc EXCEPT ![t] = place]

TypeOK == /\ pc \in [Threads -> Places] /\ op \in Ops
          /\ lock \in Threads \cup {NoThread}
          /\ flushing \in BOOLEAN /\ pa \in BOOLEAN /\ ready \in BOOLEAN
          /\ delays \in 0 .. MaxDelays

Init == /\ pc = [t \in Threads |-> "out"] /\ op = "prepare" /\ lock = NoThread
        /\ flushing = FALSE /\ pa = FALSE /\ ready = FALSE /\ delays = 0
-----------------------------------------------------------------------------
(* write: dropped at once while a flush or a teardown is in progress.       *)
WriteUnflagged ==
  /\ At("ring", "out") /\ Goes("ring", "locking")
  /\ UNCHANGED <<op, lock, flushing, pa, ready, delays>>
Write ==
  /\ At("ring", "out") /\ ~flushing /\ Goes("ring", "locking")
  /\ UNCHANGED <<op, lock, flushing, pa, ready, delays>>

(* delay                                                                    *)
Delay ==
  /\ At("clock", "out") /\ delays < MaxDelays /\ delays' = delays + 1
  /\ Goes("clock", "locking") /\ UNCHANGED <<op, lock, flushing, pa, ready>>

(* The mutex is taken; without a stream it is given back at once.           *)
Enter(t) ==
  /\ t \in {"ring", "clock"} /\ At(t, "locking") /\ lock = NoThread
  /\ IF pa THEN lock' = t /\ Goes(t, "calling") ELSE UNCHANGED lock /\ Goes(t, "out")
  /\ UNCHANGED <<op, flushing, pa, ready, delays>>

(* pa_simple_write or pa_simple_get_latency returns.                        *)
Leave(t) ==
  /\ t \in {"ring", "clock"} /\ At(t, "calling") /\ lock' = NoThread /\ Goes(t, "out")
  /\ UNCHANGED <<op, flushing, pa, ready, delays>>
-----------------------------------------------------------------------------
(* The controlling thread.                                                  *)

Prepare ==
  /\ At("control", "out") /\ ~ready /\ op' = "prepare" /\ Goes("control", "locking")
  /\ UNCHANGED <<lock, flushing, pa, ready, delays>>

(* reset and unprepare raise the flag before they wait for the mutex.       *)
Reset ==
  /\ At("control", "out") /\ ready /\ op' = "reset" /\ flushing' = TRUE
  /\ Goes("control", "locking") /\ UNCHANGED <<lock, pa, ready, delays>>
Unprepare ==
  /\ At("control", "out") /\ ready /\ op' = "unprepare" /\ flushing' = TRUE
  /\ ready' = FALSE /\ Goes("control", "locking") /\ UNCHANGED <<lock, pa, delays>>

(* Under the mutex: pa_simple_new, with the flag down; pa_simple_flush; or  *)
(* pa_simple_free.                                                          *)
EnterUnlocked ==
  /\ At("control", "locking") /\ (lock = NoThread \/ op = "reset")
  /\ lock' = IF op = "reset" THEN lock ELSE "control"
  /\ Goes("control", "calling") /\ flushing' = (flushing /\ op # "prepare")
  /\ UNCHANGED <<op, pa, ready, delays>>
EnterControl ==
  /\ At("control", "locking") /\ lock = NoThread /\ lock' = "control"
  /\ Goes("control", "calling") /\ flushing' = (flushing /\ op # "prepare")
  /\ UNCHANGED <<op, pa, ready, delays>>

(* The call returns; a stream that cannot be opened leaves the sink as it   *)
(* was.                                                                     *)
LeaveControl ==
  /\ At("control", "calling") /\ lock' = NoThread
  /\ \/ op = "prepare" /\ pa' \in BOOLEAN /\ ready' = pa' /\ Goes("control", "out")
     \/ op = "reset" /\ UNCHANGED <<pa, ready>> /\ Goes("control", "leaving")
     \/ op = "unprepare" /\ pa' = FALSE /\ UNCHANGED ready /\ Goes("control", "out")
  /\ UNCHANGED <<op, flushing, delays>>

(* The end of reset: writes go on.                                          *)
ResumeNever ==
  /\ At("control", "leaving") /\ Goes("control", "out")
  /\ UNCHANGED <<op, lock, flushing, pa, ready, delays>>
Resume ==
  /\ At("control", "leaving") /\ flushing' = FALSE /\ Goes("control", "out")
  /\ UNCHANGED <<op, lock, pa, ready, delays>>
-----------------------------------------------------------------------------
Control == EnterControl \/ LeaveControl \/ Resume
Next == \/ Write \/ Delay \/ \E t \in Threads : Enter(t) \/ Leave(t)
        \/ Prepare \/ Reset \/ Unprepare \/ Control

(* Every thread goes on when it can; only being scheduled is assumed of the *)
(* mutex, not that it is ever given to who waits longest.                   *)
Spec == /\ Init /\ [][Next]_vars
        /\ WF_vars(Write) /\ WF_vars(Control)
        /\ \A t \in {"ring", "clock"} : WF_vars(Enter(t)) /\ WF_vars(Leave(t))
-----------------------------------------------------------------------------
(* No two threads are in pa_simple at once, and nobody uses a stream that   *)
(* was freed (the hang on navigating away from playing audio, and the race  *)
(* of a write with unprepare).                                              *)
Serialised ==
  /\ \A t, u \in Threads : At(t, "calling") /\ At(u, "calling") => t = u
  /\ \A t \in {"ring", "clock"} : At(t, "calling") => pa

(* A flush or a teardown waits for a write in flight, not for one write     *)
(* after the other: it always ends.                                         *)
TeardownReturns == ~At("control", "out") ~> At("control", "out")

(* A sink that is left prepared plays again, whatever flushes and failed    *)
(* streams came before.                                                     *)
SoundResumes == <>[](At("control", "out") /\ ready) => []<>At("ring", "calling")
=============================================================================
