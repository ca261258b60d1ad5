--------------------------- MODULE AudioSinkProofs ---------------------------
(***************************************************************************)
(* The mutex and the flag of AudioSink keep its threads apart, however     *)
(* often the delay is asked for.                                           *)
(***************************************************************************)
EXTENDS AudioSink, TLAPS

(* Whoever is in pa_simple holds the mutex, and the threads that use the    *)
(* stream found it open under the mutex.                                    *)
Holds == /\ \A t \in Threads : At(t, "calling") => lock = t
         /\ \A t \in {"ring", "clock"} : At(t, "calling") => pa
IInv == TypeOK /\ Holds

(* The initial state, with every thread outside.                            *)
LEMMA Initially == Init => IInv
<1> SUFFICES ASSUME Init
             PROVE  IInv
  OBVIOUS
<1>1. pc \in [Threads -> Places] /\ \A t \in Threads : ~At(t, "calling")
  BY DEF Init, Threads, Places, At
<1>2. op \in Ops /\ lock \in Threads \cup {NoThread} /\ delays \in 0 .. MaxDelays
  BY DelayAssumption DEF Init, Ops
<1>3. flushing \in BOOLEAN /\ pa \in BOOLEAN /\ ready \in BOOLEAN
  BY DEF Init
<1>4. TypeOK
  BY <1>1, <1>2, <1>3 DEF TypeOK
<1>5. Holds
  BY <1>1 DEF Holds, Threads
<1> QED BY <1>4, <1>5 DEF IInv

(* The stuttering step and every action keep the inductive invariant.       *)
LEMMA Inductive == IInv /\ [Next]_vars => IInv'
<1> SUFFICES ASSUME IInv, [Next]_vars
             PROVE  IInv'
  OBVIOUS
<1> USE DEF IInv, TypeOK, Holds, At, Goes, Threads, Places, Ops
<1>1. CASE Write
  BY <1>1 DEF Write
<1>2. CASE Delay
  BY <1>2, DelayAssumption DEF Delay
<1>3. ASSUME NEW t \in Threads, Enter(t)
      PROVE  IInv'
  <2>1. CASE pa
    BY <1>3, <2>1, ThreadAssumption DEF Enter
  <2>2. CASE ~pa
    BY <1>3, <2>2 DEF Enter
  <2> QED BY <2>1, <2>2
<1>4. ASSUME NEW t \in Threads, Leave(t)
      PROVE  IInv'
  BY <1>4 DEF Leave
<1>5. CASE Prepare
  BY <1>5 DEF Prepare
<1>6. CASE Reset
  BY <1>6 DEF Reset
<1>7. CASE Unprepare
  BY <1>7 DEF Unprepare
<1>8. CASE EnterControl
  BY <1>8, ThreadAssumption DEF EnterControl
<1>9. CASE LeaveControl
  \* The control thread holds the mutex, so no other is in a call.
  <2>1. \A t \in {"ring", "clock"} : ~At(t, "calling")
    BY <1>9 DEF LeaveControl
  <2> QED BY <1>9, <2>1 DEF LeaveControl
<1>10. CASE Resume
  BY <1>10 DEF Resume
<1>11. CASE UNCHANGED vars
  BY <1>11 DEF vars
<1> QED
  BY <1>1, <1>2, <1>3, <1>4, <1>5, <1>6, <1>7, <1>8, <1>9, <1>10, <1>11 DEF Next, Control

(* Every reachable state of the sink is well typed, the number of questions *)
(* for the delay within its bound.                                          *)
THEOREM TypeCorrect == Spec => []TypeOK
<1>1. IInv => TypeOK
  BY DEF IInv
<1> QED BY <1>1, Initially, Inductive, PTL DEF Spec

(* pa_simple is used by one thread at a time, on a stream that is open.     *)
THEOREM CallsSerialised == Spec => []Serialised
<1>1. IInv => Serialised
  BY DEF IInv, Holds, Serialised
<1> QED BY <1>1, Initially, Inductive, PTL DEF Spec
=============================================================================
