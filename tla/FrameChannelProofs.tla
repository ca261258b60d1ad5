------------------------- MODULE FrameChannelProofs -------------------------
(***************************************************************************)
(* Proofs about FrameChannel, for any number of WebProcesses and           *)
(* descriptors and any socket capacity: the state is well typed, channels  *)
(* and descriptors match, nobody but WebKit closes WebKit's descriptors,   *)
(* a frame is copied out whole unless its slot was lapped, and the channel *)
(* takes only the steps of a FrameFeed.                                    *)
(***************************************************************************)
EXTENDS FrameChannel, SequenceTheorems, TLAPS

(* A step of the main loop's recv takes the head of a well-typed queue.    *)
LEMMA RecvType ==
  ASSUME TypeOK, NEW p \in Procs, Recv(p)
  PROVE  /\ toUI' \in [Procs -> Seq(FrameReady)]
         /\ taken' \in [Procs -> 0 .. MaxFrames]
         /\ Head(toUI[p]) \in FrameReady
<1>1. toUI[p] \in Seq(FrameReady) /\ toUI[p] # <<>>
  BY DEF TypeOK, Recv
<1>2. Head(toUI[p]) \in FrameReady /\ Tail(toUI[p]) \in Seq(FrameReady)
  BY <1>1, HeadTailProperties
<1>3. Head(toUI[p]).n \in 0 .. MaxFrames
  BY <1>2, BoundAssumption DEF FrameReady
<1> QED
  BY <1>2, <1>3 DEF TypeOK, Recv

LEMMA AckType ==
  ASSUME TypeOK, NEW p \in Procs, SendAck(p)
  PROVE  toWeb' \in [Procs -> Seq({"setup", "ack"})]
  BY DEF TypeOK, SendAck

(* Type correctness of a step; a frame is only sent once it was begun.     *)
LEMMA TypeStep == TypeOK /\ InStep /\ [Next]_vars => TypeOK'
<1> SUFFICES ASSUME TypeOK, InStep, [Next]_vars PROVE TypeOK'
  OBVIOUS
<1> USE BoundAssumption
<1>1. CASE ViewInitialize
  BY <1>1 DEF TypeOK, ViewInitialize, webvars, uivars
<1>2. CASE OnReadableFinish
  <2>1. ui.proc \in Procs => toWeb' \in [Procs -> Seq({"setup", "ack"})]
    BY <1>2, AckType DEF OnReadableFinish
  <2>2. toWeb' \in [Procs -> Seq({"setup", "ack"})]
    BY <1>2, <2>1 DEF TypeOK, OnReadableFinish, SendAck
  <2>3. shown' \in [proc : Procs \cup {NoProc}, n : 0 .. MaxFrames,
                    top : Frame, bottom : Frame]
    BY <1>2 DEF TypeOK, OnReadableFinish, Halves
  <2>4. ui' \in [at : {"loop", "copy", "crashed"}, proc : Procs \cup {NoProc},
                 msg : [n : 0 .. MaxFrames, slot : Slots], top : Frame]
    BY <1>2 DEF OnReadableFinish, InLoop, Slots, Frame, NoFrame
  <2> QED
    BY <1>2, <2>2, <2>3, <2>4 DEF TypeOK, OnReadableFinish, webvars
<1>3. CASE OpenIpc
  BY <1>3 DEF TypeOK, OpenIpc, webvars, uivars, Ipc, Descriptor
<1>4. CASE CloseIpc
  BY <1>4 DEF TypeOK, CloseIpc, webvars, uivars, Free, Descriptor
<1>5. CASE ViewDestroy
  BY <1>5 DEF TypeOK, ViewDestroy, webvars, uivars
<1>6. ASSUME NEW p \in Procs, GetRendererHostFd(p) PROVE TypeOK'
  <2>1. PICK f \in Fds, g \in Fds :
          /\ fdtab' = [fdtab EXCEPT ![f] = UiEnd(p), ![g] = WebEnd(p)]
          /\ sock' = [sock EXCEPT ![p] = f]
    BY <1>6 DEF GetRendererHostFd
  <2>2. UiEnd(p) \in Descriptor /\ WebEnd(p) \in Descriptor
    BY DEF UiEnd, WebEnd, Descriptor
  <2>3. fdtab' \in [Fds -> Descriptor] /\ sock' \in [Procs -> Fds \cup {NoFd}]
    BY <2>1, <2>2 DEF TypeOK
  <2>4. toWeb' \in [Procs -> Seq({"setup", "ack"})]
    BY <1>6 DEF TypeOK, GetRendererHostFd
  <2> QED
    BY <1>6, <2>3, <2>4 DEF TypeOK, GetRendererHostFd, uivars
<1>7. ASSUME NEW p \in Procs, HostFdFails(p) PROVE TypeOK'
  BY <1>7 DEF TypeOK, HostFdFails, uivars
<1>8. ASSUME NEW p \in Procs, OnReadableCopy(p) PROVE TypeOK'
  <2>1. Recv(p)
    BY <1>8 DEF OnReadableCopy
  <2>2. Head(toUI[p]) \in [n : 0 .. MaxFrames, slot : Slots]
    BY <2>1, RecvType DEF FrameReady
  <2>3. ui' \in [at : {"loop", "copy", "crashed"}, proc : Procs \cup {NoProc},
                 msg : [n : 0 .. MaxFrames, slot : Slots], top : Frame]
    BY <1>8, <2>2 DEF TypeOK, OnReadableCopy, Copying, Halves
  <2> QED
    BY <1>8, <2>1, <2>3, RecvType DEF TypeOK, OnReadableCopy, webvars
<1>9. ASSUME NEW p \in Procs, OnReadableDrop(p) PROVE TypeOK'
  BY <1>9, RecvType, AckType DEF TypeOK, OnReadableDrop, webvars
<1>10. ASSUME NEW p \in Procs, ReapChannel(p) PROVE TypeOK'
  BY <1>10 DEF TypeOK, ReapChannel, webvars, uivars, Free, Descriptor
<1>11. ASSUME NEW p \in Procs, ShipFd(p) PROVE TypeOK'
  <2>1. fdtab' \in [Fds -> Descriptor]
    BY <1>11 DEF TypeOK, ShipFd, Free, Descriptor
  <2>2. toWeb' \in [Procs -> Seq({"setup", "ack"})]
    BY <1>11 DEF TypeOK, ShipFd
  <2> QED
    BY <1>11, <2>1, <2>2 DEF TypeOK, ShipFd, uivars
<1>12. ASSUME NEW p \in Procs, TargetInitialize(p) PROVE TypeOK'
  <2>1. Tail(toWeb[p]) \in Seq({"setup", "ack"})
    BY <1>12, HeadTailProperties DEF TypeOK, TargetInitialize
  <2> QED
    BY <1>12, <2>1 DEF TypeOK, TargetInitialize, uivars
<1>13. ASSUME NEW p \in Procs, FrameRead(p) PROVE TypeOK'
  <2>1. begun[p] + 1 \in 0 .. MaxFrames
    BY <1>13 DEF TypeOK, FrameRead
  <2>2. [proc |-> p, n |-> begun[p] + 1] \in Frame
    BY <2>1 DEF Frame
  <2>3. slots' \in [Slots -> Halves]
    BY <1>13, <2>2 DEF TypeOK, FrameRead, Halves
  <2> QED
    BY <1>13, <2>1, <2>3 DEF TypeOK, FrameRead, uivars
<1>14. ASSUME NEW p \in Procs, FrameReadRest(p) PROVE TypeOK'
  <2>1. [proc |-> p, n |-> begun[p]] \in Frame
    BY DEF TypeOK, Frame
  <2>2. slots' \in [Slots -> Halves]
    BY <1>14, <2>1 DEF TypeOK, FrameReadRest, Halves
  <2>3. toWeb' \in [Procs -> Seq({"setup", "ack"})]
    BY <1>14 DEF TypeOK, FrameReadRest
  <2> QED
    BY <1>14, <2>2, <2>3 DEF TypeOK, FrameReadRest, uivars
<1>15. ASSUME NEW p \in Procs, FrameSend(p) PROVE TypeOK'
  <2>1. begun[p] = taken[p] + Len(toUI[p]) + 1
    BY <1>15 DEF FrameSend, InStep, Announced
  <2>2. Len(toUI[p]) \in Nat /\ taken[p] \in Nat
    BY DEF TypeOK
  <2>3. begun[p] \in 1 .. MaxFrames /\ curSlot[p] \in Slots
    BY <2>1, <2>2 DEF TypeOK
  <2>5. [n |-> begun[p], slot |-> curSlot[p]] \in FrameReady
    BY <2>3 DEF FrameReady
  <2>4. Append(toUI[p], [n |-> begun[p], slot |-> curSlot[p]]) \in Seq(FrameReady)
    BY <2>5, AppendProperties DEF TypeOK
  <2>6. curSlot' \in [Procs -> Slots]
    <3>1. 1 - curSlot[p] \in Slots
      BY <2>3 DEF Slots
    <3> QED
      BY <1>15, <3>1 DEF TypeOK, FrameSend
  <2>7. toUI' \in [Procs -> Seq(FrameReady)]
    BY <1>15, <2>4 DEF TypeOK, FrameSend
  <2> QED
    BY <1>15, <2>6, <2>7 DEF TypeOK, FrameSend, uivars
<1>16. ASSUME NEW p \in Procs, WebProcessExit(p) PROVE TypeOK'
  BY <1>16 DEF TypeOK, WebProcessExit, uivars
<1>17. ASSUME NEW p \in Procs, OnReadableFreed(p) PROVE TypeOK'
  <2>1. Recv(p)
    BY <1>17 DEF OnReadableFreed
  <2>2. ui' \in [at : {"loop", "copy", "crashed"}, proc : Procs \cup {NoProc},
                 msg : [n : 0 .. MaxFrames, slot : Slots], top : Frame]
    BY <1>17 DEF OnReadableFreed, InLoop, Crashed, Slots, Frame, NoFrame
  <2> QED
    BY <1>17, <2>1, <2>2, RecvType DEF TypeOK, OnReadableFreed, webvars
<1>18. CASE UNCHANGED vars
  BY <1>18 DEF TypeOK, vars, webvars, uivars
<1> QED
  BY <1>1, <1>2, <1>3, <1>4, <1>5, <1>6, <1>7, <1>8, <1>9, <1>10, <1>11, <1>12,
     <1>13, <1>14, <1>15, <1>16, <1>17, <1>18
     DEF Next, LiveNext, Serve, Render

(***************************************************************************)
(* Descriptors.                                                            *)
(***************************************************************************)
LEMMA Ends ==
  \A p, q \in Procs :
    /\ UiEnd(p) # Free /\ UiEnd(p) # Ipc /\ UiEnd(p) # WebEnd(q)
    /\ WebEnd(p) # Free /\ WebEnd(p) # Ipc
    /\ UiEnd(p) = UiEnd(q) => p = q
  BY DEF UiEnd, WebEnd, Free, Ipc

(* A step keeps every open channel and its descriptor paired.  Only three  *)
(* kinds of step touch the table: opening a channel, reaping one, and      *)
(* WebKit's own.                                                           *)
LEMMA DescriptorsStep ==
  TypeOK /\ DescriptorsMatch /\ NoChannelYet /\ [Next]_vars
    => DescriptorsMatch' /\ NoChannelYet'
<1> SUFFICES ASSUME TypeOK, DescriptorsMatch, NoChannelYet, [Next]_vars
             PROVE  DescriptorsMatch' /\ NoChannelYet'
  OBVIOUS
<1>1. ASSUME UNCHANGED <<fdtab, sock>>,
             \A p \in Procs : pc'[p] \in {"absent", "nochannel"}
                               => pc[p] \in {"absent", "nochannel"}
      PROVE  DescriptorsMatch' /\ NoChannelYet'
  BY <1>1 DEF DescriptorsMatch, NoChannelYet
<1>2. CASE ViewInitialize \/ OnReadableFinish \/ ViewDestroy \/ UNCHANGED vars
  BY <1>1, <1>2 DEF ViewInitialize, OnReadableFinish, ViewDestroy, webvars, vars
<1>3. ASSUME NEW p \in Procs,
             \/ HostFdFails(p) \/ OnReadableCopy(p) \/ OnReadableDrop(p)
             \/ TargetInitialize(p) \/ FrameRead(p) \/ FrameReadRest(p)
             \/ FrameSend(p) \/ WebProcessExit(p) \/ OnReadableFreed(p)
      PROVE  DescriptorsMatch' /\ NoChannelYet'
  <2>1. UNCHANGED <<fdtab, sock>>
    BY <1>3 DEF HostFdFails, OnReadableCopy, OnReadableDrop, TargetInitialize,
                FrameRead, FrameReadRest, FrameSend, WebProcessExit, OnReadableFreed
  <2>2. \A q \in Procs : pc'[q] \in {"absent", "nochannel"}
                          => pc[q] \in {"absent", "nochannel"}
    BY <1>3 DEF TypeOK, HostFdFails, OnReadableCopy, OnReadableDrop, TargetInitialize,
                FrameRead, FrameReadRest, FrameSend, WebProcessExit,
                OnReadableFreed, webvars
  <2> QED
    BY <1>1, <2>1, <2>2
<1>4. CASE OpenIpc \/ CloseIpc
  <2>1. UNCHANGED <<sock, pc>>
    BY <1>4 DEF OpenIpc, CloseIpc, webvars
  <2>2. \A q \in Procs, h \in Fds : fdtab'[h] = UiEnd(q) <=> fdtab[h] = UiEnd(q)
    BY <1>4, Ends DEF TypeOK, OpenIpc, CloseIpc
  <2> QED
    BY <2>1, <2>2 DEF DescriptorsMatch, NoChannelYet
<1>5. ASSUME NEW p \in Procs, ShipFd(p) PROVE DescriptorsMatch' /\ NoChannelYet'
  <2>1. /\ UNCHANGED sock
        /\ \A q \in Procs, h \in Fds : fdtab'[h] = UiEnd(q) <=> fdtab[h] = UiEnd(q)
    BY <1>5, Ends DEF TypeOK, ShipFd
  <2>2. \A q \in Procs : pc'[q] \in {"absent", "nochannel"}
                          => pc[q] \in {"absent", "nochannel"}
    BY <1>5 DEF TypeOK, ShipFd
  <2> QED
    BY <2>1, <2>2 DEF DescriptorsMatch, NoChannelYet
<1>6. ASSUME NEW p \in Procs, ReapChannel(p) PROVE DescriptorsMatch' /\ NoChannelYet'
  <2>1. sock[p] \in Fds /\ fdtab[sock[p]] = UiEnd(p)
    BY <1>6 DEF TypeOK, DescriptorsMatch, ReapChannel
  <2>2. \A q \in Procs, h \in Fds :
          fdtab'[h] = UiEnd(q) <=> fdtab[h] = UiEnd(q) /\ h # sock[p]
    BY <1>6, <2>1, Ends DEF TypeOK, ReapChannel
  <2>3. \A q \in Procs, h \in Fds : sock'[q] = h <=> sock[q] = h /\ q # p
    BY <1>6, FdsAssumption DEF TypeOK, ReapChannel
  <2>4. \A q \in Procs : q # p => sock[q] # sock[p]
    BY <2>1, Ends DEF DescriptorsMatch
  <2>5. DescriptorsMatch'
    BY <2>1, <2>2, <2>3, <2>4, Ends DEF DescriptorsMatch
  <2> QED
    BY <1>6, <2>5 DEF TypeOK, ReapChannel, NoChannelYet, webvars
<1>7. ASSUME NEW p \in Procs, GetRendererHostFd(p)
      PROVE  DescriptorsMatch' /\ NoChannelYet'
  <2>1. PICK f \in Fds, g \in Fds :
          /\ f # g
          /\ fdtab[f] = Free
          /\ fdtab[g] = Free
          /\ fdtab' = [fdtab EXCEPT ![f] = UiEnd(p), ![g] = WebEnd(p)]
          /\ sock' = [sock EXCEPT ![p] = f]
    BY <1>7 DEF GetRendererHostFd
  <2>2. sock[p] = NoFd
    BY <1>7 DEF GetRendererHostFd, NoChannelYet
  <2>3. \A h \in Fds : fdtab[h] # UiEnd(p)
    BY <2>2, FdsAssumption DEF DescriptorsMatch
  <2>4. \A q \in Procs, h \in Fds : q # p => (fdtab'[h] = UiEnd(q) <=> fdtab[h] = UiEnd(q))
    BY <2>1, Ends DEF TypeOK
  <2>5. \A h \in Fds : fdtab'[h] = UiEnd(p) <=> h = f
    BY <2>1, <2>3, Ends DEF TypeOK
  <2>6. DescriptorsMatch'
    BY <2>1, <2>4, <2>5 DEF TypeOK, DescriptorsMatch
  <2>7. NoChannelYet'
    BY <1>7, <2>1 DEF TypeOK, NoChannelYet, GetRendererHostFd
  <2> QED
    BY <2>6, <2>7
<1> QED
  BY <1>2, <1>3, <1>4, <1>5, <1>6, <1>7 DEF Next, LiveNext, Serve, Render

(***************************************************************************)
(* The queue of a channel.                                                 *)
(***************************************************************************)
LEMMA NatCounts ==
  ASSUME TypeOK, NEW p \in Procs
  PROVE  taken[p] \in Nat /\ begun[p] \in Nat /\ Len(toUI[p]) \in Nat
         /\ Announced(p) \in Nat /\ begun[p] <= MaxFrames /\ taken[p] <= MaxFrames
  BY BoundAssumption DEF TypeOK, Announced

(* recv takes the next frame; what was announced does not change.          *)
LEMMA RecvQueue ==
  ASSUME TypeOK, QueueInOrder, NEW p \in Procs, Recv(p)
  PROVE  /\ taken' = [taken EXCEPT ![p] = taken[p] + 1]
         /\ Head(toUI[p]) = [n |-> taken[p] + 1, slot |-> SlotOf(taken[p] + 1)]
         /\ \A q \in Procs : Announced(q)' = Announced(q)
         /\ taken[p] + 1 <= Announced(p)
         /\ QueueInOrder'
<1>1. toUI[p] \in Seq(FrameReady) /\ toUI[p] # <<>> /\ Len(toUI[p]) \in Nat
      /\ Len(toUI[p]) >= 1
  BY DEF TypeOK, Recv
<1>2. Head(toUI[p]) = [n |-> taken[p] + 1, slot |-> SlotOf(taken[p] + 1)]
  BY <1>1 DEF QueueInOrder
<1>3. taken' = [taken EXCEPT ![p] = taken[p] + 1]
  <2>1. Head(toUI[p]).n = taken[p] + 1
    BY <1>2
  <2> QED
    BY <2>1 DEF Recv
<1>4. /\ toUI' = [toUI EXCEPT ![p] = Tail(toUI[p])]
      /\ Len(Tail(toUI[p])) = Len(toUI[p]) - 1
      /\ \A i \in 1 .. Len(Tail(toUI[p])) : Tail(toUI[p])[i] = toUI[p][i + 1]
  BY <1>1, HeadTailProperties DEF Recv
<1>5. \A q \in Procs : Announced(q)' = Announced(q)
  BY <1>1, <1>3, <1>4, NatCounts DEF TypeOK, Announced
<1>6. ASSUME NEW q \in Procs, NEW i \in 1 .. Len(toUI'[q])
      PROVE  toUI'[q][i] = [n |-> taken'[q] + i, slot |-> SlotOf(taken'[q] + i)]
  <2>1. CASE q # p
    BY <1>3, <1>4, <1>6, <2>1 DEF TypeOK, QueueInOrder
  <2>2. CASE q = p
    <3>1. toUI'[q][i] = toUI[p][i + 1] /\ i + 1 \in 1 .. Len(toUI[p]) /\ i \in Nat
      BY <1>1, <1>4, <1>6, <2>2 DEF TypeOK
    <3>2. toUI[p][i + 1] = [n |-> taken[p] + (i + 1), slot |-> SlotOf(taken[p] + (i + 1))]
      BY <3>1 DEF QueueInOrder
    <3>3. taken[p] + (i + 1) = taken'[q] + i
      BY <1>3, <2>2, <3>1, NatCounts DEF TypeOK
    <3> QED
      BY <3>1, <3>2, <3>3
  <2> QED
    BY <2>1, <2>2
<1>7. taken[p] + 1 <= Announced(p)
  BY <1>1, NatCounts DEF Announced
<1>8. QueueInOrder'
  BY <1>6 DEF QueueInOrder
<1> QED
  BY <1>2, <1>3, <1>5, <1>7, <1>8

(* FRAME_READY goes to the end of the queue and is the next number.        *)
LEMMA SendQueue ==
  ASSUME TypeOK, QueueInOrder, InStep, NEW p \in Procs, FrameSend(p)
  PROVE  /\ \A q \in Procs : Announced(q)' = IF q = p THEN Announced(p) + 1
                                                      ELSE Announced(q)
         /\ QueueInOrder'
<1> DEFINE m == [n |-> begun[p], slot |-> curSlot[p]]
<1>1. begun[p] = taken[p] + Len(toUI[p]) + 1 /\ curSlot[p] = SlotOf(begun[p])
  BY DEF FrameSend, InStep, Announced
<1>2. m \in FrameReady
  BY <1>1, NatCounts DEF TypeOK, FrameReady
<1>3. /\ toUI' = [toUI EXCEPT ![p] = Append(toUI[p], m)]
      /\ toUI[p] \in Seq(FrameReady)
      /\ UNCHANGED taken
  BY DEF FrameSend, TypeOK, uivars
<1>4. /\ Len(Append(toUI[p], m)) = Len(toUI[p]) + 1
      /\ \A i \in 1 .. Len(toUI[p]) : Append(toUI[p], m)[i] = toUI[p][i]
      /\ Append(toUI[p], m)[Len(toUI[p]) + 1] = m
  BY <1>2, <1>3, AppendProperties
<1>5. \A q \in Procs : Announced(q)' = IF q = p THEN Announced(p) + 1 ELSE Announced(q)
  BY <1>3, <1>4, NatCounts DEF TypeOK, Announced
<1>6. ASSUME NEW q \in Procs, NEW i \in 1 .. Len(toUI'[q])
      PROVE  toUI'[q][i] = [n |-> taken[q] + i, slot |-> SlotOf(taken[q] + i)]
  <2>1. CASE q # p
    BY <1>3, <1>6, <2>1 DEF TypeOK, QueueInOrder
  <2>2. CASE q = p /\ i \in 1 .. Len(toUI[p])
    BY <1>3, <1>4, <2>2 DEF TypeOK, QueueInOrder
  <2>3. CASE q = p /\ i = Len(toUI[p]) + 1
    <3>1. toUI'[q][i] = m
      BY <1>3, <1>4, <2>3 DEF TypeOK
    <3>2. begun[p] = taken[q] + i
      BY <1>1, <2>3, NatCounts
    <3> QED
      BY <1>1, <2>3, <3>1, <3>2
  <2>4. q = p => i \in 1 .. Len(toUI[p]) \/ i = Len(toUI[p]) + 1
    <3>1. toUI'[p] = Append(toUI[p], m)
      BY <1>3 DEF TypeOK
    <3>2. Len(toUI[p]) \in Nat
      BY NatCounts
    <3> HIDE DEF m
    <3> QED
      BY <1>4, <1>6, <3>1, <3>2
  <2> QED
    BY <2>1, <2>2, <2>3, <2>4
<1> QED
  BY <1>3, <1>5, <1>6 DEF QueueInOrder

(* Every other step leaves the queues and the counts of taken frames alone. *)
LEMMA QueueStep ==
  ASSUME TypeOK, QueueInOrder, InStep, [Next]_vars
  PROVE  /\ QueueInOrder'
         /\ \/ \E p \in Procs : FrameSend(p)
            \/ \A q \in Procs : Announced(q)' = Announced(q)
<1>1. ASSUME UNCHANGED <<toUI, taken>>
      PROVE  QueueInOrder' /\ \A q \in Procs : Announced(q)' = Announced(q)
  BY <1>1 DEF QueueInOrder, Announced
<1>2. ASSUME NEW p \in Procs, Recv(p)
      PROVE  QueueInOrder' /\ \A q \in Procs : Announced(q)' = Announced(q)
  BY <1>2, RecvQueue
<1>3. ASSUME NEW p \in Procs, FrameSend(p) PROVE QueueInOrder'
  BY <1>3, SendQueue
<1> QED
  BY <1>1, <1>2, <1>3
     DEF Next, LiveNext, Serve, Render, vars, uivars, ViewInitialize, OnReadableFinish,
         OpenIpc, CloseIpc, ViewDestroy, GetRendererHostFd, HostFdFails, OnReadableCopy,
         OnReadableDrop, ReapChannel, ShipFd, TargetInitialize, FrameRead, FrameReadRest,
         WebProcessExit, OnReadableFreed

(***************************************************************************)
(* The WebProcess and its slots.                                           *)
(***************************************************************************)
(* Consecutive frames alternate between the two slots.                     *)
LEMMA SlotFlip ==
  \A n \in Nat : /\ SlotOf(n) \in Slots
                 /\ SlotOf(n + 1) = 1 - SlotOf(n)
                 /\ SlotOf(n + 1) # SlotOf(n)
  BY DEF SlotOf, Slots

LEMMA InStepStep ==
  ASSUME TypeOK, QueueInOrder, InStep, [Next]_vars
  PROVE  InStep'
<1>1. ASSUME UNCHANGED <<begun, curSlot>>,
             \A q \in Procs : Announced(q)' = Announced(q),
             \A q \in Procs :
               \/ pc'[q] = pc[q]
               \/ pc'[q] \in {"reading", "sending"} /\ pc[q] \in {"reading", "sending"}
               \/ pc'[q] = "exited"
               \/ /\ pc'[q] \in {"nochannel", "handed", "starting", "blank", "idle"}
                  /\ pc[q] \in {"absent", "handed", "starting"}
      PROVE  InStep'
  <2> SUFFICES ASSUME NEW q \in Procs PROVE InStep!(q)'
    BY DEF InStep
  <2>1. /\ InStep!(q)
        /\ pc[q] \in {"absent", "nochannel", "handed", "starting", "blank", "idle",
                      "reading", "sending", "exited"}
    BY DEF TypeOK, InStep
  <2>2. SlotOf(1) = 0
    BY DEF SlotOf
  <2> QED
    BY <1>1, <2>1, <2>2, NatCounts
<1>2. CASE \/ ViewInitialize \/ OnReadableFinish \/ OpenIpc \/ CloseIpc \/ ViewDestroy
           \/ UNCHANGED vars
  <2>1. UNCHANGED <<begun, curSlot, pc, toUI, taken>>
    BY <1>2 DEF ViewInitialize, OnReadableFinish, OpenIpc, CloseIpc, ViewDestroy, vars,
                webvars, uivars
  <2> QED
    BY <1>1, <2>1 DEF Announced
<1>3. ASSUME NEW p \in Procs,
             \/ GetRendererHostFd(p) \/ HostFdFails(p) \/ ReapChannel(p) \/ ShipFd(p)
             \/ TargetInitialize(p) \/ FrameReadRest(p) \/ WebProcessExit(p)
      PROVE  InStep'
  <2>1. UNCHANGED <<begun, curSlot, toUI, taken>>
    BY <1>3 DEF GetRendererHostFd, HostFdFails, ReapChannel, ShipFd, TargetInitialize,
                FrameReadRest, WebProcessExit, webvars, uivars
  <2>2. \A q \in Procs : Announced(q)' = Announced(q)
    BY <2>1 DEF Announced
  <2>3. \A q \in Procs :
          \/ pc'[q] = pc[q]
          \/ pc'[q] \in {"reading", "sending"} /\ pc[q] \in {"reading", "sending"}
          \/ pc'[q] = "exited"
          \/ /\ pc'[q] \in {"nochannel", "handed", "starting", "blank", "idle"}
             /\ pc[q] \in {"absent", "handed", "starting"}
    BY <1>3 DEF TypeOK, GetRendererHostFd, HostFdFails, ReapChannel, ShipFd, TargetInitialize,
                FrameReadRest, WebProcessExit, webvars
  <2> QED
    BY <1>1, <2>1, <2>2, <2>3
<1>4. ASSUME NEW p \in Procs, OnReadableCopy(p) \/ OnReadableDrop(p) \/ OnReadableFreed(p)
      PROVE  InStep'
  <2>1. Recv(p) /\ UNCHANGED <<begun, curSlot, pc>>
    BY <1>4 DEF OnReadableCopy, OnReadableDrop, OnReadableFreed, webvars
  <2>2. \A q \in Procs : Announced(q)' = Announced(q)
    BY <2>1, RecvQueue
  <2> QED
    BY <1>1, <2>1, <2>2
<1>5. ASSUME NEW p \in Procs, FrameRead(p) PROVE InStep'
  <2> SUFFICES ASSUME NEW q \in Procs PROVE InStep!(q)'
    BY DEF InStep
  <2>1. Announced(q)' = Announced(q)
    BY <1>5 DEF FrameRead, uivars, Announced
  <2>2. CASE q = p
    BY <1>5, <2>1, <2>2, NatCounts DEF TypeOK, InStep, FrameRead
  <2>3. CASE q # p
    <3>1. pc'[q] = pc[q] /\ begun'[q] = begun[q] /\ curSlot'[q] = curSlot[q]
      BY <1>5, <2>3 DEF TypeOK, FrameRead
    <3>2. InStep!(q)
      BY DEF InStep
    <3> QED
      BY <2>1, <3>1, <3>2
  <2> QED
    BY <2>2, <2>3
<1>6. ASSUME NEW p \in Procs, FrameSend(p) PROVE InStep'
  <2> SUFFICES ASSUME NEW q \in Procs PROVE InStep!(q)'
    BY DEF InStep
  <2>1. Announced(q)' = IF q = p THEN Announced(p) + 1 ELSE Announced(q)
    BY <1>6, SendQueue
  <2>2. CASE q = p
    <3>1. begun[p] = Announced(p) + 1 /\ curSlot[p] = SlotOf(begun[p])
      BY <1>6 DEF FrameSend, InStep
    <3>2. pc'[p] = "idle" /\ begun'[p] = begun[p] /\ curSlot'[p] = 1 - curSlot[p]
      BY <1>6 DEF TypeOK, FrameSend
    <3> QED
      BY <2>1, <2>2, <3>1, <3>2, SlotFlip, NatCounts
  <2>3. CASE q # p
    <3>1. pc'[q] = pc[q] /\ begun'[q] = begun[q] /\ curSlot'[q] = curSlot[q]
      BY <1>6, <2>3 DEF TypeOK, FrameSend
    <3>2. InStep!(q)
      BY DEF InStep
    <3> QED
      BY <2>1, <2>3, <3>1, <3>2
  <2> QED
    BY <2>2, <2>3
<1> QED
  BY <1>2, <1>3, <1>4, <1>5, <1>6 DEF Next, LiveNext, Serve, Render

(* A WebProcess only ever begins the next frame.                           *)
LEMMA BegunGrows ==
  ASSUME TypeOK, [Next]_vars
  PROVE  \A q \in Procs : /\ begun'[q] = begun[q] \/ FrameRead(q)
                          /\ begun'[q] \in Nat /\ begun'[q] >= begun[q]
<1>1. \A q \in Procs : begun'[q] = begun[q] \/ FrameRead(q)
  <2>1. begun \in [Procs -> 0 .. MaxFrames]
    BY DEF TypeOK
  <2>2. ASSUME NEW p \in Procs, FrameRead(p)
        PROVE  \A q \in Procs : begun'[q] = begun[q] \/ FrameRead(q)
    BY <2>1, <2>2 DEF FrameRead
  <2>3. ASSUME NEW p \in Procs, Serve(p) \/ ShipFd(p) \/ GetRendererHostFd(p) \/ HostFdFails(p)
        PROVE  begun' = begun
    BY <2>3 DEF Serve, OnReadableCopy, OnReadableDrop, ReapChannel, ShipFd,
                GetRendererHostFd, HostFdFails, webvars
  <2>4. ASSUME NEW p \in Procs, Render(p), ~FrameRead(p)
        PROVE  begun' = begun
    BY <2>4 DEF Render, TargetInitialize, FrameReadRest, FrameSend, WebProcessExit
  <2>5. CASE \/ ViewInitialize \/ OnReadableFinish \/ OpenIpc \/ CloseIpc \/ ViewDestroy
             \/ UNCHANGED vars
    BY <2>5 DEF vars, webvars, ViewInitialize, OnReadableFinish, OpenIpc, CloseIpc, ViewDestroy
  <2>6. CASE \E p \in Procs : OnReadableFreed(p)
    BY <2>6 DEF webvars, OnReadableFreed
  <2> QED
    BY <2>2, <2>3, <2>4, <2>5, <2>6 DEF Next, LiveNext
<1>2. \A q \in Procs : FrameRead(q) => begun'[q] = begun[q] + 1
  BY DEF TypeOK, FrameRead
<1> QED
  BY <1>1, <1>2, NatCounts

(* Nobody else's slot writes matter to a process drawing alone: the other  *)
(* one has begun a frame.                                                  *)
LEMMA SoloStep ==
  ASSUME TypeOK, InStep, [Next]_vars, NEW p \in Procs, Solo(p)'
  PROVE  /\ Solo(p)
         /\ \A q \in Procs : FrameRead(q) \/ FrameReadRest(q) => q = p
<1>1. \A q \in Procs : begun'[q] = begun[q] \/ FrameRead(q)
  BY BegunGrows
<1>2. ASSUME NEW q \in Procs, FrameRead(q) PROVE begun'[q] # 0 /\ begun'[q] >= begun[q]
  BY <1>2, NatCounts DEF TypeOK, FrameRead
<1>3. ASSUME NEW q \in Procs, FrameReadRest(q) PROVE begun'[q] # 0
  <2>1. begun[q] = Announced(q) + 1 /\ begun' = begun
    BY <1>3 DEF FrameReadRest, InStep
  <2> QED
    BY <2>1, NatCounts
<1> QED
  BY <1>1, <1>2, <1>3, NatCounts DEF Solo

LEMMA SlotsStep ==
  ASSUME TypeOK, QueueInOrder, InStep, SlotsWhole, [Next]_vars
  PROVE  SlotsWhole'
<1> SUFFICES ASSUME NEW p \in Procs, Solo(p)'
             PROVE  /\ \A n \in 1 .. MaxFrames :
                         Finished(p, n)' /\ begun'[p] <= n + 1
                           => slots'[SlotOf(n)] = Whole(p, n)
                    /\ pc'[p] = "reading"
                         => slots'[curSlot'[p]].top = [proc |-> p, n |-> begun'[p]]
  BY DEF SlotsWhole, Whole
<1>s. Solo(p) /\ \A q \in Procs : FrameRead(q) \/ FrameReadRest(q) => q = p
  BY SoloStep
<1>w. /\ \A n \in 1 .. MaxFrames :
           Finished(p, n) /\ begun[p] <= n + 1 => slots[SlotOf(n)] = Whole(p, n)
      /\ pc[p] = "reading" => slots[curSlot[p]].top = [proc |-> p, n |-> begun[p]]
  BY <1>s DEF SlotsWhole
<1>n. /\ Announced(p) \in Nat /\ begun[p] \in Nat /\ begun[p] <= MaxFrames
      /\ \A n \in 1 .. MaxFrames : n \in Nat
  BY NatCounts
<1>1. CASE FrameRead(p)
  <2>1. /\ Announced(p)' = Announced(p)
        /\ begun'[p] = begun[p] + 1
        /\ curSlot' = curSlot
        /\ pc[p] = "idle" /\ pc'[p] = "reading"
        /\ slots' = [slots EXCEPT ![curSlot[p]] =
                        [@ EXCEPT !.top = [proc |-> p, n |-> begun[p] + 1]]]
    BY <1>1 DEF TypeOK, FrameRead, uivars, Announced
  <2>2. begun[p] = Announced(p) /\ curSlot[p] = SlotOf(begun[p] + 1)
    BY <2>1 DEF InStep
  <2>3. ASSUME NEW n \in 1 .. MaxFrames, Finished(p, n)', begun'[p] <= n + 1
        PROVE  slots'[SlotOf(n)] = Whole(p, n)
    <3>1. n = begun[p]
      BY <2>1, <2>2, <2>3, <1>n DEF Finished
    <3>2. slots[SlotOf(n)] = Whole(p, n)
      BY <1>w, <2>2, <3>1, <1>n DEF Finished
    <3>3. SlotOf(n) # curSlot[p]
      BY <2>2, <3>1, <1>n, SlotFlip
    <3> QED
      BY <2>1, <3>2, <3>3, <1>n, SlotFlip DEF TypeOK
  <2>4. slots'[curSlot'[p]].top = [proc |-> p, n |-> begun'[p]]
    BY <2>1 DEF TypeOK, Halves
  <2> QED
    BY <2>3, <2>4
<1>2. CASE FrameReadRest(p)
  <2>1. /\ Announced(p)' = Announced(p)
        /\ begun' = begun
        /\ pc[p] = "reading" /\ pc'[p] = "sending"
        /\ slots' = [slots EXCEPT ![curSlot[p]] =
                        [@ EXCEPT !.bottom = [proc |-> p, n |-> begun[p]]]]
    BY <1>2 DEF TypeOK, FrameReadRest, uivars, Announced
  <2>2. begun[p] = Announced(p) + 1 /\ curSlot[p] = SlotOf(begun[p])
    BY <2>1 DEF InStep
  <2>3. slots'[SlotOf(begun[p])] = Whole(p, begun[p])
    BY <1>w, <2>1, <2>2 DEF TypeOK, Halves, Whole
  <2>4. ASSUME NEW n \in 1 .. MaxFrames, Finished(p, n)', begun'[p] <= n + 1
        PROVE  slots'[SlotOf(n)] = Whole(p, n)
    <3>1. CASE n = begun[p]
      BY <2>3, <3>1
    <3>2. CASE n # begun[p]
      <4>1. begun[p] = n + 1
        BY <2>1, <2>2, <2>4, <3>2, <1>n DEF Finished
      <4>2. slots[SlotOf(n)] = Whole(p, n)
        BY <1>w, <2>2, <4>1, <1>n DEF Finished
      <4>3. SlotOf(n) # curSlot[p]
        BY <2>2, <4>1, <1>n, SlotFlip
      <4> QED
        BY <2>1, <4>2, <4>3, <1>n, SlotFlip DEF TypeOK
    <3> QED
      BY <3>1, <3>2
  <2> QED
    BY <2>1, <2>4
<1>3. CASE FrameSend(p)
  <2>1. Announced(p)' = Announced(p) + 1
    BY <1>3, SendQueue
  <2>2. /\ pc[p] = "sending" /\ pc'[p] = "idle"
        /\ UNCHANGED <<begun, slots>>
        /\ begun[p] = Announced(p) + 1
    BY <1>3 DEF TypeOK, FrameSend, InStep
  <2>3. ASSUME NEW n \in 1 .. MaxFrames, Finished(p, n)' PROVE Finished(p, n)
    BY <2>1, <2>2, <2>3, <1>n DEF Finished
  <2> QED
    BY <1>w, <2>2, <2>3
<1>4. ASSUME ~FrameRead(p), ~FrameReadRest(p), ~FrameSend(p)
      PROVE  /\ Announced(p)' = Announced(p)
             /\ begun'[p] = begun[p] /\ curSlot'[p] = curSlot[p]
             /\ slots' = slots
             /\ pc'[p] \in {"reading", "sending"} => pc'[p] = pc[p]
  <2>1. /\ begun'[p] = begun[p] /\ curSlot'[p] = curSlot[p]
        /\ slots' = slots
        /\ pc'[p] \in {"reading", "sending"} => pc'[p] = pc[p]
    <3>1. CASE \/ ViewInitialize \/ OnReadableFinish \/ OpenIpc \/ CloseIpc
               \/ ViewDestroy \/ UNCHANGED vars
      BY <3>1 DEF ViewInitialize, OnReadableFinish, OpenIpc, CloseIpc, ViewDestroy,
                  vars, webvars
    <3>2. ASSUME NEW q \in Procs,
                 \/ GetRendererHostFd(q) \/ HostFdFails(q) \/ ShipFd(q)
                 \/ TargetInitialize(q) \/ WebProcessExit(q)
          PROVE  /\ begun' = begun /\ curSlot' = curSlot /\ slots' = slots
                 /\ pc'[p] \in {"reading", "sending"} => pc'[p] = pc[p]
      BY <3>2 DEF TypeOK, GetRendererHostFd, HostFdFails, ShipFd, TargetInitialize,
                  WebProcessExit
    <3>3. ASSUME NEW q \in Procs,
                 \/ OnReadableCopy(q) \/ OnReadableDrop(q) \/ ReapChannel(q)
                 \/ OnReadableFreed(q)
          PROVE  UNCHANGED webvars
      BY <3>3 DEF OnReadableCopy, OnReadableDrop, ReapChannel, OnReadableFreed
    <3>4. ASSUME NEW q \in Procs, q # p, FrameSend(q)
          PROVE  /\ begun' = begun /\ curSlot'[p] = curSlot[p] /\ slots' = slots
                 /\ pc'[p] = pc[p]
      BY <3>4 DEF TypeOK, FrameSend
    <3> QED
      BY <1>4, <1>s, <3>1, <3>2, <3>3, <3>4 DEF Next, LiveNext, Serve, Render, webvars
  <2>2. ASSUME NEW q \in Procs, FrameSend(q) PROVE Announced(p)' = Announced(p)
    BY <1>4, <2>2, SendQueue
  <2> QED
    BY <2>1, <2>2, QueueStep
<1>5. CASE ~FrameRead(p) /\ ~FrameReadRest(p) /\ ~FrameSend(p)
  <2>1. ASSUME NEW n \in 1 .. MaxFrames, Finished(p, n)' PROVE Finished(p, n)
    BY <1>4, <1>5, <2>1 DEF Finished
  <2> QED
    BY <1>w, <1>4, <1>5, <2>1
<1> QED
  BY <1>1, <1>2, <1>3, <1>5

(***************************************************************************)
(* The main loop's copy.                                                   *)
(***************************************************************************)
(* A process that draws alone and is at most one frame past the one being  *)
(* copied has not touched its slot.                                        *)
LEMMA CopyStep ==
  ASSUME TypeOK, QueueInOrder, InStep, SlotsWhole, CopyInStep, [Next]_vars
  PROVE  CopyInStep'
<1>1. ASSUME NEW p \in Procs, OnReadableCopy(p) PROVE CopyInStep'
  <2> DEFINE m == Head(toUI[p])
  <2>1. Recv(p)
    BY <1>1 DEF OnReadableCopy
  <2>2. /\ m = [n |-> taken[p] + 1, slot |-> SlotOf(taken[p] + 1)]
        /\ taken' = [taken EXCEPT ![p] = taken[p] + 1]
        /\ taken[p] + 1 <= Announced(p)
    BY <2>1, RecvQueue
  <2>3. m \in FrameReady
    BY <2>1, RecvType
  <2>4. m.n = taken[p] + 1 /\ m.slot = SlotOf(taken[p] + 1) /\ taken[p] + 1 \in 1 .. MaxFrames
    BY <2>2, <2>3 DEF FrameReady
  <2>5. Solo(p) /\ begun[p] <= m.n + 1 => slots[m.slot] = Whole(p, m.n)
    BY <2>2, <2>4 DEF SlotsWhole, Finished
  <2>6. /\ ui' = [at |-> "copy", proc |-> p, msg |-> m, top |-> slots[m.slot].top]
        /\ UNCHANGED <<begun, slots>>
    BY <1>1 DEF OnReadableCopy, Copying, webvars
  <2>7. /\ ui'.proc = p /\ ui'.msg.n = taken'[p] /\ ui'.msg.n \in 1 .. MaxFrames
        /\ ui'.msg.slot = SlotOf(ui'.msg.n) /\ ui'.msg = m
        /\ ui'.top = slots[m.slot].top
    BY <2>2, <2>4, <2>6 DEF TypeOK
  <2>8. Solo(p)' /\ begun'[p] <= ui'.msg.n + 1 => ui'.top = [proc |-> p, n |-> ui'.msg.n]
    BY <2>5, <2>6, <2>7 DEF Solo, Whole
  <2> QED
    BY <2>7, <2>8 DEF CopyInStep
<1>2. CASE UNCHANGED <<ui, taken>>
  <2>2. \A p \in Procs : Solo(p)' => Solo(p)
    BY SoloStep
  <2> SUFFICES ASSUME ui.at = "copy" PROVE CopyInStep'
    BY <1>2 DEF CopyInStep
  <2> DEFINE p == ui.proc  n == ui.msg.n
  <2>3. /\ p \in Procs /\ n \in 1 .. MaxFrames /\ n = taken[p]
        /\ ui.msg.slot = SlotOf(n)
        /\ Solo(p) /\ begun[p] <= n + 1 => ui.top = [proc |-> p, n |-> n]
    BY DEF CopyInStep
  <2>4. begun'[p] <= n + 1 => begun[p] <= n + 1
    BY <2>3, NatCounts, BegunGrows
  <2>5. (\A q \in Procs : q # p => begun'[q] = 0) => Solo(p)
    BY <2>2, <2>3 DEF Solo
  <2> QED
    BY <1>2, <2>3, <2>4, <2>5 DEF CopyInStep, Solo
<1>3. CASE ui'.at # "copy"
  BY <1>3 DEF CopyInStep
<1>4. ASSUME NEW p \in Procs, OnReadableDrop(p) PROVE ui'.at # "copy"
  BY <1>4 DEF OnReadableDrop, Recv
<1>5. ASSUME NEW p \in Procs, OnReadableFreed(p) PROVE ui'.at # "copy"
  BY <1>5 DEF OnReadableFreed, InLoop, Crashed
<1>6. CASE OnReadableFinish
  BY <1>3, <1>6 DEF OnReadableFinish, InLoop
<1> QED
  BY <1>1, <1>2, <1>3, <1>4, <1>5, <1>6
     DEF Next, LiveNext, Serve, Render, vars, uivars, ViewInitialize, OpenIpc, CloseIpc,
         ViewDestroy, GetRendererHostFd, HostFdFails, ReapChannel, ShipFd,
         TargetInitialize, FrameRead, FrameReadRest, FrameSend, WebProcessExit

LEMMA ShownStep ==
  ASSUME TypeOK, QueueInOrder, InStep, SlotsWhole, CopyInStep, WholeUnlessLapped,
         [Next]_vars
  PROVE  WholeUnlessLapped'
<1>1. CASE OnReadableFinish
  <2>1. /\ ui.at = "copy"
        /\ shown' = [proc |-> ui.proc, n |-> ui.msg.n, top |-> ui.top,
                     bottom |-> slots[ui.msg.slot].bottom]
        /\ UNCHANGED <<begun, slots>>
    BY <1>1 DEF OnReadableFinish, webvars
  <2> DEFINE p == ui.proc  n == ui.msg.n
  <2>2. /\ p \in Procs /\ n \in 1 .. MaxFrames /\ n = taken[p]
        /\ ui.msg.slot = SlotOf(n)
        /\ Solo(p) /\ begun[p] <= n + 1 => ui.top = [proc |-> p, n |-> n]
    BY <2>1 DEF CopyInStep
  <2>3. n <= Announced(p)
    BY <2>2, NatCounts DEF Announced
  <2>4. Solo(p) /\ begun[p] <= n + 1 => slots[ui.msg.slot] = Whole(p, n)
    BY <2>2, <2>3 DEF SlotsWhole, Finished
  <2> QED
    BY <2>1, <2>2, <2>4 DEF WholeUnlessLapped, Solo, Whole
<1>2. CASE UNCHANGED shown
  <2>2. \A p \in Procs : Solo(p)' => Solo(p)
    BY SoloStep
  <2>3. shown.proc # NoProc => shown.proc \in Procs /\ shown.n \in Nat
    BY BoundAssumption DEF TypeOK
  <2>4. ASSUME shown.proc # NoProc, begun'[shown.proc] <= shown.n + 1
        PROVE  begun[shown.proc] <= shown.n + 1
    BY <2>3, <2>4, NatCounts, BegunGrows
  <2> QED
    BY <1>2, <2>2, <2>3, <2>4 DEF WholeUnlessLapped
<1> QED
  BY <1>1, <1>2
     DEF Next, LiveNext, Serve, Render, vars, uivars, ViewInitialize, OpenIpc, CloseIpc,
         ViewDestroy, GetRendererHostFd, HostFdFails, OnReadableCopy, OnReadableDrop,
         ReapChannel, ShipFd, TargetInitialize, FrameRead, FrameReadRest, FrameSend,
         WebProcessExit, OnReadableFreed

(***************************************************************************)
(* The invariant.                                                          *)
(***************************************************************************)
LEMMA InitIInv == Init => IInv
<1> SUFFICES ASSUME Init PROVE IInv
  OBVIOUS
<1> USE BoundAssumption
<1>1. TypeOK
  <2>1. Free \in Descriptor /\ NoFrame \in Frame /\ 0 \in Slots
    BY DEF Free, Descriptor, NoFrame, Frame, Slots
  <2>2. /\ InLoop \in [at : {"loop", "copy", "crashed"}, proc : Procs \cup {NoProc},
                       msg : [n : 0 .. MaxFrames, slot : Slots], top : Frame]
        /\ [top |-> NoFrame, bottom |-> NoFrame] \in Halves
        /\ [proc |-> NoProc, n |-> 0, top |-> NoFrame, bottom |-> NoFrame]
             \in [proc : Procs \cup {NoProc}, n : 0 .. MaxFrames, top : Frame,
                  bottom : Frame]
    BY <2>1 DEF InLoop, Halves
  <2>3. toWeb \in [Procs -> Seq({"setup", "ack"})] /\ toUI \in [Procs -> Seq(FrameReady)]
    BY DEF Init
  <2>4. /\ slots \in [Slots -> Halves]
        /\ \A p \in Procs : begun[p] = 0 /\ curSlot[p] = 0 /\ taken[p] = 0
    BY <2>2 DEF Init
  <2>5. fdtab \in [Fds -> Descriptor] /\ sock \in [Procs -> Fds \cup {NoFd}]
    BY <2>1 DEF Init
  <2>6. ui = InLoop
        /\ shown = [proc |-> NoProc, n |-> 0, top |-> NoFrame, bottom |-> NoFrame]
    BY DEF Init
  <2> QED
    BY <2>1, <2>2, <2>3, <2>4, <2>5, <2>6 DEF Init, TypeOK
<1>2. DescriptorsMatch
  <2> SUFFICES ASSUME NEW p \in Procs, NEW f \in Fds
               PROVE  fdtab[f] # UiEnd(p) /\ sock[p] # f
    BY DEF DescriptorsMatch
  <2> QED
    BY FdsAssumption, Ends DEF Init
<1>3. NoChannelYet /\ QueueInOrder
  BY DEF Init, NoChannelYet, QueueInOrder
<1>4. InStep
  <2>1. ASSUME NEW p \in Procs
        PROVE  pc[p] = "absent" /\ begun[p] = 0 /\ Announced(p) = 0 /\ curSlot[p] = 0
    <3>1. /\ pc[p] = "absent" /\ begun[p] = 0 /\ curSlot[p] = 0
          /\ taken[p] = 0 /\ toUI[p] = <<>>
      BY DEF Init
    <3>2. Announced(p) = 0
      BY <3>1 DEF Announced
    <3> QED
      BY <3>1, <3>2
  <2> QED
    BY <2>1 DEF InStep
<1>5. SlotsWhole
  BY DEF Init, SlotsWhole, Finished, Announced
<1>6. CopyInStep /\ WholeUnlessLapped
  BY DEF Init, CopyInStep, WholeUnlessLapped, InLoop
<1> QED
  BY <1>1, <1>2, <1>3, <1>4, <1>5, <1>6 DEF IInv

LEMMA StepIInv == IInv /\ [Next]_vars => IInv'
  BY TypeStep, DescriptorsStep, QueueStep, InStepStep, SlotsStep, CopyStep, ShownStep
     DEF IInv

(* Every reachable state, the torn-down ones included, satisfies the       *)
(* invariant.                                                              *)
THEOREM Invariance == Spec => []IInv
  BY InitIInv, StepIInv, PTL DEF Spec

(* Type correctness of the channel.                                        *)
THEOREM TypeCorrect == Spec => []TypeOK
  BY Invariance, PTL DEF IInv

(* Each channel's source polls that channel's own descriptor and no        *)
(* descriptor of a channel leaks, however WebKit reuses the numbers.       *)
THEOREM DescriptorsCorrect == Spec => []DescriptorsMatch
  BY Invariance, PTL DEF IInv

(* The ping-pong: a process drawing alone that is at most one frame ahead  *)
(* of the frame being copied cannot tear it.                               *)
THEOREM FramesWhole == Spec => []WholeUnlessLapped
  BY Invariance, PTL DEF IInv

(* No step of the backend closes a descriptor of WebKit's.                 *)
THEOREM ForeignFdsSafe == Spec => ForeignFdsUntouched
<1>1. IInv /\ [Next]_vars =>
        [\A f \in Fds : fdtab[f].kind \in {"web", "ipc"} /\ fdtab'[f] # fdtab[f]
           => CloseIpc \/ \E p \in Procs : ShipFd(p)]_vars
  <2> SUFFICES ASSUME IInv, Next, NEW f \in Fds,
                      fdtab[f].kind \in {"web", "ipc"}, fdtab'[f] # fdtab[f]
               PROVE  CloseIpc \/ \E p \in Procs : ShipFd(p)
    OBVIOUS
  <2>1. fdtab[f] # Free /\ \A p \in Procs : fdtab[f] # UiEnd(p)
    BY DEF Free, UiEnd
  <2>2. ASSUME NEW p \in Procs, GetRendererHostFd(p) PROVE FALSE
    BY <2>1, <2>2 DEF GetRendererHostFd, IInv, TypeOK
  <2>3. ASSUME NEW p \in Procs, ReapChannel(p) PROVE FALSE
    <3>1. sock[p] \in Fds /\ fdtab[sock[p]] = UiEnd(p)
      BY <2>3 DEF ReapChannel, IInv, TypeOK, DescriptorsMatch
    <3> QED
      BY <2>1, <2>3, <3>1 DEF ReapChannel, IInv, TypeOK
  <2>4. CASE OpenIpc
    BY <2>1, <2>4 DEF OpenIpc, IInv, TypeOK
  <2>5. CASE \/ ViewInitialize \/ OnReadableFinish \/ ViewDestroy
    BY <2>5 DEF ViewInitialize, OnReadableFinish, ViewDestroy
  <2>6. ASSUME NEW p \in Procs,
               \/ HostFdFails(p) \/ OnReadableCopy(p) \/ OnReadableDrop(p)
               \/ TargetInitialize(p) \/ FrameRead(p) \/ FrameReadRest(p)
               \/ FrameSend(p) \/ WebProcessExit(p) \/ OnReadableFreed(p)
        PROVE  FALSE
    BY <2>6 DEF HostFdFails, OnReadableCopy, OnReadableDrop, TargetInitialize,
                FrameRead, FrameReadRest, FrameSend, WebProcessExit, OnReadableFreed
  <2> QED
    BY <2>2, <2>3, <2>4, <2>5, <2>6 DEF Next, LiveNext, Serve, Render
<1> QED
  BY <1>1, Invariance, PTL DEF Spec, ForeignFdsUntouched

-----------------------------------------------------------------------------
(* The channel implements FrameFeed.  Feed's state, named.                 *)
FeedState(p) ==
  CASE sock[p] # NoFd -> "open"
    [] sock[p] = NoFd /\ pc[p] \in {"absent", "nochannel"} -> "none"
    [] OTHER -> "closed"
Published == [p \in Procs |-> taken[p] + Len(toUI[p])]
FeedStates == [p \in Procs |-> FeedState(p)]

(* A process that may send has a channel: only one that is gone is reaped. *)
ChannelKept ==
  \A p \in Procs : pc[p] \notin {"absent", "nochannel", "exited"} => sock[p] # NoFd

(* A step keeps it: a channel is dropped when its process exited, its       *)
(* descriptor being its own until then.                                    *)
LEMMA ChannelKeptStep == IInv /\ ChannelKept /\ [Next]_vars => ChannelKept'
<1> SUFFICES ASSUME IInv, ChannelKept, [Next]_vars PROVE ChannelKept'
  OBVIOUS
<1>0. TypeOK /\ DescriptorsMatch
  BY DEF IInv
<1>1. ASSUME UNCHANGED sock,
             \A p \in Procs : pc'[p] \notin {"absent", "nochannel", "exited"}
                               => pc[p] \notin {"absent", "nochannel", "exited"}
      PROVE  ChannelKept'
  BY <1>1 DEF ChannelKept
<1>2. CASE ViewInitialize \/ OnReadableFinish \/ ViewDestroy \/ OpenIpc \/ CloseIpc \/ UNCHANGED vars
  BY <1>1, <1>2 DEF ViewInitialize, OnReadableFinish, ViewDestroy, OpenIpc, CloseIpc, webvars, vars
<1>3. ASSUME NEW p \in Procs, GetRendererHostFd(p) PROVE ChannelKept'
  <2>1. PICK f \in Fds : sock' = [sock EXCEPT ![p] = f]
    BY <1>3 DEF GetRendererHostFd
  <2>2. f # NoFd /\ pc' = [pc EXCEPT ![p] = "handed"]
    BY <1>3, FdsAssumption DEF GetRendererHostFd
  <2> QED BY <1>0, <2>1, <2>2 DEF TypeOK, ChannelKept
<1>4. ASSUME NEW p \in Procs, ReapChannel(p) PROVE ChannelKept'
  <2>1. fdtab[sock[p]] = UiEnd(p)
    BY <1>0, <1>4 DEF ReapChannel, TypeOK, DescriptorsMatch
  <2>2. pc[p] = "exited"
    BY <1>4, <2>1, Ends DEF ReapChannel, Hup
  <2>3. sock' = [sock EXCEPT ![p] = NoFd] /\ pc' = pc
    BY <1>4 DEF ReapChannel, webvars
  <2> QED BY <1>0, <2>2, <2>3 DEF TypeOK, ChannelKept
<1>5. ASSUME NEW p \in Procs,
             \/ HostFdFails(p) \/ OnReadableCopy(p) \/ OnReadableDrop(p) \/ OnReadableFreed(p)
             \/ ShipFd(p) \/ TargetInitialize(p) \/ FrameRead(p) \/ FrameReadRest(p) \/ FrameSend(p)
             \/ WebProcessExit(p)
      PROVE  ChannelKept'
  BY <1>0, <1>1, <1>5 DEF TypeOK, HostFdFails, OnReadableCopy, OnReadableDrop, OnReadableFreed, ShipFd,
       TargetInitialize, FrameRead, FrameReadRest, FrameSend, WebProcessExit, webvars
<1> QED
  BY <1>2, <1>3, <1>4, <1>5 DEF Next, LiveNext, Serve, Render

(* Whatever process can still announce a frame has the channel to do so.   *)
THEOREM ChannelsKept == Spec => []ChannelKept
<1>1. Init => ChannelKept
  BY DEF Init, ChannelKept
<1> QED
  BY <1>1, ChannelKeptStep, Invariance, PTL DEF Spec

(* The feed as the view's main loop and its WebProcesses see it is the one *)
(* the mapping of Feed gives.                                              *)
LEMMA FeedInit == Init => Feed!Init
<1> SUFFICES ASSUME Init PROVE Feed!Init
  OBVIOUS
<1>1. \A p \in Procs : taken[p] + Len(toUI[p]) = 0 /\ FeedState(p) = "none"
  <2>1. \A p \in Procs : taken[p] = 0 /\ toUI[p] = <<>> /\ sock[p] = NoFd /\ pc[p] = "absent"
    BY DEF Init
  <2>2. Len(<<>>) = 0 /\ 0 + 0 = 0
    OBVIOUS
  <2> QED BY <2>1, <2>2 DEF FeedState
<1>2. Published = [p \in Procs |-> 0] /\ FeedStates = [p \in Procs |-> "none"] /\ taken = [p \in Procs |-> 0]
  BY <1>1 DEF Published, FeedStates, Init
<1> QED
  BY <1>2 DEF Feed!Init, Published, FeedStates, FeedState

(* Every step of the channel is a step of one feed, or none.               *)
LEMMA FeedStep == IInv /\ ChannelKept /\ [Next]_vars => [Feed!Next]_(Feed!vars)
<1> SUFFICES ASSUME IInv, ChannelKept, [Next]_vars
             PROVE  [Feed!Next]_(Feed!vars)
  OBVIOUS
<1>0. TypeOK /\ DescriptorsMatch /\ NoChannelYet /\ QueueInOrder /\ InStep
  BY DEF IInv
<1>1. ASSUME UNCHANGED <<taken, toUI, sock>>,
             \A p \in Procs : pc'[p] \in {"absent", "nochannel"} <=> pc[p] \in {"absent", "nochannel"}
      PROVE  UNCHANGED Feed!vars
  <2>1. \A p \in Procs : FeedState(p)' = FeedState(p)
    BY <1>1 DEF FeedState
  <2>2. Published' = Published /\ FeedStates' = FeedStates /\ taken' = taken
    BY <1>1, <2>1 DEF Published, FeedStates
  <2> QED BY <2>2 DEF Feed!vars, Published, FeedStates, FeedState
<1>2. CASE ViewInitialize \/ OnReadableFinish \/ ViewDestroy \/ OpenIpc \/ CloseIpc \/ UNCHANGED vars
  BY <1>1, <1>2 DEF ViewInitialize, OnReadableFinish, ViewDestroy, OpenIpc, CloseIpc, webvars, uivars, vars
<1>3. ASSUME NEW p \in Procs,
             \/ HostFdFails(p) \/ ShipFd(p) \/ TargetInitialize(p) \/ FrameRead(p) \/ FrameReadRest(p)
             \/ WebProcessExit(p)
      PROVE  UNCHANGED Feed!vars
  BY <1>0, <1>1, <1>3 DEF TypeOK, HostFdFails, ShipFd, TargetInitialize, FrameRead, FrameReadRest,
       WebProcessExit, webvars, uivars
<1>4. ASSUME NEW p \in Procs, GetRendererHostFd(p) PROVE Feed!Open(p)
  <2>1. PICK f \in Fds : sock' = [sock EXCEPT ![p] = f]
    BY <1>4 DEF GetRendererHostFd
  <2>2. f # NoFd /\ pc[p] = "absent" /\ pc' = [pc EXCEPT ![p] = "handed"] /\ UNCHANGED <<taken, toUI>>
    BY <1>4, FdsAssumption DEF GetRendererHostFd, uivars
  <2>3. FeedState(p) = "none" /\ FeedState(p)' = "open"
    BY <2>1, <2>2, <1>0 DEF FeedState, TypeOK, NoChannelYet
  <2>4. \A q \in Procs : q # p => FeedState(q)' = FeedState(q)
    BY <2>1, <2>2, <1>0 DEF FeedState, TypeOK
  <2>5. FeedStates[p] = "none" /\ FeedStates' = [FeedStates EXCEPT ![p] = "open"]
    BY <2>3, <2>4 DEF FeedStates
  <2>6. Published' = Published /\ taken' = taken
    BY <2>2 DEF Published
  <2> QED BY <2>5, <2>6 DEF Feed!Open, Published, FeedStates, FeedState
<1>5. ASSUME NEW p \in Procs, ReapChannel(p) PROVE Feed!Close(p)
  <2>1. /\ sock[p] # NoFd /\ toUI[p] = <<>> /\ sock' = [sock EXCEPT ![p] = NoFd]
        /\ UNCHANGED <<pc, taken, toUI>>
    BY <1>5 DEF ReapChannel, webvars, uivars
  <2>2. FeedState(p) = "open" /\ FeedState(p)' = "closed"
    BY <2>1, <1>0 DEF FeedState, TypeOK, NoChannelYet
  <2>3. \A q \in Procs : q # p => FeedState(q)' = FeedState(q)
    BY <2>1, <1>0 DEF FeedState, TypeOK
  <2>4. FeedStates[p] = "open" /\ FeedStates' = [FeedStates EXCEPT ![p] = "closed"]
    BY <2>2, <2>3 DEF FeedStates
  <2>5. Published[p] = taken[p]
    BY <2>1, <1>0, NatCounts DEF Published
  <2>6. Published' = Published /\ taken' = taken
    BY <2>1 DEF Published
  <2> QED BY <2>4, <2>5, <2>6 DEF Feed!Close, Published, FeedStates, FeedState
<1>6. ASSUME NEW p \in Procs, Recv(p), UNCHANGED <<sock, pc>> PROVE Feed!Take(p)
  <2>1. /\ taken' = [taken EXCEPT ![p] = taken[p] + 1]
        /\ \A q \in Procs : Announced(q)' = Announced(q)
        /\ taken[p] + 1 <= Announced(p)
    BY <1>0, <1>6, RecvQueue
  <2>2. FeedStates[p] = "open" /\ FeedStates' = FeedStates
    BY <1>6 DEF FeedStates, FeedState, Recv
  <2>3. Published' = Published /\ Published[p] = Announced(p)
    BY <2>1 DEF Published, Announced
  <2>4. taken[p] < Published[p]
    BY <2>1, <2>3, <1>0, NatCounts
  <2> QED BY <2>1, <2>2, <2>3, <2>4 DEF Feed!Take, Published, FeedStates, FeedState
<1>7. ASSUME NEW p \in Procs, FrameSend(p) PROVE Feed!Publish(p)
  <2>1. \A q \in Procs : Announced(q)' = IF q = p THEN Announced(p) + 1 ELSE Announced(q)
    BY <1>0, <1>7, SendQueue
  <2>2. /\ pc[p] = "sending" /\ pc' = [pc EXCEPT ![p] = "idle"]
        /\ UNCHANGED <<sock, taken>>
    BY <1>7 DEF FrameSend, uivars
  <2>3. sock[p] # NoFd
    BY <2>2 DEF ChannelKept
  <2>4. FeedStates[p] = "open" /\ FeedStates' = FeedStates
    BY <2>2, <2>3, <1>0 DEF FeedStates, FeedState, TypeOK
  <2>5. Published' = [Published EXCEPT ![p] = Published[p] + 1]
    BY <2>1 DEF Published, Announced
  <2> QED BY <2>2, <2>4, <2>5 DEF Feed!Publish, Published, FeedStates, FeedState
<1>8. ASSUME NEW p \in Procs, OnReadableCopy(p) \/ OnReadableDrop(p) \/ OnReadableFreed(p)
      PROVE  Feed!Take(p)
  BY <1>6, <1>8 DEF OnReadableCopy, OnReadableDrop, OnReadableFreed, webvars
<1> QED
  BY <1>2, <1>3, <1>4, <1>5, <1>7, <1>8 DEF Next, LiveNext, Serve, Render, Feed!Next

(* The channel is a frame feed, with any number of WebProcesses, frames and *)
(* descriptors, and through the teardown too: each frame reaches the view   *)
(* once and in order, and a channel is dropped only when all of its frames  *)
(* were taken.                                                              *)
THEOREM FeedRefined == Spec => Feed!Init /\ [][Feed!Next]_(Feed!vars)
  BY FeedInit, FeedStep, ChannelsKept, Invariance, PTL DEF Spec
=============================================================================
