---------------------------- MODULE FrameChannel ----------------------------
(***************************************************************************)
(* The frame transport of one atlas_view (wpe-atlas-backend.c): a          *)
(* SOCK_SEQPACKET pair per WebProcess, the two shared frame slots every    *)
(* WebProcess of the view writes in turn, the descriptors the UIProcess    *)
(* shares with WebKit, and the callback that serves a channel on the       *)
(* BrowserServer's main loop.                                              *)
(*                                                                         *)
(* One process per WebProcess, one for the main loop, and WebKit's own     *)
(* threads, which adopt the descriptor handed to them and open and close   *)
(* others of their own.  Filling a slot and copying it out are split in    *)
(* two halves (top, bottom): that is where the two sides interleave.       *)
(*                                                                         *)
(* A frame is named by the WebProcess that rendered it and its number      *)
(* there; pixels are the name of the frame they belong to.                 *)
(***************************************************************************)
EXTENDS Naturals, Sequences

CONSTANTS
  Procs,        \* the WebProcesses WebKit may start for this view
  NoProc,       \* none of them
  Fds,          \* the UIProcess's descriptor numbers
  NoFd,         \* none of them
  SockCap,      \* datagrams a socket holds per direction (SO_SNDBUF)
  MaxFrames     \* bound: frames a WebProcess renders

ASSUME ProcsAssumption == NoProc \notin Procs
ASSUME FdsAssumption   == NoFd \notin Fds
ASSUME CapAssumption   == SockCap \in Nat \ {0}
ASSUME BoundAssumption == MaxFrames \in Nat

VARIABLES
  view,         \* the atlas_view: "new" | "live" | "noshm" | "destroyed"
  fdtab,        \* the UIProcess's descriptor table
  sock,         \* atlas_conn.sock_ui of each channel, NoFd when it has none
  toWeb,        \* datagrams for the WebProcess: "setup", "ack"
  toUI,         \* FRAME_READY datagrams: the frame's number and its slot
  pc,           \* where each WebProcess is
  curSlot,      \* atlas_target.cur_slot
  begun,        \* the last frame each WebProcess began to read back
  slots,        \* the two frame slots of the shared segment
  ui,           \* the main loop: in the loop, or copying out of a slot
  taken,        \* the last frame of each channel that recv() returned
  shown         \* the frame last copied out, and what was copied

uivars   == <<ui, taken, shown>>
webvars  == <<pc, curSlot, begun, slots>>
vars == <<view, fdtab, sock, toWeb, toUI, webvars, uivars>>
-----------------------------------------------------------------------------
Slots == {0, 1}                                         \* SLOTS

Descriptor == [kind : {"free", "ui", "web", "ipc"}, proc : Procs \cup {NoProc}]
Free       == [kind |-> "free", proc |-> NoProc]
Ipc        == [kind |-> "ipc",  proc |-> NoProc]        \* one of WebKit's own
UiEnd(p)   == [kind |-> "ui",   proc |-> p]
WebEnd(p)  == [kind |-> "web",  proc |-> p]

Frame      == [proc : Procs \cup {NoProc}, n : 0 .. MaxFrames]
NoFrame    == [proc |-> NoProc, n |-> 0]
Halves     == [top : Frame, bottom : Frame]
FrameReady == [n : 1 .. MaxFrames, slot : Slots]

InLoop == [at |-> "loop",  proc |-> NoProc, msg |-> [n |-> 0, slot |-> 0],
           top |-> NoFrame]
Copying(p, m) == [at |-> "copy", proc |-> p, msg |-> m,
                  top |-> slots[m.slot].top]
Crashed == [InLoop EXCEPT !.at = "crashed"]

TypeOK ==
  /\ view \in {"new", "live", "noshm", "destroyed"}
  /\ fdtab \in [Fds -> Descriptor]
  /\ sock \in [Procs -> Fds \cup {NoFd}]
  /\ toWeb \in [Procs -> Seq({"setup", "ack"})]
  /\ toUI \in [Procs -> Seq(FrameReady)]
  /\ pc \in [Procs -> {"absent", "nochannel", "handed", "starting", "blank",
                       "idle", "reading", "sending", "exited"}]
  /\ curSlot \in [Procs -> Slots]
  /\ begun \in [Procs -> 0 .. MaxFrames]
  /\ slots \in [Slots -> Halves]
  /\ ui \in [at : {"loop", "copy", "crashed"}, proc : Procs \cup {NoProc},
             msg : [n : 0 .. MaxFrames, slot : Slots], top : Frame]
  /\ taken \in [Procs -> 0 .. MaxFrames]
  /\ shown \in [proc : Procs \cup {NoProc}, n : 0 .. MaxFrames,
                top : Frame, bottom : Frame]

Init ==
  /\ view = "new"
  /\ fdtab = [f \in Fds |-> Free]
  /\ sock = [p \in Procs |-> NoFd]
  /\ toWeb = [p \in Procs |-> <<>>]
  /\ toUI = [p \in Procs |-> <<>>]
  /\ pc = [p \in Procs |-> "absent"]
  /\ curSlot = [p \in Procs |-> 0]
  /\ begun = [p \in Procs |-> 0]
  /\ slots = [s \in Slots |-> [top |-> NoFrame, bottom |-> NoFrame]]
  /\ ui = InLoop
  /\ taken = [p \in Procs |-> 0]
  /\ shown = [proc |-> NoProc, n |-> 0, top |-> NoFrame, bottom |-> NoFrame]
-----------------------------------------------------------------------------
(* The UIProcess, on its main loop.                                        *)

(* view_initialize: allocate the shared segment, which may fail.           *)
ViewInitialize ==
  /\ ui.at = "loop"
  /\ view = "new"
  /\ view' \in {"live", "noshm"}
  /\ UNCHANGED <<fdtab, sock, toWeb, toUI, webvars, uivars>>

(* Variant: the source is put on WebKit's end of the pair.                 *)
HostFdWatchesPeer(p) ==
  /\ ui.at = "loop"
  /\ view \in {"live", "noshm"}
  /\ pc[p] = "absent"
  /\ \E f, g \in Fds :
       /\ f # g
       /\ fdtab[f] = Free
       /\ fdtab[g] = Free
       /\ fdtab' = [fdtab EXCEPT ![f] = UiEnd(p), ![g] = WebEnd(p)]
       /\ sock' = [sock EXCEPT ![p] = g]
  /\ toWeb' = [toWeb EXCEPT ![p] = <<"setup">>]
  /\ pc' = [pc EXCEPT ![p] = "handed"]
  /\ UNCHANGED <<view, toUI, curSlot, begun, slots, uivars>>

(* view_get_renderer_host_fd: WebKit starts (or swaps to) WebProcess p.    *)
(* A socketpair, SETUP on it, the main-loop source, and the peer end       *)
(* returned; without two free descriptors socketpair fails and p has no    *)
(* channel.                                                                *)
GetRendererHostFd(p) ==
  /\ ui.at = "loop"
  /\ view \in {"live", "noshm"}
  /\ pc[p] = "absent"
  /\ \E f, g \in Fds :
       /\ f # g
       /\ fdtab[f] = Free
       /\ fdtab[g] = Free
       /\ fdtab' = [fdtab EXCEPT ![f] = UiEnd(p), ![g] = WebEnd(p)]
       /\ sock' = [sock EXCEPT ![p] = f]
  /\ toWeb' = [toWeb EXCEPT ![p] = <<"setup">>]
  /\ pc' = [pc EXCEPT ![p] = "handed"]
  /\ UNCHANGED <<view, toUI, curSlot, begun, slots, uivars>>

HostFdFails(p) ==
  /\ ui.at = "loop"
  /\ view \in {"live", "noshm"}
  /\ pc[p] = "absent"
  /\ \A f, g \in Fds : fdtab[f] = Free /\ fdtab[g] = Free => f = g
  /\ pc' = [pc EXCEPT ![p] = "nochannel"]
  /\ UNCHANGED <<view, fdtab, sock, toWeb, toUI, curSlot, begun, slots, uivars>>

(* atlas_view_on_readable runs for channel p and recv(MSG_DONTWAIT)        *)
(* returns a FRAME_READY.                                                  *)
Recv(p) ==
  /\ ui.at = "loop"
  /\ sock[p] # NoFd
  /\ toUI[p] # <<>>
  /\ toUI' = [toUI EXCEPT ![p] = Tail(@)]
  /\ taken' = [taken EXCEPT ![p] = Head(toUI[p]).n]

(* The ack goes out with MSG_DONTWAIT: when the socket is full it is lost. *)
SendAck(p) ==
  toWeb' = [toWeb EXCEPT ![p] =
              IF pc[p] # "exited" /\ Len(@) < SockCap THEN Append(@, "ack") ELSE @]

(* The handler copies the frame out (the upper half here) ...              *)
OnReadableCopy(p) ==
  /\ view = "live"
  /\ Recv(p)
  /\ ui' = Copying(p, Head(toUI[p]))
  /\ UNCHANGED <<view, fdtab, sock, toWeb, webvars, shown>>

(* ... and the rest, and then the ack.                                     *)
OnReadableFinish ==
  /\ ui.at = "copy"
  /\ shown' = [proc |-> ui.proc, n |-> ui.msg.n, top |-> ui.top,
               bottom |-> slots[ui.msg.slot].bottom]
  /\ ui' = InLoop
  /\ SendAck(ui.proc)
  /\ UNCHANGED <<view, fdtab, sock, toUI, webvars, taken>>

(* The handler drops the frame: the page is gone, the adapter holds both   *)
(* of its buffers, or the size is not the one the page wants (onFrame's    *)
(* early returns, PageBuffers).  The ack is sent all the same.             *)
OnReadableDrop(p) ==
  /\ view = "live"
  /\ Recv(p)
  /\ SendAck(p)
  /\ UNCHANGED <<view, fdtab, sock, webvars, ui, shown>>

(* HUP with nothing left to read, or EOF: the channel is dropped, its end  *)
(* closed - unless the number was closed already (NVAL, EBADF), when it is *)
(* not the channel's to close.                                             *)
Hup(p) ==
  /\ pc[p] = "exited"
  /\ \A f \in Fds : fdtab[f] # WebEnd(p)

(* Variants: the channel is dropped with frames still queued; a view whose *)
(* segment failed is never reaped; the peer's number is closed as well,    *)
(* whoever has it by now.                                                  *)
ReapUndrained(p) ==
  /\ ui.at = "loop"
  /\ sock[p] # NoFd
  /\ Hup(p) \/ fdtab[sock[p]] = Free
  /\ fdtab' = [fdtab EXCEPT ![sock[p]] = Free]
  /\ sock' = [sock EXCEPT ![p] = NoFd]
  /\ UNCHANGED <<view, toWeb, toUI, webvars, uivars>>

ReapWithSegment(p) ==
  /\ view # "noshm"
  /\ toUI[p] = <<>>
  /\ ReapUndrained(p)

ReapBothEnds(p) ==
  /\ ui.at = "loop"
  /\ sock[p] # NoFd
  /\ Hup(p) \/ fdtab[sock[p]] = Free
  /\ toUI[p] = <<>>
  /\ \E g \in Fds : /\ \A q \in Procs : sock[q] # g
                    /\ fdtab' = [fdtab EXCEPT ![sock[p]] = Free, ![g] = Free]
  /\ sock' = [sock EXCEPT ![p] = NoFd]
  /\ UNCHANGED <<view, toWeb, toUI, webvars, uivars>>

ReapChannel(p) ==
  /\ ui.at = "loop"
  /\ sock[p] # NoFd
  /\ Hup(p) \/ fdtab[sock[p]] = Free
  /\ toUI[p] = <<>>
  /\ fdtab' = [fdtab EXCEPT ![sock[p]] = Free]
  /\ sock' = [sock EXCEPT ![p] = NoFd]
  /\ UNCHANGED <<view, toWeb, toUI, webvars, uivars>>
-----------------------------------------------------------------------------
(* WebKit in the UIProcess (external): hostFileDescriptor() adopts the end *)
(* it was handed, ships it to the WebProcess and closes it, on a thread of *)
(* its own; its IPC sockets come and go meanwhile and reuse the numbers.   *)
ShipFd(p) ==
  \E f \in Fds :
    /\ fdtab[f] = WebEnd(p)
    /\ fdtab' = [fdtab EXCEPT ![f] = Free]
    /\ pc' = [pc EXCEPT ![p] = IF @ = "handed" THEN "starting" ELSE @]
    /\ UNCHANGED <<view, sock, toWeb, toUI, curSlot, begun, slots, uivars>>

OpenIpc ==
  \E f \in Fds :
    /\ fdtab[f] = Free
    /\ fdtab' = [fdtab EXCEPT ![f] = Ipc]
    /\ UNCHANGED <<view, sock, toWeb, toUI, webvars, uivars>>

CloseIpc ==
  \E f \in Fds :
    /\ fdtab[f] = Ipc
    /\ fdtab' = [fdtab EXCEPT ![f] = Free]
    /\ UNCHANGED <<view, sock, toWeb, toUI, webvars, uivars>>
-----------------------------------------------------------------------------
(* The WebProcess.                                                         *)

(* target_create, target_initialize: recv blocks until SETUP is there; the *)
(* segment attaches while the view keeps it, and may still after that.  A  *)
(* target without one renders and sends nothing ("blank").                 *)
TargetInitialize(p) ==
  /\ pc[p] = "starting"
  /\ toWeb[p] # <<>>
  /\ toWeb' = [toWeb EXCEPT ![p] = Tail(@)]
  /\ \E attached \in BOOLEAN :
       /\ view = "live" => attached
       /\ view = "noshm" => ~attached
       /\ pc' = [pc EXCEPT ![p] = IF Head(toWeb[p]) = "setup" /\ attached
                                    THEN "idle" ELSE "blank"]
  /\ UNCHANGED <<view, fdtab, sock, toUI, curSlot, begun, slots, uivars>>

(* target_frame_rendered: the readback fills cur_slot (the upper half      *)
(* here) ...                                                               *)
FrameRead(p) ==
  /\ pc[p] = "idle"
  /\ begun[p] < MaxFrames
  /\ begun' = [begun EXCEPT ![p] = @ + 1]
  /\ slots' = [slots EXCEPT ![curSlot[p]].top = [proc |-> p, n |-> begun[p] + 1]]
  /\ pc' = [pc EXCEPT ![p] = "reading"]
  /\ UNCHANGED <<view, fdtab, sock, toWeb, toUI, curSlot, uivars>>

(* ... and the rest; then the acks that piled up are drained ...           *)
FrameReadRest(p) ==
  /\ pc[p] = "reading"
  /\ slots' = [slots EXCEPT ![curSlot[p]].bottom = [proc |-> p, n |-> begun[p]]]
  /\ toWeb' = [toWeb EXCEPT ![p] = <<>>]
  /\ pc' = [pc EXCEPT ![p] = "sending"]
  /\ UNCHANGED <<view, fdtab, sock, toUI, curSlot, begun, uivars>>

(* Variants: the slot index runs past SLOTS; every frame goes to slot 0;   *)
(* the last frame's ack is awaited, though the drain may have eaten it.    *)
FrameSendNoWrap(p) ==
  /\ pc[p] = "sending"
  /\ Len(toUI[p]) < SockCap
  /\ toUI' = [toUI EXCEPT ![p] = Append(@, [n |-> begun[p], slot |-> curSlot[p]])]
  /\ curSlot' = [curSlot EXCEPT ![p] = @ + 1]
  /\ pc' = [pc EXCEPT ![p] = "idle"]
  /\ UNCHANGED <<view, fdtab, sock, toWeb, begun, slots, uivars>>

FrameSendOneSlot(p) ==
  /\ pc[p] = "sending"
  /\ Len(toUI[p]) < SockCap
  /\ toUI' = [toUI EXCEPT ![p] = Append(@, [n |-> begun[p], slot |-> curSlot[p]])]
  /\ pc' = [pc EXCEPT ![p] = "idle"]
  /\ UNCHANGED <<view, fdtab, sock, toWeb, curSlot, begun, slots, uivars>>

FrameSendAwaitsAck(p) ==
  /\ pc[p] = "sending"
  /\ Len(toUI[p]) < SockCap
  /\ begun[p] > 1 => toWeb[p] # <<>>
  /\ toUI' = [toUI EXCEPT ![p] = Append(@, [n |-> begun[p], slot |-> curSlot[p]])]
  /\ curSlot' = [curSlot EXCEPT ![p] = 1 - @]
  /\ pc' = [pc EXCEPT ![p] = "idle"]
  /\ UNCHANGED <<view, fdtab, sock, toWeb, begun, slots, uivars>>

(* ... and FRAME_READY is sent, waiting for room; the other slot is next.  *)
FrameSend(p) ==
  /\ pc[p] = "sending"
  /\ Len(toUI[p]) < SockCap
  /\ toUI' = [toUI EXCEPT ![p] = Append(@, [n |-> begun[p], slot |-> curSlot[p]])]
  /\ curSlot' = [curSlot EXCEPT ![p] = 1 - @]
  /\ pc' = [pc EXCEPT ![p] = "idle"]
  /\ UNCHANGED <<view, fdtab, sock, toWeb, begun, slots, uivars>>

(* The process ends - closed, killed by ~BrowserPageWPE, or crashed - at   *)
(* any point, a half-filled slot included.  What it sent can still be read.*)
WebProcessExit(p) ==
  /\ pc[p] \in {"handed", "starting", "blank", "idle", "reading", "sending"}
  /\ pc' = [pc EXCEPT ![p] = "exited"]
  /\ toWeb' = [toWeb EXCEPT ![p] = <<>>]
  /\ UNCHANGED <<view, fdtab, sock, toUI, curSlot, begun, slots, uivars>>
-----------------------------------------------------------------------------
(* Teardown: WebKit drops the WebView's backend and view_destroy frees the *)
(* view, but not its channels.                                             *)
ViewDestroy ==
  /\ ui.at = "loop"
  /\ view \in {"live", "noshm"}
  /\ view' = "destroyed"
  /\ UNCHANGED <<fdtab, sock, toWeb, toUI, webvars, uivars>>

(* A FRAME_READY still queued then reaches v->shm and v->handler in freed  *)
(* memory: whatever is there decides between nothing and a crash.          *)
OnReadableFreed(p) ==
  /\ view = "destroyed"
  /\ Recv(p)
  /\ ui' \in {InLoop, Crashed}
  /\ UNCHANGED <<view, fdtab, sock, toWeb, webvars, shown>>
-----------------------------------------------------------------------------
Serve(p) ==
  \/ OnReadableCopy(p)
  \/ OnReadableDrop(p)
  \/ ReapChannel(p)

Render(p) ==
  \/ TargetInitialize(p)
  \/ FrameRead(p)
  \/ FrameReadRest(p)
  \/ FrameSend(p)
  \/ WebProcessExit(p)

LiveNext ==
  \/ ViewInitialize
  \/ OnReadableFinish
  \/ \E p \in Procs : \/ GetRendererHostFd(p)
                      \/ HostFdFails(p)
                      \/ Serve(p)
                      \/ ShipFd(p)
                      \/ Render(p)
  \/ OpenIpc
  \/ CloseIpc

Next ==
  \/ LiveNext
  \/ ViewDestroy
  \/ \E p \in Procs : OnReadableFreed(p)

Spec == Init /\ [][Next]_vars

(* The glib main loop dispatches every ready source; WebKit's I/O thread   *)
(* ships and closes what it adopted; a render thread that has begun a      *)
(* frame finishes it.  Nothing obliges a page to render or a process to    *)
(* exit.                                                                   *)
LiveSpec ==
  /\ Init
  /\ [][LiveNext]_vars
  /\ WF_vars(OnReadableFinish)
  /\ \A p \in Procs : /\ SF_vars(OnReadableCopy(p) \/ OnReadableDrop(p))
                      /\ SF_vars(ReapChannel(p))
                      /\ WF_vars(ShipFd(p))
                      /\ WF_vars(FrameReadRest(p))
                      /\ WF_vars(FrameSend(p))
-----------------------------------------------------------------------------
(* Every channel's source polls the channel's own end, and every such end  *)
(* in the descriptor table belongs to a channel that will close it: no     *)
(* channel reads a socket that reused its number, and none leaks.          *)
DescriptorsMatch ==
  \A p \in Procs, f \in Fds : fdtab[f] = UiEnd(p) <=> sock[p] = f

(* A descriptor that is WebKit's - the end handed to it, or one of its IPC *)
(* sockets that reused a number - is closed by WebKit and by nobody else   *)
(* (bug 1 of "The GPU wedge" in ARCHITECTURE.md).                          *)
ForeignFdsUntouched ==
  [][\A f \in Fds : fdtab[f].kind \in {"web", "ipc"} /\ fdtab'[f] # fdtab[f]
       => CloseIpc \/ \E p \in Procs : ShipFd(p)]_vars

(* The ping-pong: what the handler copied out is the frame the WebProcess  *)
(* announced, both halves, unless that process had already begun the frame *)
(* after the next, or another process of the same view was drawing.        *)
Solo(p) == \A q \in Procs : q # p => begun[q] = 0

WholeUnlessLapped ==
  LET p == shown.proc  n == shown.n  f == [proc |-> p, n |-> n]
  IN  p # NoProc /\ Solo(p) /\ begun[p] <= n + 1 => shown.top = f /\ shown.bottom = f

(* What wpe-atlas-backend.h and ARCHITECTURE.md promise the handler: the   *)
(* slot is not recycled before it returns, so a frame is never torn.       *)
NeverTorn == shown.top = shown.bottom

(* A queued frame never reaches the handler through a freed view.          *)
NeverCrashed == ui.at # "crashed"

(* The channel is a frame feed: frames in order, each once, dropped only   *)
(* when the process is gone and its last frame taken, and the main loop    *)
(* never stops serving it.                                                 *)
Feed == INSTANCE FrameFeed WITH
  published <- [p \in Procs |-> taken[p] + Len(toUI[p])],
  feed      <- [p \in Procs |->
                  CASE sock[p] # NoFd -> "open"
                    [] sock[p] = NoFd /\ pc[p] \in {"absent", "nochannel"} -> "none"
                    [] OTHER -> "closed"]

FeedSpec == Feed!Spec

(* No render thread hangs in its blocking send: the main loop makes room   *)
(* (or the process ends).  Bug 2 of "The GPU wedge".                       *)
SendReturns == \A p \in Procs : pc[p] = "sending" ~> pc[p] # "sending"

(* The channel of a WebProcess that exited is reaped.                      *)
ChannelReaped == \A p \in Procs : pc[p] = "exited" ~> sock[p] = NoFd
-----------------------------------------------------------------------------
(* Why it holds: the inductive strengthening of TypeOK, DescriptorsMatch    *)
(* and WholeUnlessLapped (FrameChannelProofs).                              *)
SlotOf(n)    == (n + 1) % 2                       \* the slot frame n goes to
Announced(p) == taken[p] + Len(toUI[p])
Whole(p, n)  == [top |-> [proc |-> p, n |-> n], bottom |-> [proc |-> p, n |-> n]]

(* A channel exists from the handover on.                                  *)
NoChannelYet == \A p \in Procs : pc[p] \in {"absent", "nochannel"} => sock[p] = NoFd

(* The queue holds the frames after the last one taken, in order, each     *)
(* with the slot its number gives.                                         *)
QueueInOrder ==
  \A p \in Procs : \A i \in 1 .. Len(toUI[p]) :
    toUI[p][i] = [n |-> taken[p] + i, slot |-> SlotOf(taken[p] + i)]

(* How far a WebProcess is ahead of its announcements.                     *)
InStep ==
  \A p \in Procs :
    CASE pc[p] = "idle"    -> begun[p] = Announced(p) /\ curSlot[p] = SlotOf(begun[p] + 1)
      [] pc[p] \in {"reading", "sending"} ->
                              begun[p] = Announced(p) + 1 /\ curSlot[p] = SlotOf(begun[p])
      [] pc[p] = "exited"  -> begun[p] \in {Announced(p), Announced(p) + 1}
      [] OTHER             -> begun[p] = 0 /\ Announced(p) = 0 /\ curSlot[p] = 0

(* The last two frames a process drawing alone has finished are whole in   *)
(* their slots.                                                            *)
Finished(p, n) == n <= Announced(p) \/ (pc[p] = "sending" /\ n <= begun[p])

SlotsWhole ==
  \A p \in Procs : Solo(p) =>
    /\ \A n \in 1 .. MaxFrames :
         Finished(p, n) /\ begun[p] <= n + 1 => slots[SlotOf(n)] = Whole(p, n)
    /\ pc[p] = "reading" => slots[curSlot[p]].top = [proc |-> p, n |-> begun[p]]

(* The frame being copied is the last one taken.                           *)
CopyInStep ==
  ui.at = "copy" =>
    LET p == ui.proc  n == ui.msg.n
    IN  /\ p \in Procs
        /\ n \in 1 .. MaxFrames
        /\ n = taken[p]
        /\ ui.msg.slot = SlotOf(n)
        /\ Solo(p) /\ begun[p] <= n + 1 => ui.top = [proc |-> p, n |-> n]

IInv ==
  /\ TypeOK
  /\ DescriptorsMatch
  /\ NoChannelYet
  /\ QueueInOrder
  /\ InStep
  /\ SlotsWhole
  /\ CopyInStep
  /\ WholeUnlessLapped
=============================================================================
