# TLA+ verification of the WPE-Atlas backend

The program (`src/`) puts WPE WebKit behind the browser of the HP TouchPad. A
`BrowserServer` process (WebKit's UIProcess) holds one `BrowserPageWPE` per
card; WebKit renders each page in a WebProcess; `wpe-atlas-backend.c` is loaded
by both and carries the frames from one to the other through shared memory; the
page copies each frame into one of two buffers it shares with the
`BrowserAdapter`, the browser's plug-in, which blits them to the screen.

    page, GPU            WebProcess       | BrowserServer main loop                  | adapter
    target_frame_rendered --FRAME_READY-->  atlas_view_on_readable -> onFrame --msgPainted--> show
       ^ slots, ctrl, vrect (shared)   <--ack--                               <--bufferReturned--
       ^-- window.scrollTo (evaluation)  <--  recenterForScroll    <--------- setScrollPosition --

Contents: [inventory](#inventory), [modules](#modules), [runs](#runs),
[fairness](#fairness), [proofs](#proofs), [known disagreements](#known-disagreements),
[not modelled](#what-is-not-modelled), [plan](#plan).

## Inventory

`c:` is `src/wpe-atlas-backend.c`, `cpp:` is `src/BrowserPageWPE.cpp`.

| Component | State it keeps | Operations | What is hard | What makes it correct |
|---|---|---|---|---|
| Frame channel (c:102-253, c:434-480, c:1281-1300) | per WebProcess a socketpair and a main-loop source; per view a shared segment with two frame slots; per target a slot index | `view_initialize`, `view_get_renderer_host_fd`, `atlas_view_on_readable`, `target_create`, end of `target_frame_rendered`, `view_destroy` | two processes write and read the same slots with no lock; descriptor numbers are shared with WebKit's threads; blocking `send` against a main loop; HUP together with data | frames in order, each once, whole; own descriptor closed once and nobody else's; nobody hangs; no channel left behind |
| Frame readback (c:987-1281) | per target a master copy, counters `vframe`, `dframe`, flags `force_full`, `slots_to_seed`, `last_seq` | strip, damage, video and full readback, `target_resize` | four paths share the master and the counters; each relies on another path's full readback | every row sent was read from the page, not from fresh memory or an old layout; drift is bounded; video rows are right |
| Control page (c:313-352) | pan hint and video rectangle in shared memory | `scroll_hint`, `video_rect` | fields and sequence number written and read word by word | a reader uses a hint once and never a mix of two |
| View resize (c:258-310, c:492-505) | layout size on both sides | `resize`, `target_resize` | both sides compute addresses from their own copy of the size | slots and control page are addressed alike, within the segment |
| Page offscreens (cpp:1480-1601, 3221-3282) | two offscreens, who owns each | `attachToBuffer`, `onFrame`, `flushBuffer`, `bufferReturned`, `freeze`, `thaw`, `clearToWhite` | messages in flight across a freeze and a thaw; frames dropped while both are held; commits and frames in any order | each buffer is in one place; the screen is never painted over, never goes back, never stays on a page that was left |
| Windowed pan (cpp:2032-2272) | scroll position and velocity, top of the buffer, render in flight, settle timer, page height | `setScrollPosition`, `recenterForScroll`, `onScrollConfirm`, `onSettleTimer`, `onContentHeight` | every scroll may be gated, deferred or overtaken; labels are guesses until confirmed | the buffer catches up with the user, its label with the pixels, and the page comes to rest |
| Page lifecycle (cpp:135-176, 697-1110, 1604-1658, 3316-3445) | WebView, load state, live-page set, card's markers, crash throttle | `openUrl`, `setHTML`, load signals, `onWebProcessTerminated`, destructor | answers and timers of pages that are gone; crash loops; views built ahead of time | no callback touches a dead page; a private card has a private view |
| Window geometry and rotation (cpp:789-894, 1664-1740, 2023-2029) | window, layout, virtual height | `setWindowSize`, `setVirtualWindowSize`, launch layout | placeholder sizes, keyboards, rotations while another surface is set | the layout shown is the page's, and no buffer collapses |
| Full-screen video (cpp:1746-2020) | session state, `g_mediadBusy`, timers | `mediadBegin` ... `mediadEnd` | replies and timers of a session that ended | one session owns the decoder; it is always let go |
| Login capture and deferral (cpp:370-470, 598-620) | a held submission, its timer, a suppression time | `onDecidePolicy`, scrape, timeout | a late answer after the timeout, a crash meanwhile | goes on exactly once, and the form that was submitted is the one read |
| Sensors (cpp:477-596) | probe and push timers, a cancellable, a socket | probe, push, stop | answers of the page before, a service that restarts | pushed only to the page that asked, and to it in the end |
| Hit test, image saving (cpp:2712-2851) | the last question's number, the file being saved | `hitTestAsync`, `saveImageAtPointAsync`, the download | answers of a process that died, repeated questions | every question answered; a repeat is dropped only for a download under way |
| Audio sink (`gst-pasink`) | connection, lock, `flushing` flag | `prepare`, `write`, `delay`, `reset`, `unprepare` | three threads | the connection is used by one at a time and never after it is freed |
| Video elements (`gst-mdpdetile`, `gst-mdpoverlay`) | driver sessions, buffers | GStreamer callbacks | partial failure of set-up | everything acquired is released |
| Zoom, selection, input, editor focus, configuration, `atlas:` scheme, favicons, authentication, test drivers, build and patches | little or none | one call, one answer | - | see [not modelled](#what-is-not-modelled) |

`PROJECT.json` has the same list under `components`, and under `hazards` what in
this code a test would hardly reach, each at its line with the properties about it.

## Modules

| Module | Models | Lines | Used by |
|---|---|---|---|
| `FrameFeed` | what the transport promises: per WebProcess a stream of frames taken in order, each once | abstract | `FrameChannel` implements it (`FeedSpec`) |
| `FrameChannel` | the frame channel | c:59-253, 434-480, 987-1300 (outline) | `FrameChannelProofs`, `MCFrameChannel` |
| `Readback` | `target_frame_rendered`, the pan hint and its sender | c:62-82, 395-505, 974-1300; cpp:2202-2321 | `ReadbackProofs`, `MCReadback` |
| `PageBuffers` | the page's two offscreens and the adapter | cpp:1480-1601, 3221-3365 | `PageBuffersProofs`, `MCPageBuffers` |
| `PagePan` | the windowed pan and the WebProcess it drives | cpp:2032-2403, 1508-1585 | `MCPagePan` |
| `ViewResize` | layouts and slot addresses on both sides, rotation, mediad's surface, warm views | c:47-98, 236-308, 434-505, 996-1003; cpp:789-922, 1480-1500, 1604-1740, 1818-1849, 2023 | `ViewResizeProofs`, `MCViewResize` |
| `PageLoads` | a card's view and its WebProcess: loads, signals, crash, reload, end | cpp:151-176, 744-774, 1481-1502, 1604-1654, 3393-3433 | the next four |
| `LoginDeferral` | the login scrape and the decision it holds | cpp:267-393, 596-609 | `BrowserPage` |
| `Sensors` | probe and push | cpp:477-594 | `BrowserPage` |
| `PointQueries` | hit test, saving an image | cpp:2712-2851 | `BrowserPage` |
| `BrowserPage` | the page that all four are parts of: one action per message it handles | cpp:1033-1047, 3316-3384 | `BrowserPageProofs`, `MCBrowserPage` |
| `MediadHandoff` | full-screen video given to the media server, several pages | cpp:1060-1096, 1795-2021 | `MediadHandoffProofs`, `MCMediadHandoff` |
| `AudioSink` | the PulseAudio sink's threads | gstpasink.c | `AudioSinkProofs`, `MCAudioSink` |
| `FrameChannelProofs`, `ReadbackProofs`, `PageBuffersProofs`, `BrowserPageProofs`, `ViewResizeProofs`, `MediadHandoffProofs`, `AudioSinkProofs` | theorems | | |

The components meet at a few points, and each module has the other side of
those points as an environment no narrower than the module that models it:
`FrameChannel` lets the handler copy or drop any frame (`OnReadableCopy`,
`OnReadableDrop`), `PageBuffers` says when it drops; `Readback` fills a slot in
one step, `FrameChannel` has the halves that interleave; `PageBuffers` and
`PagePan` share `onFrame`, one for where the pixels go, the other for the
position they are labelled with; `PagePan` sends the evaluation whose answer
gives `Readback` its hint; `MediadHandoff` and `ViewResize` share the surface (`FreeSurface`, `RestoreSurface`),
one for when it is shrunk and given back, the other for what that does to the layout.

### FrameChannel

A frame is its WebProcess and its number there; a pixel is the frame it belongs
to. A slot has two halves, filled (`FrameRead`, `FrameReadRest`) and copied out
(`OnReadableCopy`, `OnReadableFinish`) one after the other: two are enough to
tell a whole frame from a torn one. `fdtab` is the UIProcess's descriptor table
with every end that is a channel's (`ui`), WebKit's copy of the peer (`web`) or
a socket of WebKit's own (`ipc`): WebKit's threads close and open descriptors at
any time (`ShipFd`, `OpenIpc`, `CloseIpc`), and a number is reused at once.
`sock` is `atlas_conn.sock_ui`. Acks are lost when the socket is full
(`MSG_DONTWAIT`), frames are not (the render thread blocks). `ReapChannel` is
the HUP/EOF/NVAL branch, taken only when nothing is left to read.

### Readback

A frame is `H` rows of a page of `D` rows. A row of a buffer is the page row it
was read from and whether it is as the page is *now*, as it was in the *past*,
of an *old* layout or process, or *none*: never read, what `malloc` left there.
`StripBlock`, `DamageBlock`, `MasterBlock` and `VideoBlock` are the function's
blocks in order, each a function from the target the block before left to the
next; `FrameRendered` takes the first path that applies, and an allocation, a
GL read and the seqlock on the rectangle may fail at each (`ok`, `got`,
`torn`, `locked`). The counters `vframe` and `dframe` are kept modulo their
periods, which is all the code asks of them. `HintFields` and `HintSeq` are the
two halves of `scroll_hint`, between which the WebProcess may run. The control page lies behind the
slots of the current layout, so a resize may move it to where pixels are: `ControlMoves` lets the
WebProcess find there a hint of `Leftovers`, or any rectangle, until the page publishes again.
The three gates (`StripOn`, `DamageOn`, `VideoOn`) and `Confirm` are the
environment's switches (`/tmp/atlas_no_*`); damage is reported only by a WebKit
with the corresponding extension.

### PageBuffers

A key of a segment is the attach that brought it and which of the two it is. A
picture is its stamp and the page it shows. Messages travel in order in each
direction. Pictures that are on their way when the adapter freezes name segments it has purged;
it may hand such a key back when it comes to it, which can be after the next attach, and the page must
then know no buffer by it (`BufferReturned`). LOAD_COMMITTED and frames reach the
page by different routes and are delivered in either order. The adapter is not
in the repository; it is modelled from what the page is written against: it
shows what was painted last, returns what it showed before, and may or may not return what it
does not know.

### PagePan

Rows at zoom 1. A velocity is one of four speeds, by the thresholds the code
compares it with; the lead is any the speed allows, none included (the streak
of three moves it takes is not counted). Of the times only the render budget
matters (`BPWPE_RENDER_MS`): `recent` says it has not run out since the last
re-render, `Elapse` ends it - at any time when `Slow`, otherwise only when
nothing is under way. A deferral arms `settle`; `OnSettleTimer` may fire at any
time after. `Queues` lets `onFrame` ask for the height once more, as it does
while the page loads. `lost` and `shrunk` are history variables the properties
need: the last frame found both buffers held; the document once got shorter.

### ViewResize

A layout is a width and a height; an address is a number of pixels
(`Offset`). `render` is what the page expects, `view` what the view backend
took over, `target` what the WebProcess has been told: sizes travel in `sizes`,
frames in `frames` with the layout and the offset they were written at, so that
`OnReadable` can read slot 1 where *its* side puts it. `cap` is `alloc_w *
alloc_h`, fixed by `EnsureWebView`. `Prespawn` and `OpenUrl` are the two ways a
view is built, the second throwing away the first's when the card turns out
private or simple. `Rotated` has the code's arithmetic with its constants
(2 000 000, 3 145 728, 2048, 4096). `OnReadable` may drop any frame, as `onFrame` does when the adapter
holds both buffers.

### PageLoads, LoginDeferral, Sensors, PointQueries, BrowserPage

A document is the number of the navigation that brought it. `evals` is what the
page sent to its WebProcess (loads, policy answers, scripts) and `news` what the
WebProcess sent back (policy questions, load signals, answers, its end); both are
handled in order. A WebProcess that dies fails whatever it left unanswered
(`Failed`, in the order of `InOrder`). A load that is made after a WebProcess
died and before the view is told of it reaches nobody (`Load`): the news that it
ended says what to do then (`TerminatedNews`). Each part of the page has its state, its own timers and
requests, and what it does with a message; `BrowserPage` is the main loop
that takes the next message and calls the part. An answer after the
page's end is still handled, as in the code: `freed` says whether that touched
the page. `Navigate` has three kinds: a form, a link, and a
login whose form hands on to another page. `OpenUrl` and `SetHtml` are the app's two ways to fill a card. That markers
come with what a card opens first, and not later, is the app's promise (cpp:1491, cpp:1608) and the assumption
`MarksFirst`: `openUrl` looks for them on every URL, and a marker on a later one would set the flag of a
card whose view is long built. `SetHtml` looks for none, so a card filled with it first is a plain one for good.
`FoundSrc` has the download that cannot be started: it is answered, and its image still counts as in flight. The throttle of
reloads (`guard`) is shared by all pages (`s_lastReloadMs` is static), so other pages can raise it
(`SiblingReloads`).

### MediadHandoff

Per page the timers it has queued (300 ms before it asks the document, 900 ms
before it opens a session, 1000 ms before it plays), by the callback they are for and counted: a
page can have two of one kind. They fire in any order; the delays are not
modelled. `opened` is mediad's side: it keeps a session for as long as the
call that opened it is held and answers it as often as it likes, with a location (`PlaybackReply`) or
without (`PlaybackRefusal`, kept in `refused`). Pages are closed
at any time, and nothing of a hand-off is undone then. `BeginTimerFreed` is the
300 ms timer (cpp:1068-1071), which reads its page without `bpwpe_dead`: nothing, or the end of
the process (`freed`), after which nothing is promised. Its twin of 500 ms (cpp:1081-1087) does the same
when the opt-in file is not there, and leads to the resize that is not modelled.

### AudioSink

Three threads: `ring` writes, `clock` asks for the delay, `control` prepares,
resets and unprepares. Each is out of the sink, waiting for the mutex, in
`pa_simple`, or (after a reset) about to lower the flag. `flushing` is read
without the mutex, as `g_atomic_int` in the code.

## Runs

Every run is exhaustive within its bounds. A mutant of the code is known for
every property of every run that violates it under that run's cfg
(`PROJECT.json`, `mutants`; the definitions placed before the mapped one and named for
what they leave out).

| Run | Instance | Checks |
|---|---|---|
| `channel_lap` | 1 process, 5 frames, socket of 2, 3 descriptors | `TypeOK`; `WholeUnlessLapped`: a frame is copied out whole unless its slot was lapped; `FeedSpec`: refinement of `FrameFeed` (order, once each, drained before reaping, served for ever); `SendReturns`: the render thread's blocking send always ends; `ChannelReaped` |
| `channel_swap` | 2 processes of one view, 4 descriptors, 2 frames each, view destroyed at any time | `DescriptorsMatch`: a channel watches its own end and no end is lost; `ForeignFdsUntouched`: nobody but WebKit closes WebKit's descriptors |
| `readback_video` | 3 rows of 4, a video on the middle row, period 3, hints ignored | `TypeOK`; `VideoRowsRight`; `DriftBounded`: wrong rows elsewhere are gone `VFULL` frames after a full readback |
| `readback_damage` | damage and a video, both periods 2, pans hinted before the scroll to a backend that ignores hints | `NoGarbage`, `SlotsSeeded`, `NoOldLayout`; `DriftBoundedDamage` |
| `readback_all` | everything on as shipped: 2 rows of 3, a video, damage, both periods 2, 1 hint under way and confirmed, old pixels that make a hint | `DriftBoundedDamage`: what late hints, strips, damage and the video leave wrong is gone `DFULL * VFULL` rectangles after a full readback |
| `buffers_keys` | 2 attaches, 5 pictures, 1 navigation, 1 frame in flight, resizes | `OnePlace`; `NeverPaintedOver`; `NeverBackwards`; `BufferComesBack` |
| `pan_follow` | screen of 3 rows, buffer of 13, document of 8 or 18, 3 moves to any of 3 positions | `CatchUp`; `LabelSettles`; `Quiesces` |
| `mediad_handoff` | a page that enters full screen 3 times against one that does once, 4 sessions, any answers, either page closed at any time | `OneDecoder`: one page at a time has a claim, and g_mediadBusy is up while it has; `SavedIsFull`: the size given back is the page's own; `HandoffPlays`, unless its session was refused or it has two open |
| `page_events` | 2 navigations of any kind, 1 crash, a sibling's reloads, 2 messages each way, one marker, sensors and atlas-sensord | `ProbeNeverUsesFreed`: no probe's answer touches a page that is gone; `PushedToAsker`; `ScrapesSubmitter`: the scrape runs in the document that submits; `ViewIsTheCards`; `ListenerIsFed`; `HeldGoesOn`: a held decision is made once and only once |
| `page_queries` | 2 hit tests, 2 saves, 1 file, 1 navigation, 1 crash, 2 messages each way | `HitAnswered`; `SaveAnswered`: answered, being downloaded, or dropped as a repeat |
| `view_resize` | 5 windows, 4 changes of window or surface, 2 sizes and 2 frames under way, simple or not, warm or not | `WithinSegment`; `ReadWhereWritten`; `NotCollapsed`: a screen wide and as tall as the clamp promises; `LayoutsAgree` |
| `audio_sink` | 3 threads, any flushes and teardowns, 10 questions for the delay | `Serialised`; `TeardownReturns`; `SoundResumes` |

Why the bounds are enough. *Channel*: five frames through two slots lap the
main loop twice; a third (fourth) descriptor lets a number be reused by an IPC
socket, or by the other process, while the first still has it. *Readback*: with
periods of 2 and 3 the counters wrap several times; there is no bound on the
number of frames; three rows have a video with a row on either side of it; a page one row
longer than the frame pans both ways. `readback_all` has two rows, the video on one of them, so that a strip can miss it; the one hint
is enough to come late, as a frame may be drawn before it is written. *PageBuffers*: the second attach makes a
key stale; five pictures are both buffers twice and one more. *PagePan*: a
document of 18 rows has buffer tops 0 to 5, positions 0 and 15 want the two
ends and 5 the top between; three moves are one to start a re-render, one while
it is under way, one while that is deferred; two evaluations at a time make a
render declared lost overlap its successor. The 8-row document is the page that
fits the buffer. *MediadHandoff*: two pages claim the decoder against each other;
three entries of one are what it takes for a session to be lost (left and entered within 900 ms, the
token of the first is overwritten) and to be answered in the next; four sessions are one per entry, and the
other page's one entry claims, fails or is closed at any point of these. *BrowserPage*: the second navigation makes the first's document, held
decision and probe old; the crash fails what is under way, the reload that follows it is a third load; two
messages each way put an answer behind the signal that makes it stale. The
two runs ask different questions of the one specification and each leaves the
other's inputs out; `page_queries` needs two of each question for one to overtake
the other, and one file for the second save to be a repeat of the first. *ViewResize*: 4 changes are a rotation there and back with a surface taken and given
back between; two sizes and two frames under way let each side be a change and a slot apart; the five windows
are landscape, landscape above a keyboard that leaves less than half, portrait, and two placeholders, one of
them taller than the screen and narrower than the window. *AudioSink*: only the questions for the delay are bounded; see fairness.

Deadlock is checked in the readback, `view_resize` and `audio_sink` runs. In the others the
counters run out, or every page is closed, and the system may stop (`CHECK_DEADLOCK FALSE`);
their liveness properties stand in for it.

## Fairness

* `FrameChannel!LiveSpec`: the glib main loop dispatches every ready source. A
  source can be ready, be drained by another callback's effect and become ready
  again, hence strong fairness on serving a channel and on reaping it; WebKit's
  I/O thread ships what it adopted; a render thread that began a frame finishes
  it, as there is no wait in between. Nothing obliges a page to render, a
  process to exit, or WebKit to open or close sockets. `LiveNext` leaves out
  `view_destroy`, after which nothing is promised.
* `PageBuffers!LiveSpec`: both ends read their connection, the main loop
  delivers frames and signals. Nothing obliges a page to render.
* `PagePan!Spec`: timers fire, budgets run out, what is on its way arrives, the
  WebProcess evaluates what it is sent and renders what it painted. Nothing
  obliges the user, the page, or the height poll. An arriving frame may be
  dropped each time; the two properties about what the adapter has in the end
  therefore assume the last frame was not.
* `MediadHandoff!Spec`: timers fire, evaluations end, mediad answers a call that is held, with a location unless it has refused it one. No page
  has to enter or leave full screen or to be closed.
* `BrowserPage!Spec`: the main loop takes the next message, a WebProcess that is up handles
  what it was sent, the login timer fires, the push timer does what it has to. The probe's
  timer waits for room among the bounded messages, which comes and goes: strong fairness, because in
  the code nothing bounds them and the timer fires every time. Nothing obliges a document to load, to be left, or a
  crashed one to come back; `ListenerIsFed` assumes a page that stays.
* `AudioSink!Spec`: each thread goes on when it can. The mutex is not fair: weak fairness on
  taking it says only that it is taken if it stays free. A reset could thus wait for ever behind a
  thread that asks for the delay again and again, which GStreamer does not: it asks once per
  clock query, so the questions are bounded. Writes are *not*: that they cannot starve a reset
  is what the flag is for, and what `TeardownReturns` shows. A call of `pa_simple` that never returns
  would block everything (`pa_simple_write` does while the server is hung); it is assumed to return.
* `Readback` and `ViewResize` have safety properties only. A layout set is not always painted (cpp:1729, and `target_resize` never
  comes in full screen, cpp:1748), so nothing is promised of when it is seen: only that everyone agrees on it (`LayoutsAgree`).

## Proofs

The `...Proofs` modules, checked by TLAPS (SMT, Zenon, PTL).
The assumptions are the modules' `ASSUME`s: a `NoProc` and `NoFd` outside the sets,
a socket that holds one datagram or more; a page no shorter than the frame, periods of at least
one, videos within the frame; windows, panel and surface with at least one row and column; `NoView` not
a set of markers, a navigation or more. Nothing
is assumed about the size of the sets: any number of
processes, descriptors, frames, pages and sessions, any heights, widths and periods.

**FrameChannel.** `IInv` is inductive (`InitIInv`, `StepIInv`) and is itself an
invariant (`Invariance`). `TypeOK` is not inductive alone: a datagram is typed
by the number of the frame sent, which is at most `MaxFrames` and at least 1
only because a process that sends has begun a frame (`InStep`). `WholeUnlessLapped`
needs the whole chain: the queue holds consecutive frames, each with the slot its number
gives (`QueueInOrder`); a process is at most one frame ahead of what it
announced, at the slot that number gives (`InStep`); so the two frames before
it are untouched in the two slots (`SlotsWhole`); so the half already copied is
of the frame just taken (`CopyInStep`), and the other half too unless the slot was lapped meanwhile.
`DescriptorsMatch` needs only that no channel exists before it is handed out
(`NoChannelYet`). From `IInv`: `TypeCorrect`, `DescriptorsCorrect`,
`FramesWhole`, and `ForeignFdsSafe`, an action property (a step that reaps
closes the channel's own end, which by `DescriptorsMatch` is neither `web` nor `ipc`).

`FeedRefined` is the safety part of `FrameChannel => FrameFeed`: initial states map to initial
states and every step, those of a teardown among them, to a step of the feed or to none. It needs
`IInv`, for the frame that is announced to be the next one and the frame that is taken to be the oldest
announced; and `ChannelKept`, that whatever process may still announce a frame has its channel, for a
stream to be closed only when its process is gone. `ChannelKept` is inductive with `IInv`,
because a process's descriptor is its own until it exits, and a channel is reaped only then.

**Readback.** `TypeCorrect` holds for all gates. The rest is proved with the
strip path off (`ASSUME ~StripOn`), because with it on the statement is false (known disagreement 3).
`IInv` adds `MasterSeeded`: a master in use
without `force_full` was read in full since the layout last changed, and so was
the slot sent last. `NoGarbage` alone is not inductive: the next frame may
be patched onto the master, of which it says nothing. `SlotsSeeded` joins it because
the rectangle goes to a slot alone only when none is left to seed. `FrameWays`
splits a frame into its four paths; `RectSeen` and `FullSeen` say what each
leaves. Results: `Seeding`, `NothingUnread`, `RectanglesOnSeededSlots`,
`LayoutsApart`.

What a frame shows takes less and assumes more. `VideoAlwaysRight` needs that a frame which
takes neither the strip nor the damage block reads the rectangle into what it sends, or all of the frame.
It excludes both blocks, whose frames may leave the video out: TLC
finds a violation with either switched on (`Readback_video.cfg`).

The drift bounds count: `since` is the number of rectangles since the last full readback, and the counters
are what is left of their periods. A strip is not counted: each takes a hint, so the user's pans bound them, and the bound
is on what goes on being wrong without one. `Turn(c, P)` is the counter's place in its period, the end of it written as `P` and not as 0. With
damage off, a master in use has `since < Turn(vframe, VFULL)` (`VideoDrift`); a change of layout or process forbids the
use of the master and leaves nothing to count. With damage on, a frame of the video block comes only when the
damage block's period ends, so `since < (Turn(vframe, VFULL) - 1) * DFULL + Turn(dframe, DFULL)`
(`DamageDrift`): the two counters are the two digits of one. Each is inductive with `TypeOK`. Strips change neither counter, so neither
bound assumes anything about them, nor about when hints come or what a resize leaves to be read as one. Results: `VideoDriftEnds`
(damage off), `DamageDriftEnds` (every path on), for any two periods.

**PageBuffers.** `OnePlace` is a count over two queues and is not inductive: nothing in it says that the keys of
an attach that is still on its way are used nowhere yet, or that no key is queued twice. `IInv` says where keys
can be (`Named`: those of the attaches so far; `Fresh`: not those the page has yet to hear of), that none is in two places
(`Apart`) and none that both sides use in no place (`Somewhere`); `OnePlace` follows, the sum of
cardinalities from the two. `Stamped` adds the order: pictures under way to the adapter are newer
the later they were sent, and newer than the one on screen. `NeverPaintedOver` follows from `Apart` (the page paints what it
owns, and what it owns is nowhere else), `NeverBackwards` from `Stamped`. Purged keys, which may come back after the
next attach, are why `Apart` speaks of all keys and not of those in use. Results: `TypeCorrect`,
`BuffersInOnePlace`, `ScreenNotPaintedOver`, `ScreenNeverBackwards`.

**BrowserPage.** What a message says is of the moment it was sent; it is acted on when it is handled.
Each property needs what cannot change in between, or what voids the message when it does:

* `ViewIsTheCards`: markers change only with what is opened first (`MarksFirst`), and until then the card has no view, or a
  warm one and no markers (`AsBuilt`), which a marker makes `openUrl` drop.
* `ScrapesSubmitter`: the WebProcess waits with a navigation it asked about, so its document is still the one that
  asked until the decision reaches it, and the scrape is sent before the decision (`InTurn`). This in turn needs that a
  WebProcess asks about one navigation at a time, all numbered in order (`Numbered`), and that a view without a
  WebProcess has nothing of it under way but the news of its end (`Running`).
* `PushedToAsker`: the page listens only to the answer of the last probe (`gen`), a load's start makes
  all earlier ones void, and between the start and the commit nothing is asked (`Probed`). So an answer the page would
  listen to is of the document it shows (`Current`), which is the WebProcess's unless the news of
  another is on its way (`Told`). Until something is opened there is at most a warm view's blank page, which never listens (`Deaf`).
* `ProbeNeverUsesFreed`: the probe's answer is the one callback of these parts that looks at a cancellable in place of the
  live set, and the destructor voids its generation (`Probed`). The others ask the live set first, and the two timers that ask neither are in
  `MediadHandoff`.

`TypeOK` itself says that a held decision is made at most once (`released`), which needs `Numbered`: a navigation's load, its
question and its decision are never under way twice, nor two of them together. Each
kind of step has a lemma of its own. Results: `TypeCorrect`, `ViewAlwaysTheCards`,
`FreedPageUnprobed`, `PushGoesToAsker`, `CaptureReadsSubmitter`, for any number of
navigations, crashes and messages under way and any files.

The proof corrected the model. The order in which a dead WebProcess's evaluations fail is any sequence that keeps the
numbers in order, in place of `SelectSeq`, whose argument is an operator and of which the provers know nothing. A load made
between a WebProcess's death and the news of it used to reach a new one, which the inductive invariant showed
to leave two processes' messages in one queue; and a warm view's blank page could submit a form or listen to the sensors.

**ViewResize.** `WithinSegment` is not inductive: a size under way becomes the
target's layout, and a frame under way is read at an offset that depends on the view's. `IInv` adds that every size
under way fits the segment (`Within`), that the view has the page's layout
whenever that one fits (`Agrees`), and that every frame under way was written where its
layout puts its slot (`Reads`). `ReadWhereWritten` then follows: a frame is kept only if
it has the page's layout, which fits because the frame was written within the segment, so
the view has it too. `LayoutsAgree` is inductive with `TypeOK`, since a size is sent exactly when the view takes it over and a
new WebProcess starts with the view's. `NotCollapsed` is not: the layout saved while mediad has
the surface comes back later. `Upright` says the same of that one. It assumes nothing of the windows: a rotated layout has 2048 rows whatever
the window's height, and a view is built with four screens; the widths
are the screen's or at least the 600 that tell a rotation from a placeholder. `Resized` and `Built` are the two ways a layout changes, used
by every action that does. Results: `TypeCorrect`, `AddressesWithin`, `ReaderFindsFrame`,
`EveryoneAgrees`, `NeverCollapsed`.

**MediadHandoff.** `OneDecoder` is inductive with `TypeOK`, because it says which
flag keeps the others out: a claim comes only from the timer that finds
`g_mediadBusy` down (`NoNewClaim`), and only the page with the claim lowers it, together with its claim (`ClaimEnds`). `SavedIsFull` likewise, because it ties the
saved size to the surface being small. Results: `TypeCorrect`, `DecoderIsOnes`, `OwnSurfaceBack`,
for any number of pages.

**AudioSink.** The mutex is held exactly by the thread that is in `pa_simple`, and the two that use
the stream are there only with one; `unprepare` frees it while holding the mutex. Results: `TypeCorrect`,
`CallsSerialised`.

**Model-checked only.** Every safety invariant and every action property of the runs is a theorem, for all
constants. With TLC alone stay the liveness properties: `SendReturns`,
`ChannelReaped` and the fairness of `FeedSpec`, `BufferComesBack`, `CatchUp`, `LabelSettles`, `Quiesces`, `HandoffPlays`,
`ListenerIsFed`, `HeldGoesOn`, `HitAnswered`, `SaveAnswered`, `TeardownReturns`, `SoundResumes`. Liveness under fairness and
ENABLED are out of the prover's reach, as are induction over data and recursive operators; no module here has one. `PagePan`
has only liveness properties in its run; its `TypeOK` is stated, checked by TLC and not proved.

## Known disagreements

Statements of the repository's comments that the code does not keep. Each is a
definition of its module, stated as the comment states it, and none is among the
properties of a run: put it as `INVARIANT` or `PROPERTY` in a cfg with the constants named here and TLC
shows a behaviour that violates it.

1. `FrameChannel!NeverTorn` (`FrameChannel_lap.cfg`). The WebProcess never waits for an ack: it drains
   them. A process two frames ahead refills the slot being copied out. The
   header and `onFrame` count on the ack.
2. `FrameChannel!NeverCrashed` (`FrameChannel_swap.cfg`, one process is enough). `view_destroy` frees the view but not
   its channels; a queued frame is handled through it.
3. `Readback!NoGarbage` with `StripOn` (`Readback_all.cfg`). A pan without a video allocates a master,
   splices a strip into it and sends it; nothing was read into the other rows.
   The video block frees it again in a frame that takes neither path. The same allocation also hides the
   missing master from the video block, so a video that starts after a pan can
   do without its first full readback.
4. `PageBuffers!NoStalePage` (`PageBuffers_keys.cfg`). A commit while the adapter holds both
   buffers is not blanked, and nothing makes up for it.
5. `PagePan!FollowsScroll` (`PagePan_follow.cfg`). A frame dropped because both buffers are held
   was also to re-centre the pan; on a page at rest nothing else does.
6. `MediadHandoff!LeaveResumes` (`MediadHandoff_two.cfg`): "on leave-fullscreen" the video resumes. The script
   takes the source away before anyone looks at the answer: a `blob:` video, an answer that comes after
   the page has left, and a session that could not be opened leave a video without source or a
   surface that stays small. Related: `g_mediadBusy` stays up for every page when the script
   fails or its page is closed while it runs. An exit and a new entry within 900 ms
   leave two open timers, each of which opens a session. `m_mediadSubToken` keeps the second's token, so the first
   is never cancelled: its reply may set the location during a later entry, whose own reply is then ignored and whose
   video never plays. `HandoffPlays` excuses such a page (`Disturbed`).
7. `PageLoads!Recovers` (`BrowserPage_events.cfg`): "the card recovers on its own". The throttle is static:
   another page's reload within 3 s leaves a crashed view dead, and nothing tries again.
8. `PointQueries!OneDownloadPerFile` (`BrowserPage_queries.cfg` with `Files = {a, b}` and three saves): a repeat is recognised by the last file
   only, so an image asked for, another, and the first again is downloaded twice onto one file. The number
   a hit test or a save is answered with is the last one asked, whichever evaluation answered.
9. `ViewResize!RotatedFits` (`ViewResize_rotate.cfg`): "a rotated layout fits the segment". The 2048-row floor, and two heights of
   a portrait window in a simple card, can be more than was allocated; the view ignores the size and the page,
   which has taken it over, drops every frame until the next rotation.
10. `ViewResize!SimpleIsSmall` (`ViewResize_rotate.cfg`): a simple card's warm view is rebuilt "at the simple size".
    The warm one raised `m_virtualWindowHeight` to four screens, which the new layout may not go below.
11. `ViewResize!SimpleKeepsItsBuffer` (`ViewResize_rotate.cfg`): a rotation keeps "the same N-screen buffer" of a simple card
    (cpp:1688). Its height is two windows, not two screens, so a rotation with the keyboard up leaves a shorter one. `NotCollapsed` is
    what the code does keep: 2048 rows.
12. `PointQueries!InFlightIsReal` (`BrowserPage_queries.cfg`): a save is dropped as a repeat when its image is
    "already downloading" (cpp:2822). An image is noted as in flight before its download is created, and stays noted when
    that returns NULL (cpp:2826-2830): the first save of it is answered, those after it never are.
13. `Readback!LateHintReadsInFull` (`Readback_all.cfg`): if the handshake goes wrong "the renderer just full-reads, still
    correct" (cpp:2252). A hint that comes when the frame of the new scroll has already been read in full moves the next
    frame, which was right, by a distance it has already gone. A new WebProcess, whose `last_seq` is 0, takes the
    last hint once more, and after a resize the control page may lie where pixels were. A frame that does so stays wrong until the next
    full readback, which is what `DriftBoundedDamage` bounds.
14. `MediadHandoff!BeginTimerFreed`: every deferred callback asks `bpwpe_dead` first (cpp:118-120). The two timers that entering
    full screen sets, of 300 ms (cpp:1068-1071) and without the opt-in file of 500 ms (cpp:1081-1087), do not; a page closed
    within them is read after it is freed. That is an action here and not a property: `freed` is what it leads to.

Further, with no definition of their own: with results and
frames of one evaluation in either order (`InOrder = FALSE`), a frame handled before
`onScrollConfirm` keeps the wrong label on a page at rest (`LabelSettles`);
when damage and a video share the master, the damage path's periodic full
readback falls through to the video path, so drift is bounded by `DFULL * VFULL`
frames, not the `DFULL` of c:1079; the scratch and master buffers, which "stay big enough" after a resize
(c:501-503), do not if they were first allocated in a smaller layout (mediad's surface); a
rotation while mediad plays is undone by the restored size; the last lines of `setWindowSize` (cpp:1739) cannot be
reached.

## What is not modelled

* Strides, pixel formats, swizzle and flip, and in every module but `ViewResize` sizes: a frame that has
  another size than the page renders at is dropped, and that is all.
* Fit-to-screen scaling, other numbers of screens, the full-screen resize without mediad (`enterFsResize`, `exitFsResize`): off by
  default, in files under `/tmp`. With scaling none of the partial paths is taken.
* GL and EGL calls: only whether they deliver.
* The words of the control page one by one (`Readback` has a hint's fields and its number apart and
  takes a torn rectangle as detected).
* Failures of `send` other than a full socket; `EINTR`.
* In `PagePan`: navigation, rotation and zoom while panning, more than one page
  (`g_flinging` is shared, but only used with `BPWPE_STICKY`, off by default),
  evaluations that fail, a user beyond the height the adapter was told, `BPWPE_NO_PAN`.
  The order of results and frames is assumed (`InOrder`), which nothing enforces: they use different sockets.
* In `PageBuffers`: attach sizes; two pages sharing an adapter.
* In `BrowserPage`: back, forward, reload and stop, what a load reports to the app, more than one view of a
  card, loads that fail.
* In `MediadHandoff`: the lengths of the delays; the one-call diagnostic mode; calls on an open session that fail.
* In `AudioSink`: what is written. A buffer that passed the check of the flag before a flush is
  written after it, one period of the old sound.
* Zoom, selection, reader: an evaluation and its answer, forwarded;
  input: translated event by event; configuration, content blocker, user agent:
  set once; favicons, `atlas:`: file I/O; authentication: one blocking
  question; scroll and rotation tests: test drivers; build, patches, probes: no part
  of the running program. The video elements (`gst-mdpdetile`, `gst-mdpoverlay`) are set-up and
  tear-down of a driver called by one thread each.

## Plan

What is left, most important first.

1. Proofs: the type invariant of `PagePan` and what its liveness rests on (a label that differs from the pixels
   has an answer or a frame on its way).
2. The control page word by word: `scroll_hint` and `video_rect` against their readers. Property: what a
   reader uses was written by one call.
3. `PagePan` across commits and rotations, composed with `PageBuffers` (one `onFrame`) and `ViewResize`.
4. The full-screen resize without mediad, in `ViewResize`; back and forward in `PageLoads`, with `m_navByHistory`.
5. The two video elements' set-up and tear-down, with each step failing.
