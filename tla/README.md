# A verification of ScreenCam

ScreenCam is a DirectShow source filter that captures the desktop or a window
and hands it, frame by frame, to whatever it is connected to. This directory
holds TLA+ models of it and of the class library it is built on, the TLC runs
that check them on small instances, and TLAPS proofs of the most important
properties. `PROJECT.json` maps every definition of the models to the lines it was
translated from, and lists the hazards the properties are aimed at.

## 1. The system

The program's own code is in `src/source`. It is built on the DirectShow base
classes, whose sources are part of the repository (`src/baseclasses/source`) and
of the program: about nine tenths of the lines. Some of the base classes are under
every frame ScreenCam delivers (`source.cpp`, `amfilter.cpp`, `wxutil.cpp`,
`mtype.cpp`, `combase.cpp`, `dllentry.cpp`); the others are filters and tools for
the rest of a graph.

| Component | State | Operations | Modelled in |
|---|---|---|---|
| *ScreenCam and what it runs on* | | | |
| Sample allocator (`CBaseAllocator`, `CMemAllocator`, `CMediaSample`) | committed, decommit pending, free list, counts, waiters, references | SetProperties, Commit, Decommit, GetBuffer, ReleaseBuffer, AddRef, Release | `MemAllocator`, `AllocatorThreads` |
| Worker handshake (`CAMThread`) | thread handle, two events, request, reply | Create, Close, CallWorker, CheckRequest, Reply | `CAMThread` |
| Pin as a stream (`CSourceStream`, `CCamPin`) | the worker's place in its loops, its sample | Active, Inactive, ThreadProc, DoBufferProcessingLoop, FillBuffer, OnThreadCreate | `SourceStream` |
| Filter (`CCamFilter` on `CSource`, `CBaseFilter`) | Stopped, Paused or Running; clock; state lock | Pause, Run, Stop, GetState, SetSyncSource | `SourceStream` |
| Connection (`CBasePin`, `CBaseOutputPin`) | connected pin, media type, allocator | Connect, Disconnect | `SourceStream` (commitment), `PinFormat` (choice of type) |
| Time stamps (`FillBuffer`, second half) | schedule, frame length | the wait, the stamp, catching up | `FrameClock` |
| Media types | `m_mt`, `m_bFormatAlreadySet`, rectangle | GetMediaType, CheckMediaType, SetMediaType, SetFormat, GetStreamCaps | `PinFormat` |
| Capture settings | rectangle, window, device context, frame rate | put_Settings, get_Settings | `CaptureSettings` |
| Registry, property page, property frame | eight values; dirty flag, controls, mouse timer | load and save; dialog messages, Apply | `SettingsPage` |
| Object lifetime (`combase`, `dllentry`, `CSource`, `Configure`) | reference counts, count of objects, count of locks | create, query, release, unload | `ComLifetime`, `ConfigureDialog` |
| Registration (`setup.cpp`, `dllsetup.cpp`) | keys and mapper entries | register, unregister | `Registration` |
| *Tools of the base classes* | | | |
| Lists (`wxlist`) | nodes, caches | twenty operations on lists | `BaseList` |
| Enumerators of pins and of media types | version, position, pins already given out | Next, Skip, Reset, Clone | `PinEnumerator`, `TypeEnumerator` |
| Samples and media types (`CMediaSample`, `mtype`) | times and flags; blocks of memory | Get/Set, GetProperties, SetProperties, copies | `MediaSample` |
| Long arithmetic (`arithutil`) | none | llMulDiv, Int64x32Div32 | `LongArithmetic` |
| *Parts of other filters* | | | |
| Output queue (`outputq`) | list, batch, flush state | Receive, EOS, flush, Reset, destruction, its worker | `OutputQueue` |
| Deferred commands (`CCmdQueue`) | two lists, event, advise | New, Postpone, Cancel, GetDueCommand, Invoke | `CmdQueue` |
| Pull pin (`pullpin`) | worker, positions | Active, Inactive, Seek, the reading loops | `PullPin` |
| Stream control (`strmctl`) | start, stop, cookies, event | StartAt, StopAt, CheckStreamState | `StreamControl` |
| Renderer (`CBaseRenderer`), clock (`refclock`, `schedule`) | state, sample, timers; advises | Pause, Run, Stop, Receive, flush, end of stream | `Renderer`, `AdviseSchedule` |
| Video quality (`CBaseVideoRenderer`) | averages, earliness | ShouldDrawSampleNow, SendQuality, statistics | `VideoQuality` |
| Transform filters (`transfrm`, `vtrans`) | state, locks, frames to skip | Pause, Stop, Receive, flush, EndOfStream, AlterQuality | `Transform` |
| In-place transforms (`transip`) | allocators and types of both pins | Connect, CompleteConnect, reconnects | `TransInPlace` |
| Dynamic output pin | block state, users, two events | Block, Unblock, Start/StopUsingOutputPin, changes | `DynamicPin` |
| Seeking (`ctlutil`, `renbase`) | positions, times of the last sample | SetPositions, SetRate, GetCurrentPosition, EOS | `Seeking` |
| Windows of renderers (`winutil`, `winctrl`) | handle, palette, the messages of each thread | PrepareWindow, DoneWithWindow, PreparePalette, OnReceiveMessage | `BaseWindow` |
| *Not modelled* | | | |
| The picture (GDI), drawing, video controls, DirectDraw devices, debugging, small helpers, demos | | | section 8 |

How they interact in ScreenCam: application threads call the filter under its
*state lock* (`m_pLock`, the same critical section as `CSource::m_cStateLock`). On
the way out of Stopped, `Active` commits the allocator, creates the worker and
sends it `CMD_INIT` and `CMD_PAUSE`; on the way back `Inactive` decommits, sends
`CMD_STOP` and `CMD_EXIT` and waits for the thread. All of that happens with
the lock held, so the worker must never take it: `CCamFilter::GetState` and
`StreamTime`, which the worker calls, do not. Samples go from the allocator's
free list to the worker, from there to downstream, which may keep them, and come
back when the last reference goes. The pin asks for **one** buffer, so a
downstream that keeps a sample stops the worker in `GetBuffer`. Settings come to
the pin from the registry when it is created and from the dialog while it exists;
`put_Settings` shares `m_mt` with the negotiation of media types, and the frame
length with the worker. Objects, the clock and enumerators hold each other by
counted references, and the DLL may go when none is left.

In the rest of a graph the same shapes come back: a worker that is told by
events (`COutputQueue`, `CPullPin`), a streaming thread that waits while the graph's
threads stop, flush or block it (`CBaseRenderer`, `CTransformFilter`,
`CBaseStreamControl`, `CDynamicOutputPin`), and calls that go both ways through a
graph (seeking and end of stream; allocators and reconnects; palettes and
messages between windows of different threads).

What is hard here: two or more application threads against the worker against
downstream's threads; a command that is looked at but not consumed
(`CheckRequest`); commands that meet the worker in any of five waits; an
activation that fails half way; a decommit that completes later, on another
thread, or is cancelled; a throttle loop that looks at nothing but the clock;
waits for a thread with a lock held; timers that fire while they are killed;
registrations that stop in the middle; state that is read, unlocked and used.
`hazards` in `PROJECT.json` lists the forty that matter most, each at its line with
the properties that cover it.

## 2. The plan, and where it stands

In order of importance, and done unless it says otherwise:

1. the allocator and its threads: checked, proved;
2. the stream, its handshake and its abstract specification `FrameSource`: checked,
   proved, the refinement too;
3. time stamps, negotiation of types: checked, proved;
4. capture settings with unsigned wrap-around, the page and the registry:
   checked, proved;
5. lifetime, unloading, Configure, registration: checked; lifetime and unloading
   proved;
6. the tools of the base classes: checked, proved;
7. the parts of other filters: checked; the two queues, stream control, the pulling
   pin, the dynamic pin, seeking, the renderer and its video quality, the transforms and
the windows proved.

Liveness stays with TLC. Of the code there is left what section 8 names.

## 3. The modules

Actions bear the names of the functions they stand for; a function that other
threads may enter in the middle is several actions, each of them what happens
between two waits, locks or outside calls. "External" in a comment marks what is
not code of this repository: the graph, an application, downstream, the system.
Definitions marked "mutated form" are plausible bugs: each replaces the
definition that follows it and breaks a property, to show that the property
depends on the code.

### ScreenCam

**`MemAllocator`** has the allocator's state and one operator for each critical
section of `amfilter.cpp`, nothing about threads. The free list is a set of
sample numbers: the code adds and removes samples at the head, and their order
matters to nobody. `Alloc` keeps existing samples unless `SetProperties` changed
something, as the code does. `AllocFails` has its two ways to fail: no size
was set, or memory ran out after *k* samples. Sizes, alignment and `SetNotify`
are abstracted away.

**`AllocatorThreads`** lets threads use it: streamers that wait in `GetBuffer`
(announce the wait under the lock, wait for the semaphore, look again), threads
that hold and release references on samples, commit, decommit and disconnect. It
adds the reference count of the allocator and separates the release of the self
reference from the critical section it follows, as in `ReleaseBuffer` and
`Decommit`.

**`CAMThread`** is the handshake, one operator per step, so that the two events
can be seen between steps: `Reply` is `WithdrawRequest` and then
`SignalComplete`. `m_dwParam` and `m_dwReturnVal` start with any value, because
the constructor does not set them.

**`SourceStream`** composes both with the filter. A client is at one of eleven
labels of Pause, Run and Stop; a call holds the state lock from its first step
to its last. (`m_AccessLock` is taken only under the state lock and adds
nothing.) The worker is at one of nineteen labels: `init`, `request` in
ThreadProc; `check`, `getbuffer`, `semwait`, `release`, `eos`, `abort` in the
loop; `state`, `poll`, `capture`, `time`, `throttle`, `stamp` in FillBuffer;
`deliver`; `reply`, `complete` in Reply. Commit and the creation of the thread
may fail. The downstream filter is external: it accepts or refuses, keeps the
sample or not, and lets go of it in its own time. Connect may fail before or
after the allocator was decided, connects to a pin with the same allocator or
another, and may agree on a type that is not `FORMAT_VideoInfo`, which
`CheckMediaType` does not look at. `session`, `delivered` and `credit` are
history variables: no action of the code depends on them.

**`FrameSource`** is what a graph relies on: a stream opens on the way out of
Stopped and is closed before the filter says Stopped again; frames come from a
Running filter, or once more after a Pause; none after the end. It has five
variables and no threads. `SourceStream!ImplementsFrameSource` is the refinement,
with `state <- m_State`, `linked <- m_Connected`, `frames <- delivered` and the
other two by name.

**`FrameClock`** is the arithmetic of the stamps. The stream time is external:
it starts at or before zero, advances while there is a clock, and is set back
when a paused graph runs again. `SourceStream` leaves the times out (a frame may
or may not be early), `FrameClock` leaves the threads out; the one thing they
share is that the throttle looks only at the clock. The frame length may change
at any time, as `put_Settings` takes no lock; `TimesInOrder` speaks of streams in
which it did not, nothing overslept by more than a frame and the clock was not
set back.

**`PinFormat`** is the pin's media type. A type is a record of what the code tells
apart: whether the major type and the sample size are acceptable, subtype, depth and
compression (`kind`), size, frame length, format type. `m_mt` is at once the type of the
connection, the type fixed by `SetFormat`, and the place where `GetStreamCaps` and
`put_Settings` build a type, and the properties are about what this sharing breaks and
what it does not. `Connect` is several actions, because `put_Settings` writes size and
frame length without the lock, and only its last line, `FinishPutSettings`, waits for
it. Every attempt that passes `CheckMediaType` sets the type (`SetMediaType`) before
anybody else may refuse it, so `TriedInVain` changes state. Types that others propose
are the constant `Foreign`; `SetFormat` is also called with `m_mt`, which is how
applications use what `GetStreamCaps` returned. The sum of a corner and a side wraps
round at 2^32 in `put_Settings` (`ccampin.cpp:825`), so that the rectangle of the
desktop may come out empty. `constructed`, `agreed` and `written` are history variables:
`written` says which kinds of calls have written over what was agreed since the pin was
connected. Left out: buffer sizes and the bitmap, partial types (a type of ours may just
be skipped), the ranges `GetStreamCaps` fills in beside the type, calls back into the
pin from `ReceiveConnection`, and a frame length of zero (more than 10,000,000 frames a
second).

**`CaptureSettings`** holds `put_Settings` and `get_Settings` as operators on a
pin's record, without variables. Unsigned words wrap at `Limit`. Only the
horizontal half is written down; the vertical one is the same code. A call for a
window that is gone returns half way, and `Put` then leaves the old rectangle and
device context with the new rate and flags, as the code does. Tracking a window
makes `get_Settings` return a rectangle of zeros, and the lower right corner keeps
its old value.

**`SettingsPage`** has the page between the pin, the registry and the frame that
shows it. `SaveValue` and `LoadValue` read and write the values singly (of the
eight, those that differ in kind), while a second process saves or loads its own
(`overlapped`, a history variable). The frame calls `SetObjects` before `Activate` and
after `Deactivate`, and `Apply` only while the dialog exists, as both the system's
and `olepropframe.c` do (the latter never clears the site or the objects). A second
`OnActivate` without a new connection finds the page dirty. Windows close and change
their size at any time. Errors of registry writes, which the code ignores, and the
sixteen characters of the buffer for the window's handle are left out; a device
context is leaked by every `put_Settings`, which no property counts.

**`ComLifetime`** gives each thread a list of what its call has still to do, so
that another thread may run between two references. References are counted where
the code counts them and, beside that, as pointers that exist: `CountIsReferences`
compares the two. The pointers of a thread to an object are a number up to `MaxHeld`,
those of objects and calls are read off their state, and `References` adds the
cardinalities of the three. `DllCanUnloadNow` reads its two counters in two steps.
**`ConfigureDialog`** adds the DLL's `Configure` entry point.

**`Registration`** has four programs that register: ScreenCam's own, and the base
classes' with the new mapper, the old mapper, or every object by itself. A call
stops at any write, because the process ends or the write is refused (the writes
of one server are merged into "refused after n of them"; the old mapper's pins are
one step), and any call may follow. ScreenCam overwrites the result of the first
class by that of the second (`setup.cpp:112`), so of its filter the property asks
only that the last class be whole (`Needed`).

### Tools of the base classes

**`BaseList`**: an operation is a function from heaps to heaps; beside it
`contents` follows the promise of the comment over the operation.
**`PinEnumerator`**, **`TypeEnumerator`**: `Next` is a sequence of calls of the
filter or pin, between which pins and types change. An enumerator has one client.
A type that could not be copied for want of memory is skipped for good (`gap`);
`Skip` past the end is only reported by the next call. ScreenCam's own `SetFormat`
changes what `GetMediaType` offers without calling `IncrementTypeVersion`, as the
comment at `amfilter.cpp:2346` asks derived classes to, so its enumerators believe
themselves in sync; the modelled pin follows the comment.
**`MediaSample`**: memory is a function from blocks to what they hold; every
allocation may fail. Flags that are passed through unchanged, the stream's id and
the buffer are left out. A copy of a type that fails for want of memory has taken the
interface's pointer over without counting it (`mtype.cpp:385` to 413; nothing looks at
the result in `operator=`): `failed` counts such copies, and the model ends with the
interface when one of them has released it too often. A client may raise the flag of a stop
time alone (`SetProperties` with a short structure): `declared` says that it did, and the
sample then answers with a time of its former life.
**`LongArithmetic`**: the digits, carries, loops and signs of the code, with words of
`W` bits instead of 32. Powers of two are defined by doubling, because the provers know
nothing of `^`.

### Parts of other filters

**`OutputQueue`**: three threads, as its header says. Each configuration the
constructor can make is an initial state, except a direct queue with inexact
batches of more than one, which leaves samples in a batch against the assertion at
`outputq.cpp:635`. Reset is called with nothing under way, as its callers do.
`NewSegment` reads `m_hr` before it takes the lock, so that a segment may slip
through a flush; `DeliversInOrder` says so. Failing allocations are left out.

**`CmdQueue`**: `m_pQueue`, by which a command knows that it is outstanding, is not
under the lock, so Cancel and Invoke are several steps each, and Postpone one for every
time it calls through `m_pQueue`. The filter waits for what is due (`GetDueCommand`, with a
timeout) or asks for what is due for a sample (`GetCommandDueFor`); one thread does both.
Postpone asks whether the *new* time has passed and nothing else, so that it may be
called of a command that is due, that the thread has got, or that was executed.
Invoke may be refused before it gets to the removal, and the command stays listed.
The model follows the code up to where its behaviour is undefined and stops there
(`Ends`, `ended`): a call through a NULL `m_pQueue`, the deletion of a command that a
thread still works on, the release of a reference that was never taken. The test of
`m_pQueue` and its use are separate, so a compiler that reads it once and one that reads it
twice are both covered. `fate`, `uncounted` and `crossed` are history variables. New gives
commands their place in a fixed order, as those not yet made are alike.

**`PullPin`**: all methods hold `m_AccessLock`, so one client is enough. Reads
complete in any order or never; downstream releases what it holds. `CheckRequest`
is looked at by the outer loop only, as in the code. A buffer size that is not a
multiple of the alignment would give times that run backwards; the constants'
assumption excludes it. Commit of the allocator and the failures of connecting are
left out, as is a reader whose `BeginFlush` fails.

**`StreamControl`**: the loop of `CheckStreamState` reads the state without the
lock; the decision is under it. Restart and the end of a flush find the streaming
thread elsewhere, and the clock is set while stopped, as in a graph.

**`AdviseSchedule`** is the clock's list and thread, **`Renderer`** the renderer on top
of it. The thread keeps the list's lock while it signals what is due, one advise at a
time, and the renderer's `AddAdvisePacket` and `Unadvise` wait for it. A graph starts
the renderer before its source and stops it before it, flushes without changing the
state, and Pause and the end of a flush come when the source's thread is out of
`Receive`; the source is silent after its end of stream until then. Run from Stopped is
Pause and then Run. The clock's thread does not lag by a whole unit, and the clock is
only set forward while somebody waits. Repainting (`m_bRepaintStatus`) and the position
interface are left out here.

**`VideoQuality`** keeps the code's units and constants, because its properties are
about the numbers: the averages, the earliness, the two modes, the statistics of the
property page. Frames have one length; the supplier answers each quality message anew
(`m_bSupplierHandlingQuality` is what its last answer said, `renbase.cpp:2350`);
throttling and `OnDirectRender` are left out.

**`Transform`** is both the plain filter and the video filter (`video`), the second
with frames dropped until a key frame. Downstream is started and stopped first; the
source keeps its promises (discontinuity first, type changes on key frames, a
key frame every `MaxGap`). `StartStreaming` of the video filter,
which the end of a flush and a change of type call too, forgets that frames were kept
back (`vtrans.cpp:48`). What `m_bQualityChanged` shadows, the throttle, a failing
`StartStreaming` and streams beside the pin's own are left out; `m_itrLate` is
read and written by two threads, which is a step each.

**`TransInPlace`** is a chain of `N` filters between the upstream filters A to D and the
downstream filters E and F of the table at the top of `transip.cpp`. A reconnect
is asked of the graph, which works its requests off in order. All connections
succeed, and only the order "input first" connects outputs (`transfrm.cpp:871`).
Copying and buffer sizes are left out.

**`DynamicPin`**: Block and Unblock on application threads, the use count on
streaming threads, format changes and reconnection by whoever may. While the
blocked connection is changed only the thread that changes it unblocks; streaming
threads have ended before the filter is activated again and before the end of a
flush.

**`Seeking`**: a derived source as the comments of `CSourceSeeking` describe it
(`ChangeStart` flushes, stops and restarts the worker), the pass-through of the
renderer, and its end of stream, which asks back for the stop position. The source
and the graph are external: one call at a time, the renderer's state first. With a
source that has only `IMediaPosition` the answer of `GetStopPosition` fails and the
reported position stays short of the end (`PositionSound` says so).

**`BaseWindow`**: each thread has a stack of calls, because a thread that waits for
a message it sent handles what is sent to it meanwhile, and so does one in
`WaitDispatchingMessages`. `m_bDoPostToDestroy` is either; safety is stated for
windows that post. With sent messages, the constructor's default, device contexts
and the object may go in the middle of a call, as the comment in `DoneWithWindow`
warns (`DestroyMessage_Sent` shows it). One thread at a time prepares a palette:
`RemovePalette` takes the palette's lock and then the window's, `SetPalette` the
window's first, which would be a deadlock between two of them. A window is destroyed
by one thread, when nobody else is inside; two threads that destroy a window of
each other's by posted messages would wait for ever, as `WaitDispatchingMessages`
without a window dispatches sent messages only, and so would one whose window's
thread has ended. Sizes, styles, `m_bNoRealize`, foreground messages and drawing are
left out. `ASSERT(!m_bRealizing)` would fire in a debug build for a palette change
within a palette change; a release build has no such variable.

### Modules for TLC and for proofs

**`MCPinFormat`** lists the foreign types: acceptable ones of either size, with and
without a frame length, and types with one thing wrong each. **`MCToolbox`**,
**`MCQueues`**, **`MCStreaming`**, **`MCRendering`**, **`MCTransforms`** and
**`MCGraph`** put several components into one run. These components share no state and
do not call each other, so nothing is gained by interleaving them: a variable `part`
(`inUse` in `MCQueues` and `MCStreaming`) says which one works, the others stay in an
initial state, and each property of such a module is a conjunction `part = "..." => ...`
of the properties that the components' modules state and explain. Every component can
also be run alone with its own `Spec`. The `*Proofs` modules hold the theorems.

## 4. The runs

Twelve runs, each of them one question.

| Run | Module | States | Shows |
|---|---|---|---|
| `allocator` | `AllocatorThreads` | 9,784 | references, samples and wake-ups are accounted for whatever four threads do; Decommit frees every waiter |
| `stream` | `SourceStream` | 187,436 | handshake, connection and frames are sound between two application threads and the worker; `FrameSource` is implemented; calls return, frames flow |
| `format` | `MCPinFormat` | 443,254 | negotiation offers what it accepts and keeps what was set |
| `lifetime` | `ComLifetime` | 195,063 | counts are references, nothing dangles or leaks, the DLL goes only when unused |
| `toolbox` | `MCToolbox` | 2,052,543 | times of frames, settings, lists, enumerators, samples, arithmetic, registration |
| `queues` | `MCQueues` | 559,738 | samples and commands leave once, in order, and do leave |
| `streaming` | `MCStreaming` | 384,371 | what is asked of a pulled or controlled stream is what comes; the application is told; nobody waits for ever |
| `rendering` | `MCRendering` | 290,472 | the renderer between graph, source, clock and timer; drops have a reason; the end is announced once |
| `transforms` | `MCTransforms` | 273,289 | no broken picture, agreed allocators, windows destroyed between messages; reconnects and messages come to rest |
| `graph` | `MCGraph` | 111,609 | blocking a dynamic pin and seeking, with all calls returning |
| `format_caps_subtype` | `MCPinFormat` | violation | section 7 |
| `lifetime_configure` | `ConfigureDialog` | violation | section 7 |

The properties of the harness modules, by component:

| Property | Consists of |
|---|---|
| `FramesPaced` (schedule and rate), `TimesInOrder` | `FrameClock` |
| `SettingsKept`, `PinConsistent` | `SettingsPage`: no change of the dialog forgotten, what is loaded is what was saved; the pin's target, device context and rectangle agree |
| `ListsSound` | `BaseList` |
| `ToolsSound` | `PinEnumerator`, `TypeEnumerator`, `Registration`, `MediaSample`, `LongArithmetic` |
| `QueuesSound`, `InOrder`, `QueuesMove` | `OutputQueue`, `CmdQueue` |
| `StreamingSound`, `ToldOfEverything`, `StreamingMoves` | `PullPin`, `StreamControl` |
| `RenderingSound`, `DropsAreJustified`, `RenderingGoesOn` | `Renderer`, `VideoQuality` |
| `AdvisesWake` | `AdviseSchedule` |
| `TransformsSound`, `TransformsSettle` | `Transform`, `TransInPlace`, `BaseWindow` |
| `GraphSound`, `GraphCallsReturn` | `DynamicPin`, `Seeking` |

Bounds, and why they are enough:

- *Threads* (`Threads`, `Streamers`, `Clients`, `Apps`): two streamers compete for a buffer
  and for a wake-up, two others commit, decommit and release against each other. A
  lock admits one client at a time, so a second one is enough to be refused it.
  `Renderer`, `OutputQueue`, `PullPin`, `StreamControl`, `Transform` have the threads their
  callers have: one that streams, one that controls, the worker, the timer.
- *Buffers*: one is what `DecideBufferSize` of ScreenCam asks for; two separate "some are
  out" from "all are out", and let two reads be under way. `m_lWaiting` and `m_hSem`
  have no bound: a thread waits once.
- *Frames* of `SourceStream` are counted 0, 1, more (`FrameCap`), which is all that the
  discontinuity flag depends on. `MaxFrames = 5` of `VideoQuality` has a drop, the
  picture that makes up for it and another drop, with frames of a quarter of a second;
  the early and late arrivals (`Leads`, `Lags`) and the costs of drawing (`Renders`) are
  on either side of each threshold of the code.
- *Times*: `Latest`, `MaxTime`, `LastTime`, `MaxNow` leave room for several frames of
  the longest length, so that a schedule is met, missed, caught up and set back;
  `MaxOvershoot` allows to oversleep by a frame and more than that. The deferred
  commands' stream starts at `Offset`, and no command is later than the last time of the
  clock.
- *Words*: `Limit = 16` for `UINT` with a screen of 9 has widths and offsets that wrap and
  that do not; `W = 3` bits in a digit of `LongArithmetic` are the fewest with which each
  loop, carry and sign case of the code occurs.
- *Sizes, frame lengths, types*: the code only compares them for equality, or with
  zero; two of each tell "the same" from "another". `Foreign` has a type for each
  condition of `CheckMediaType`, `SetMediaType` and `DecideBufferSize`.
- *Nodes, pins, blocks*: three nodes in two lists have a first, a middle and a last, and a
  cache that is full; two pins and two types with two changes of version let one come,
  go and come again between two calls; four blocks of memory hold the client's format,
  the structure and format of the sample's type and all but the last of what a copy
  needs; allocation may fail earlier, too.
- *Calls* (`MaxPuts`, `MaxEdits`, `MaxCalls`, `MaxFlushes`, `MaxConnects`, `MaxEvents`):
  where a thing may be done again and again and leaves traces that grow. One waiting
  put_Settings shows every order of its two parts; a flush, and what came before and
  after; four connects of three links are one reconnect by the application beside those
  the filters ask for; four registrations are two, one broken off and one undone; two
  window calls meet each other and two palette changes.
- *Positions*: a file of five bytes in buffers of two ends within a buffer; a medium of
  two frames has a start, a middle and an end.

Deadlock is checked in `allocator`, `stream` and `format`, where the system can always do
something. The other runs have bounds on calls, or a part that comes to rest with
nothing left to ask for (a library that was unloaded, a quotient that was computed),
and say so in their configurations; that no *wait* is for ever is there what the
liveness properties show.

## 5. Fairness and liveness

What is assumed everywhere is weak fairness of threads inside a call: threads of
Windows that can run do run. Nobody is obliged to *begin* a call: nothing is assumed
about Pause, Run, Stop, Connect, Seek. Where a call outside must return for anybody to
be live, that is assumed and named:

| Module | Weakly fair | Assumed of others |
|---|---|---|
| `AllocatorThreads` | each thread inside a call | whoever holds a sample releases it |
| `SourceStream` | each client inside a method, the worker | downstream lets go of its samples |
| `ComLifetime` | each call that has begun | |
| `OutputQueue` | the worker, the calls under way | downstream returns |
| `CmdQueue` | the filter's thread, its timeout included | |
| `PullPin` | worker and client | downstream releases; **no** read ever need complete |
| `StreamControl` | the streaming thread | time passes |
| `Renderer` | application, source's thread, clock's thread, timers | time passes; a source that delivers goes on |
| `Transform` | the calls and the streaming thread | downstream returns if it runs, is flushed or is stopped, and may block while it is paused |
| `TransInPlace` | | the graph does the reconnects it was asked for |
| `DynamicPin` | each thread that waits | uses of the pin end (strongly: between two uses of other threads, too) |
| `Seeking` | the call under way, the worker, the timer | |
| `BaseWindow` | each thread with a call or a message | a thread without a call asks for messages |

Taking a lock is part of beginning a section, so no fairness of the critical section
is assumed either, except where a thread inside a call waits for one, and there the
holder is itself inside a call that ends.

`CallsReturn` of the stream: every Pause, Run and Stop returns, with one exception that
the property names: a worker in the throttle loop whose clock was taken away never
looks at anything else again, and Stop waits for it with the lock held. The
filter graph changes clocks of stopped filters only, so this needs an application that
calls `SetSyncSource` itself. `FramesFlow`: a filter that stays Running with a clock
and an open stream delivers again and again; that also a pending sample downstream
cannot stop it for ever is the point of the release in `ReleaseBuffer`.

`QueuesMove` holds of the deferred commands only thanks to the timeout of the consumer:
the event it waits for is not always set when a command is due (section 7). It asks
that a due command be served or taken back; one whose Invoke is refused again and again
stays at the head of its list and keeps the others waiting, which the property names
(`Refused`), and so it does the end of the program.
`GraphCallsReturn` promises that a pending block happens only if uses of the pin do not
overlap for ever: the code lets a pending block wait for a moment without users and
does not keep new ones out.

## 6. The proofs

All theorems hold for every value of the constants under the named assumptions:
`MaxCountAssumption` (at least one buffer), `ThreadsAssumption` (finitely many
threads, for counting), `NobodyAssumption` (the free lock is not a client),
`PinFormatAssumption` (at least one size and one positive frame length, foreign
types are types), `SettingsAssumption` (a screen of at least two columns whose width
fits a word; windows are not the null handle), `PageAssumption` (what users can
enter are words), and in `FrameClock` that lengths, lead and overshoot are natural
numbers in order.

`MemAllocatorProofs`: `AllocInv` is kept by every critical section. It adds to
the named properties that memory is as asked unless `m_bChanged` says otherwise.

`TransportProofs`, of the allocator's threads: `Inv` is inductive. The counters of the
code are related to the *places* of the threads: `Cardinality(At("wait")) = m_lWaiting +
m_hSem`, and `m_cRef` counts the connection, the threads that have a reference to drop
and the allocator itself. One lemma per action; `Moves` and `Elsewhere` say how a count
changes when one thread moves. From it follow `TypeOK`, `AllocatorLives`, `NoSampleLost`
and `NoWakeupLost`.

`SourceStreamProofs`: the properties `AnswersMatch`, `StoppedIsQuiet`,
`ConnectionOutlivesStream` and `StreamInOrder` are far from inductive. `Inv` adds

- `Handshake`: with the lock free, the worker is absent or *working* with no
  command under way; while client `c` holds the lock, `Phase(c)` says for its
  label where the worker is and which events are set: command posted (and the
  worker at a place that takes it), being answered, or answered (and the worker
  where the answer leaves it). The tables `Takes`, `Then`, `After` hold these
  places per command;
- `Samples`: the samples that are out are exactly the worker's and downstream's;
- `Streams`, `Opening`: how the session goes with the place of the worker;
- `Frames`: `m_iFrameNumber` and the observer's count agree wherever no frame is
  between stamp and delivery, and a frame under way has its credit.

Under the same `Inv` every step is one of `FrameSource` or a stutter (`Refinement`): the
mapping reads the worker's place and the session, and both are tied to the
client's label by `Handshake` only.

Of the clock (`ToolboxProofs`): the rate bound needs that the schedule has counted the
frames (`ScheduleCountsFrames`), `TimesInOrder` needs where the last stamp lies
against the schedule (`MonotoneInv`), and the order of start and end needs how
far a wait can be overrun.

Of the settings, in the same module: `RectangleSound` is the arithmetic, for
every word size and screen: where left and width do not wrap, the rectangle is on the
screen and not empty. `SoundRoundTrip` shows that `get_Settings` after it asks for the
same again. The invariant `PinSound` is what a successful `put_Settings` leaves; windows
that come and go do not change the pin. `NothingIsForgotten` relates the dialog, the
pin and the registry. Its invariant `KeptInv` says which values of the registry are
those of the dialog and which of the apply before, by how far `SaveValue` got
(`RegistryFollows`), and which of the values read so far are the saved ones, or, of the
window, the saved one or none (`LoadFollows`); a window that is gone stays gone
(`WindowsStayGone`).

`ListProofs`, of the lists: `StandsFor` says that the heap is a picture of the sequences
that the operations promised. There are sequences of nodes, one for each list, without
repetition, such that each is a chain in both directions (`Linked`), its first and last
node and its length are those the list keeps, and its nodes carry the objects of
`contents`; and there is one place for each node, free memory, the chain or the cache of
one list, with no cache over its size. Each operation is a composition of a few changes of
such sequences (`ChainAdded`, `ChainRemoved`, cutting and joining), for which links, ends,
counts and places are derived once; the additions of a whole list repeat one change as
long as memory lasts. What `Walk` returns is a recursion along the links: `WalkIs` derives
from the links, once, that it is the chain. Induction over the recursion is replaced by
the least number for which it would fail (`LeastExists`), which the provers can handle.

Of the long arithmetic (`ToolboxProofs`): the base of the digits is even and at
least 4 (`DigitIs`), so half of the range has the digits it needs. The middle sum of the
long multiplication and the sum with `d` fit (`ProductIs`, `ThreeDigits`,
`MagnitudeIs`), so no carry is lost; the quotient is the only number with a remainder
less than the divisor (`QuotientIs`), which settles the division by one digit
(`ShortIs`). The invariant of the long division (`BitInv`) is that after `n` bits `p * 2^n`
is the quotient so far times `uc * D` plus a remainder less than that (`LongIs`).
`AnswerIsRight` puts the signs together with the test for overflow.

Of the tools (`ToolboxProofs`): one is at work at a time, so `ToolsInv` is the
invariant of the arithmetic and four more, of which each step disturbs one.

- `PinInv`: an enumerator that is not out of sync took the number of pins after the last
  change, and every pin before its position is in its cache, so that at the end all have
  been given out; what was given out is what is cached, each once.
- `TypeInv`: what an enumerator handed out is a prefix of the types, as long as its
  position, unless the types changed, or one could not be handed out (`gap`).
- `RegistryInv`: what a call has done by the place it is at (`RegisterInv`,
  `UnregisterInv`), whether or not it was disturbed, and what the last result said
  (`LastInv`). ScreenCam's own loop keeps the result of the last server only, so of
  the first one only an undisturbed call knows.
- `SampleInv`: a block of memory is owned by the pin's type, its copy or the sample's
  type, by one of them only (`OwnersInv`); the flag of the type says whether there is
  one (`TypeFlagInv`), and the flags of the times name only what was set in this life
  (`TimesInv`), unless the client raised that of the stop alone. The count of the
  interface and the copies that failed together are the holders.

`MediaProofs`, of the renderer: `RendererInv` is

- `Places`, and `QuietInv`: what Stop and a flush have taken away, and until when it stays
  away; no sample is held and no timer set where the renderer is quiet;
- `ReceiveInv`: `m_bInReceive`, which Stop polls, is set exactly while the source's
  thread is at one of three places, and the source's thread finds an error only where it
  may be told so;
- `StreamEndInv`: who knows of the end of the stream, and that its timer runs only when
  it was told and no sample is left.

Nothing is assumed of the clock or of its schedule. Of the video renderer: `QualityInv`.
The frames drawn, dropped and scheduled are all frames (`FramesCounted`), and the last
draw is where the next decision takes it to be (`DrawInv`). `SumsInv` bounds the sums of
the statistics by the number of frames in them (no term exceeds a second) and keeps the
inequality of Cauchy and Schwarz, without which the variance could be negative. The
square root is proved right to one for every variance that can occur, up to 10^6:
`NewtonStep`, `NeverBelow`, `Nearer` and `OneMore` are about one step, and the distance
after the first guess shrinks to one in three of them. `AveragesInv` keeps the average
cost of drawing below the highest cost there was, and the average time between frames
above the shortest: so the test of `ShouldDrawSampleNow`, a third of a frame, gives
`DropsAreJustified`. Which of its two reasons a drop has depends on what the supplier
answered for this very frame. The sums are mathematical integers here; the code's have
64 bits, and no term is above 10^6.

Of the clock's schedule, in the same module: `AdviseInv` adds to `WakesInTime` what is
known of the clock (`ClockTyped`): no time passes while its thread is awake, so that the
sleep it works out from the time it read (`rtNow`) is still right when it goes to sleep.
`Inserted` and `Removed` are about one packet in a list, `PutKeeps` and `WithoutKeeps`
about the order of the list after that. A packet that is put first sets the event; one
put behind another is due no earlier than that, which is why the sleep need not be
looked at again.

Also in `MediaProofs`, of the negotiation: `OfferedIsAccepted` needs `ForcedSound` (a
type fixed by `SetFormat` passed the check, and nothing changed it since: every writer
of `m_mt` goes through `GetMediaType`, which then leaves it alone, or through
`CheckMediaType`, which then admits nothing else). `AgreedInForce` and `RectNotEmpty`
are inductive with it: each attempt that is agreed sets all that an earlier, refused one
has left behind, and `written` collects what is set afterwards. Any sizes, frame
lengths, foreign types and number of put_Settings calls are covered.

Also in `GraphProofs`, of the life of COM objects: the counts are sums, of a function
from threads to numbers (pointers held) and of cardinalities (objects that refer, calls
that have a reference to give back). `RefInv` is `TypeOK` and

- `CallsSound`: what a call has still to do is one of seven forms (`Calls`), and fits
  the life of the object it works on; an object that is being destroyed is in the hands
  of one thread, and its count is zero;
- `FreshUnknown`, `HoldersSound`: nothing points to what does not exist, who refers to a
  filter or clock refers to a live one, a filter's worker is run for a thread that holds
  the filter;
- `Balanced`: the count is `References`. Each step changes one call and at most three
  pointers; `Gain`, `Drop` and the forms each have a lemma that says by how much the
  sum changes.

`ReferencesSound` follows; `UnloadedWhenUnused` further needs `CountersSound`: the two
counters that `DllCanUnloadNow` reads are the numbers of living objects and of locks.
The object count is read last, so what it says is true of the step that answers S_OK;
that no enumerator, which is not counted, is left follows from its reference on a
filter.

`QueueProofs`, of the output queue: `OutInv` is about where things are. A sample, an end
of stream or a segment gets a number when it is queued, and `OrderInv` says that the
numbers rise through the worker's batch, the thing it has in its hand, the batch under
way and the list, in this order. `NumbersInv` and `LastInv` tie them to the last one
sent and to the count of flushes, so that nothing overtakes and nothing outlives a
flush; `AccountInv` says that the samples not yet released are the ones in these places.
When the worker sleeps, the list holds less than a batch of samples and nobody waits for
an answer (`WaitingInv`); a flush that was answered found the queue clean (`CleanInv`);
a Reset is on the list or in the worker's hand until it is answered (`ResetsInv`). Of
the commands: `CmdInv` says that each list is in order and has no command twice
(`ListedInv`), that only what was cancelled or executed is disowned and on no list, but
for commands that Postpone queued again while Invoke was about to disown them
(`OwnedInv`, `crossed`), that what was taken off stays off unless it is postponed
(`OffInv`), and that the count of a command is the application's reference, the list's
and the consumer's, if it was given one (`CountedInv`). Why nothing is executed twice:
an executed command keeps its `m_pQueue` only while the same thread is on its way out of
Invoke. The lemmas on sequences (`Concatenated`, `PartOf`, `Inserted`, `Removed`) say
what inserting and removing leave where.

`GraphProofs`, of the stream control: `ControlInv`, in which a stop that is
pending discards, and what somebody must be told of has its cookie and a time
(`CommandsSound`). It holds for times of any range. Of the pulling pin: `WorkerInv` is

- `Handshake`: where the worker may be while a command is posted, answered, or
  waited for by `ThreadProc`'s end, and which command that is;
- `HeldInv`, `ReaderInv`: the worker holds at most one buffer, and at the reader are
  none, one or two, by the place of the worker; with one buffer only it never reads
  ahead;
- `Pull!FlushesEnd`: a flush that began is ended by the worker before it waits again.

With it `DataInv`: all positions of the range that was asked for up to `tCurrent` are
delivered or on their way and none beyond (`LoopInv`), and none is delivered twice
(`DeliveredInv`); ranges are compared position by position, because rounding to the
alignment makes buffers overlap the range asked for. From the two follows
`StreamingSound`.

Also in `GraphProofs`, of the dynamic pin and of seeking: `DynamicInv` relates the state
of the block to the two handles that stand for it, counts the users by the places of the
streaming threads (`CountInv`), and says of the connection that both ends agree except
while a change is under way (`ConnectionInv`). `SeekInv` says which numbers of the
source are those of the segment that is playing (`PlayInv`) or still to be acted on
(`Settled`), and how the renderer's start and end of media go with the flags of flush
and end of stream (`RendererInv`, `TimesInv`). Neither part of `GraphSound` is inductive
without the worker's place: between the change of a position and the restart of the
worker the two disagree, rightly.

Also in `TransportProofs`, of the transforms: `TransformsInv` is the conjunction of three
invariants, as a step of one part leaves the others alone.

- `CopyingInv` (`Transform`) relates the places of three threads, of `Stop`, of a flush
  and of `Receive`, to the two locks (`LocksInv`), and says what a flush or a stop that
  has the receive lock leaves (`StateInv`, `FlushInv`). `KeysInv` is why no broken
  picture is shown: the wait for a key frame ends only with a frame all of whose
  predecessors came (`Follows`), at each place of `Receive` with what is known there of
  its frame; `CountsInv` bounds the counts, which a flush in between starts again.
- `InPlaceInv` (`TransInPlace`), for a chain of any length: a link can be read-only only
  as far as no filter changes the data, and only with an upstream allocator that is
  (`ReadOnlyInv`); where two neighbours disagree about the type, or a filter copies
  without need, a reconnect of one of its two links is queued (`TypesInv`,
  `CopiersInv`). So with an empty queue there is agreement, and two filters cannot both
  be the first that changes the data. The lemmas on `Reached` and `Copier` say which
  links one connection goes through and which filter it leaves to copy.
- `WindowInv` (`BaseWindow`), for any number of calls and events: in the stacks every
  message that is taken has exactly one handler, and each handler knows its sender
  (`StackSound`, `Answers`), so that a return answers the right call; calls are at a
  place their function has (`Sensible`). For windows that post, `Standing` says what
  each call may count on: who realises, prepares or shows has a window; who destroys is
  the first on the stack of the window's own thread, and so between two messages; with a
  destruction under way there is nobody else but palette changes on that thread
  (`Besides`). The two windows and three threads are those of the run.

The further assumptions: `LifetimeAssumption` (finite sets of objects and threads, kinds
of objects disjoint), `PullPinAssumption` (finitely many buffers and at least one, whose
size is a multiple of the alignment), `StreamControlAssumption` (more than one time),
`QueueAssumption` and `CmdQueueAssumption` (bounds are natural numbers; no command is
the null pointer), `DynamicPinAssumption` (finitely many streaming threads; no
application is the null handle), `SeekingAssumption` (a medium is not empty, rates are
positive), `ListAssumption` (there is a list; finitely many nodes, and the null pointer
is neither a node nor an object), `WAssumption` (a word has more than one bit),
`RenderingAssumption` (those of `Renderer`, `AdviseSchedule` and `VideoQuality`: frames
last longer than nothing, leads, lags and costs are natural numbers),
`TransformsAssumption` (a chain has a filter, gaps, lateness and bounds are natural
numbers, the null sender is not a call; windows have owners and callers among the
threads). They are evaluated with the constants of the runs.

Only model-checked: everything under fairness (`DecommitFreesWaiters`, `CallsReturn`,
`FramesFlow`, `NoLeak`, `QueuesMove`, `StreamingMoves`, `RenderingGoesOn`,
`TransformsSettle`, `GraphCallsReturn`), which the proof system does not reach. Every
invariant and action property of the runs that says what must not happen is proved.

## 7. Where comments and code disagree

Two of these are runs that TLC must find violated, because they are defects:

- `ccampin.cpp:734` works out the subtype "from the header info", but only if
  there is none yet. `GetStreamCaps` fills the pin's own `m_mt`, which has one, so
  its 24, 16 and 8-bit descriptions carry the subtype of the type before
  (`StreamCapsConsistent`, run `format_caps_subtype`). An application that passes such
  a description to `SetFormat` fixes a type whose header and subtype disagree.
- `setup.cpp:238`: `Configure` releases its only reference on the filter it created,
  which destroys it, and then deletes it (`DestroyedOnce`, run `lifetime_configure`).

Of the following the modules state the property, and TLC refutes it when it is
added to the module's run:

- `arithutil.cpp:174`: "This will catch c == 0 and overflow". A quotient whose
  magnitude needs the sign bit is not caught: it comes back with the wrong
  sign (`LongArithmetic!OverflowCaught`).
- `ctlutil.cpp:976`: "We store the media times internally and return them in
  GetCurrentPosition". `RegisterMediaTime` stores `GetTime`, the stream times, so that
  after a seek the position is relative to the new start
  (`Seeking!ReportsMediaTimes`).
- `transip.cpp:66`: the table of states says of a state that it always has a
  reconnect pending; a chain can rest in it (`TransInPlace!RestsAsCommented`).
- `ctlutil.h:863` and `ctlutil.cpp:2488` say of `GetCommandDueFor` that what it returns has
  an AddRef; on its last way out (2532) it has none, and the caller that releases it
  releases the list's reference (`CmdQueue!HandedOutCounted`).
- `ctlutil.cpp:2120`: "remove from list whether or not successful or we loop
  indefinitely". The early returns of Invoke (2091, 2101) leave the command on
  its list, and the thread gets it again (`CmdQueue!RefusedIsRemoved`).
- `outputq.cpp:789`: "If we're idle it shouldn't be possible for there to be anything on
  the work queue", with an assertion. With exact batches the worker waits for the rest of a
  batch with samples on the queue (`OutputQueue!IdleIsEmpty`).
- `ccampin.cpp:159` says of an empty rectangle "that would be unexpected"; settings whose
  sum wraps round (825, 830) make one for a pin that is connected
  (`PinFormat!RectNeverEmpty`).
- `amfilter.cpp:3760`: "Check a flag isn't being set for a property not being provided".
  The flag of the stop time is not checked against a structure that ends before it
  (`MediaSample!TimesAreProvided`).
- `ctlutil.h` says of `GetDueHandle` that the event is signalled whenever there are
  commands due; `SetTimeAdvise` (`ctlutil.cpp:2336`) resets it and makes no new advise
  when the time is the one it asked for before (`CmdQueue!SignalledWhenDue`).

Without a comment to contradict, `CmdQueue` ends (`Ends`) where the code calls through a
NULL `m_pQueue`: Postpone of a command that was executed or cancelled
(`ctlutil.cpp:2059`), and Postpone, Cancel or Invoke that cross a Cancel or the end of
Invoke after their first look (2016, 2064, 2073, 2122). A Postpone between Invoke's
Remove and its `m_pQueue = NULL` (2122, 2123) queues the command again and has it
disowned: it is handed out when it is due and refused, again and again, and no Cancel
takes it off (`crossed`).

Others are loose words, and no property is spent on them:

- `amfilter.cpp:2661` asks that the object be locked around Deliver, lest it be
  disconnected meanwhile. The worker (`source.cpp:482`) does not lock. It is not
  disconnected all the same, since only a stopped filter disconnects and stopping
  waits for the worker (`ConnectionOutlivesStream`).
- `amfilter.cpp:2211`: ConnectionMediaType returns "the media type of the connection".
  After a `GetStreamCaps` it returns the type described last.
- `ccampin.cpp:299`: "We accept 16, 24 or 32 bit video formats". Only the subtype is
  looked at; `SetFormat` fixes an 8-bit header under an RGB32 subtype, with which the
  pin cannot be connected.
- `ccampin.cpp:395` (a frame rate asked for is not compared with the default),
  `ccampin.cpp:400` (a size agreed on is not the size captured: nothing scales),
  `amfilter.cpp:4834` with 3363 (one reference on the allocator for each buffer that
  is out: there is one in all, made in Commit, and `AllocatorLives` holds all the
  same).
- `setup.cpp:111`: the result of registering the filter is overwritten by that of the
  property page.

## 8. Not modelled

- *The picture itself*: GDI calls without state of ours, the mouse cursor, the bitmap.
- *Drawing and video controls* of the base classes: `CDrawImage`, `CImageAllocator`,
  `CImageDisplay`, the properties of `CBaseControlWindow` and `CBaseControlVideo`, and
  `ddmm.cpp`: calls into GDI and DirectDraw, straight through.
- *Debugging and measurement* (`wxdebug`, `perflog`, `measure`): output only, compiled
  away in a release build.
- *Small helpers*: `pstream.cpp`, `seekpt.cpp`, `sysclock.cpp`, `amextra.cpp`, `msgthrd.h`,
  `cache.h`, and the dispatch wrappers of `ctlutil.cpp`, which unpack arguments for
  automation clients.
- *Build files, demos, resources.*
- In modelled components, what section 3 says under each. In particular quality
  messages to the source (the pin refuses them), `JoinFilterGraph`, and `SetNotify` of
  the allocator, which nobody calls.
- *Data races on freed memory*: `m_mt.pbFormat` replaced while the worker reads it,
  `m_pClock` released inside StreamTime. The models have the values, not the memory.
- What no comment gives a right answer for: a failed `put_Settings` that leaves half of
  its work (`ccampin.cpp:769`), a frame length of zero (753), seven capabilities of which
  six exist (643), the bitmap that keeps its size (278), the downstream pin that
  `SetFormat` does not release (443).
