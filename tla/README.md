# Verification of snd_be

`snd_be` is the sound back end of a Xen para-virtual sound driver.  A guest (the
*frontend*) puts requests on a shared ring per audio stream; the daemon takes
them off the ring and carries them out on an ALSA device or a PulseAudio stream.
This directory holds TLA+ models of its components, TLC configurations that
check them on small instances, and TLAPS proofs about every one of them.

    tlc -workers 2 -config PulseSafety.cfg MCPulsePcm     # check one run
    tlapm PulsePcm_proofs.tla                             # check the proofs of a module

## The system

One frontend with two streams, P (PulseAudio) and A (ALSA):

    frontend  --request ring P-->  request thread P --+-- PulsePcm P --+
              --request ring A-->  request thread A --|-- AlsaPcm A    |  PulseMainloop:
              <--event rings-----  progress events <--+  + timer thread|  one lock, one
                                                                       |  condition variable,
                                                          mainloop  <--+  one callback thread

| component | state | operations | interacts with |
|---|---|---|---|
| `PulsePcm` (`PulsePcm.cpp`) | `mStream`, `mTimeEvent`, `mSuccess`, the captured fragment (`mReadData`, `mReadIndex`, `mReadLength`) | open, close, read, write, start, stop, pause, resume; callbacks for stream state, data, latency, success, time event, timing | waits on the mainloop's condition variable, which *all* streams of the frontend share and six callbacks signal |
| `PulseMainloop` (`PulsePcm.cpp`) | `mMainloop`, `mContext` | init, waitContextReady, release, contextStateChanged, createStream | owns the lock, the condition variable and the callback thread; waits for the server in its constructor |
| `AlsaPcm` (`AlsaPcm.cpp`) | `mHandle`, `mHwQueryHandle`, `mTimer`, `mFrameWritten`, `mFrameUnderrun` | the same eight, HW query; getTimeStamp on the timer thread | the timer thread shares the fields without a lock; the hardware moves by itself |
| `CommandHandler` (`CommandHandler.cpp`) | `mBuffer`, `mEventId` | processCommand and one handler per operation; progressCbk | called by `StreamRingBuffer`, calls a `PcmDevice`, called back by it |
| `StreamRingBuffer`, `EventRingBuffer` | the rings (libxenbe) | processRequest; sendEvent | thread per ring |
| `SndFrontendHandler` (`SndBackend.cpp`) | the rings of a frontend, its `PulseMainloop` | onBind: walk XenStore, parse stream ids, create devices and rings; onClosing | XenStore, the two back ends |
| `SndBackend`, `main` | frontends (libxenbe) | onNewFrontend | libxenbe |
| `SoundItf` | - | the `PcmDevice` interface | what `CommandHandler` calls, and both back ends implement |
| `MockBackend`, `Test` | - | test scaffolding | |

What makes it hard, and what would make it right:

* **PulsePcm.**  A request thread gives the lock up inside
  `pa_threaded_mainloop_wait` and wakes for any stream's events, or for its own
  after the stream has failed.  Right means: no wake-up is lost, no answer is
  taken from another operation, nothing runs on a stream that is gone, timers
  live between START and STOP, captured bytes are read once and none is dropped
  unread, every command is answered.
* **AlsaPcm.**  The timer thread reads a handle and two counters the request
  thread changes, and underruns come when they like.  Right means: the callback
  never sees a closed handle, the timer follows the device, an underrun is
  recovered from, the position neither goes back nor ahead (but where the status
  cannot be read), no path leaks a handle, every command is answered.
* **CommandHandler and the rings.**  Anything may throw, and the page directory is
  what the frontend has written.  Right means: one response per request, in order,
  with an error status where it failed; the whole buffer mapped; no read or write
  without one; no event after CLOSE.
* **AlsaPcm's parameters.**  They depend on each other (a rate for some channel
  counts only, buffers of whole periods), are refined one after the other, and
  pass between bytes and frames.  Right means: an answer lies inside the request
  and depends on nothing asked before; what was confirmed is what OPEN sets.
* **PulseMainloop.**  The constructor waits for an event of the thread it has just
  started, and any call of it may fail with the lock held.  Right means: the event
  is not lost, everything is released, nobody joins a thread that waits for him.
* **SndFrontendHandler.**  XenStore holds what the guest's tool stack wrote, with
  gaps and mistakes, and creation can fail half-way.  Right means: each published
  stream gets its own two rings, once, and the device its id names.

`PROJECT.json` lists the hazards one by one, at the line where each bites.

## The modules

### PulsePcm

All of `PulsePcm.cpp` runs under the mainloop lock, so an action is what one
thread does from taking the lock or waking up to its next wait or its return, or
one callback.  `Playback` and `Capture` are the streams of one context; each has
a request thread.

| in the code | in the model |
|---|---|
| `pa_context` and its loss | `context`, `ContextFailed` |
| the state of `mStream`, or null | `mStream[s]` |
| `mSuccess`, `mTimeEvent` | the same; `stray[s]` is an event `mTimeEvent` no longer points to |
| `mReadIndex` (and `mReadData`, `mReadLength`, which follow from it and the buffer) | `mReadIndex[s]` |
| operations libpulse has outstanding | `inflight[s]`, and `detached[s]` once `close()` has dropped its reference |
| the server's buffer, corked or not | `queue[s]`, `flowing[s]` |
| where a thread waits | `pc[s]`, `op[s]`, `size[s]`; `woken` are those the condition variable has released |
| `open`: `createStream`, `connect...Stream`, `waitStreamReady` | `OpenRefused`, `OpenNotConnected`, `OpenConnect`, `OpenWake` |
| `start`, `stop`, `pause`, `resume`, `waitOperationFinished` | `TriggerNull`, `TriggerRefused`, `TriggerSend`; `CorkWaitsOn`, `CorkFailed`, `Started`, `PausedOrResumed`, `StopFlushes` |
| `flush`, `close` | `FlushWaitsOn`, `StopFlushed`, `CloseFlushed`; `CloseNull`, `Close`, `Disconnect`, `DisconnectWake` |
| `read`, `write`, `checkStatus` | `ReadOrWrite`, `TransferWake`, `Transfer`, `Move` |
| callbacks | `ReplyCreate`, `ReplyDelete`, `ReplyCork`, `ReplyFlush`, `ReplyTiming`, `ReplyDetached`, `StreamRequest`, `StreamFailed`, `TimeEvent`; `LatencyUpdate` for the timing libpulse asks of a playback stream by itself (`PA_STREAM_AUTO_TIMING_UPDATE`) |

`answer`, `phase` and `acked` are history: how the call ended, what the frontend
believes, and whether the server has acknowledged the cork of this call.
A stream's destructor is `close()`, so it needs no action of its own.

The parts of libpulse the model relies on are: requests of one stream are answered in
order; `pa_stream_cork` and `pa_stream_flush` give no operation on a stream that
is not ready; a stream that ends cancels its operations without their callbacks;
`update_timing_info`'s callback runs also after the stream's own
callbacks were taken off; libpulse asserts that a stream argument is not null.

### AlsaPcm

There is no lock, so an action of the request thread ends wherever the timer
thread or the hardware can tell the difference: at a call that moves the device
and at a write of a field the timer thread reads.

| in the code | in the model |
|---|---|
| `mHandle`, `mHwQueryHandle`, the handles open in ALSA | the same, and `handles` |
| state of the PCM, frames queued, the clock of `snd_pcm_status` | `device` |
| `mFrameWritten`, `mFrameUnderrun`, `mTimer` | the same |
| local variables of `read`/`write` | `numFrames`, `status`, `restartAfterError` |
| `close` | `Close`, then `StopTimer` (after the drain), `CloseHandle` (after the callback) |
| `open`; its error path | `OpenDevice`, `Configured`; `OpenFails`, `NotConfigured` |
| `queryHwRanges`, `queryOpen`, `queryClose` | `Query`, `QueryFails`, `QueryHandles` |
| triggers | `Start`, `Resume`, `ArmTimer`; `Pause`, `Stop`, `TimerStopped`; `TriggerFails` |
| `read`, `write` | `Transfer`, `MoveFrame`, `Moved`, `TransferRefused`, `DeviceError`, `Recover`, `Underrun`, `Overrun`, `Count`, `Restart`, `NextTurn` |
| `getTimeStamp` on the timer thread | `TickSnapshot` (`snd_pcm_status`, which may fail: the callback goes on with a status of zeros), `TickReport` (the fields, the callback) |
| the hardware | `Play`, `Record` |

`Timer::stop` of libxenbe joins a callback that runs; that is why `CloseHandle`
and `TimerStopped` wait for `~tick.on`.  `moved`, `recovered`, `position` (the last
one reported from a status that was read) and `rewound` are history.  What `setHwParams` negotiates is success or failure here
and the subject of `HwParams`.

### HwParams

A hardware is a set of configurations, each with one value per parameter, sizes in
frames.  `snd_pcm_hw_params_t` is such a set: `snd_pcm_hw_params_any` fills it and
each `set_` call restricts it, so parameters may depend on each other in any way.

| in the code | in the model |
|---|---|
| `mHwQueryHandle`, `mHwQueryParams` | the same; `answered` is the last answer |
| `mParams`, the start threshold, `mTimerPeriodMs`, what the handle is set to | `mParams`, `threshold`, `mTimerPeriodMs`, `config`; `opened` is what OPEN was given |
| `queryHwRanges` with its five `queryHwParam...` | `QueryHwRanges`: `AfterFormats` ... `AfterPeriod` are the copy after each restriction, `Response` what is read from it; or `QueryRefused` |
| `setHwParams`, `setSwParams` | `Open` with `Near`, `Granted`, `BytesToFrames`; or `OpenFails` |
| `close` | `Close` |

Only the request thread runs this code, so a command is one action.  The access
mode is left out, and so are the formats without a sample size (see the hazards).

### PcmDevice

The interface of `SoundItf.hpp` as an abstract specification: `open`, the `call`
it is in, its `answer`, and whether the progress callback may come (`reporting`).
It promises that only a successful OPEN brings a stream, that a transfer or a
trigger goes to work only on one, that CLOSE is never refused and leaves none, and
that without a stream nothing is reported (`QuietWhenClosed`).  A device may lose
its stream at any time.

Two components implement it (`Implements` in each):

| `PcmDevice` | `AlsaPcm` | `PulsePcm`, for a stream `s` |
|---|---|---|
| `open` | `mHandle`, but not yet in the OPEN that brings it | the server has the stream ready, but not yet in the OPEN that waits for it |
| `call` | `CallOf(op)` | `CallOf(op[s])` |
| `answer` | `answer`, "none" during a command | `answer[s]`, "none" during a command |
| `reporting` | `mTimer` or a callback that runs | `Reports(s)`: a timing request whose answer is to come, of a playback stream of an orderly frontend |

For `PulsePcm` this holds of every stream and in any order of commands, but only
playback streams of an orderly frontend count as reporting.  A capture stream, and one
that is started twice, breaks the promise that nothing is reported after CLOSE
(finding 2).

### CommandHandler

`StreamRingBuffer::processRequest` and `CommandHandler`, composed with `PcmDevice`:
a command makes a call of it, and while the call runs and between calls the device
reports or loses its stream.  Every call but `close` may throw.

| in the code | in the model |
|---|---|
| the request ring, the responses | `requests`, `responses`; `sent` is history |
| `processRequest`, `processCommand` | `Take`, `Throw` with `StatusOf`, `Respond`, `Refused` |
| `open`, `getBufferRefs` | `GetBufferRefs`, `DirectoryPage` per page to the zero link, `MapBuffer`, or `MappingThrows`; then the call |
| `close` | `UnmapBuffer`, then the call |
| `read`, `write`, `trigger`, `queryHwParam` | `TransferNull`, or the call |
| the call of the `PcmDevice` | `CallDevice` and `DeviceReturns`, built from `Call`, `Return` and `CallAndReturn` of `PcmDevice` |
| the device by itself; `progressCbk` | `Background`; `Progress` |

The buffer is the sequence of its pages' numbers; the frontend's page directory
is computed by `Entry` and `NextPages`, which stand for what the frontend has
written into it.  `frontend` is chosen once.  One that is `inOrder` sends the next
request after the response and in protocol order, the other sends anything and
fills the ring.  One that is `sound` links the directory pages as its buffer needs
them; for the other every link, the first one in OPEN included, may name no page,
another page or the page itself, so a directory may end early, go on too long or
never end.  The code follows whatever link it reads, and so does the model.

### PulseMainloop and SndFrontend

`PulseMainloop` has one action per call into libpulse, with the mainloop lock
explicit: the constructor takes it before it starts the mainloop thread and gives
it up only in its wait; `release` does not take it.

| in the code | in the model |
|---|---|
| `mMainloop`, `mContext`, the lock | `mMainloop`, `mContext`, `lock`; `signalled`: the wait has been released |
| `init` | `NewMainloop`, `NewContext`, `Connect`, `LockMainloop`, `StartMainloop`, or `InitThrows`, `StartFails` |
| `waitContextReady` | `ContextReady`, `ContextBad`, `Wait`, `WakeUp` |
| `lock_guard`, then the handler that runs `release` | `Unwind` |
| `release` | `Disconnect`, `Unref`, `Stop`, `Join`, `FreeMainloop` |
| `contextStateChanged` on the mainloop thread | `ContextEvent`, `ContextCallback` with `Signal` |

`SndFrontend` extends it with the handler that has the mainloop as a member.

| in the code | in the model |
|---|---|
| XenStore | `devices`, `store`: any content within the bounds |
| `onBind`, `processCard`, `processDevice`, `processStream` | `OnBind`, `ProcessDevice`, `Bound`, `DeviceDone`, `StreamType` of the type node; `walk`, `devIndex`, `streamIndex` |
| `createStream` | `AddEventRing`, then `AddRequestRing`, or `StreamThrows`, `RequestThrows` |
| `createPcmDevice`, `parseStreamId` and its parsers | `CreatePcmDevice`, `ParseStreamId`, `ParsePcmType`, `ParseDeviceName`, `ParsePropName` |
| the rings added | `rings` |
| `onClosing`, and the base class releasing the rings | `Closing` |

A stream id is a sequence of tokens: the delimiters `<`, `>`, `:` and `;`, and words.
Two facts of the parser show in the definitions: without a `:` the text is the
property's value as well as its name, and with no type and both back ends built
in the device is ALSA's.  The back end's name is taken in any case, one mixed
spelling standing for the others; a stream whose type node is not "capture" plays.

`MCPulsePcm`, `MCAlsaPcm`, `MCHwParams`, `MCCommandHandler` and `MCSndFrontend`
hold the instances.
Definitions marked *Mutant of* in the comments are variations of a definition
that the properties must tell apart from it; no action uses them.

## What is checked

| run | states | what it shows |
|---|---|---|
| `PulseSafety` | 1.4 M | One playback and one capture stream of orderly frontends on one context: no time event outlives STOP or CLOSE (`TimerOnlyWhileStarted`), a playback stream is let go with no timing request outstanding (`PlaybackCloseQuiet`), a trigger answered with success was acknowledged for this very command (`AckedTriggers`), every captured byte is given once, none again and none dropped before it is given (`ReadOnce`), libpulse aborts the daemon in no case but finding 2 (`OnlyCaptureAborts`), every stream implements the interface (`Implements`) |
| `PulseAnyOrder` | 4.2 M | The same with commands in any order: whoever waits is released or has the releasing event to come, the last wait of CLOSE included while the stream is ready (`NoLostWakeup`) |
| `PulseLive` | 0.2 M | Under fairness: OPEN and the triggers are always answered (`CommandAnswered`); CLOSE gets past its flush, and returns if the server was asked to delete the stream (`CloseAnswered`); transfers on a stream that is not corked end (`TransferAnswered`) |
| `Alsa` | 1.5 M | Playback or capture, protocol order or any order: the callback of the timer thread finds the handle open (`TickOnOpenHandle`), the timer follows the device (`TimerFollowsDevice`), a WRITE that met an underrun has the device started again (`Restarted`), positions are neither ahead of the device nor go back (`NeverAhead`, `NeverBack`), OPEN meets no handle of our own (`ExclusiveDevice`), the interface is implemented (`Implements`), commands are answered (`Answered`) |
| `CommandHandler` | 3.3 M | Over page directories that are sound and such as end early or come round: every request popped is answered once, in order, with its id (`ResponsesMatch`), a failure with a negative status (`StatusIsError`); a successful OPEN has mapped every page of a sound directory in order, and of no directory more pages than the buffer has (`WholeBuffer`); READ and WRITE of a frontend in order find a buffer (`BufferForTransfer`) and it hears nothing after CLOSE (`QuietAfterClose`); every step but along a link that is not sound brings the response closer (`ResponseNears`), and commands are answered unless the walk of such a directory never ends (`Answered`) |
| `SndFrontend` | 1.9 M | Every content of XenStore within the bounds, any call of the constructor failing: the context's event is not lost (`ReadyNotLost`), everything is freed and in time (`ReleasedAll`), a request ring comes after its own event ring (`Paired`), every published stream is bound (`AllBound`) to the device its id names (`DeviceAsNamed`), constructor and destructor return (`Returns`) |
| `HwParams` | 43 K | Any sequence of queries, OPENs and CLOSEs on a device whose parameters depend on each other: an answer lies inside the request (`AnswerWithin`) and depends on nothing asked before (`QueriesIndependent`), OPEN sets what a query confirmed (`OpensAsQueried`), threshold and period come from the sizes granted (`FromGrantedSizes`) |
| `PulseCloseHangs`, `PulseStaleSuccess`, `PulseAbort`, `AlsaQueryCloses`, `HwRateMax` | | the findings below: TLC gives a behaviour of the code in which the statement fails |

`TypeOK` is an invariant of `PulseSafety`, `Alsa`, `CommandHandler`, `SndFrontend` and
`HwParams`.

**Properties that are weaker than one would like.**  `NeverAhead` and
`NeverBack` exempt what the code does not keep, and each exemption is a hazard in
the list: a report whose `snd_pcm_status` was taken before a reset of the clock
and whose `mFrameUnderrun` was read after it (`crossed`); the window between
`snd_pcm_recover` and the assignment of `mFrameUnderrun`, and STOP, which resets
neither counter (`Accounted`); an underrun reported before `write()` has counted
what `snd_pcm_writei` returned.  A report made from a status that could not be read
falls back to `mFrameUnderrun`, so it does go back: `NeverBack` leaves that report
out, and compares those before and after it with each other.  Outside these,
positions are right across any number of underruns.  `WholeBuffer`, `ResponseNears`
and `Answered` of `CommandHandler` promise less for a page directory that is not
sound: the code takes one that ends early for the whole, and walks one that comes
round for ever, and the request thread with it.  `TransferAnswered` and `Answered` of `AlsaPcm` exempt a
transfer on a corked or paused stream, and a read on an ALSA device that is only
prepared: those hold the request thread for ever, because the RESUME that would
help waits behind them in the ring.

**Bounds.**  Two streams are enough for one to wake another, and for what one
does wrongly to reach the other.  A stream sees of the others only their signals,
so a third adds more of those and nothing of a new kind; the theorems hold for any
number.  A `Fragment` of 2 in a buffer of 2 has reads that end
inside a fragment and reads that cross one.  A timer asks for the timing only while
fewer than `MaxInflight` requests of the stream are unanswered: with 2 there may be
two timing requests before a cork, flush or delete, or one before and one behind
it (in `PulseAbort` one before is enough; with 0, in the runs that look at waiting
only, none is sent).  `Capacity` 1 suffices where only waiting matters.  In AlsaPcm a buffer of 2 and requests of up to 3 frames give
partial writes, writes that wait, and underruns within one WRITE; `MaxFrames` 4
counts from OPEN to the next, so several underruns and stops fit; `MaxHandles` 3
lets a device be opened twice beside a query.  In CommandHandler a buffer of five bytes takes
three pages of two bytes, so two directory pages of two references, the last of
them not full; size 0 gives the empty directory; `MaxLink` 1 leaves a directory that
is not sound one page, which may be missing, be the last of too few, be linked to itself
a number of times or for ever; `RingSize` 2 and four requests
give pipelining, a failed OPEN and a second one.  `EventIds` 2 wraps at once.
In SndFrontend two devices of two streams give every pattern of gaps, a second
stream and a second device after one that failed; `SomeEntries` holds the ids of
the documentation's examples, ids with a delimiter inside a field, ids the parser
or the daemon refuses, and a directory with a node missing.  In HwParams one
device can do everything and the other has parameters that depend on each other
(stereo at one rate only, buffers of whole periods); requests are single values,
wide ranges and one whose largest rate the device has not; OPEN asks for no size,
for exact ones and for one between two the device has; a period of 16 frames at
48 kHz is below a millisecond.

**Deadlock** is checked in HwParams, whose device always answers.  It is not in the
others: a request thread of this code can really wait for ever (the findings and
exemptions above), the process can abort, a frontend's life ends, and the bounds
end the behaviour (`MaxFrames`, `MaxRequests`).  That commands are answered is
stated as liveness instead.

**Fairness.**  PulsePcm: weak fairness of `Resume` (a released thread gets the
lock: pthread condition variables and mutexes), `Reply` (the PulseAudio server
answers, or the stream fails) and `StreamRequest` (a stream that is not corked
moves) for each stream.  AlsaPcm: of `Step` (the request thread is scheduled),
`Hardware` (a running or draining device moves) and `TickReport` (a callback that
has started ends).  CommandHandler: of the request thread, which includes that a call of
the device returns (the back ends' own liveness is `CommandAnswered` and `Answered`).
SndFrontend: of the thread that makes and deletes the handler, of the callback that
runs, and of `Answering` (the server accepts or refuses a connection).  No fairness
is assumed of commands, failures, timers that fire, the progress thread, or of a
frontend closing.

## What the runs found

1. `PulseCloseHangs`: `close()` waits once and unconditionally after
   `pa_stream_disconnect`.  On a stream that is not ready (killed, connection
   lost, connect failed) nothing is asked of the server, nobody signals, CLOSE
   or the destructor does not return.
2. `PulseAbort`: the same wait ends with *any* stream's signal; a capture stream's
   timing request may still be outstanding, and `updateTimingCbk` then passes a
   null `mStream` to libpulse, which aborts.
3. `PulseStaleSuccess`: `waitOperationFinished` returns an earlier operation's
   `mSuccess` when its own was cancelled; a failed trigger is answered with success.
4. `AlsaQueryCloses`: the error path of `queryOpen` runs `close()`, so a query on
   a device that cannot be opened twice closes the open stream.
5. `HwRateMax`: `queryHwParamRate` reads the largest rate from `mHwQueryParams`, the
   whole device, and the other ends of all ranges from the refined copy.  The
   answer may be a rate the device has not with the formats asked for, or one above
   the range in the request.

Not a run: the comment over the flush in `PulsePcm::close` says *drain*, and a flush
discards.  How much audio is heard is not a property of these models.

## What is proved

`PulsePcm_proofs` proves, from `PulseAssumption` alone, so for every set of
streams, every capacity and fragment, and both values of `Orderly`:

* `TypeCorrect`: `Spec => []TypeOK`
* `NoWakeupIsLost`: `Spec => []NoLostWakeup`
* `TriggersAreAcked`: `Spec => AckedTriggers`
* `TimerStopped`: `Spec => []TimerOnlyWhileStarted`
* `PlaybackClosesQuietly`: `Spec => []PlaybackCloseQuiet`
* `OnlyCaptureCanAbort`: `Spec => OnlyCaptureAborts`

None of these is inductive.  The invariant is `IInv`, whose parts are proved one
after the other, each from those before it:

* `CallInv`: a thread waits only where its call can wait.
* `StreamInv`: only a healthy stream has requests outstanding, and one that is
  being created has exactly its `create`.  `NoLostWakeup` needs it: a failed stream
  has nothing outstanding, so the check before every wait must see the failure.
* `WaitInv`: while a cork or flush is outstanding its thread is in that wait.  So
  at most one is outstanding per stream, and the answer that arrives is that of
  the call in progress.
* `AckInv`: on a ready stream, once the cork is no longer outstanding `mSuccess`
  is its verdict.  This is `AckedTriggers` one step ahead, and it fails without
  *ready*: see finding 3.
* `TimerInv`: where an orderly frontend can be while a call runs, so that START
  never finds a time event and CLOSE has none left.
* `QuietInv`: while `close()` waits for its flush, the flush is the last request
  sent, so its answer comes after every timing request's.  The FIFO order and
  `stopTimer` coming first are both needed; capture streams, which do not
  flush, do not have it: see finding 2.

Beside these, `NullInv` says that a stream that is null has its thread idle and, for an
orderly frontend, is closed.  So no trigger in protocol order reaches libpulse with a null
stream, a callback that finds one belongs to a stream that was let go, and with
`PlaybackCloseQuiet` that is a capture stream.  `NoAbort` itself is false (finding 2);
`OnlyCaptureAborts` says that there is no other way to break it.

`PulsePcm_reads` adds `BytesAreReadOnce`: `Spec => ReadOnce`, that what a step of a
READ gives is exactly what can no longer be read after it, with one more part of the
invariant, `FreshInv`: a stream that is being created has captured nothing and its read position
is 0, and an orderly frontend knows of every ready stream but in its OPEN.  The hard
step is the move of a READ (`MoveReads`): the read position falls back by
exactly the fragments that leave the buffer with it, so what can be read falls by
exactly the bytes copied, no more (a fragment dropped early) and no less (one
offered again).

`AlsaPcm_proofs` proves, from `AlsaAssumption` alone, so for every buffer, request
size and bound, playback and capture, and both values of `Orderly`:

* `TypeCorrect`: `Spec => []TypeOK`
* `TicksOnOpenHandle`: `Spec => []TickOnOpenHandle`
* `TimerFollows`: `Spec => []TimerFollowsDevice`
* `ReportsNeverAhead`: `Spec => NeverAhead`
* `OpensAlone`: `Spec => ExclusiveDevice`
* `RestartsAfterUnderrun`: `Spec => Restarted`

Again none is inductive.  The parts of its `IInv`:

* `HandleInv`: a timer, a callback and a command in progress each imply an open
  handle, so no path closes one that is not there.
* `CallInv`: which command each step of the request thread belongs to, and what the
  device can be doing meanwhile; the hardware may move it in between.
* `TransferInv`: the local variables of `read` and `write`.  That a WRITE which
  recovered still owes a start, and that it then has the timer, is `Restarted`
  one step ahead.
* `QueueInv`: a device that plays has something to play.  Without it `Play` could
  leave a state the recovery does not expect.
* `TimerInv`: `TimerFollowsDevice` also in the middle of a command, where the
  device and the timer disagree for one step.
* `CountInv`: `mFrameUnderrun`, the clock and the queue together never exceed the
  frames moved, and a clock read before a reset is not compared with counters read
  after it.
* `PhaseInv`: an orderly frontend that believes the stream closed is right, and
  then no handle but the query's is open.

`CloseFromStep`, the longest lemma, is `close()`, which three commands run on
failure besides CLOSE itself.

`AlsaPcm_positions` adds `NeverGoesBack`: `Spec => NeverBack`.  Its `BackInv` says of
playback that `mFrameWritten` and the call in progress count what was moved
(`Counted`); that a callback which saw an underrun finds nothing queued unless the
clock was reset under it (`Dry`); and that the last report of a status that was read
lies behind the frames moved, and, while the fields account for every frame, behind the device's clock and
behind what the running callback is about to report (`Behind`).  A reset of the clock
leaves the fields accounting for every frame only if nothing had been played, and
`Underrun` makes them do so again at the number of frames moved.

**Refinement.**  `AlsaPcm_proofs!ImplementsDevice` proves `Spec => Implements` for
commands in any order: initially `DeviceInit`, and every step is a `DeviceNext` step
or a stutter under the mapping above.  Beside `IInv` it needs `ClosingInv`: how the
command that runs `close()` will be answered is decided before the device is
drained.  `PulsePcm_refines!StreamsImplementDevice` proves it for every stream,
for any number of streams on the context and commands in any order.  For the reports
of an orderly frontend's playback streams it needs `ReportsWhenReady`: one with a timing request
outstanding is ready, which is `PlaybackCloseQuiet` and `StreamInv` together.

`CommandHandler_proofs` proves, from `CommandAssumption` alone, so for every page
size, directory page, buffer size and ring, and over every device that keeps the
interface: `TypeCorrect`, `OneResponseEach`, `FailuresAreErrors`, `MapsWholeBuffer`,
`AlwaysABuffer`, `QuietAfterwards` and
`ResponsesNear`.  The parts of its `IInv`:

* `RingInv`: what is answered, in progress and left in the ring is, in order, what
  was sent.
* `StatusInv`: the status is zero until the command has failed.
* `CallInv`: the device is in a call exactly when the handler is, and in which one.
* `WalkInv`: what is collected and what is still missing add up to the buffer; in a
  sound directory, behind the page to map next lie as many references as full
  pages before it hold, and they are the first pages of the buffer.  Its arithmetic
  (two roundings up, one over the other) is in the lemmas before it.
* `MappedInv`: from the mapping to the response the buffer is the whole one, if the
  directory is sound, and never longer.
* `DeviceInv`: a device with a stream belongs to a stream the frontend knows of or is
  about to be told of.  With `QuietWhenClosed` of the interface this gives
  `QuietAfterClose`: the silence after CLOSE is the device's promise, kept by the
  two refinements above.
* `OrderlyInv`: a frontend in order has one request under way, in its place in the
  protocol, and a buffer as long as it takes the stream for open.

`ResponsesNear` is the part of `Answered` that needs no fairness.  `StepsLeft`
counts what the request thread has before it, one step for each page of a sound directory
and five beside; each of its steps lowers it and nothing else raises it, but for a step
along a link of a directory that is not sound.  So a request that the thread goes on with
is answered, for every size of buffer and directory, unless it opens a directory without
an end.  That one of its steps is possible until then is left to TLC (`Answered`).

`SndFrontend_proofs` proves, from `FrontendAssumption` and `FieldsAssumption`, so for
every XenStore and number of devices and streams, any words in the ids and any back ends:
`TypeCorrect`, `ReadyIsNotLost`, `EverythingReleased`, `RingsArePaired`,
`EveryStreamBound` (`Spec => []AllBound`) and `NamedDevicesMade`
(`Spec => []DeviceAsNamed`).  The mainloop's invariant
has two parts besides types: `LockInv`, where the lock is held, and `StageInv`, how
far mainloop and context have come where the caller is.  The rings' has five:

* `WalkInv`: every index before the walk has a directory.
* `RingsInv`: every ring's stream comes before the walk; while a request ring is being
  made its event ring is the last.
* `CountInv`: no more rings than streams passed.
* `DoneInv`: there are two rings for each published stream the walk has passed (`Done`), and
  one more between a stream's rings.  A step of the walk adds at most one stream to `Done`
  (`OneMore`); that a device is entered with none of its streams done and left with
  all is `NothingBefore` and `NothingAfter`, and needs `WalkInv`: a published index has no
  gap before it.  `AllBound` follows once the next device's directory is missing.
* `DeviceInv`: a request ring's device is what `createPcmDevice` makes of the type and
  the id its stream has in XenStore, which the walk does not change.

`NamedDevicesMade` then rests on the parser: `DocumentedIdsParsed` says that
`ParseStreamId` undoes `Text`, the documented format, but for the commas that
`parseDeviceName` puts back, and that no such id is refused.  `FieldsAssumption` is what this takes: the type is not
empty and holds no `<`, the device name no `>`, the property's name no `:`.  Any other
delimiter may stand in any field.  Each of the three parsers is one use of `Delimited`:
cut at the first delimiter, a text falls into what was before it and after it.

`HwParams_proofs` proves, from `HwAssumption` and `FrontendAssumption`, so for every
hardware whose parameters depend on each other in any way, every request and every
stream: `TypeCorrect`, `AnswersWithin`, `QueriesAreIndependent`, `OpenedAsQueried` and
`UsesGrantedSizes`.  `HwAssumption` says that frame sizes are positive, that no
two formats of a frontend are one of ALSA's, and that a device has a largest rate.  The invariant: `QueryInv` (the parameters kept are
those of the whole device, and what was answered is the answer to that) and
`StreamInv` (the stream is configured as near to OPEN's sizes as the device can, and
threshold and period are computed from that).  The lemmas are those of ranges
(`LeastExists` and `GreatestExists`, without which an end of a range means nothing),
of rounding (`DivExact`, `DivBounds`), and `NearExact`: a value that is there is the
only one near itself.

TLC checked the parts of these invariants on the instances above before they were proved.

The proofs use, of the library, the theorems on finite sets (`FiniteSetTheorems`) and on
sequences (`SequenceTheorems`).

Model-checked only: everything under fairness, since the prover handles neither
liveness nor `ENABLED`: `CommandAnswered`, `CloseAnswered`, `TransferAnswered`,
`Answered`, `Returns`.  Every other property of a passing run is a theorem.  The other way
round, the run `PulseSafety` checks `Implements` for orderly frontends only; the theorem
covers any order.

## What is not modelled

* The access mode of ALSA, and formats without a sample size, whose size is a
  negative number in the code.
* The order in which the members of `CommandHandler` and of the frontend's handler are
  destroyed while their threads run: the rings' threads belong to libxenbe.
* `SndBackend`, `main`: option parsing, signals, one line that makes a handler.
* `MockBackend`, `Test`: not part of the daemon.
* Time: periods, timestamps, the length of a tick.  A timer that is armed may fire.
  The clock of `AlsaPcm` counts frames: that `getTimeStamp` multiplies nanoseconds by
  the rate before it divides, and so leaves 64 bits after some 53 hours at 48 kHz, is
  not in the model.
* What the references in a page directory name: they are pages of the buffer in order.
  Which pages a directory that is not sound lists changes none of the counts.
* Positions reported by `PulsePcm`, and holes in captured fragments.
* libxenbe, libpulse, alsa-lib, Xen: modelled as the code uses them, marked external
  in the map.

## Plan

| step | module | what |
|---|---|---|
| done | `PulsePcm`, `AlsaPcm`, `CommandHandler` | the core |
| done | `HwParams` | the ranges of a query, and what OPEN makes of them |
| done | `PulseMainloop`, `SndFrontend` | the connection to the server; from XenStore to rings and devices |
| done | `PcmDevice` | the abstract device; both back ends implement it, `CommandHandler` is composed with it |
| done | `CommandHandler_proofs`, `SndFrontend_proofs`, `HwParams_proofs`, `PulsePcm_refines`, `PulsePcm_reads`, `AlsaPcm_positions` | their safety properties, the refinements |
| done | `SndFrontend_proofs`, `PulsePcm_proofs` | `AllBound`, the parser against the documented format; which streams can abort the daemon |
| next | `AlsaPcm`, `PulsePcm` | measures like `StepsLeft` for the loops of `read` and `write`: a turn without progress comes only after an underrun, and an underrun only after progress |
