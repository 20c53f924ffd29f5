------------------------------ MODULE PulsePcm ------------------------------
(* The PulseAudio back end of the daemon (PulsePcm.cpp): the PCM streams of *)
(* one pa_context, the request thread of each stream, and the mainloop      *)
(* thread that runs every callback.                                         *)
(*                                                                          *)
(* All of the code below runs under the mainloop lock (PulseMutex); it is   *)
(* given up only inside pa_threaded_mainloop_wait.  An action is therefore  *)
(* what one thread does from taking the lock, or from waking up, to its     *)
(* next wait or its return, or one callback the mainloop dispatches.        *)
EXTENDS Naturals, Sequences

CONSTANTS
  Playback,     \* the playback streams
  Capture,      \* the capture streams
  Orderly,      \* TRUE: the frontends send commands in protocol order only
  Capacity,     \* bytes a stream's buffer holds in the server
  Fragment,     \* bytes of one captured fragment
  MaxInflight   \* bound on the unanswered requests a timer tick adds to

Streams == Playback \cup Capture

ASSUME PulseAssumption ==
  /\ Playback \cap Capture = {}
  /\ Orderly \in BOOLEAN
  /\ Capacity \in Nat \ {0}
  /\ Fragment \in 1 .. Capacity
  /\ MaxInflight \in Nat

Triggers == {"start", "stop", "pause", "resume"}
Ops      == {"open", "close", "read", "write"} \cup Triggers
Requests == {"create", "cork", "flush", "timing", "delete"}
Phases   == {"closed", "opened", "running", "paused"}
States   == {"null", "unconnected", "creating", "ready", "failed", "terminated"}

VARIABLES
  context,      \* pa_context: "ready" or "failed" (nothing reconnects it)
  mStream,      \* state of the stream mStream points to, "null": no stream
  mSuccess,     \* what the last success callback stored
  mTimeEvent,   \* mTimeEvent # nullptr
  mReadIndex,   \* bytes already copied from the fragment being read
  stray,        \* a time event nobody points to any more still fires
  inflight,     \* requests of the stream the server has not answered, FIFO
  detached,     \* the same for a stream close() has already let go
  flowing,      \* the server plays or records (it has been uncorked)
  queue,        \* bytes in the server's buffer of the stream
  pc,           \* where the request thread waits, "idle": in no call
  op,           \* the call it is in, "none" when idle
  size,         \* bytes of the read or write still to move
  answer,       \* result of the last call, "none" while it runs
  woken,        \* waiting threads the condition variable has released
  phase,        \* the frontend's own view of the stream
  acked,        \* the server has acknowledged the cork of the running trigger
  crashed       \* libpulse has aborted the process

pulse  == <<context, mStream, flowing, queue, inflight, detached>>
object == <<mSuccess, mTimeEvent, mReadIndex, stray>>
thread == <<pc, op, size, answer, phase, acked>>
vars   == <<pulse, object, thread, woken, crashed>>

PulseOK ==
  /\ context \in {"ready", "failed"}
  /\ mStream \in [Streams -> States]
  /\ flowing \in [Streams -> BOOLEAN]
  /\ queue \in [Streams -> 0 .. Capacity]
  /\ inflight \in [Streams -> Seq(Requests)]
  /\ detached \in [Streams -> Seq(Requests)]

ObjectOK ==
  /\ mSuccess \in [Streams -> BOOLEAN]
  /\ mTimeEvent \in [Streams -> BOOLEAN]
  /\ mReadIndex \in [Streams -> 0 .. Fragment - 1]
  /\ stray \in [Streams -> BOOLEAN]

ThreadOK ==
  /\ pc \in [Streams -> {"idle", "open", "cork", "flush", "disconnect", "transfer"}]
  /\ op \in [Streams -> Ops \cup {"none"}]
  /\ size \in [Streams -> Nat]
  /\ answer \in [Streams -> {"none", "ok", "error"}]
  /\ phase \in [Streams -> Phases]
  /\ acked \in [Streams -> BOOLEAN]

TypeOK ==
  /\ PulseOK /\ ObjectOK /\ ThreadOK
  /\ woken \subseteq Streams
  /\ crashed \in BOOLEAN

Init ==
  /\ context = "ready"
  /\ mStream = [s \in Streams |-> "null"]
  /\ mSuccess = [s \in Streams |-> FALSE]
  /\ mTimeEvent = [s \in Streams |-> FALSE]
  /\ mReadIndex = [s \in Streams |-> 0]
  /\ stray = [s \in Streams |-> FALSE]
  /\ inflight = [s \in Streams |-> <<>>]
  /\ detached = [s \in Streams |-> <<>>]
  /\ flowing = [s \in Streams |-> FALSE]
  /\ queue = [s \in Streams |-> 0]
  /\ pc = [s \in Streams |-> "idle"]
  /\ op = [s \in Streams |-> "none"]
  /\ size = [s \in Streams |-> 0]
  /\ answer = [s \in Streams |-> "ok"]
  /\ woken = {}
  /\ phase = [s \in Streams |-> "closed"]
  /\ acked = [s \in Streams |-> FALSE]
  /\ crashed = FALSE

-----------------------------------------------------------------------------
(* The frontend and the waits. *)

\* The phases in which a frontend that follows the protocol sends a command.
Protocol(o) ==
  CASE o = "open"            -> {"closed"}
    [] o = "close"           -> Phases
    [] o = "start"           -> {"opened"}
    [] o = "pause"           -> {"running"}
    [] o = "resume"          -> {"paused"}
    [] o = "stop"            -> {"running", "paused"}
    [] o \in {"read", "write"} -> Phases \ {"closed"}

PhaseAfter(o, p) ==
  CASE o = "open"              -> "opened"
    [] o = "close"             -> "closed"
    [] o \in {"start", "resume"} -> "running"
    [] o = "pause"             -> "paused"
    [] o = "stop"              -> "opened"
    [] o \in {"read", "write"} -> p

\* The request thread of s may take command o.
Begin(s, o) ==
  /\ ~crashed
  /\ pc[s] = "idle"
  /\ Orderly => phase[s] \in Protocol(o)
  /\ woken' = woken

\* The thread of s, waiting at "at", has been released and has the lock again.
Wake(s, at) ==
  /\ ~crashed
  /\ pc[s] = at
  /\ s \in woken
  /\ woken' = woken \ {s}

\* The call o of s returns or throws; CLOSE always leaves the frontend closed.
Answer(s, o, result) ==
  /\ pc' = [pc EXCEPT ![s] = "idle"]
  /\ op' = [op EXCEPT ![s] = "none"]
  /\ size' = [size EXCEPT ![s] = 0]
  /\ acked' = [acked EXCEPT ![s] = FALSE]
  /\ answer' = [answer EXCEPT ![s] = result]
  /\ phase' = [phase EXCEPT ![s] =
                 IF result = "ok" \/ o = "close" THEN PhaseAfter(o, @) ELSE @]

\* pa_threaded_mainloop_wait, in the call o with n bytes to go.
WaitAt(s, o, n, at) ==
  /\ pc' = [pc EXCEPT ![s] = at]
  /\ op' = [op EXCEPT ![s] = o]
  /\ size' = [size EXCEPT ![s] = n]
  /\ answer' = [answer EXCEPT ![s] = "none"]
  /\ UNCHANGED <<phase, acked>>

\* Mutants of what follows: one waiter released instead of all; the operation
\* taken for finished at the first wake-up; the time event left armed.
SignalOne ==
  \/ \E t \in Streams : pc[t] # "idle" /\ woken' = woken \cup {t}
  \/ (\A t \in Streams : pc[t] = "idle") /\ woken' = woken
FinishedAtFirstWake(s, r) == TRUE
LeaveTimer(s) == UNCHANGED mTimeEvent

\* pa_threaded_mainloop_signal: one condition variable, every waiter wakes.
Signal == woken' = {t \in Streams : pc[t] # "idle"}

\* getStatus() = PA_OK.
StatusOk(s) == context = "ready" /\ mStream[s] \in {"creating", "ready"}

\* pa_operation_get_state(op) = PA_OPERATION_RUNNING for a request r of s.
Outstanding(s, r) == \E i \in 1 .. Len(inflight[s]) : inflight[s][i] = r

\* waitOperationFinished leaves its loop.
OperationFinished(s, r) == ~Outstanding(s, r) \/ ~StatusOk(s)

Send(s, r) == inflight' = [inflight EXCEPT ![s] = Append(@, r)]

StopTimer(s) == mTimeEvent' = [mTimeEvent EXCEPT ![s] = FALSE]

-----------------------------------------------------------------------------
(* OPEN: PulsePcm::open.  The read position is reset before createStream    *)
(* finds that the device is open already.                                   *)

\* createStream throws: already open, or no pa_stream.  An unknown format throws
\* earlier, and then the read position stays.
OpenRefused(s) ==
  /\ Begin(s, "open")
  /\ \/ mReadIndex' = [mReadIndex EXCEPT ![s] = 0]
     \/ UNCHANGED mReadIndex
  /\ Answer(s, "open", "error")
  /\ UNCHANGED <<pulse, mSuccess, mTimeEvent, stray, crashed>>

\* The stream exists, connecting it fails, and mStream stays set.
OpenNotConnected(s) ==
  /\ Begin(s, "open")
  /\ mStream[s] = "null"
  /\ mStream' = [mStream EXCEPT ![s] = "unconnected"]
  /\ mReadIndex' = [mReadIndex EXCEPT ![s] = 0]
  /\ Answer(s, "open", "error")
  /\ UNCHANGED <<context, flowing, queue, inflight, detached,
                 mSuccess, mTimeEvent, stray, crashed>>

\* The stream is being created; playback starts corked, capture does not.
OpenConnect(s) ==
  /\ Begin(s, "open")
  /\ mStream[s] = "null"
  /\ context = "ready"
  /\ mStream' = [mStream EXCEPT ![s] = "creating"]
  /\ flowing' = [flowing EXCEPT ![s] = s \in Capture]
  /\ queue' = [queue EXCEPT ![s] = 0]
  /\ mReadIndex' = [mReadIndex EXCEPT ![s] = 0]
  /\ Send(s, "create")
  /\ WaitAt(s, "open", 0, "open")
  /\ UNCHANGED <<context, detached, mSuccess, mTimeEvent, stray, crashed>>

\* Mutant of OpenWake: a stream that has failed taken for one that is ready.
OpenUnlessCreating(s) ==
  /\ Wake(s, "open")
  /\ \/ mStream[s] # "creating" /\ Answer(s, "open", "ok")
     \/ mStream[s] = "creating" /\ WaitAt(s, "open", 0, "open")
  /\ UNCHANGED <<pulse, object, crashed>>

\* One turn of the loop of waitStreamReady.
OpenWake(s) ==
  /\ Wake(s, "open")
  /\ \/ mStream[s] = "ready"    /\ Answer(s, "open", "ok")
     \/ mStream[s] = "creating" /\ WaitAt(s, "open", 0, "open")
     \/ mStream[s] = "failed"   /\ Answer(s, "open", "error")
  /\ UNCHANGED <<pulse, object, crashed>>

-----------------------------------------------------------------------------
(* TRIGGER: start, stop, pause and resume cork or uncork the stream and     *)
(* wait for the answer.                                                     *)

\* pa_stream_cork(nullptr): libpulse asserts that the stream exists.
TriggerNull(s, o) ==
  /\ Begin(s, o)
  /\ mStream[s] = "null"
  /\ crashed' = TRUE
  /\ UNCHANGED <<pulse, object, thread>>

\* pa_stream_cork gives no operation: the stream is not ready.
TriggerRefused(s, o) ==
  /\ Begin(s, o)
  /\ mStream[s] \notin {"null", "ready"}
  /\ Answer(s, o, "error")
  /\ UNCHANGED <<pulse, object, crashed>>

TriggerSend(s, o) ==
  /\ Begin(s, o)
  /\ mStream[s] = "ready"
  /\ Send(s, "cork")
  /\ WaitAt(s, o, 0, "cork")
  /\ UNCHANGED <<context, mStream, flowing, queue, detached, object, crashed>>

Trigger(s, o) == TriggerNull(s, o) \/ TriggerRefused(s, o) \/ TriggerSend(s, o)

\* waitOperationFinished is not zero: the last success callback stored true,
\* or the operation still runs on a stream that has gone bad.
Succeeded(s) == mSuccess[s] \/ Outstanding(s, "cork")

CorkWaitsOn(s) ==
  /\ Wake(s, "cork")
  /\ ~OperationFinished(s, "cork")
  /\ WaitAt(s, op[s], 0, "cork")
  /\ UNCHANGED <<pulse, object, crashed>>

CorkFailed(s) ==
  /\ Wake(s, "cork")
  /\ OperationFinished(s, "cork")
  /\ ~Succeeded(s)
  /\ Answer(s, op[s], "error")
  /\ UNCHANGED <<pulse, object, crashed>>

\* start: startTimer takes a new time event and forgets the one it had.
Started(s) ==
  /\ Wake(s, "cork")
  /\ OperationFinished(s, "cork")
  /\ Succeeded(s)
  /\ op[s] = "start"
  /\ stray' = [stray EXCEPT ![s] = @ \/ mTimeEvent[s]]
  /\ \/ /\ mTimeEvent' = [mTimeEvent EXCEPT ![s] = TRUE]
        /\ Answer(s, "start", "ok")
     \/ /\ StopTimer(s)                     \* time_new gives nullptr
        /\ Answer(s, "start", "error")
  /\ UNCHANGED <<pulse, mSuccess, mReadIndex, crashed>>

PausedOrResumed(s) ==
  /\ Wake(s, "cork")
  /\ OperationFinished(s, "cork")
  /\ Succeeded(s)
  /\ op[s] \in {"pause", "resume"}
  /\ Answer(s, op[s], "ok")
  /\ UNCHANGED <<pulse, object, crashed>>

\* stop: flush() gets an operation only from a stream that is ready.
StopFlushes(s) ==
  /\ Wake(s, "cork")
  /\ OperationFinished(s, "cork")
  /\ Succeeded(s)
  /\ op[s] = "stop"
  /\ \/ /\ mStream[s] = "ready"
        /\ Send(s, "flush")
        /\ WaitAt(s, "stop", 0, "flush")
        /\ UNCHANGED mTimeEvent
     \/ /\ mStream[s] # "ready"
        /\ StopTimer(s)
        /\ Answer(s, "stop", "ok")
        /\ UNCHANGED inflight
  /\ UNCHANGED <<context, mStream, flowing, queue, detached,
                 mSuccess, mReadIndex, stray, crashed>>

TriggerWake(s) ==
  \/ CorkWaitsOn(s) \/ CorkFailed(s) \/ Started(s)
  \/ PausedOrResumed(s) \/ StopFlushes(s)

-----------------------------------------------------------------------------
(* CLOSE: PulsePcm::close, and the flush it shares with stop.               *)

\* pa_stream_disconnect asks the server only while the stream is ready; the
\* wait that follows is entered whatever it returned.
Disconnect(s) ==
  /\ IF mStream[s] = "ready" THEN Send(s, "delete") ELSE UNCHANGED inflight
  /\ WaitAt(s, "close", 0, "disconnect")

CloseNull(s) ==
  /\ Begin(s, "close")
  /\ mStream[s] = "null"
  /\ StopTimer(s)
  /\ Answer(s, "close", "ok")
  /\ UNCHANGED <<pulse, mSuccess, mReadIndex, stray, crashed>>

\* Mutant of Close: the playback stream not flushed.
CloseUnflushed(s) ==
  /\ Begin(s, "close")
  /\ mStream[s] # "null"
  /\ StopTimer(s)
  /\ Disconnect(s)
  /\ UNCHANGED <<context, mStream, flowing, queue, detached,
                 mSuccess, mReadIndex, stray, crashed>>

Close(s) ==
  /\ Begin(s, "close")
  /\ mStream[s] # "null"
  /\ StopTimer(s)
  /\ IF s \in Playback /\ mStream[s] = "ready"
       THEN Send(s, "flush") /\ WaitAt(s, "close", 0, "flush")
       ELSE Disconnect(s)
  /\ UNCHANGED <<context, mStream, flowing, queue, detached,
                 mSuccess, mReadIndex, stray, crashed>>

FlushWaitsOn(s) ==
  /\ Wake(s, "flush")
  /\ ~OperationFinished(s, "flush")
  /\ WaitAt(s, op[s], 0, "flush")
  /\ UNCHANGED <<pulse, object, crashed>>

\* The result of a flush is not looked at.
StopFlushed(s) ==
  /\ Wake(s, "flush")
  /\ OperationFinished(s, "flush")
  /\ op[s] = "stop"
  /\ StopTimer(s)
  /\ Answer(s, "stop", "ok")
  /\ UNCHANGED <<pulse, mSuccess, mReadIndex, stray, crashed>>

CloseFlushed(s) ==
  /\ Wake(s, "flush")
  /\ OperationFinished(s, "flush")
  /\ op[s] = "close"
  /\ Disconnect(s)
  /\ UNCHANGED <<context, mStream, flowing, queue, detached, object, crashed>>

FlushWake(s) == FlushWaitsOn(s) \/ StopFlushed(s) \/ CloseFlushed(s)

\* The wait of close() is not in a loop: any signal ends it.  What the stream
\* still has outstanding stays with libpulse, which owns a reference to it.
DisconnectWake(s) ==
  /\ Wake(s, "disconnect")
  /\ mStream' = [mStream EXCEPT ![s] = "null"]
  /\ detached' = [detached EXCEPT ![s] = @ \o inflight[s]]
  /\ inflight' = [inflight EXCEPT ![s] = <<>>]
  /\ flowing' = [flowing EXCEPT ![s] = FALSE]
  /\ queue' = [queue EXCEPT ![s] = 0]
  /\ Answer(s, "close", "ok")
  /\ UNCHANGED <<context, object, crashed>>

-----------------------------------------------------------------------------
(* READ and WRITE. *)

\* Bytes that can be moved without waiting.
Room(s) ==
  IF s \in Playback THEN Capacity - queue[s]
  ELSE IF queue[s] >= mReadIndex[s] THEN queue[s] - mReadIndex[s] ELSE 0

\* Mutant of Move: pa_stream_drop at the end of every copy, the fragment all
\* copied or not.
MoveDropsEarly(s, k) ==
  IF s \in Playback
    THEN /\ queue' = [queue EXCEPT ![s] = @ + k]
         /\ UNCHANGED mReadIndex
    ELSE LET index == mReadIndex[s] + k
             ends  == IF index % Fragment = 0 THEN index
                      ELSE (index - (index % Fragment)) + Fragment
         IN  /\ queue' = [queue EXCEPT ![s] = @ - ends]
             /\ mReadIndex' = [mReadIndex EXCEPT ![s] = 0]

\* Mutant of Move: the read position not reset with the next fragment.
MoveWithoutReset(s, k) ==
  IF s \in Playback
    THEN /\ queue' = [queue EXCEPT ![s] = @ + k]
         /\ UNCHANGED mReadIndex
    ELSE /\ mReadIndex' = [mReadIndex EXCEPT ![s] = @ + k]
         /\ UNCHANGED queue

\* Move k bytes.  A captured fragment is dropped once it is all copied.
Move(s, k) ==
  IF s \in Playback
    THEN /\ queue' = [queue EXCEPT ![s] = @ + k]
         /\ UNCHANGED mReadIndex
    ELSE LET index == mReadIndex[s] + k
             rest  == index % Fragment
         IN  /\ queue' = [queue EXCEPT ![s] = @ - (index - rest)]
             /\ mReadIndex' = [mReadIndex EXCEPT ![s] = rest]

\* From checkStatus to the end of the call or the next wait, n bytes to go.
Transfer(s, o, n) ==
  \/ /\ ~StatusOk(s)
     /\ Answer(s, o, "error")
     /\ UNCHANGED <<queue, mReadIndex>>
  \/ /\ StatusOk(s)
     /\ n <= Room(s)
     /\ Move(s, n)
     /\ Answer(s, o, "ok")
  \/ /\ StatusOk(s)
     /\ n > Room(s)
     /\ Move(s, Room(s))
     /\ WaitAt(s, o, n - Room(s), "transfer")

ReadOrWrite(s, o, n) ==
  /\ Begin(s, o)
  /\ IF n > 0 /\ (s \in Playback <=> o = "write")
       THEN Transfer(s, o, n)
       ELSE Answer(s, o, "error") /\ UNCHANGED <<queue, mReadIndex>>
  /\ UNCHANGED <<context, mStream, flowing, inflight, detached,
                 mSuccess, mTimeEvent, stray, crashed>>

TransferWake(s) ==
  /\ Wake(s, "transfer")
  /\ Transfer(s, op[s], size[s])
  /\ UNCHANGED <<context, mStream, flowing, inflight, detached,
                 mSuccess, mTimeEvent, stray, crashed>>

-----------------------------------------------------------------------------
(* The mainloop thread: the server's answers and events, in callbacks.      *)

\* The next unanswered request of s is r; a stream closed before goes first.
Due(s, r) ==
  /\ ~crashed
  /\ detached[s] = <<>>
  /\ inflight[s] # <<>>
  /\ Head(inflight[s]) = r

Answered(s, r) ==
  /\ Due(s, r)
  /\ inflight' = [inflight EXCEPT ![s] = Tail(@)]

\* streamStateChanged: ready, failed and terminated signal the waiters.
ReplyCreate(s, ok) ==
  /\ Answered(s, "create")
  /\ mStream' = [mStream EXCEPT ![s] = IF ok THEN "ready" ELSE "failed"]
  /\ Signal
  /\ UNCHANGED <<context, flowing, queue, detached, object, thread, crashed>>

\* libpulse cancels what a stream that ends has outstanding.
ReplyDelete(s) ==
  /\ Due(s, "delete")
  /\ inflight' = [inflight EXCEPT ![s] = <<>>]
  /\ mStream' = [mStream EXCEPT ![s] = "terminated"]
  /\ Signal
  /\ UNCHANGED <<context, flowing, queue, detached, object, thread, crashed>>

\* successCbk.
ReplyCork(s, ok) ==
  /\ Answered(s, "cork")
  /\ mSuccess' = [mSuccess EXCEPT ![s] = ok]
  /\ flowing' = [flowing EXCEPT ![s] =
                   IF ok THEN op[s] \in {"start", "resume"} ELSE @]
  /\ acked' = [acked EXCEPT ![s] = ok]
  /\ Signal
  /\ UNCHANGED <<context, mStream, queue, detached,
                 mTimeEvent, mReadIndex, stray, pc, op, size, answer, phase, crashed>>

\* A flush discards what the server has not played yet.
ReplyFlush(s, ok) ==
  /\ Answered(s, "flush")
  /\ mSuccess' = [mSuccess EXCEPT ![s] = ok]
  /\ queue' = [queue EXCEPT ![s] = IF ok /\ s \in Playback THEN 0 ELSE @]
  /\ Signal
  /\ UNCHANGED <<context, mStream, flowing, detached,
                 mTimeEvent, mReadIndex, stray, thread, crashed>>

\* latencyUpdate, a callback only playback streams set, then updateTimingCbk.
ReplyTiming(s) ==
  /\ Answered(s, "timing")
  /\ IF s \in Playback THEN Signal ELSE UNCHANGED woken
  /\ UNCHANGED <<context, mStream, flowing, queue, detached, object, thread, crashed>>

\* The answers of a stream close() has let go.  Its own callbacks are gone but
\* updateTimingCbk still runs, on whatever mStream is now.
ReplyDetached(s) ==
  /\ ~crashed
  /\ detached[s] # <<>>
  /\ detached' = [detached EXCEPT ![s] = Tail(@)]
  /\ crashed' = (Head(detached[s]) = "timing" /\ mStream[s] = "null")
  /\ UNCHANGED <<context, mStream, flowing, queue, inflight,
                 object, thread, woken>>

\* streamRequest: the server has played k bytes, or recorded a fragment.
StreamRequest(s) ==
  /\ ~crashed
  /\ mStream[s] = "ready"
  /\ flowing[s]
  /\ \/ /\ s \in Playback
        /\ \E k \in 1 .. queue[s] : queue' = [queue EXCEPT ![s] = @ - k]
     \/ /\ s \in Capture
        /\ queue[s] + Fragment <= Capacity
        /\ queue' = [queue EXCEPT ![s] = @ + Fragment]
  /\ Signal
  /\ UNCHANGED <<context, mStream, flowing, inflight, detached, object, thread, crashed>>

\* The server kills one stream.
StreamFailed(s) ==
  /\ ~crashed
  /\ mStream[s] \in {"creating", "ready"}
  /\ mStream' = [mStream EXCEPT ![s] = "failed"]
  /\ inflight' = [inflight EXCEPT ![s] = <<>>]
  /\ Signal
  /\ UNCHANGED <<context, flowing, queue, detached, object, thread, crashed>>

\* The connection is lost: contextStateChanged, and every stream fails.
ContextFailed ==
  /\ ~crashed
  /\ context = "ready"
  /\ context' = "failed"
  /\ mStream' = [s \in Streams |->
                   IF mStream[s] \in {"null", "terminated"} THEN mStream[s] ELSE "failed"]
  /\ inflight' = [s \in Streams |-> <<>>]
  /\ detached' = [s \in Streams |-> <<>>]
  /\ Signal
  /\ UNCHANGED <<flowing, queue, object, thread, crashed>>

\* timeEventCbk: asks for the timing of a ready stream and is restarted.  (A
\* request sent after "delete" is cancelled with the stream, unanswered.)
TimeEvent(s) ==
  /\ ~crashed
  /\ mTimeEvent[s] \/ stray[s]
  /\ mStream[s] = "ready"
  /\ ~Outstanding(s, "delete")
  /\ Len(inflight[s]) < MaxInflight
  /\ Send(s, "timing")
  /\ UNCHANGED <<context, mStream, flowing, queue, detached, object, thread, woken, crashed>>

\* latencyUpdate for what libpulse asks by itself: a playback stream is connected
\* with PA_STREAM_AUTO_TIMING_UPDATE.
LatencyUpdate(s) ==
  /\ ~crashed
  /\ s \in Playback
  /\ mStream[s] = "ready"
  /\ Signal
  /\ UNCHANGED <<pulse, object, thread, crashed>>

-----------------------------------------------------------------------------
Command(s) ==
  \/ OpenRefused(s) \/ OpenNotConnected(s) \/ OpenConnect(s)
  \/ \E o \in Triggers : Trigger(s, o)
  \/ CloseNull(s) \/ Close(s)
  \/ \E o \in {"read", "write"}, n \in 0 .. Capacity + 1 : ReadOrWrite(s, o, n)

Resume(s) ==
  OpenWake(s) \/ TriggerWake(s) \/ FlushWake(s) \/ DisconnectWake(s) \/ TransferWake(s)

Reply(s) ==
  \/ \E ok \in BOOLEAN : ReplyCreate(s, ok) \/ ReplyCork(s, ok) \/ ReplyFlush(s, ok)
  \/ ReplyDelete(s) \/ ReplyTiming(s) \/ ReplyDetached(s)

Next ==
  \/ \E s \in Streams :
       Command(s) \/ Resume(s) \/ Reply(s)
         \/ StreamRequest(s) \/ StreamFailed(s) \/ TimeEvent(s) \/ LatencyUpdate(s)
  \/ ContextFailed

Spec == Init /\ [][Next]_vars

\* A released thread runs, the server answers what it is asked, and a stream
\* that flows moves data.
Fairness ==
  \A s \in Streams : WF_vars(Resume(s)) /\ WF_vars(Reply(s)) /\ WF_vars(StreamRequest(s))

FairSpec == Spec /\ Fairness

-----------------------------------------------------------------------------
(* Properties. *)

\* What releases the thread of s is still to come.
WillWake(s) ==
  /\ pc[s] = "open" => mStream[s] = "creating" /\ Outstanding(s, "create")
  /\ pc[s] \in {"cork", "flush"} => StatusOk(s) /\ Outstanding(s, pc[s])
  /\ pc[s] = "transfer" => StatusOk(s) /\ Room(s) = 0
  /\ pc[s] = "disconnect" /\ mStream[s] = "ready" => Outstanding(s, "delete")

\* A thread that waits and has not been released still has coming what will
\* release it: an open its unanswered create request, a waitOperationFinished
\* its unanswered operation, a read or write an empty or full buffer of a
\* stream in good health, and the last wait of CLOSE, while the stream is ready,
\* the unanswered delete request.  (Once it is not ready nothing may come, see
\* CloseReturns.)  The single condition variable is shared by every
\* stream and signalled from six callbacks; one path that forgets to signal,
\* or a check made after the wait, leaves a request thread blocked for good.
NoLostWakeup == ~crashed => \A s \in Streams \ woken : WillWake(s)

\* A trigger answered with success on a stream that has stayed healthy was
\* acknowledged by the server for this very command: the result is never the
\* leftover of an earlier operation, although mSuccess outlives them all and
\* the condition variable wakes the thread for other streams' events too.
AckedTriggers ==
  [][\A s \in Streams :
       (op[s] \in Triggers /\ answer[s] = "none" /\ answer'[s] = "ok"
          /\ mStream[s] = "ready") => acked[s]]_vars

\* With orderly frontends a time event lives only between START and the STOP
\* or CLOSE that follows, and none is ever leaked: an idle device that is not
\* started asks the server for nothing.
TimerOnlyWhileStarted ==
  Orderly => \A s \in Streams :
    /\ ~stray[s]
    /\ (mTimeEvent[s] /\ pc[s] = "idle") => phase[s] \in {"running", "paused"}

\* When close() lets a playback stream go, no timing request of it is left
\* whose callback would find mStream null: stopTimer comes first and the
\* answer to the flush comes after every earlier request's.
PlaybackCloseQuiet ==
  Orderly => \A s \in Playback :
    \A i \in 1 .. Len(detached[s]) : detached[s][i] # "timing"

\* Orderly frontends bring the daemon down in one way only (see NoAbort): by
\* the late timing answer of a capture stream close() has let go.  No trigger
\* finds mStream null, however OPEN and CLOSE went, and no playback stream's
\* answer comes after it is gone.
OnlyCaptureAborts ==
  [][Orderly /\ ~crashed /\ crashed' =>
       \E s \in Capture :
         /\ detached[s] # <<>> /\ Head(detached[s]) = "timing"
         /\ detached'[s] = Tail(detached[s])]_vars

Readable(s) == IF mStream[s] = "ready" THEN Room(s) ELSE 0

\* Bytes the step gives a READ of s that has n to go: all of them when it
\* returns, what has left the rest to wait for, none when it throws.
Given(s, n) ==
  CASE answer'[s] = "ok"    -> n
    [] answer'[s] = "none"  -> n - size'[s]
    [] answer'[s] = "error" -> 0

\* A READ of s goes on, from the call or from its wait.
ReadGoesOn(s) ==
  (\E n \in 0 .. Capacity + 1 : ReadOrWrite(s, "read", n)) \/ TransferWake(s)

\* An orderly frontend is given every captured byte once: what a step of a READ
\* gives is exactly what can no longer be read after it, so no byte is offered
\* again and no fragment dropped before its last byte is copied, across the
\* fragments, the waits inside a read and the reads that end mid-fragment.
\* Bytes become readable only by arriving from the server, and while the stream
\* stays ready nothing but a READ takes them away.
ReadOnce ==
  [][Orderly => \A s \in Capture :
       /\ \A n \in 0 .. Capacity + 1 :
            ReadOrWrite(s, "read", n) => Readable(s)' = Readable(s) - Given(s, n)
       /\ TransferWake(s) => Readable(s)' = Readable(s) - Given(s, size[s])
       /\ Readable(s)' > Readable(s) => queue'[s] > queue[s]
       /\ (Readable(s)' < Readable(s) /\ mStream'[s] = "ready") => ReadGoesOn(s)]_vars

\* The call of the interface a command makes.
CallOf(o) ==
  CASE o \in Triggers           -> "trigger"
    [] o \in {"read", "write"} -> "transfer"
    [] OTHER                   -> o

\* The answer to a timing request reports the position.
WillReport(s) ==
  \/ Outstanding(s, "timing")
  \/ \E i \in 1 .. Len(detached[s]) : detached[s][i] = "timing"

\* What counts as a report: the promise about them is that of the playback
\* streams of orderly frontends.  (A capture stream breaks it, see NoAbort.)
Reports(s) == Orderly /\ s \in Playback /\ WillReport(s)

\* A stream as a device of the interface: it has a stream while the server has
\* one ready, but not yet in the OPEN that waits for it.
Device(s) == INSTANCE PcmDevice WITH
  open      <- mStream[s] = "ready" /\ op[s] # "open",
  call      <- CallOf(op[s]),
  answer    <- IF pc[s] = "idle" THEN answer[s] ELSE "none",
  reporting <- Reports(s)

\* Every stream keeps the promises of the interface, in whatever order its
\* frontend sends commands and whatever the server and the other streams of the
\* context do: OPEN is answered with success only when the server has the
\* stream, no data or trigger goes to one that is gone, CLOSE leaves none; and
\* a playback stream of an orderly frontend reports only while it has one.
Implements ==
  /\ \A s \in Streams : Device(s)!DeviceInit
  /\ [][\A s \in Streams : [Device(s)!DeviceNext]_(Device(s)!deviceVars)]_vars

\* OPEN, START, PAUSE, RESUME and STOP are always answered, whatever fails and
\* whichever other streams share the condition variable.
CommandAnswered ==
  \A s \in Streams :
    pc[s] \in {"open", "cork", "flush"} /\ op[s] # "close" ~> pc[s] = "idle" \/ crashed

\* CLOSE gets past its flush, and is answered if the server was asked to delete
\* the stream; the wait after the flush relies on that answer alone.
CloseAnswered ==
  \A s \in Streams :
    /\ pc[s] = "flush" /\ op[s] = "close" ~> pc[s] # "flush" \/ crashed
    /\ pc[s] = "disconnect" /\ Outstanding(s, "delete") ~> pc[s] = "idle" \/ crashed

\* A read or write on a stream the server runs is always answered.  (On a
\* corked stream it may wait for ever.)
TransferAnswered ==
  \A s \in Streams :
    pc[s] = "transfer" /\ flowing[s] ~> pc[s] = "idle" \/ crashed

\* What the interface says of close ("Closes the device"): it returns.
CloseReturns == \A s \in Streams : op[s] = "close" ~> pc[s] = "idle" \/ crashed

\* What the interface says of start, stop, pause and resume: a success means
\* that the server did it.
TriggerDone ==
  [][\A s \in Streams :
       (op[s] \in Triggers /\ answer[s] = "none" /\ answer'[s] = "ok") => acked[s]]_vars

\* A frontend that keeps to the protocol never brings the daemon down.
NoAbort == Orderly => ~crashed

=============================================================================
