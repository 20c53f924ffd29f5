------------------------------ MODULE AlsaPcm ------------------------------
(* The ALSA back end of the daemon (AlsaPcm.cpp): one PCM device, the       *)
(* request thread that runs its commands, the timer thread that reports the *)
(* position, and the hardware.                                              *)
(*                                                                          *)
(* AlsaPcm takes no lock: the timer thread reads mHandle, mFrameWritten and *)
(* mFrameUnderrun while the request thread changes them.  An action of the  *)
(* request thread therefore ends where the timer thread or the hardware can *)
(* tell the difference: at a call that moves the device, and at a write of  *)
(* a field the timer thread reads.                                          *)
EXTENDS Naturals

CONSTANTS
  Buffer,       \* frames the device's buffer holds
  MaxRequest,   \* bound on the frames of one READ or WRITE
  MaxFrames,    \* bound on the frames moved between an OPEN and the next
  MaxHandles    \* bound on the ALSA handles open at once

ASSUME AlsaAssumption ==
  /\ Buffer \in Nat \ {0}
  /\ MaxRequest \in Nat
  /\ MaxFrames \in Nat
  /\ MaxHandles \in Nat \ {0}

Triggers == {"start", "stop", "pause", "resume"}
Ops      == {"open", "close", "read", "write", "query"} \cup Triggers
Phases   == {"closed", "opened", "running", "paused"}
States   == {"closed", "open", "setup", "prepared", "running", "xrun", "paused", "draining"}

VARIABLES
  mType,            \* "playback" or "capture", given to the constructor
  orderly,          \* the frontend sends commands in protocol order only
  mHandle,          \* mHandle # nullptr
  mHwQueryHandle,   \* mHwQueryHandle # nullptr
  handles,          \* ALSA handles of this object that are open
  device,           \* what mHandle points to
  mFrameWritten,
  mFrameUnderrun,
  restartAfterError,
  mTimer,           \* the timer is armed
  tick,             \* the timer thread inside getTimeStamp
  pc,               \* where the request thread is, "idle": in no call
  op,               \* the command it is in
  numFrames,        \* frames of the READ or WRITE still to move
  status,           \* frames snd_pcm_readi or writei has moved so far
  answer,           \* how the command was, or will be, answered
  phase,            \* the frontend's own view of the stream
  moved,            \* frames moved since OPEN
  recovered,        \* this WRITE has recovered from an underrun
  position,         \* the last position reported from a status that was read
  rewound           \* the next report may lie below position

given       == <<mType, orderly>>
handleVars  == <<mHandle, mHwQueryHandle, handles>>
counters    == <<mFrameWritten, mFrameUnderrun, moved>>
transferVars == <<restartAfterError, numFrames, status, recovered>>
callVars    == <<pc, op, answer, phase>>
reportVars  == <<tick, position, rewound>>
vars == <<given, handleVars, device, counters, transferVars, mTimer,
          callVars, reportVars>>

NoDevice == [state |-> "closed", queued |-> 0, played |-> 0]
NoTick   == [on |-> FALSE, failed |-> FALSE, xrun |-> FALSE, played |-> 0, crossed |-> FALSE]

TypeOK ==
  /\ mType \in {"playback", "capture"} /\ orderly \in BOOLEAN
  /\ mHandle \in BOOLEAN /\ mHwQueryHandle \in BOOLEAN
  /\ handles \in 0 .. MaxHandles
  /\ device \in [state : States, queued : 0 .. Buffer, played : Nat]
  /\ mFrameWritten \in Nat /\ mFrameUnderrun \in Nat
  /\ restartAfterError \in BOOLEAN /\ recovered \in BOOLEAN
  /\ mTimer \in BOOLEAN
  /\ tick \in [on : BOOLEAN, failed : BOOLEAN, xrun : BOOLEAN, played : Nat,
               crossed : BOOLEAN]
  /\ pc \in {"idle", "configure", "transfer", "underrun", "count", "restart",
             "arm", "disarm", "drain", "join"}
  /\ op \in Ops \cup {"none"}
  /\ numFrames \in 0 .. MaxRequest /\ status \in 0 .. MaxRequest
  /\ answer \in {"none", "ok", "error"}
  /\ phase \in Phases
  /\ moved \in 0 .. MaxFrames
  /\ position \in Nat
  /\ rewound \in BOOLEAN

Init ==
  /\ mType \in {"playback", "capture"} /\ orderly \in BOOLEAN
  /\ mHandle = FALSE /\ mHwQueryHandle = FALSE /\ handles = 0
  /\ device = NoDevice
  /\ mFrameWritten = 0 /\ mFrameUnderrun = 0
  /\ restartAfterError = FALSE /\ recovered = FALSE
  /\ mTimer = FALSE /\ tick = NoTick
  /\ pc = "idle" /\ op = "none" /\ answer = "ok" /\ phase = "closed"
  /\ numFrames = 0 /\ status = 0
  /\ moved = 0 /\ position = 0 /\ rewound = FALSE

-----------------------------------------------------------------------------
(* The commands. *)

\* The phases in which a frontend that follows the protocol sends a command.
Protocol(o) ==
  CASE o = "open"              -> {"closed"}
    [] o = "start"             -> {"opened"}
    [] o = "pause"             -> {"running"}
    [] o = "resume"            -> {"paused"}
    [] o = "stop"              -> {"running", "paused"}
    [] o \in {"read", "write"} -> {"opened", "running", "paused"}
    [] o \in {"close", "query"} -> Phases

PhaseAfter(o, p) ==
  CASE o = "open"                -> "opened"
    [] o = "close"               -> "closed"
    [] o \in {"start", "resume"} -> "running"
    [] o = "pause"               -> "paused"
    [] o = "stop"                -> "opened"
    [] o \in {"read", "write", "query"} -> p

Begin(o) ==
  /\ pc = "idle"
  /\ orderly => phase \in Protocol(o)

\* The command o returns or throws.
Answer(o, result) ==
  /\ pc' = "idle"
  /\ op' = "none"
  /\ answer' = result
  /\ phase' = IF result = "ok" \/ o = "close" THEN PhaseAfter(o, phase) ELSE phase

\* The command o goes on at "at".
GoOn(o, at) ==
  /\ pc' = at
  /\ op' = o
  /\ answer' = "none"
  /\ UNCHANGED phase

\* A command that needs mHandle and finds it null throws EFAULT.
NotOpened(o) ==
  /\ Begin(o)
  /\ ~mHandle
  /\ Answer(o, "error")
  /\ UNCHANGED <<given, handleVars, device, counters, transferVars, mTimer, reportVars>>

\* snd_pcm_prepare: an empty buffer, and a clock that starts from zero.
Prepared == [state |-> "prepared", queued |-> 0, played |-> 0]

\* The timer thread holds a position taken before the clock was reset.
Crossed == tick' = [tick EXCEPT !.crossed = tick.on]

-----------------------------------------------------------------------------
(* CLOSE, and the error paths of open and queryOpen, which run close() too, *)
(* as the destructor does.                                                  *)

QueryHandles == IF mHwQueryHandle THEN 1 ELSE 0

\* snd_pcm_drain plays what is queued, a paused or idle stream's too.
Drained ==
  [device EXCEPT !.state =
     IF mType = "playback" /\ @ \in {"prepared", "running", "paused"} /\ device.queued > 0
       THEN "draining"
       ELSE IF @ = "open" THEN @ ELSE "setup"]

\* close() up to snd_pcm_drain, for a command answered with result.  Its
\* caller gives the handles that are open when it starts.
CloseFrom(o, result, open) ==
  /\ mHwQueryHandle' = FALSE
  /\ handles' = open
  /\ IF mHandle
       THEN /\ device' = Drained
            /\ pc' = "drain" /\ op' = o /\ answer' = result
            /\ UNCHANGED phase
       ELSE /\ Answer(o, result)
            /\ UNCHANGED device
  /\ UNCHANGED <<given, mHandle, counters, transferVars, mTimer, reportVars>>

Close ==
  /\ Begin("close")
  /\ CloseFrom("close", "ok", handles - QueryHandles)

\* mTimer.stop(): no callback starts any more; one that runs is waited for.
StopTimer ==
  /\ \/ pc = "disarm"
     \/ pc = "drain" /\ device.state # "draining"
  /\ mTimer' = FALSE
  /\ pc' = "join"
  /\ UNCHANGED <<given, handleVars, device, counters, transferVars,
                 op, answer, phase, reportVars>>

\* Mutant of CloseHandle: snd_pcm_close before mTimer.stop.
CloseBeforeStop ==
  /\ pc = "drain" /\ device.state # "draining"
  /\ mTimer' = FALSE
  /\ mHandle' = FALSE
  /\ handles' = handles - 1
  /\ device' = NoDevice
  /\ Answer(op, answer)
  /\ UNCHANGED <<given, mHwQueryHandle, counters, transferVars, reportVars>>

CloseHandle ==
  /\ pc = "join" /\ ~tick.on
  /\ op \notin Triggers
  /\ mHandle' = FALSE
  /\ handles' = handles - 1
  /\ device' = NoDevice
  /\ Answer(op, answer)
  /\ UNCHANGED <<given, mHwQueryHandle, counters, transferVars, mTimer, reportVars>>

-----------------------------------------------------------------------------
(* OPEN. *)

\* snd_pcm_open fails and leaves mHandle as it was.
OpenFails ==
  /\ Begin("open")
  /\ CloseFrom("open", "error", handles - QueryHandles)

\* Mutant of OpenDevice: queryClose left out.
OpenBesideQuery ==
  /\ Begin("open")
  /\ handles < MaxHandles
  /\ mHandle' = TRUE
  /\ handles' = handles + 1
  /\ device' = [NoDevice EXCEPT !.state = "open"]
  /\ Crossed /\ rewound' = TRUE
  /\ GoOn("open", "configure")
  /\ UNCHANGED <<given, mHwQueryHandle, counters, transferVars, mTimer, position>>

\* snd_pcm_open overwrites mHandle, also one that is still open.
OpenDevice ==
  /\ Begin("open")
  /\ handles - QueryHandles < MaxHandles
  /\ mHandle' = TRUE
  /\ mHwQueryHandle' = FALSE
  /\ handles' = (handles - QueryHandles) + 1
  /\ device' = [NoDevice EXCEPT !.state = "open"]
  /\ Crossed /\ rewound' = TRUE
  /\ GoOn("open", "configure")
  /\ UNCHANGED <<given, counters, transferVars, mTimer, position>>

\* setHwParams, setSwParams and snd_pcm_prepare succeed.
Configured ==
  /\ pc = "configure"
  /\ device' = Prepared
  /\ Crossed
  /\ rewound' = TRUE
  /\ mFrameWritten' = 0
  /\ mFrameUnderrun' = 0
  /\ moved' = 0
  /\ Answer("open", "ok")
  /\ UNCHANGED <<given, handleVars, transferVars, mTimer, position>>

\* Mutant of NotConfigured: the error thrown without close().
LeaveHalfOpen ==
  /\ pc = "configure"
  /\ Answer("open", "error")
  /\ UNCHANGED <<given, handleVars, device, counters, transferVars, mTimer, reportVars>>

NotConfigured ==
  /\ pc = "configure"
  /\ CloseFrom("open", "error", handles - QueryHandles)

-----------------------------------------------------------------------------
(* HW_PARAM_QUERY. *)

\* queryOpen has its handle and parameters, or takes them; refining the ranges
\* of the request then succeeds or throws.
Query ==
  /\ Begin("query")
  /\ mHwQueryHandle \/ handles < MaxHandles
  /\ mHwQueryHandle' = TRUE
  /\ handles' = handles + (1 - QueryHandles)
  /\ \E result \in {"ok", "error"} : Answer("query", result)
  /\ UNCHANGED <<given, mHandle, device, counters, transferVars, mTimer, reportVars>>

\* snd_pcm_open fails, or snd_pcm_hw_params_any does: queryOpen runs close(),
\* which closes the query handle and the stream's.
QueryFails ==
  /\ Begin("query")
  /\ ~mHwQueryHandle
  /\ CloseFrom("query", "error", handles)

-----------------------------------------------------------------------------
(* TRIGGER. *)

\* The snd_pcm_ calls of a trigger fail, the device as it was.
TriggerFails(o) ==
  /\ Begin(o)
  /\ mHandle
  /\ Answer(o, "error")
  /\ UNCHANGED <<given, handleVars, device, counters, transferVars, mTimer, reportVars>>

\* snd_pcm_start wants a prepared device, and data to play.
Start ==
  /\ Begin("start")
  /\ mHandle
  /\ device.state = "prepared"
  /\ mType = "playback" => device.queued > 0
  /\ device' = [device EXCEPT !.state = "running"]
  /\ GoOn("start", "arm")
  /\ UNCHANGED <<given, handleVars, counters, transferVars, mTimer, reportVars>>

Resume ==
  /\ Begin("resume")
  /\ mHandle
  /\ device.state = "paused"
  /\ device' = [device EXCEPT !.state = "running"]
  /\ GoOn("resume", "arm")
  /\ UNCHANGED <<given, handleVars, counters, transferVars, mTimer, reportVars>>

\* mTimer.start.
ArmTimer ==
  /\ pc = "arm"
  /\ mTimer' = TRUE
  /\ Answer(op, "ok")
  /\ UNCHANGED <<given, handleVars, device, counters, transferVars, reportVars>>

\* Mutant of Pause: the timer stopped before the device is asked.
StopTimerThenPause ==
  /\ Begin("pause")
  /\ mHandle
  /\ \/ /\ device.state = "running"
        /\ device' = [device EXCEPT !.state = "paused"]
        /\ GoOn("pause", "disarm")
        /\ UNCHANGED mTimer
     \/ /\ Answer("pause", "error")
        /\ mTimer' = FALSE
        /\ UNCHANGED device
  /\ UNCHANGED <<given, handleVars, counters, transferVars, reportVars>>

Pause ==
  /\ Begin("pause")
  /\ mHandle
  /\ device.state = "running"
  /\ device' = [device EXCEPT !.state = "paused"]
  /\ GoOn("pause", "disarm")
  /\ UNCHANGED <<given, handleVars, counters, transferVars, mTimer, reportVars>>

\* snd_pcm_drop discards what is queued; snd_pcm_prepare may still fail, and
\* then the timer stays armed.
Stop ==
  /\ Begin("stop")
  /\ mHandle
  /\ device.state # "open"
  /\ \/ /\ device' = Prepared
        /\ Crossed
        /\ GoOn("stop", "disarm")
     \/ /\ device' = [device EXCEPT !.state = "setup", !.queued = 0]
        /\ Answer("stop", "error")
        /\ UNCHANGED tick
  /\ UNCHANGED <<given, handleVars, counters, transferVars, mTimer, position, rewound>>

TimerStopped ==
  /\ pc = "join" /\ ~tick.on
  /\ op \in {"stop", "pause"}
  /\ Answer(op, "ok")
  /\ UNCHANGED <<given, handleVars, device, counters, transferVars, mTimer, reportVars>>

-----------------------------------------------------------------------------
(* READ and WRITE. *)

Transfer(o, n) ==
  /\ Begin(o)
  /\ mHandle
  /\ moved + n <= MaxFrames
  /\ numFrames' = n
  /\ IF n = 0 THEN Answer(o, "ok") ELSE GoOn(o, "transfer")
  /\ UNCHANGED <<given, handleVars, device, counters, restartAfterError,
                 status, recovered, mTimer, reportVars>>

\* The transfer ends: its local variables go.
Finish(o, result) ==
  /\ Answer(o, result)
  /\ numFrames' = 0 /\ status' = 0
  /\ restartAfterError' = FALSE /\ recovered' = FALSE

Direction == IF mType = "playback" THEN "write" ELSE "read"

\* Inside snd_pcm_writei or readi: one frame goes in or out.
MoveFrame ==
  /\ pc = "transfer" /\ op = Direction
  /\ status < numFrames
  /\ device.state \in IF op = "write" THEN {"prepared", "running", "paused"}
                                      ELSE {"running", "paused"}
  /\ \/ /\ op = "write"
        /\ device.queued < Buffer
        /\ device' = [device EXCEPT !.queued = @ + 1]
     \/ /\ op = "read"
        /\ device.queued > 0
        /\ device' = [device EXCEPT !.queued = @ - 1]
  /\ status' = status + 1
  /\ moved' = moved + 1
  /\ UNCHANGED <<given, handleVars, mFrameWritten, mFrameUnderrun, numFrames,
                 restartAfterError, recovered, mTimer, callVars, reportVars>>

\* The call returns the frames it moved, all of them or those before the
\* device stopped; a prepared device with a full buffer gives up waiting.
Moved ==
  /\ pc = "transfer"
  /\ status > 0
  /\ \/ status = numFrames
     \/ device.state \notin {"prepared", "running", "paused"}
     \/ device.state = "prepared" /\ device.queued = Buffer
  /\ pc' = "count"
  /\ UNCHANGED <<given, handleVars, device, counters, transferVars, mTimer,
                 op, answer, phase, reportVars>>

\* The call returns an error: the wrong direction, a device that is in no state
\* to move data, or a prepared one whose full buffer will not move.
TransferRefused ==
  /\ pc = "transfer"
  /\ status = 0
  /\ \/ op # Direction
     \/ device.state \in {"open", "setup"}
     \/ op = "write" /\ device.state = "prepared" /\ device.queued = Buffer
  /\ Finish(op, "error")
  /\ UNCHANGED <<given, handleVars, device, counters, mTimer, reportVars>>

\* Or the device is gone, whatever its state was.
DeviceError ==
  /\ pc = "transfer"
  /\ status = 0
  /\ Finish(op, "error")
  /\ UNCHANGED <<given, handleVars, device, counters, mTimer, reportVars>>

\* -EPIPE: snd_pcm_recover prepares the device again, or fails.
Recover ==
  /\ pc = "transfer" /\ op = "write"
  /\ status = 0
  /\ device.state = "xrun"
  /\ \/ /\ device' = Prepared
        /\ Crossed
        /\ GoOn("write", "underrun")
        /\ UNCHANGED transferVars
     \/ /\ Finish("write", "error")
        /\ UNCHANGED <<device, tick>>
  /\ UNCHANGED <<given, handleVars, counters, mTimer, position, rewound>>

\* Mutants of Underrun: the offset added up instead of set; the restart not
\* asked for.
UnderrunAdds ==
  /\ pc = "underrun"
  /\ mFrameUnderrun' = mFrameUnderrun + mFrameWritten
  /\ restartAfterError' = TRUE
  /\ recovered' = TRUE
  /\ GoOn("write", "transfer")
  /\ UNCHANGED <<given, handleVars, device, mFrameWritten, moved, numFrames,
                 status, mTimer, reportVars>>
UnderrunWithoutRestart ==
  /\ pc = "underrun"
  /\ mFrameUnderrun' = mFrameWritten
  /\ recovered' = TRUE
  /\ GoOn("write", "transfer")
  /\ UNCHANGED <<given, handleVars, device, mFrameWritten, moved, numFrames,
                 restartAfterError, status, mTimer, reportVars>>

Underrun ==
  /\ pc = "underrun"
  /\ mFrameUnderrun' = mFrameWritten
  /\ restartAfterError' = TRUE
  /\ recovered' = TRUE
  /\ GoOn("write", "transfer")
  /\ UNCHANGED <<given, handleVars, device, mFrameWritten, moved, numFrames,
                 status, mTimer, reportVars>>

\* Mutant of Overrun: the error logged, and on with the loop.
OverrunIgnored ==
  /\ pc = "transfer" /\ op = "read"
  /\ status = 0
  /\ device.state = "xrun"
  /\ UNCHANGED vars

\* -EPIPE in read(): snd_pcm_prepare, and on with the loop.  Nothing starts the
\* device again: readi on a prepared device moves nothing and returns zero.
Overrun ==
  /\ pc = "transfer" /\ op = "read"
  /\ status = 0
  /\ device.state = "xrun"
  /\ device' = Prepared
  /\ Crossed
  /\ UNCHANGED <<given, handleVars, counters, transferVars, mTimer, callVars,
                 position, rewound>>

\* Mutant of Count: the frames of the last turn counted again in the next.
CountAgain ==
  /\ pc = "count"
  /\ numFrames' = numFrames - status
  /\ UNCHANGED status
  /\ mFrameWritten' = IF op = "write" THEN mFrameWritten + status ELSE mFrameWritten
  /\ GoOn(op, "restart")
  /\ UNCHANGED <<given, handleVars, device, mFrameUnderrun, moved,
                 restartAfterError, recovered, mTimer, reportVars>>

\* numFrames -= status; only write() keeps mFrameWritten.
Count ==
  /\ pc = "count"
  /\ numFrames' = numFrames - status
  /\ status' = 0
  /\ mFrameWritten' = IF op = "write" THEN mFrameWritten + status ELSE mFrameWritten
  /\ GoOn(op, "restart")
  /\ UNCHANGED <<given, handleVars, device, mFrameUnderrun, moved,
                 restartAfterError, recovered, mTimer, reportVars>>

\* The end of a turn of the loop: nothing to restart.
NextTurn ==
  /\ pc = "restart"
  /\ ~restartAfterError \/ device.state = "running"
  /\ IF numFrames > 0 THEN GoOn(op, "transfer") /\ UNCHANGED transferVars
                      ELSE Finish(op, "ok")
  /\ UNCHANGED <<given, handleVars, device, counters, mTimer, reportVars>>

\* The device does not run after an underrun: snd_pcm_start, which may fail.
Restart ==
  /\ pc = "restart"
  /\ restartAfterError /\ device.state # "running"
  /\ \/ /\ device.state = "prepared"
        /\ device' = [device EXCEPT !.state = "running"]
        /\ IF numFrames > 0
             THEN /\ GoOn("write", "transfer")
                  /\ restartAfterError' = FALSE
                  /\ UNCHANGED <<numFrames, status, recovered>>
             ELSE Finish("write", "ok")
     \/ /\ Finish("write", "error")
        /\ UNCHANGED device
  /\ UNCHANGED <<given, handleVars, counters, mTimer, reportVars>>

-----------------------------------------------------------------------------
(* The hardware. *)

\* One frame is played.  The last one leaves a running device in underrun, and
\* a draining one stopped.
Play ==
  /\ mType = "playback"
  /\ device.state \in {"running", "draining"}
  /\ device' = [state  |-> IF device.queued > 1 THEN device.state
                           ELSE IF device.state = "running" THEN "xrun" ELSE "setup",
                queued |-> device.queued - 1,
                played |-> device.played + 1]
  /\ UNCHANGED <<given, handleVars, counters, transferVars, mTimer, callVars, reportVars>>

\* One frame is captured.  The one that fills the buffer is an overrun.
Record ==
  /\ mType = "capture"
  /\ device.state = "running"
  /\ device' = [state  |-> IF device.queued + 1 < Buffer THEN "running" ELSE "xrun",
                queued |-> device.queued + 1,
                played |-> device.played + 1]
  /\ UNCHANGED <<given, handleVars, counters, transferVars, mTimer, callVars, reportVars>>

-----------------------------------------------------------------------------
(* The timer thread: getTimeStamp. *)

\* snd_pcm_status.  Where it fails the callback goes on with a status of zeros:
\* no underrun, nothing played.
TickSnapshot ==
  /\ mTimer /\ ~tick.on
  /\ \E failed \in BOOLEAN :
       tick' = [on |-> TRUE, failed |-> failed,
                xrun |-> ~failed /\ device.state = "xrun",
                played |-> IF failed THEN 0 ELSE device.played, crossed |-> FALSE]
  /\ UNCHANGED <<given, handleVars, device, counters, transferVars, mTimer,
                 callVars, position, rewound>>

\* Mutant of Reading: the frames played before the last underrun forgotten.
ReadingSinceUnderrun == IF tick.xrun THEN mFrameWritten ELSE tick.played

Reading == IF tick.xrun THEN mFrameWritten ELSE tick.played + mFrameUnderrun

\* The fields are read, and the progress callback is called with Reading.
TickReport ==
  /\ tick.on
  /\ IF tick.failed THEN UNCHANGED <<position, rewound>>
                    ELSE position' = Reading /\ rewound' = tick.crossed
  /\ tick' = NoTick
  /\ UNCHANGED <<given, handleVars, device, counters, transferVars, mTimer, callVars>>

-----------------------------------------------------------------------------
Command ==
  \/ \E o \in Triggers \cup {"read", "write"} : NotOpened(o)
  \/ Close \/ OpenFails \/ OpenDevice
  \/ Query \/ QueryFails
  \/ \E o \in Triggers : TriggerFails(o)
  \/ Start \/ Resume \/ Pause \/ Stop
  \/ \E o \in {"read", "write"}, n \in 0 .. MaxRequest : Transfer(o, n)

\* The request thread goes on with the command it is in.
Step ==
  \/ StopTimer \/ CloseHandle \/ Configured \/ NotConfigured
  \/ ArmTimer \/ TimerStopped
  \/ MoveFrame \/ Moved \/ TransferRefused \/ Recover \/ Underrun
  \/ Overrun \/ Count \/ NextTurn \/ Restart

Hardware == Play \/ Record

Tick == TickSnapshot \/ TickReport

Next == Command \/ Step \/ DeviceError \/ Hardware \/ Tick

Spec == Init /\ [][Next]_vars

\* The request thread runs, the hardware moves, and a callback ends.
Fairness == WF_vars(Step) /\ WF_vars(Hardware) /\ WF_vars(TickReport)

FairSpec == Spec /\ Fairness

-----------------------------------------------------------------------------
(* Properties. *)

\* The timer thread asks snd_pcm_status of a handle that is open: close() stops
\* the timer, and waits for a callback that runs, before snd_pcm_close, on every
\* path that ends there (CLOSE, a failed OPEN, a failed query).
TickOnOpenHandle == tick.on => mHandle

\* Between two commands a running device has its timer armed, so its position
\* is reported, and a paused one has not, nor a callback left over; also after
\* triggers that failed half-way, and underruns write() recovered from.
TimerFollowsDevice ==
  pc = "idle" =>
    /\ device.state = "running" => mTimer
    /\ device.state = "paused" => ~mTimer /\ ~tick.on

\* A WRITE that recovered from an underrun and is answered with success has
\* started the device again: it is not left prepared, holding audio that no
\* later command would start.
Restarted ==
  [][(recovered /\ pc # "idle" /\ pc' = "idle" /\ answer' = "ok")
       => device'.state # "prepared"]_vars

Reports == tick.on /\ ~tick'.on

\* No report is ahead of the frames the device has taken, across underruns and
\* stops and where snd_pcm_status failed, unless the clock was reset between
\* snd_pcm_status and the read of mFrameUnderrun, which no lock keeps together.
NeverAhead ==
  [][(Reports /\ mType = "playback" /\ ~tick.crossed) => Reading <= moved]_vars

\* The device's clock and mFrameUnderrun account for every frame moved.  They
\* do not after a STOP, which resets neither mFrameUnderrun nor mFrameWritten,
\* nor after snd_pcm_recover until mFrameUnderrun is set.
Accounted == mFrameUnderrun + device.played + device.queued = moved

\* A report does not lie below any earlier one, in particular not across an
\* underrun, while the fields account for every frame.  Not so: the first report
\* after OPEN or after one that was ahead, an underrun reported before write()
\* has counted what writei returned, and the report of a status that could not
\* be read, which falls back to mFrameUnderrun.  That one is left out of the
\* comparison on both sides, so the reports around it are still compared.
NeverBack ==
  [][(/\ Reports /\ mType = "playback"
      /\ ~tick.failed /\ ~rewound
      /\ Accounted
      /\ tick.xrun => mFrameWritten = moved) => Reading >= position]_vars

\* The call of the interface a command makes.
CallOf(o) ==
  CASE o \in Triggers           -> "trigger"
    [] o \in {"read", "write"} -> "transfer"
    [] OTHER                   -> o

\* AlsaPcm as a device of the interface: it has a stream while mHandle is set,
\* but not yet in the OPEN that brings it, and reports while the timer is armed
\* or its thread is inside the callback.
Device == INSTANCE PcmDevice WITH
  open      <- mHandle /\ op # "open",
  call      <- CallOf(op),
  answer    <- IF pc = "idle" THEN answer ELSE "none",
  reporting <- mTimer \/ tick.on

\* AlsaPcm keeps the promises of the interface, whatever order the commands
\* come in and whatever fails: only a successful OPEN brings a stream, CLOSE and
\* every path that shares its code leave none and no report, and no read, write
\* or trigger goes to work without one.
Implements == Device!DeviceSpec

\* When OPEN of an orderly frontend asks ALSA for the device, this object holds
\* no other handle of it, whatever failed before: a device that can be opened
\* once is not refused because of a handle of our own.
ExclusiveDevice ==
  [][(orderly /\ pc = "idle" /\ pc' = "configure") => handles' = 1]_vars

\* The request waits for a device that will not move: a paused one, or for a
\* READ one that is prepared (not started, or not started again after an
\* overrun).  No command that would help can be received meanwhile.
Starved ==
  \/ op \in {"read", "write"} /\ device.state = "paused"
  \/ op = "read" /\ device.state = "prepared"

\* Every other command is answered, however many underruns a WRITE meets and
\* whatever state CLOSE finds the device in.
Answered == pc # "idle" ~> pc = "idle" \/ Starved

\* What the interface says of queryHwRanges ("Queries the device for HW
\* intervals and masks"): it takes no stream away from the frontend.
QueryKeepsStream == [][op = "query" => mHandle' = mHandle]_vars

=============================================================================
