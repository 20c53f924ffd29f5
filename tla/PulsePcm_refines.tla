-------------------------- MODULE PulsePcm_refines --------------------------
(* Every stream of PulsePcm implements the device interface.                *)
EXTENDS PulsePcm_proofs

\* A stream whose reports count will report only while it is ready.
ReportsWhenReady == \A s \in Streams : Reports(s) => mStream[s] = "ready"

LEMMA ReportsReady == IInv => ReportsWhenReady
<1> SUFFICES ASSUME IInv, NEW s \in Streams, Reports(s)
             PROVE  mStream[s] = "ready"
  BY DEF ReportsWhenReady
<1>1. s \in Streams /\ PulseOK /\ StreamInv /\ "timing" \in Requests
  BY DEF IInv, TypeOK, Streams, Requests
<1>2. Outstanding(s, "timing")
  BY DEF IInv, PlaybackCloseQuiet, Reports, WillReport
<1>3. inflight[s] # <<>>
  BY <1>1, <1>2, EmptyFacts
<1>4. mStream[s] # "creating"
  <2>1. SUFFICES ASSUME inflight[s] = <<"create">> PROVE FALSE
    BY <1>1 DEF StreamInv
  <2>2. Len(inflight[s]) = 1 /\ inflight[s][1] = "create"
    BY <2>1
  <2>. QED
    BY <1>2, <2>2 DEF Outstanding
<1>. QED
  BY <1>1, <1>3, <1>4 DEF StreamInv

\* What each command is for the interface.
LEMMA CallFacts ==
  /\ CallOf("none") = "none"
  /\ CallOf("open") = "open" /\ CallOf("close") = "close"
  /\ \A o \in Triggers : CallOf(o) = "trigger"
  /\ \A o \in {"read", "write"} : CallOf(o) = "transfer"
  BY DEF CallOf, Triggers

\* The call of s goes on, or s stays idle.
SameCall(s) ==
  /\ op'[s] = op[s]
  /\ pc'[s] = "idle" <=> pc[s] = "idle"
  /\ pc[s] = "idle" => answer'[s] = answer[s]

\* A step that leaves the call and the state of a stream alone is at most a
\* change of what it will report.
LEMMA ReportOrStutter ==
  ASSUME ReportsWhenReady, ReportsWhenReady', NEW s \in Streams,
         SameCall(s), mStream'[s] = mStream[s] \/ op[s] = "open"
  PROVE  Device(s)!Report \/ UNCHANGED Device(s)!deviceVars
<1> USE DEF SameCall
<1>1. Reports(s) \in BOOLEAN /\ Reports(s)' \in BOOLEAN
  BY DEF Reports
<1>2. CASE Reports(s)' = Reports(s)
  BY <1>2 DEF Device!deviceVars
<1>3. CASE Reports(s)' # Reports(s)
  <2>1. mStream[s] = "ready" \/ op[s] = "open"
    BY <1>1, <1>3 DEF ReportsWhenReady
  <2>. QED
    BY <1>1, <2>1, CallFacts DEF Device!Report
<1>. QED
  BY <1>2, <1>3

\* A stream that is no longer ready is lost, with what it would report.
LEMMA NotReadyLoses ==
  ASSUME ReportsWhenReady', NEW s \in Streams,
         SameCall(s), mStream'[s] # "ready"
  PROVE  Device(s)!Lose
<1>1. Reports(s)' = FALSE
  BY DEF ReportsWhenReady, Reports
<1>. QED
  BY <1>1 DEF Device!Lose, SameCall

\* A command that is answered returns from the call.
LEMMA AnswerIsOutcome ==
  ASSUME TypeOK, ReportsWhenReady', NEW s \in Streams,
         NEW o \in Ops, NEW r \in {"ok", "error"}, Answer(s, o, r),
         op[s] \in {"none", o},
         o = "close" => r = "ok" /\ mStream'[s] # "ready",
         o = "open" =>
           IF r = "ok" THEN mStream'[s] = "ready"
           ELSE mStream'[s] # "ready" \/ (op[s] = "none" /\ mStream'[s] = mStream[s]),
         o \notin {"open", "close"} => mStream'[s] = mStream[s]
  PROVE  Device(s)!Outcome(CallOf(o), r)
<1>1. op'[s] = "none" /\ pc'[s] = "idle" /\ answer'[s] = r
  BY DEF TypeOK, ThreadOK, Answer, Streams
<1>2. Reports(s)' \in {FALSE, mStream'[s] = "ready"}
  BY DEF ReportsWhenReady, Reports
<1>3. CASE o = "open"
  BY <1>1, <1>2, <1>3, CallFacts DEF Device!Outcome
<1>4. CASE o = "close"
  BY <1>1, <1>2, <1>4, CallFacts DEF Device!Outcome
<1>5. CASE o \in Triggers
  BY <1>1, <1>2, <1>5, CallFacts DEF Device!Outcome, Triggers
<1>6. CASE o \in {"read", "write"}
  BY <1>1, <1>2, <1>6, CallFacts DEF Device!Outcome
<1>. QED
  BY <1>3, <1>4, <1>5, <1>6 DEF Ops

\* One that is answered at once was a call of its own.
LEMMA AnswersAtOnce ==
  ASSUME IInv, ReportsWhenReady', NEW s \in Streams,
         NEW o \in Ops, NEW r \in {"ok", "error"}, Begin(s, o), Answer(s, o, r),
         o = "close" => r = "ok" /\ mStream'[s] # "ready",
         o = "open" => r = "error" /\ (mStream'[s] # "ready" \/ mStream'[s] = mStream[s]),
         o \notin {"open", "close"} =>
           mStream'[s] = mStream[s] /\ (r = "ok" => mStream[s] = "ready")
  PROVE  \E c \in Device(s)!Calls : Device(s)!CallAndReturn(c)
<1>1. op[s] = "none"
  BY DEF Begin, IInv, CallInv, Streams
<1>2. Device(s)!Outcome(CallOf(o), r)
  BY <1>1, AnswerIsOutcome DEF IInv
<1>3. CallOf(o) \in Device(s)!Calls
  BY CallFacts DEF Device!Calls, Ops, Triggers
<1>4. CallOf(o) \in {"transfer", "trigger"} => o \notin {"open", "close"}
  BY CallFacts
<1>. QED
  BY <1>1, <1>2, <1>3, <1>4, CallFacts DEF Device!CallAndReturn

\* One that has to wait is a call that goes on.
LEMMA WaitIsCall ==
  ASSUME IInv, NEW s \in Streams,
         NEW o \in Ops, NEW n, NEW at \in {"open", "cork", "flush", "disconnect", "transfer"},
         Begin(s, o), WaitAt(s, o, n, at),
         Reports(s)' = Reports(s),
         o # "open" => mStream'[s] = mStream[s],
         o \notin {"open", "close"} => mStream[s] = "ready"
  PROVE  \E c \in Device(s)!Calls : Device(s)!Call(c)
<1>1. op[s] = "none"
  BY DEF Begin, IInv, CallInv, Streams
<1>2. op'[s] = o /\ pc'[s] # "idle"
  BY DEF IInv, TypeOK, ThreadOK, WaitAt, Streams
<1>3. CallOf(o) \in Device(s)!Calls
  BY CallFacts DEF Device!Calls, Ops, Triggers
<1>4. CallOf(o) \in {"transfer", "trigger"} => o \notin {"open", "close"}
  BY CallFacts
<1>5. CallOf(o) = "open" <=> o = "open"
  BY CallFacts DEF Ops
<1>. QED
  BY <1>1, <1>2, <1>3, <1>4, <1>5, CallFacts DEF Device!Call

\* One that was waiting and is answered returns.
LEMMA WakeReturns ==
  ASSUME IInv, ReportsWhenReady', NEW s \in Streams,
         NEW o \in Ops, NEW r \in {"ok", "error"}, Answer(s, o, r),
         op[s] = o,
         o = "close" => r = "ok" /\ mStream'[s] # "ready",
         o = "open" => IF r = "ok" THEN mStream'[s] = "ready" ELSE mStream'[s] # "ready",
         o \notin {"open", "close"} => mStream'[s] = mStream[s]
  PROVE  Device(s)!Return
<1>1. Device(s)!Outcome(CallOf(o), r)
  BY AnswerIsOutcome DEF IInv
<1>2. CallOf(o) # "none"
  BY CallFacts DEF Ops, Triggers
<1>. QED
  BY <1>1, <1>2 DEF Device!Return

-----------------------------------------------------------------------------
(* The steps. *)

\* A step on another stream does not touch this one.
LEMMA OtherStream ==
  ASSUME TypeOK, NEW s \in Streams, NEW t \in Streams \ {s},
         \/ Command(t) \/ Resume(t) \/ Reply(t)
         \/ StreamRequest(t) \/ StreamFailed(t) \/ TimeEvent(t) \/ LatencyUpdate(t)
  PROVE  SameCall(s) /\ mStream'[s] = mStream[s]
<1> USE DEF TypeOK, PulseOK, ThreadOK, pulse, thread, Answer, WaitAt, SameCall
<1>1. CASE Command(t)
  BY <1>1
  DEF Command, OpenRefused, OpenNotConnected, OpenConnect, Trigger, TriggerNull,
      TriggerRefused, TriggerSend, CloseNull, Close, Disconnect, ReadOrWrite, Transfer
<1>2. CASE Resume(t)
  BY <1>2
  DEF Resume, OpenWake, TriggerWake, CorkWaitsOn, CorkFailed, Started, PausedOrResumed,
      StopFlushes, FlushWake, FlushWaitsOn, StopFlushed, CloseFlushed, Disconnect,
      DisconnectWake, TransferWake, Transfer
<1>3. CASE Reply(t) \/ StreamRequest(t) \/ StreamFailed(t) \/ TimeEvent(t) \/ LatencyUpdate(t)
  BY <1>3
  DEF Reply, ReplyCreate, ReplyCork, ReplyFlush, ReplyDelete, ReplyTiming, ReplyDetached,
      StreamRequest, StreamFailed, TimeEvent, LatencyUpdate
<1>. QED
  BY <1>1, <1>2, <1>3

\* Any request but one for the timing leaves what will be reported as it is.
LEMMA ReportKept ==
  ASSUME PulseOK, NEW s \in Streams, detached' = detached,
         inflight' = inflight \/ \E r \in Requests \ {"timing"} : Send(s, r)
  PROVE  Reports(s)' = Reports(s)
<1>1. Outstanding(s, "timing")' <=> Outstanding(s, "timing")
  <2>1. "timing" \in Requests
    BY DEF Requests
  <2>2. CASE inflight' = inflight
    BY <2>2 DEF Outstanding
  <2>3. ASSUME NEW r \in Requests \ {"timing"}, Send(s, r)
        PROVE  Outstanding(s, "timing")' <=> Outstanding(s, "timing")
    BY <2>1, <2>3, SendFacts
  <2>. QED
    BY <2>2, <2>3
<1>. QED
  BY <1>1 DEF Reports, WillReport

\* A new command is a call, or one answered at once.
LEMMA CommandSteps ==
  ASSUME IInv, ReportsWhenReady, ReportsWhenReady', NEW s \in Streams, Command(s)
  PROVE  Device(s)!DeviceNext \/ UNCHANGED Device(s)!deviceVars
<1>0. s \in Streams /\ PulseOK /\ ThreadOK /\ StreamInv
  BY DEF Streams, IInv, TypeOK
<1> USE DEF pulse, thread
<1>1. CASE OpenRefused(s) \/ OpenNotConnected(s)
  <2>1. Begin(s, "open") /\ Answer(s, "open", "error") /\ "open" \in Ops
    BY <1>1 DEF OpenRefused, OpenNotConnected, Ops
  <2>2. mStream'[s] # "ready" \/ mStream'[s] = mStream[s]
    BY <1>0, <1>1 DEF OpenRefused, OpenNotConnected, PulseOK
  <2>3. \E c \in Device(s)!Calls : Device(s)!CallAndReturn(c)
    BY <2>1, <2>2, AnswersAtOnce
  <2>. QED
    BY <2>3 DEF Device!DeviceNext
<1>2. CASE OpenConnect(s)
  <2>1. Begin(s, "open") /\ WaitAt(s, "open", 0, "open") /\ "open" \in Ops
    BY <1>2 DEF OpenConnect, Ops
  <2>2. Reports(s)' = Reports(s)
    BY <1>0, <1>2, ReportKept DEF OpenConnect, Requests
  <2>3. \E c \in Device(s)!Calls : Device(s)!Call(c)
    BY <2>1, <2>2, WaitIsCall
  <2>. QED
    BY <2>3 DEF Device!DeviceNext
<1>3. ASSUME NEW o \in Triggers, Trigger(s, o)
      PROVE  Device(s)!DeviceNext \/ UNCHANGED Device(s)!deviceVars
  <2>0. o \in Ops /\ o \notin {"open", "close"}
    BY DEF Ops, Triggers
  <2>1. CASE TriggerNull(s, o)
    <3>1. SameCall(s) /\ mStream'[s] = mStream[s]
      BY <2>1 DEF TriggerNull, SameCall
    <3>. QED
      BY <3>1, ReportOrStutter DEF Device!DeviceNext
  <2>2. CASE TriggerRefused(s, o)
    <3>1. \E c \in Device(s)!Calls : Device(s)!CallAndReturn(c)
      BY <2>0, <2>2, AnswersAtOnce DEF TriggerRefused
    <3>. QED
      BY <3>1 DEF Device!DeviceNext
  <2>3. CASE TriggerSend(s, o)
    <3>1. Reports(s)' = Reports(s)
      BY <1>0, <2>3, ReportKept DEF TriggerSend, Requests
    <3>2. \E c \in Device(s)!Calls : Device(s)!Call(c)
      BY <2>0, <2>3, <3>1, WaitIsCall DEF TriggerSend
    <3>. QED
      BY <3>2 DEF Device!DeviceNext
  <2>. QED
    BY <1>3, <2>1, <2>2, <2>3 DEF Trigger
<1>4. CASE CloseNull(s)
  <2>1. \E c \in Device(s)!Calls : Device(s)!CallAndReturn(c)
    BY <1>4, AnswersAtOnce DEF CloseNull, Ops
  <2>. QED
    BY <2>1 DEF Device!DeviceNext
<1>5. CASE Close(s)
  <2>1. PICK at \in {"flush", "disconnect"} : WaitAt(s, "close", 0, at)
    BY <1>5 DEF Close, Disconnect
  <2>2. inflight' = inflight \/ \E r \in Requests \ {"timing"} : Send(s, r)
    BY <1>5 DEF Close, Disconnect, Requests
  <2>3. Reports(s)' = Reports(s)
    BY <1>0, <1>5, <2>2, ReportKept DEF Close
  <2>4. \E c \in Device(s)!Calls : Device(s)!Call(c)
    BY <1>5, <2>1, <2>3, WaitIsCall DEF Close, Ops
  <2>. QED
    BY <2>4 DEF Device!DeviceNext
<1>6. ASSUME NEW o \in {"read", "write"}, NEW n \in 0 .. Capacity + 1, ReadOrWrite(s, o, n)
      PROVE  Device(s)!DeviceNext
  <2>0. /\ o \in Ops /\ o \notin {"open", "close"} /\ Begin(s, o)
        /\ mStream' = mStream /\ inflight' = inflight /\ detached' = detached
    BY <1>6 DEF ReadOrWrite, Ops
  <2>1. StatusOk(s) => mStream[s] = "ready"
    BY <1>0, <2>0 DEF StatusOk, StreamInv, Begin
  <2>2. \/ \E r \in {"ok", "error"} : Answer(s, o, r) /\ (r = "ok" => mStream[s] = "ready")
        \/ mStream[s] = "ready" /\ WaitAt(s, o, n - Room(s), "transfer")
    BY <1>6, <2>1 DEF ReadOrWrite, Transfer
  <2>3. ASSUME NEW r \in {"ok", "error"}, Answer(s, o, r), r = "ok" => mStream[s] = "ready"
        PROVE  \E c \in Device(s)!Calls : Device(s)!CallAndReturn(c)
    BY <2>0, <2>3, AnswersAtOnce
  <2>4. ASSUME mStream[s] = "ready", WaitAt(s, o, n - Room(s), "transfer")
        PROVE  \E c \in Device(s)!Calls : Device(s)!Call(c)
    <3>1. Reports(s)' = Reports(s)
      BY <1>0, <2>0, ReportKept
    <3>. QED
      BY <2>0, <2>4, <3>1, WaitIsCall
  <2>. QED
    BY <2>2, <2>3, <2>4 DEF Device!DeviceNext
<1>. QED
  BY <1>1, <1>2, <1>3, <1>4, <1>5, <1>6 DEF Command

\* A thread that wakes up goes on with its call, or returns from it.
LEMMA ResumeSteps ==
  ASSUME IInv, ReportsWhenReady, ReportsWhenReady', NEW s \in Streams, Resume(s)
  PROVE  Device(s)!DeviceNext \/ UNCHANGED Device(s)!deviceVars
<1>0. s \in Streams /\ PulseOK /\ ThreadOK /\ CallInv
  BY DEF Streams, IInv, TypeOK
<1> USE DEF pulse, thread
<1>1. ASSUME SameCall(s), mStream' = mStream
      PROVE  Device(s)!DeviceNext \/ UNCHANGED Device(s)!deviceVars
  BY <1>1, ReportOrStutter DEF Device!DeviceNext
<1>2. ASSUME Device(s)!Return PROVE Device(s)!DeviceNext
  BY <1>2 DEF Device!DeviceNext
<1>3. CASE OpenWake(s)
  <2>0. op[s] = "open" /\ pc[s] = "open" /\ "open" \in Ops /\ mStream' = mStream
    BY <1>0, <1>3 DEF OpenWake, Wake, CallInv, Ops
  <2>1. ASSUME WaitAt(s, "open", 0, "open") PROVE SameCall(s)
    BY <1>0, <2>0, <2>1 DEF WaitAt, SameCall, ThreadOK
  <2>2. ASSUME NEW r \in {"ok", "error"}, Answer(s, "open", r), (r = "ok") <=> (mStream[s] = "ready")
        PROVE  Device(s)!Return
    BY <2>0, <2>2, WakeReturns
  <2>. QED
    BY <1>1, <1>2, <1>3, <2>0, <2>1, <2>2 DEF OpenWake
<1>4. CASE TriggerWake(s)
  <2>0. /\ op[s] \in Triggers /\ op[s] \in Ops /\ op[s] \notin {"open", "close"}
        /\ pc[s] = "cork" /\ mStream' = mStream
    BY <1>0, <1>4
    DEF TriggerWake, CorkWaitsOn, CorkFailed, Started, PausedOrResumed, StopFlushes,
        Wake, CallInv, Triggers, Ops
  <2>1. \/ WaitAt(s, op[s], 0, "cork") \/ WaitAt(s, op[s], 0, "flush")
        \/ \E r \in {"ok", "error"} : Answer(s, op[s], r)
    BY <1>4 DEF TriggerWake, CorkWaitsOn, CorkFailed, Started, PausedOrResumed, StopFlushes
  <2>2. ASSUME NEW at \in {"cork", "flush"}, WaitAt(s, op[s], 0, at) PROVE SameCall(s)
    BY <1>0, <2>0, <2>2 DEF WaitAt, SameCall, ThreadOK
  <2>3. ASSUME NEW r \in {"ok", "error"}, Answer(s, op[s], r) PROVE Device(s)!Return
    BY <2>0, <2>3, WakeReturns
  <2>. QED
    BY <1>1, <1>2, <2>0, <2>1, <2>2, <2>3
<1>5. CASE FlushWake(s)
  <2>0. op[s] \in {"stop", "close"} /\ op[s] \in Ops /\ pc[s] = "flush" /\ mStream' = mStream
    BY <1>0, <1>5 DEF FlushWake, FlushWaitsOn, StopFlushed, CloseFlushed, Wake, CallInv, Ops, Triggers
  <2>1. \/ WaitAt(s, op[s], 0, "flush") \/ WaitAt(s, op[s], 0, "disconnect")
        \/ op[s] = "stop" /\ Answer(s, op[s], "ok")
    BY <1>5 DEF FlushWake, FlushWaitsOn, StopFlushed, CloseFlushed, Disconnect
  <2>2. ASSUME NEW at \in {"flush", "disconnect"}, WaitAt(s, op[s], 0, at) PROVE SameCall(s)
    BY <1>0, <2>0, <2>2 DEF WaitAt, SameCall, ThreadOK
  <2>3. ASSUME op[s] = "stop", Answer(s, op[s], "ok") PROVE Device(s)!Return
    BY <2>0, <2>3, WakeReturns
  <2>. QED
    BY <1>1, <1>2, <2>0, <2>1, <2>2, <2>3
<1>6. CASE DisconnectWake(s)
  <2>1. op[s] = "close" /\ Answer(s, "close", "ok") /\ mStream'[s] # "ready" /\ "close" \in Ops
    BY <1>0, <1>6 DEF DisconnectWake, Wake, CallInv, PulseOK, Ops
  <2>. QED
    BY <1>2, <2>1, WakeReturns
<1>7. CASE TransferWake(s)
  <2>0. op[s] \in {"read", "write"} /\ op[s] \in Ops /\ pc[s] = "transfer" /\ mStream' = mStream
    BY <1>0, <1>7 DEF TransferWake, Wake, CallInv, Ops
  <2>1. \/ WaitAt(s, op[s], size[s] - Room(s), "transfer")
        \/ \E r \in {"ok", "error"} : Answer(s, op[s], r)
    BY <1>7 DEF TransferWake, Transfer
  <2>2. ASSUME WaitAt(s, op[s], size[s] - Room(s), "transfer") PROVE SameCall(s)
    BY <1>0, <2>0, <2>2 DEF WaitAt, SameCall, ThreadOK
  <2>3. ASSUME NEW r \in {"ok", "error"}, Answer(s, op[s], r) PROVE Device(s)!Return
    BY <2>0, <2>3, WakeReturns
  <2>. QED
    BY <1>1, <1>2, <2>0, <2>1, <2>2, <2>3
<1>. QED
  BY <1>3, <1>4, <1>5, <1>6, <1>7 DEF Resume

\* A callback changes what will be reported, or takes the stream.
LEMMA CallbackSteps ==
  ASSUME IInv, ReportsWhenReady, ReportsWhenReady', NEW s \in Streams,
         \/ Reply(s) \/ StreamRequest(s) \/ StreamFailed(s) \/ TimeEvent(s) \/ LatencyUpdate(s)
         \/ ContextFailed
  PROVE  Device(s)!DeviceNext \/ UNCHANGED Device(s)!deviceVars
<1>0. s \in Streams /\ PulseOK /\ ThreadOK /\ CallInv /\ StreamInv
  BY DEF Streams, IInv, TypeOK
<1> USE DEF pulse, thread
<1>1. ASSUME SameCall(s), mStream'[s] = mStream[s] \/ op[s] = "open"
      PROVE  Device(s)!DeviceNext \/ UNCHANGED Device(s)!deviceVars
  BY <1>1, ReportOrStutter DEF Device!DeviceNext
<1>2. ASSUME SameCall(s), mStream'[s] # "ready" PROVE Device(s)!DeviceNext
  BY <1>2, NotReadyLoses DEF Device!DeviceNext
<1>3. SameCall(s)
  BY DEF Reply, ReplyCreate, ReplyCork, ReplyFlush, ReplyDelete, ReplyTiming,
     ReplyDetached, StreamRequest, StreamFailed, TimeEvent, LatencyUpdate, ContextFailed,
     SameCall
<1>4. ASSUME NEW ok \in BOOLEAN, ReplyCreate(s, ok) PROVE op[s] = "open"
  <2>1. Outstanding(s, "create")
    BY <1>0, <1>4, AnsweredFacts DEF ReplyCreate, Requests
  <2>. QED
    BY <1>0, <2>1 DEF StreamInv, CallInv
<1>5. ASSUME ReplyDelete(s) \/ StreamFailed(s) \/ ContextFailed PROVE mStream'[s] # "ready"
  BY <1>0, <1>5 DEF ReplyDelete, StreamFailed, ContextFailed, PulseOK
<1>6. ASSUME \/ \E ok \in BOOLEAN : ReplyCork(s, ok) \/ ReplyFlush(s, ok)
             \/ ReplyTiming(s) \/ ReplyDetached(s) \/ StreamRequest(s) \/ TimeEvent(s)
             \/ LatencyUpdate(s)
      PROVE  mStream' = mStream
  BY <1>6 DEF ReplyCork, ReplyFlush, ReplyTiming, ReplyDetached, StreamRequest, TimeEvent,
              LatencyUpdate
<1>. QED
  BY <1>1, <1>2, <1>3, <1>4, <1>5, <1>6 DEF Reply

-----------------------------------------------------------------------------
\* Every stream implements the device interface, for any number of streams on
\* the context and any order of commands: OPEN succeeds only when the server has
\* the stream, no data or trigger goes to one that is gone, CLOSE leaves none;
\* and once CLOSE is answered a playback stream of an orderly frontend reports
\* nothing.
THEOREM StreamsImplementDevice == Spec => Implements
<1>1. Init => \A s \in Streams : Device(s)!DeviceInit
  <2> SUFFICES ASSUME Init, NEW s \in Streams PROVE Device(s)!DeviceInit
    OBVIOUS
  <2>1. ~Reports(s)
    BY DEF Init, Reports, WillReport, Outstanding
  <2>. QED
    BY <2>1, CallFacts DEF Init, Device!DeviceInit
<1>2. ASSUME IInv, ReportsWhenReady, ReportsWhenReady', [Next]_vars,
             NEW s \in Streams
      PROVE  Device(s)!DeviceNext \/ UNCHANGED Device(s)!deviceVars
  <2>0. s \in Streams /\ TypeOK
    BY <1>2 DEF Streams, IInv
  <2>1. ASSUME NEW t \in Streams \ {s},
               \/ Command(t) \/ Resume(t) \/ Reply(t)
               \/ StreamRequest(t) \/ StreamFailed(t) \/ TimeEvent(t) \/ LatencyUpdate(t)
        PROVE  Device(s)!DeviceNext \/ UNCHANGED Device(s)!deviceVars
    <3>1. SameCall(s) /\ mStream'[s] = mStream[s]
      BY <2>0, <2>1, OtherStream
    <3>. QED
      BY <1>2, <3>1, ReportOrStutter DEF Device!DeviceNext
  <2>2. CASE UNCHANGED vars
    <3>1. SameCall(s) /\ mStream'[s] = mStream[s]
      BY <2>2 DEF vars, pulse, thread, SameCall
    <3>. QED
      BY <1>2, <3>1, ReportOrStutter DEF Device!DeviceNext
  <2>3. CASE Command(s)
    BY <1>2, <2>3, CommandSteps
  <2>4. CASE Resume(s)
    BY <1>2, <2>4, ResumeSteps
  <2>5. CASE \/ Reply(s) \/ StreamRequest(s) \/ StreamFailed(s) \/ TimeEvent(s) \/ LatencyUpdate(s)
             \/ ContextFailed
    BY <1>2, <2>5, CallbackSteps
  <2>. QED
    BY <1>2, <2>0, <2>1, <2>2, <2>3, <2>4, <2>5 DEF Next
<1>3. ASSUME IInv, ReportsWhenReady, ReportsWhenReady', [Next]_vars
      PROVE  [\A s \in Streams :
                [Device(s)!DeviceNext]_(Device(s)!deviceVars)]_vars
  BY <1>2, <1>3
<1>. QED
  BY Invariance, ReportsReady, <1>1, <1>3, PTL DEF Spec, Implements

=============================================================================
