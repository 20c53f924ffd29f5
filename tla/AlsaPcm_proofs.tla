--------------------------- MODULE AlsaPcm_proofs ---------------------------
(* The inductive invariant of AlsaPcm and the safety theorems it gives.    *)
EXTENDS AlsaPcm, TLAPS

\* Where the request thread is while it moves frames.
Moving == {"transfer", "underrun", "count", "restart"}

\* The handles the stream itself keeps open.
StreamHandles == IF mHandle THEN 1 ELSE 0

\* Whoever may use the handle finds it open, and closing it finds one to close.
HandleInv ==
  /\ (mTimer \/ tick.on \/ pc # "idle") => mHandle
  /\ ~mHandle => device = NoDevice
  /\ handles >= StreamHandles + QueryHandles
  /\ pc = "join" => ~mTimer

\* Where the request thread is, which command it is in, and what the device can
\* be doing meanwhile.
CallInv ==
  /\ pc = "idle" => op = "none"
  /\ pc = "configure" => op = "open"
  /\ pc \in Moving => op \in {"read", "write"}
  /\ pc = "underrun" => op = "write" /\ device = Prepared
  /\ pc = "arm" => op \in {"start", "resume"} /\ device.state \in {"running", "xrun"}
  /\ pc = "disarm" => op \in {"pause", "stop"} /\ device.state \in {"paused", "prepared"}
  /\ pc = "drain" => op \in {"open", "close", "query"}
                       /\ device.state \in {"draining", "setup", "open"}
  /\ pc = "join" => \/ op \in {"pause", "stop"} /\ device.state \in {"paused", "prepared"}
                    \/ op \in {"open", "close", "query"} /\ device.state \in {"setup", "open"}

\* The local variables of a transfer.
TransferInv ==
  /\ pc \notin Moving => numFrames = 0 /\ status = 0 /\ ~restartAfterError /\ ~recovered
  /\ status <= numFrames
  /\ moved + numFrames <= MaxFrames + status
  /\ pc = "count" => status > 0
  /\ pc \in {"underrun", "restart"} => status = 0
  /\ status > 0 => op = Direction
  /\ (restartAfterError \/ recovered) => op = "write"
  /\ (restartAfterError \/ pc = "underrun") => mTimer
  /\ (recovered /\ ~restartAfterError /\ pc # "underrun") => device.state # "prepared"

\* A device that plays has something to play, one that captures has room.
QueueInv ==
  /\ mType = "playback" =>
       /\ device.state \in {"running", "paused", "draining"} => device.queued > 0
       /\ device.state = "prepared" /\ (status > 0 \/ pc = "restart") => device.queued > 0
  /\ mType = "capture" =>
       /\ device.state \in {"running", "paused"} => device.queued < Buffer
       /\ device.state = "prepared" => device.queued = 0
       /\ device.state # "draining"

\* The timer, also in the middle of a command.
TimerInv ==
  /\ device.state \in {"running", "xrun"} => mTimer \/ pc = "arm"
  /\ device.state = "paused" =>
       pc = "disarm" \/ (~mTimer /\ (pc = "join" \/ ~tick.on))

\* The counters claim no frame the device has not taken.
CountInv ==
  /\ mType = "playback" =>
       /\ mFrameUnderrun + device.played + device.queued <= moved
       /\ mFrameWritten + status <= moved
  /\ (tick.on /\ ~tick.crossed) => tick.played <= device.played

\* An orderly frontend that takes the stream for closed is right.
PhaseInv ==
  orderly =>
    /\ handles = StreamHandles + QueryHandles
    /\ phase = "closed" => op \in {"none", "open", "close", "query"}
    /\ (phase = "closed" /\ pc = "idle") => ~mHandle

\* The inductive invariant.
IInv ==
  /\ TypeOK /\ HandleInv /\ CallInv /\ TransferInv /\ QueueInv
  /\ TimerInv /\ CountInv /\ PhaseInv

-----------------------------------------------------------------------------
(* What the operators of the model preserve. *)

\* A command that is answered leaves the call well typed.
LEMMA AnswerType ==
  ASSUME TypeOK, NEW o \in Ops, NEW result, Answer(o, result)
  PROVE  /\ pc' = "idle" /\ op' = "none"
         /\ answer' = result /\ phase' \in Phases
  BY DEF TypeOK, Answer, PhaseAfter, Ops, Triggers, Phases

\* So does a transfer that ends, and its local variables are gone.
LEMMA FinishType ==
  ASSUME TypeOK, NEW o \in Ops, NEW result \in {"ok", "error"}, Finish(o, result)
  PROVE  /\ pc' = "idle" /\ op' = "none"
         /\ answer' = result /\ phase' \in Phases
         /\ numFrames' = 0 /\ status' = 0 /\ restartAfterError' = FALSE /\ recovered' = FALSE
  BY AnswerType DEF Finish

\* What drain makes of a device is a device.
LEMMA DrainedType ==
  ASSUME TypeOK, mHandle
  PROVE  /\ Drained \in [state : States, queued : 0 .. Buffer, played : Nat]
         /\ Drained.state \in {"draining", "setup", "open"}
         /\ Drained.queued = device.queued /\ Drained.played = device.played
         /\ Drained.state = "draining" => mType = "playback" /\ device.queued > 0
  BY DEF TypeOK, Drained, States

\* close() keeps the invariant, whoever runs it: CLOSE, or a command that fails.
LEMMA CloseFromStep ==
  ASSUME IInv, NEW o \in {"open", "close", "query"}, NEW result \in {"ok", "error"},
         result = "ok" => o = "close",
         pc \in {"idle", "configure"},
         CloseFrom(o, result, handles - QueryHandles)
  PROVE  IInv'
<1> USE DEF Moving, StreamHandles, QueryHandles, given, handleVars, counters,
        transferVars, callVars, reportVars
<1>0. /\ TypeOK /\ HandleInv /\ CallInv /\ TransferInv
      /\ QueueInv /\ TimerInv /\ CountInv /\ PhaseInv
  BY DEF IInv
<1>1. CASE mHandle
  <2>1. handles' \in 0 .. MaxHandles
    BY <1>0, <1>1, AlsaAssumption DEF TypeOK, HandleInv, CloseFrom
  <2>2. device' \in [state : States, queued : 0 .. Buffer, played : Nat]
    BY <1>0, <1>1, DrainedType DEF CloseFrom
  <2>3. TypeOK'
    <3>1. /\ pc' = "drain" /\ op' \in Ops \cup {"none"}
          /\ answer' \in {"none", "ok", "error"} /\ mHwQueryHandle' = FALSE
      BY <1>1 DEF CloseFrom, Ops
    <3>2. /\ UNCHANGED <<mType, orderly, mHandle, mFrameWritten, mFrameUnderrun, moved>>
          /\ UNCHANGED <<restartAfterError, numFrames, status, recovered>>
          /\ UNCHANGED <<mTimer, phase, tick, position, rewound>>
      BY <1>1 DEF CloseFrom
    <3>. QED
      BY <1>0, <2>1, <2>2, <3>1, <3>2, ZenonT(60) DEF TypeOK
  <2>4. HandleInv'
    BY <1>0, <1>1, AlsaAssumption DEF TypeOK, HandleInv, CloseFrom
  <2>5. CallInv' /\ TransferInv'
    BY <1>0, <1>1, DrainedType DEF CallInv, TransferInv, CloseFrom
  <2>6. QueueInv' /\ TimerInv' /\ CountInv'
    BY <1>0, <1>1, DrainedType DEF TypeOK, QueueInv, TimerInv, CountInv, CloseFrom
  <2>7. PhaseInv'
    BY <1>0, <1>1, AlsaAssumption DEF TypeOK, PhaseInv, CloseFrom
  <2>. QED
    BY <2>3, <2>4, <2>5, <2>6, <2>7 DEF IInv
<1>2. CASE ~mHandle
  <2>0. Answer(o, result) /\ UNCHANGED device
    BY <1>2 DEF CloseFrom
  <2>1. handles' \in 0 .. MaxHandles
    BY <1>0, <1>2, AlsaAssumption DEF TypeOK, HandleInv, CloseFrom
  <2>2. TypeOK'
    <3>1. pc' = "idle" /\ op' = "none" /\ answer' = result /\ phase' \in Phases
      BY <1>0, <2>0, AnswerType DEF Ops
    <3>2. /\ UNCHANGED <<given, mHandle, device, counters, transferVars, mTimer, reportVars>>
          /\ mHwQueryHandle' = FALSE
      BY <2>0 DEF CloseFrom
    <3>. QED
      BY <1>0, <2>1, <3>1, <3>2, ZenonT(60) DEF TypeOK
  <2>3. HandleInv'
    BY <1>0, <1>2, <2>0, AlsaAssumption DEF TypeOK, HandleInv, CloseFrom, Answer
  <2>4. CallInv' /\ TransferInv'
    BY <1>0, <1>2, <2>0 DEF CallInv, TransferInv, CloseFrom, Answer, Direction
  <2>5. QueueInv' /\ TimerInv' /\ CountInv'
    BY <1>0, <1>2, <2>0 DEF HandleInv, QueueInv, TimerInv, CountInv, CloseFrom, Answer, NoDevice
  <2>6. PhaseInv'
    BY <1>0, <1>2, <2>0, AlsaAssumption DEF TypeOK, PhaseInv, CloseFrom, Answer, PhaseAfter
  <2>. QED
    BY <2>2, <2>3, <2>4, <2>5, <2>6 DEF IInv
<1>. QED
  BY <1>1, <1>2

-----------------------------------------------------------------------------
(* The invariant holds at first and every step keeps it. *)

\* Every operation, hardware step and timer callback keeps the invariant.
LEMMA InvStep == IInv /\ [Next]_vars => IInv'
<1> SUFFICES ASSUME IInv, [Next]_vars PROVE IInv'
  OBVIOUS
<1> USE AlsaAssumption
    DEF Moving, StreamHandles, QueryHandles, Direction, NoDevice, NoTick, Prepared,
        given, handleVars, counters, transferVars, callVars, reportVars
<1>0. /\ TypeOK /\ HandleInv /\ CallInv /\ TransferInv
      /\ QueueInv /\ TimerInv /\ CountInv /\ PhaseInv
  BY DEF IInv
<1>1. ASSUME NEW o \in Triggers \cup {"read", "write"}, NotOpened(o) PROVE IInv'
  BY <1>1 DEF IInv, TypeOK, HandleInv, CallInv, TransferInv, QueueInv, TimerInv,
         CountInv, PhaseInv, Triggers, NotOpened, Answer
<1>2. ASSUME Close PROVE IInv'
  BY <1>2, CloseFromStep DEF Close, Begin
<1>3. ASSUME OpenFails PROVE IInv'
  BY <1>3, CloseFromStep DEF OpenFails, Begin
<1>4. ASSUME OpenDevice PROVE IInv'
  <2>1. handles' \in 0 .. MaxHandles
    BY <1>0, <1>4 DEF TypeOK, OpenDevice
  <2>2. device' \in [state : States, queued : 0 .. Buffer, played : Nat]
    BY <1>0, <1>4 DEF OpenDevice, States
  <2>3. tick' \in [on : BOOLEAN, failed : BOOLEAN, xrun : BOOLEAN, played : Nat, crossed : BOOLEAN]
    BY <1>0, <1>4 DEF TypeOK, OpenDevice, Crossed
  <2>4. TypeOK'
    BY <1>0, <1>4, <2>1, <2>2, <2>3 DEF TypeOK, OpenDevice, GoOn, Ops
  <2>5. HandleInv'
    BY <1>0, <1>4 DEF TypeOK, HandleInv, OpenDevice, GoOn
  <2>6. CallInv'
    BY <1>0, <1>4 DEF CallInv, OpenDevice, GoOn
  <2>7. TransferInv'
    BY <1>0, <1>4 DEF TransferInv, OpenDevice, Begin, GoOn
  <2>8. QueueInv'
    BY <1>0, <1>4 DEF QueueInv, OpenDevice
  <2>9. TimerInv'
    BY <1>0, <1>4 DEF TimerInv, OpenDevice
  <2>10. CountInv'
    BY <1>0, <1>4 DEF TypeOK, CountInv, OpenDevice, Crossed
  <2>11. PhaseInv'
    BY <1>0, <1>4 DEF PhaseInv, OpenDevice, Begin, GoOn, Protocol
  <2>. QED
    BY <2>4, <2>5, <2>6, <2>7, <2>8, <2>9, <2>10, <2>11 DEF IInv
<1>5. ASSUME Query PROVE IInv'
  BY <1>5 DEF IInv, TypeOK, HandleInv, CallInv, TransferInv, QueueInv, TimerInv,
         CountInv, PhaseInv, PhaseAfter, Query, Begin, Answer
<1>6. ASSUME QueryFails PROVE IInv'
  <2>1. CloseFrom("query", "error", handles - QueryHandles)
    BY <1>0, <1>6 DEF QueryFails, TypeOK
  <2>. QED
    BY <1>6, <2>1, CloseFromStep DEF QueryFails, Begin
<1>7. ASSUME NEW o \in Triggers, TriggerFails(o) PROVE IInv'
  BY <1>7 DEF IInv, TypeOK, HandleInv, CallInv, TransferInv, QueueInv, TimerInv,
         CountInv, PhaseInv, Triggers, TriggerFails, Begin, Answer
<1>8. ASSUME Start PROVE IInv'
  BY <1>8 DEF IInv, TypeOK, HandleInv, CallInv, TransferInv, QueueInv, TimerInv,
         CountInv, PhaseInv, Ops, Triggers, States, Start, Begin, GoOn
<1>9. ASSUME Resume PROVE IInv'
  BY <1>9 DEF IInv, TypeOK, HandleInv, CallInv, TransferInv, QueueInv, TimerInv,
         CountInv, PhaseInv, Ops, Triggers, States, Resume, Begin, GoOn
<1>10. ASSUME Pause PROVE IInv'
  BY <1>10 DEF IInv, TypeOK, HandleInv, CallInv, TransferInv, QueueInv, TimerInv,
         CountInv, PhaseInv, Ops, Triggers, States, Pause, Begin, GoOn
<1>11. ASSUME Stop PROVE IInv'
  <2>0. /\ pc = "idle" /\ mHandle /\ "stop" \in Ops
        /\ UNCHANGED <<given, handleVars, counters, transferVars, mTimer, position, rewound>>
    BY <1>11 DEF Stop, Begin, Ops, Triggers
  <2>1. CASE device' = Prepared /\ Crossed /\ GoOn("stop", "disarm")
    <3>1. tick' \in [on : BOOLEAN, failed : BOOLEAN, xrun : BOOLEAN, played : Nat, crossed : BOOLEAN]
      BY <1>0, <2>1 DEF TypeOK, Crossed
    <3>2. TypeOK'
      BY <1>0, <2>0, <2>1, <3>1 DEF TypeOK, GoOn, States
    <3>3. HandleInv' /\ CallInv' /\ TransferInv' /\ PhaseInv'
      BY <1>0, <1>11, <2>0, <2>1
      DEF TypeOK, HandleInv, CallInv, TransferInv, PhaseInv, Stop, Begin, GoOn, Crossed, Protocol
    <3>4. QueueInv' /\ TimerInv' /\ CountInv'
      BY <1>0, <2>0, <2>1
      DEF TypeOK, TransferInv, QueueInv, TimerInv, CountInv, GoOn, Crossed
    <3>. QED
      BY <3>2, <3>3, <3>4 DEF IInv
  <2>2. CASE /\ device' = [device EXCEPT !.state = "setup", !.queued = 0]
             /\ Answer("stop", "error")
             /\ UNCHANGED tick
    <3>1. /\ device' \in [state : States, queued : 0 .. Buffer, played : Nat]
          /\ device'.state = "setup" /\ device'.queued = 0
          /\ device'.played = device.played
      <4>1. device \in [state : States, queued : 0 .. Buffer, played : Nat]
        BY <1>0 DEF TypeOK
      <4>2. "setup" \in States /\ 0 \in 0 .. Buffer
        BY DEF States
      <4>. QED
        BY <2>2, <4>1, <4>2
    <3>2. pc' = "idle" /\ op' = "none" /\ answer' = "error" /\ phase' \in Phases
      BY <1>0, <2>0, <2>2, AnswerType
    <3>3. TypeOK'
      BY <1>0, <2>0, <2>2, <3>1, <3>2 DEF TypeOK
    <3>4. HandleInv' /\ CallInv' /\ TransferInv' /\ PhaseInv'
      BY <1>0, <2>0, <2>2, <3>1
      DEF TypeOK, HandleInv, CallInv, TransferInv, PhaseInv, Answer, PhaseAfter
    <3>5. QueueInv' /\ TimerInv' /\ CountInv'
      BY <1>0, <2>0, <2>2, <3>1
      DEF TypeOK, QueueInv, TimerInv, CountInv, Answer
    <3>. QED
      BY <3>3, <3>4, <3>5 DEF IInv
  <2>. QED
    BY <1>11, <2>1, <2>2 DEF Stop
<1>12. ASSUME NEW o \in {"read", "write"}, NEW n \in 0 .. MaxRequest, Transfer(o, n) PROVE IInv'
  BY <1>12 DEF IInv, TypeOK, HandleInv, CallInv, TransferInv, QueueInv, TimerInv,
         CountInv, PhaseInv, Ops, PhaseAfter, Transfer, Begin, GoOn, Answer
<1>13. ASSUME StopTimer PROVE IInv'
  <2>1. TypeOK'
    <3>1. /\ UNCHANGED <<given, handleVars, device, counters, transferVars,
                         op, answer, phase, reportVars>>
          /\ pc' = "join" /\ mTimer' = FALSE
      BY <1>13 DEF StopTimer
    <3>. QED
      BY <1>0, <3>1, ZenonT(60) DEF TypeOK
  <2>2. HandleInv'
    BY <1>0, <1>13 DEF HandleInv, StopTimer
  <2>3. CallInv'
    BY <1>0, <1>13 DEF CallInv, StopTimer
  <2>4. TransferInv'
    BY <1>0, <1>13 DEF TransferInv, StopTimer
  <2>5. QueueInv'
    BY <1>0, <1>13 DEF QueueInv, StopTimer
  <2>6. TimerInv'
    BY <1>0, <1>13 DEF TimerInv, CallInv, StopTimer
  <2>7. CountInv'
    BY <1>0, <1>13 DEF CountInv, StopTimer
  <2>8. PhaseInv'
    BY <1>0, <1>13 DEF PhaseInv, StopTimer
  <2>. QED
    BY <2>1, <2>2, <2>3, <2>4, <2>5, <2>6, <2>7, <2>8 DEF IInv
<1>14. ASSUME CloseHandle PROVE IInv'
  <2>1. op \in Ops /\ handles' \in 0 .. MaxHandles
    BY <1>0, <1>14 DEF TypeOK, HandleInv, CallInv, CloseHandle
  <2>2. pc' = "idle" /\ op' = "none" /\ answer' = answer /\ phase' \in Phases
    BY <1>0, <1>14, <2>1, AnswerType DEF CloseHandle
  <2>3. device' \in [state : States, queued : 0 .. Buffer, played : Nat]
    BY <1>14 DEF CloseHandle, States
  <2>4. TypeOK'
    BY <1>0, <1>14, <2>1, <2>2, <2>3 DEF TypeOK, CloseHandle
  <2>5. HandleInv'
    BY <1>0, <1>14 DEF TypeOK, HandleInv, CloseHandle, Answer
  <2>6. CallInv'
    BY <1>0, <1>14 DEF CallInv, CloseHandle, Answer
  <2>7. TransferInv'
    BY <1>0, <1>14 DEF TransferInv, CloseHandle, Answer
  <2>8. QueueInv'
    BY <1>0, <1>14 DEF QueueInv, CloseHandle
  <2>9. TimerInv'
    BY <1>0, <1>14 DEF TimerInv, CloseHandle
  <2>10. CountInv'
    BY <1>0, <1>14 DEF TypeOK, CountInv, CloseHandle
  <2>11. PhaseInv'
    BY <1>0, <1>14 DEF PhaseInv, HandleInv, CloseHandle, Answer
  <2>. QED
    BY <2>4, <2>5, <2>6, <2>7, <2>8, <2>9, <2>10, <2>11 DEF IInv
<1>15. ASSUME Configured PROVE IInv'
  BY <1>15 DEF IInv, TypeOK, HandleInv, CallInv, TransferInv, QueueInv, TimerInv,
         CountInv, PhaseInv, States, Phases, PhaseAfter, Configured, Answer, Crossed
<1>16. ASSUME NotConfigured PROVE IInv'
  BY <1>16, CloseFromStep DEF NotConfigured
<1>17. ASSUME ArmTimer PROVE IInv'
  BY <1>17 DEF IInv, TypeOK, HandleInv, CallInv, TransferInv, QueueInv, TimerInv,
         CountInv, PhaseInv, Phases, PhaseAfter, ArmTimer, Answer
<1>18. ASSUME TimerStopped PROVE IInv'
  BY <1>18 DEF IInv, TypeOK, HandleInv, CallInv, TransferInv, QueueInv, TimerInv,
         CountInv, PhaseInv, Phases, PhaseAfter, TimerStopped, Answer
<1>19. ASSUME MoveFrame PROVE IInv'
  BY <1>19 DEF IInv, TypeOK, HandleInv, CallInv, TransferInv, QueueInv, TimerInv,
         CountInv, PhaseInv, MoveFrame
<1>20. ASSUME Moved PROVE IInv'
  BY <1>20 DEF IInv, TypeOK, HandleInv, CallInv, TransferInv, QueueInv, TimerInv,
         CountInv, PhaseInv, Moved
<1>21. ASSUME TransferRefused PROVE IInv'
  <2>1. op \in Ops /\ Finish(op, "error")
    BY <1>0, <1>21 DEF CallInv, Ops, TransferRefused
  <2>2. TypeOK'
    BY <1>0, <1>21, <2>1, FinishType DEF TypeOK, TransferRefused
  <2>3. HandleInv'
    BY <1>0, <1>21 DEF HandleInv, TransferRefused, Finish, Answer
  <2>4. CallInv'
    BY <1>0, <1>21 DEF CallInv, TransferRefused, Finish, Answer
  <2>5. TransferInv'
    BY <1>0, <1>21 DEF TypeOK, TransferInv, TransferRefused, Finish, Answer
  <2>6. QueueInv'
    BY <1>0, <1>21 DEF QueueInv, TransferRefused, Finish, Answer
  <2>7. TimerInv'
    BY <1>0, <1>21 DEF TimerInv, TransferRefused
  <2>8. CountInv'
    BY <1>0, <1>21 DEF CountInv, TransferRefused, Finish
  <2>9. PhaseInv'
    BY <1>0, <1>21 DEF PhaseInv, CallInv, TransferRefused, Finish, Answer
  <2>. QED
    BY <2>2, <2>3, <2>4, <2>5, <2>6, <2>7, <2>8, <2>9 DEF IInv
<1>22. ASSUME Recover PROVE IInv'
  <2>1. /\ device' \in [state : States, queued : 0 .. Buffer, played : Nat]
        /\ tick' \in [on : BOOLEAN, failed : BOOLEAN, xrun : BOOLEAN, played : Nat, crossed : BOOLEAN]
    BY <1>0, <1>22 DEF TypeOK, Recover, Crossed, States
  <2>2. ASSUME GoOn("write", "underrun"), UNCHANGED transferVars PROVE TypeOK'
    BY <1>0, <1>22, <2>1, <2>2 DEF TypeOK, Recover, GoOn
  <2>3. ASSUME Finish("write", "error") PROVE TypeOK'
    BY <1>0, <1>22, <2>1, <2>3, FinishType DEF TypeOK, Recover
  <2>4. TypeOK'
    BY <1>22, <2>2, <2>3 DEF Recover
  <2>5. HandleInv'
    BY <1>0, <1>22 DEF HandleInv, Recover, GoOn, Finish, Answer
  <2>6. CallInv'
    BY <1>0, <1>22 DEF CallInv, Recover, GoOn, Finish, Answer
  <2>7. TransferInv'
    BY <1>0, <1>22 DEF TypeOK, TransferInv, TimerInv, Recover, GoOn, Finish, Answer
  <2>8. QueueInv'
    BY <1>0, <1>22 DEF QueueInv, Recover, GoOn
  <2>9. TimerInv'
    BY <1>0, <1>22 DEF TimerInv, Recover
  <2>10. CountInv'
    BY <1>0, <1>22 DEF TypeOK, CountInv, Recover, Finish, Crossed
  <2>11. PhaseInv'
    BY <1>0, <1>22 DEF PhaseInv, Recover, GoOn, Finish, Answer
  <2>. QED
    BY <2>4, <2>5, <2>6, <2>7, <2>8, <2>9, <2>10, <2>11 DEF IInv
<1>23. ASSUME Underrun PROVE IInv'
  BY <1>23 DEF IInv, TypeOK, HandleInv, CallInv, TransferInv, QueueInv, TimerInv,
         CountInv, PhaseInv, Underrun, GoOn
<1>24. ASSUME Overrun PROVE IInv'
  BY <1>24 DEF IInv, TypeOK, HandleInv, CallInv, TransferInv, QueueInv, TimerInv,
         CountInv, PhaseInv, States, Overrun, Crossed
<1>25. ASSUME Count PROVE IInv'
  BY <1>25 DEF IInv, TypeOK, HandleInv, CallInv, TransferInv, QueueInv, TimerInv,
         CountInv, PhaseInv, Count, GoOn
<1>26. ASSUME NextTurn PROVE IInv'
  <2>1. op \in Ops
    BY <1>0, <1>26 DEF CallInv, Ops, NextTurn
  <2>2. ASSUME GoOn(op, "transfer"), UNCHANGED transferVars PROVE TypeOK'
    BY <1>0, <1>26, <2>1, <2>2 DEF TypeOK, NextTurn, GoOn
  <2>3. ASSUME Finish(op, "ok") PROVE TypeOK'
    <3>1. /\ UNCHANGED <<given, handleVars, device, counters, mTimer, reportVars>>
          /\ pc' = "idle" /\ op' = "none" /\ answer' = "ok" /\ phase' \in Phases
          /\ numFrames' = 0 /\ status' = 0 /\ restartAfterError' = FALSE /\ recovered' = FALSE
      BY <1>0, <1>26, <2>1, <2>3, FinishType DEF NextTurn
    <3>2. numFrames' \in 0 .. MaxRequest /\ status' \in 0 .. MaxRequest
      BY <3>1
    <3>. QED
      BY <1>0, <3>1, <3>2, ZenonT(60) DEF TypeOK
  <2>4. TypeOK'
    BY <1>26, <2>2, <2>3 DEF NextTurn
  <2>5. HandleInv'
    BY <1>0, <1>26 DEF HandleInv, NextTurn, GoOn, Finish, Answer
  <2>6. CallInv'
    BY <1>0, <1>26 DEF CallInv, NextTurn, GoOn, Finish, Answer
  <2>7. TransferInv'
    BY <1>0, <1>26 DEF TypeOK, TransferInv, NextTurn, GoOn, Finish, Answer
  <2>8. QueueInv'
    BY <1>0, <1>26 DEF QueueInv, NextTurn
  <2>9. TimerInv'
    BY <1>0, <1>26 DEF TimerInv, NextTurn
  <2>10. CountInv'
    BY <1>0, <1>26 DEF TypeOK, CountInv, NextTurn, Finish
  <2>11. PhaseInv'
    BY <1>0, <1>26 DEF PhaseInv, CallInv, NextTurn, GoOn, Finish, Answer, PhaseAfter
  <2>. QED
    BY <2>4, <2>5, <2>6, <2>7, <2>8, <2>9, <2>10, <2>11 DEF IInv
<1>27. ASSUME Restart PROVE IInv'
  <2>1. device' \in [state : States, queued : 0 .. Buffer, played : Nat]
    BY <1>0, <1>27 DEF TypeOK, Restart, States
  <2>2. ASSUME GoOn("write", "transfer"), restartAfterError' = FALSE,
               UNCHANGED <<numFrames, status, recovered>>
        PROVE  TypeOK'
    BY <1>0, <1>27, <2>1, <2>2 DEF TypeOK, Restart, GoOn, Ops
  <2>3. ASSUME NEW result \in {"ok", "error"}, Finish("write", result) PROVE TypeOK'
    <3>1. /\ UNCHANGED <<given, handleVars, counters, mTimer, reportVars>>
          /\ pc' = "idle" /\ op' = "none" /\ answer' = result /\ phase' \in Phases
          /\ numFrames' = 0 /\ status' = 0 /\ restartAfterError' = FALSE /\ recovered' = FALSE
      BY <1>0, <1>27, <2>3, FinishType DEF Restart, Ops
    <3>2. numFrames' \in 0 .. MaxRequest /\ status' \in 0 .. MaxRequest
      BY <3>1
    <3>. QED
      BY <1>0, <2>1, <3>1, <3>2, ZenonT(60) DEF TypeOK
  <2>4. TypeOK'
    BY <1>27, <2>2, <2>3 DEF Restart
  <2>5. HandleInv'
    BY <1>0, <1>27 DEF HandleInv, Restart, GoOn, Finish, Answer
  <2>6. CallInv'
    BY <1>0, <1>27 DEF CallInv, Restart, GoOn, Finish, Answer
  <2>7. TransferInv'
    BY <1>0, <1>27 DEF TypeOK, TransferInv, Restart, GoOn, Finish, Answer
  <2>8. QueueInv'
    BY <1>0, <1>27 DEF TypeOK, QueueInv, Restart
  <2>9. TimerInv'
    BY <1>0, <1>27 DEF TypeOK, TimerInv, TransferInv, Restart
  <2>10. CountInv'
    BY <1>0, <1>27 DEF TypeOK, CountInv, Restart, Finish
  <2>11. PhaseInv'
    BY <1>0, <1>27 DEF PhaseInv, CallInv, Restart, GoOn, Finish, Answer, PhaseAfter
  <2>. QED
    BY <2>4, <2>5, <2>6, <2>7, <2>8, <2>9, <2>10, <2>11 DEF IInv
<1>28. ASSUME DeviceError PROVE IInv'
  <2>1. op \in Ops /\ Finish(op, "error")
    BY <1>0, <1>28 DEF CallInv, Ops, DeviceError
  <2>2. TypeOK'
    BY <1>0, <1>28, <2>1, FinishType DEF TypeOK, DeviceError
  <2>3. HandleInv'
    BY <1>0, <1>28 DEF HandleInv, DeviceError, Finish, Answer
  <2>4. CallInv'
    BY <1>0, <1>28 DEF CallInv, DeviceError, Finish, Answer
  <2>5. TransferInv'
    BY <1>0, <1>28 DEF TypeOK, TransferInv, DeviceError, Finish, Answer
  <2>6. QueueInv'
    BY <1>0, <1>28 DEF QueueInv, DeviceError, Finish, Answer
  <2>7. TimerInv'
    BY <1>0, <1>28 DEF TimerInv, DeviceError
  <2>8. CountInv'
    BY <1>0, <1>28 DEF CountInv, DeviceError, Finish
  <2>9. PhaseInv'
    BY <1>0, <1>28 DEF PhaseInv, CallInv, DeviceError, Finish, Answer
  <2>. QED
    BY <2>2, <2>3, <2>4, <2>5, <2>6, <2>7, <2>8, <2>9 DEF IInv
<1>29. ASSUME Play PROVE IInv'
  BY <1>29 DEF IInv, TypeOK, HandleInv, CallInv, TransferInv, QueueInv, TimerInv,
         CountInv, PhaseInv, States, Play
<1>30. ASSUME Record PROVE IInv'
  BY <1>30 DEF IInv, TypeOK, HandleInv, CallInv, TransferInv, QueueInv, TimerInv,
         CountInv, PhaseInv, States, Record
<1>31. ASSUME TickSnapshot PROVE IInv'
  BY <1>31 DEF IInv, TypeOK, HandleInv, CallInv, TransferInv, QueueInv, TimerInv,
         CountInv, PhaseInv, TickSnapshot
<1>32. ASSUME TickReport PROVE IInv'
  BY <1>32 DEF IInv, TypeOK, HandleInv, CallInv, TransferInv, QueueInv, TimerInv,
         CountInv, PhaseInv, TickReport, Reading
<1>33. CASE UNCHANGED vars
  BY <1>33 DEF IInv, TypeOK, HandleInv, CallInv, TransferInv, QueueInv, TimerInv,
         CountInv, PhaseInv, vars
<1>. QED
  BY <1>1, <1>2, <1>3, <1>4, <1>5, <1>6, <1>7, <1>8, <1>9, <1>10, <1>11,
     <1>12, <1>13, <1>14, <1>15, <1>16, <1>17, <1>18, <1>19, <1>20, <1>21, <1>22,
     <1>23, <1>24, <1>25, <1>26, <1>27, <1>28, <1>29, <1>30, <1>31, <1>32, <1>33
  DEF Next, Command, Step, Hardware, Tick

\* A stream just constructed satisfies it.
LEMMA InvInit == Init => IInv
<1> SUFFICES ASSUME Init PROVE IInv
  OBVIOUS
<1>1. TypeOK
  <2>1. /\ device \in [state : States, queued : 0 .. Buffer, played : Nat]
        /\ tick \in [on : BOOLEAN, failed : BOOLEAN, xrun : BOOLEAN, played : Nat, crossed : BOOLEAN]
    BY AlsaAssumption DEF Init, NoDevice, NoTick, States
  <2>2. /\ 0 \in 0 .. MaxHandles /\ 0 \in 0 .. MaxRequest /\ 0 \in 0 .. MaxFrames
        /\ 0 \in Nat
    BY AlsaAssumption
  <2>3. "closed" \in Phases
    BY DEF Phases
  <2>. QED
    BY <2>1, <2>2, <2>3, Zenon DEF Init, TypeOK
<1>2. HandleInv /\ CallInv /\ PhaseInv
  BY DEF Init, HandleInv, CallInv, PhaseInv, Moving, StreamHandles, QueryHandles, NoTick
<1>3. TransferInv /\ QueueInv /\ TimerInv /\ CountInv
  BY AlsaAssumption DEF Init, TransferInv, QueueInv, TimerInv, CountInv, Moving, NoDevice, NoTick
<1>. QED
  BY <1>1, <1>2, <1>3 DEF IInv

\* A callback ends only by reporting.
LEMMA OnlyReportEnds ==
  ASSUME TypeOK, Next, tick.on, ~tick'.on
  PROVE  TickReport
<1>1. Crossed => tick'.on
  BY DEF TypeOK, Crossed
<1>2. ~Command
  BY <1>1
  DEF Command, NotOpened, Close, OpenFails, OpenDevice, Query, QueryFails, TriggerFails,
      Start, Resume, Pause, Stop, Transfer, CloseFrom, reportVars
<1>3. ~Step
  BY <1>1
  DEF Step, StopTimer, CloseHandle, Configured, NotConfigured, ArmTimer, TimerStopped,
      MoveFrame, Moved, TransferRefused, Recover, Underrun, Overrun, Count, NextTurn,
      Restart, CloseFrom, reportVars
<1>4. ~DeviceError /\ ~Hardware /\ ~TickSnapshot
  BY DEF DeviceError, Hardware, Play, Record, TickSnapshot, reportVars
<1>. QED
  BY <1>2, <1>3, <1>4 DEF Next, Tick

-----------------------------------------------------------------------------
(* The theorems. *)

\* IInv is an invariant.
LEMMA Invariant == Spec => []IInv
  BY InvInit, InvStep, PTL DEF Spec

\* Every reachable state is well typed: no counter leaves its range, and no path
\* closes a handle that is not open.
THEOREM TypeCorrect == Spec => []TypeOK
<1>1. IInv => TypeOK
  BY DEF IInv
<1>. QED
  BY Invariant, <1>1, PTL

\* The timer thread inside getTimeStamp has an open handle, whichever path of
\* open, queryOpen or close() runs beside it.
THEOREM TicksOnOpenHandle == Spec => []TickOnOpenHandle
<1>1. IInv => TickOnOpenHandle
  BY DEF IInv, HandleInv, TickOnOpenHandle
<1>. QED
  BY Invariant, <1>1, PTL

\* Between commands the timer is armed on a running device, and off with no
\* callback left on a paused one, also after failed triggers and recoveries.
THEOREM TimerFollows == Spec => []TimerFollowsDevice
<1>1. IInv => TimerFollowsDevice
  BY DEF IInv, TimerInv, TimerFollowsDevice
<1>. QED
  BY Invariant, <1>1, PTL

\* No position reported is ahead of the frames the device has taken, however
\* many underruns there were, unless the clock was reset under the callback.
THEOREM ReportsNeverAhead == Spec => NeverAhead
<1>1. IInv /\ [Next]_vars =>
        [(Reports /\ mType = "playback" /\ ~tick.crossed) => Reading <= moved]_vars
  <2> SUFFICES ASSUME IInv, Next, Reports, mType = "playback", ~tick.crossed
               PROVE  Reading <= moved
    BY DEF vars
  <2>1. TickReport
    BY OnlyReportEnds DEF IInv, Reports
  <2>. QED
    BY <2>1 DEF IInv, TypeOK, CountInv, TransferInv, TickReport, Reading, Reports
<1>. QED
  BY Invariant, <1>1, PTL DEF NeverAhead, Spec

\* An orderly frontend's OPEN never meets a handle of our own.
THEOREM OpensAlone == Spec => ExclusiveDevice
<1>1. IInv /\ [Next]_vars =>
        [(orderly /\ pc = "idle" /\ pc' = "configure") => handles' = 1]_vars
  <2> SUFFICES ASSUME IInv, Next, orderly, pc = "idle", pc' = "configure"
               PROVE  handles' = 1
    BY DEF vars
  <2>1. OpenDevice
    <3>1. ~Step
      BY DEF Step, StopTimer, CloseHandle, Configured, NotConfigured, ArmTimer, TimerStopped,
             MoveFrame, Moved, TransferRefused, Recover, Underrun, Overrun, Count, NextTurn,
             Restart
    <3>2. ~DeviceError /\ ~Hardware /\ ~Tick
      BY DEF DeviceError, Hardware, Play, Record, Tick, TickSnapshot, TickReport, callVars
    <3>3. Command => OpenDevice
      BY DEF Command, NotOpened, Close, OpenFails, Query, QueryFails, TriggerFails, Start,
             Resume, Pause, Stop, Transfer, CloseFrom, Answer, GoOn
    <3>. QED
      BY <3>1, <3>2, <3>3 DEF Next
  <2>2. ~mHandle /\ handles \in Nat /\ handles = QueryHandles
    <3>1. phase = "closed"
      BY <2>1 DEF OpenDevice, Begin, Protocol
    <3>2. handles \in Nat
      BY AlsaAssumption DEF IInv, TypeOK
    <3>3. ~mHandle /\ handles = StreamHandles + QueryHandles
      BY <3>1 DEF IInv, PhaseInv
    <3>. QED
      BY <3>2, <3>3 DEF StreamHandles, QueryHandles
  <2>. QED
    BY <2>1, <2>2 DEF OpenDevice
<1>. QED
  BY Invariant, <1>1, PTL DEF ExclusiveDevice, Spec

\* A WRITE that met an underrun and succeeds has the device started again.
THEOREM RestartsAfterUnderrun == Spec => Restarted
<1>1. IInv /\ [Next]_vars =>
        [(recovered /\ pc # "idle" /\ pc' = "idle" /\ answer' = "ok")
           => device'.state # "prepared"]_vars
  <2> SUFFICES ASSUME IInv, Next, recovered, pc # "idle", pc' = "idle", answer' = "ok"
               PROVE  device'.state # "prepared"
    BY DEF vars
  <2>1. /\ pc \in Moving /\ op = "write"
        /\ restartAfterError \/ pc = "underrun" \/ device.state # "prepared"
    BY DEF IInv, TransferInv
  <2>2. NextTurn \/ Restart
    <3>1. ~Command /\ ~DeviceError /\ ~Hardware /\ ~Tick
      BY <2>1
      DEF Command, NotOpened, Close, OpenFails, OpenDevice, Query, QueryFails, TriggerFails,
          Start, Resume, Pause, Stop, Transfer, Begin, DeviceError, Finish, Answer,
          Hardware, Play, Record, Tick, TickSnapshot, TickReport, callVars
    <3>2. Step => NextTurn \/ Restart
      BY <2>1
      DEF Step, StopTimer, CloseHandle, Configured, NotConfigured, ArmTimer, TimerStopped,
          MoveFrame, Moved, TransferRefused, Recover, Underrun, Overrun, Count,
          Finish, Answer, GoOn, callVars, Moving
    <3>. QED
      BY <3>1, <3>2 DEF Next
  <2>3. CASE NextTurn
    BY <2>1, <2>3 DEF NextTurn
  <2>4. CASE Restart
    BY <2>1, <2>4 DEF IInv, TypeOK, Restart, Finish, Answer, GoOn
  <2>. QED
    BY <2>2, <2>3, <2>4
<1>. QED
  BY Invariant, <1>1, PTL DEF Restarted, Spec

-----------------------------------------------------------------------------
(* AlsaPcm implements the device interface. *)

\* What a command that closes the device was, or will be, answered with.
ClosingInv ==
  /\ op = "close" => answer = "ok"
  /\ (pc \in {"drain", "join"} /\ op \in {"open", "query"}) => answer = "error"

\* It is decided before the device is drained, and kept.
LEMMA ClosingStep == IInv /\ ClosingInv /\ [Next]_vars => ClosingInv'
<1> SUFFICES ASSUME IInv, ClosingInv, [Next]_vars PROVE ClosingInv'
  OBVIOUS
<1> USE DEF ClosingInv
<1>1. CASE Command
  BY <1>1
  DEF Command, Begin, NotOpened, Close, OpenFails, OpenDevice, Query, QueryFails,
      TriggerFails, Start, Resume, Pause, Stop, Transfer, CloseFrom, Answer, GoOn, Triggers
<1>2. CASE Step
  BY <1>2
  DEF IInv, CallInv, Step, StopTimer, CloseHandle, Configured, NotConfigured, ArmTimer,
      TimerStopped, MoveFrame, Moved, TransferRefused, Recover, Underrun, Overrun, Count,
      NextTurn, Restart, CloseFrom, Finish, Answer, GoOn, callVars, Moving
<1>3. CASE DeviceError \/ Hardware \/ Tick \/ UNCHANGED vars
  BY <1>3
  DEF DeviceError, Hardware, Play, Record, Tick, TickSnapshot, TickReport, Finish, Answer,
      callVars, vars
<1>. QED
  BY <1>1, <1>2, <1>3 DEF Next

\* A new command is a call of the interface, or one answered at once.
LEMMA CommandImplements ==
  ASSUME IInv, Command
  PROVE  \E c \in Device!Calls : Device!Call(c) \/ Device!CallAndReturn(c)
<1> USE DEF Device!Calls, CallOf, Triggers, given, handleVars, counters, transferVars,
            callVars, reportVars, Begin
<1>0. /\ mHandle \in BOOLEAN /\ mTimer \in BOOLEAN /\ tick.on \in BOOLEAN
      /\ pc = "idle" => op = "none"
      /\ (mTimer \/ tick.on) => mHandle
  BY DEF IInv, TypeOK, HandleInv, CallInv
<1>1. ASSUME NEW o \in Triggers \cup {"read", "write"}, NotOpened(o)
      PROVE  Device!CallAndReturn(CallOf(o))
  BY <1>0, <1>1 DEF NotOpened, Answer, Device!CallAndReturn, Device!Outcome
<1>2. ASSUME Close PROVE Device!Call("close") \/ Device!CallAndReturn("close")
  BY <1>0, <1>2 DEF Close, CloseFrom, Answer, Device!Call, Device!CallAndReturn, Device!Outcome
<1>3. ASSUME OpenFails PROVE Device!Call("open") \/ Device!CallAndReturn("open")
  BY <1>0, <1>3 DEF OpenFails, CloseFrom, Answer, Device!Call, Device!CallAndReturn, Device!Outcome
<1>4. ASSUME OpenDevice PROVE Device!Call("open")
  <2>1. tick'.on = tick.on
    BY <1>4 DEF OpenDevice, Crossed, IInv, TypeOK
  <2>. QED
    BY <1>0, <1>4, <2>1 DEF OpenDevice, GoOn, Device!Call
<1>5. ASSUME Query PROVE Device!CallAndReturn("query")
  BY <1>0, <1>5 DEF Query, Answer, Device!CallAndReturn, Device!Outcome
<1>6. ASSUME QueryFails PROVE Device!Call("query") \/ Device!CallAndReturn("query")
  BY <1>0, <1>6 DEF QueryFails, CloseFrom, Answer, Device!Call, Device!CallAndReturn, Device!Outcome
<1>7. ASSUME NEW o \in Triggers, TriggerFails(o) PROVE Device!CallAndReturn("trigger")
  BY <1>0, <1>7 DEF TriggerFails, Answer, Device!CallAndReturn, Device!Outcome
<1>8. ASSUME Start \/ Resume \/ Pause PROVE Device!Call("trigger")
  BY <1>0, <1>8 DEF Start, Resume, Pause, GoOn, Device!Call
<1>9. ASSUME Stop PROVE Device!Call("trigger") \/ Device!CallAndReturn("trigger")
  <2>1. tick'.on = tick.on
    BY <1>9 DEF Stop, Crossed, IInv, TypeOK
  <2>. QED
    BY <1>0, <1>9, <2>1 DEF Stop, GoOn, Answer, Device!Call, Device!CallAndReturn, Device!Outcome
<1>10. ASSUME NEW o \in {"read", "write"}, NEW n \in 0 .. MaxRequest, Transfer(o, n)
       PROVE  Device!Call("transfer") \/ Device!CallAndReturn("transfer")
  BY <1>0, <1>10 DEF Transfer, GoOn, Answer, Device!Call, Device!CallAndReturn, Device!Outcome
<1>11. \A o \in Triggers \cup {"read", "write"} : CallOf(o) \in Device!Calls
  OBVIOUS
<1>. QED
  BY <1>1, <1>2, <1>3, <1>4, <1>5, <1>6, <1>7, <1>8, <1>9, <1>10, <1>11 DEF Command

\* A command that goes on leaves the interface as it was, ends a report, or
\* returns.
LEMMA StepImplements ==
  ASSUME IInv, ClosingInv, Step \/ DeviceError
  PROVE  Device!Return \/ Device!Report \/ UNCHANGED Device!deviceVars
<1> USE DEF CallOf, Triggers, given, handleVars, counters, transferVars, callVars,
            reportVars, Device!deviceVars
<1>0. /\ mHandle \in BOOLEAN /\ mTimer \in BOOLEAN /\ tick.on \in BOOLEAN
      /\ (mTimer \/ tick.on \/ pc # "idle") => mHandle
      /\ CallInv
  BY DEF IInv, TypeOK, HandleInv
<1>1. ASSUME StopTimer PROVE Device!Report
  BY <1>0, <1>1 DEF CallInv, StopTimer, Device!Report
<1>2. ASSUME CloseHandle PROVE Device!Return
  <2>1. /\ op \in {"open", "close", "query"} /\ ~mTimer /\ pc = "join"
        /\ answer \in {"ok", "error"} /\ (answer = "ok" <=> op = "close")
    BY <1>0, <1>2 DEF CallInv, ClosingInv, CloseHandle, IInv, HandleInv
  <2>2. Device!Outcome(op, answer)
    BY <1>0, <1>2, <2>1 DEF CloseHandle, Answer, Device!Outcome
  <2>. QED
    BY <2>1, <2>2 DEF Device!Return
<1>3. ASSUME Configured PROVE Device!Return
  <2>1. tick'.on = tick.on
    BY <1>3 DEF Configured, Crossed, IInv, TypeOK
  <2>. QED
    BY <1>0, <1>3, <2>1 DEF CallInv, Configured, Answer, Device!Return, Device!Outcome
<1>4. ASSUME NotConfigured PROVE UNCHANGED Device!deviceVars
  BY <1>0, <1>4 DEF CallInv, NotConfigured, CloseFrom
<1>5. ASSUME ArmTimer \/ TimerStopped PROVE Device!Return
  BY <1>0, <1>5 DEF CallInv, ArmTimer, TimerStopped, Answer, Device!Return, Device!Outcome
<1>6. ASSUME MoveFrame \/ Moved \/ Underrun \/ Count PROVE UNCHANGED Device!deviceVars
  BY <1>0, <1>6 DEF CallInv, Moving, MoveFrame, Moved, Underrun, Count, GoOn
<1>7. ASSUME TransferRefused \/ DeviceError PROVE Device!Return
  BY <1>0, <1>7
  DEF CallInv, Moving, TransferRefused, DeviceError, Finish, Answer, Device!Return, Device!Outcome
<1>8. ASSUME Recover \/ Overrun PROVE Device!Return \/ UNCHANGED Device!deviceVars
  <2>1. tick'.on = tick.on
    BY <1>8 DEF Recover, Overrun, Crossed, IInv, TypeOK
  <2>. QED
    BY <1>0, <1>8, <2>1
    DEF CallInv, Moving, Recover, Overrun, GoOn, Finish, Answer, Device!Return, Device!Outcome
<1>9. ASSUME NextTurn \/ Restart PROVE Device!Return \/ UNCHANGED Device!deviceVars
  BY <1>0, <1>9
  DEF CallInv, Moving, NextTurn, Restart, GoOn, Finish, Answer, Device!Return, Device!Outcome
<1>. QED
  BY <1>1, <1>2, <1>3, <1>4, <1>5, <1>6, <1>7, <1>8, <1>9 DEF Step

\* The timer thread and the hardware change at most what is being reported.
LEMMA BackgroundImplements ==
  ASSUME IInv, Hardware \/ Tick
  PROVE  Device!Report \/ UNCHANGED Device!deviceVars
<1> USE DEF given, handleVars, counters, transferVars, callVars, reportVars, Device!deviceVars
<1>0. /\ mHandle \in BOOLEAN /\ mTimer \in BOOLEAN /\ tick.on \in BOOLEAN
      /\ (mTimer \/ tick.on) => mHandle
  BY DEF IInv, TypeOK, HandleInv
<1>1. CASE Hardware
  BY <1>1 DEF Hardware, Play, Record
<1>2. CASE TickSnapshot
  BY <1>0, <1>2 DEF TickSnapshot
<1>3. CASE TickReport
  BY <1>0, <1>3 DEF TickReport, NoTick, Device!Report, CallOf, Triggers
<1>. QED
  BY <1>1, <1>2, <1>3 DEF Tick

\* AlsaPcm implements the device interface: initially it has no stream, and
\* every step is a step of the interface or leaves it as it was.
THEOREM ImplementsDevice == Spec => Implements
<1>1. Init => Device!DeviceInit
  BY DEF Init, Device!DeviceInit, CallOf, Triggers, NoTick
<1>2. Init => ClosingInv
  BY DEF Init, ClosingInv
<1>3. IInv /\ ClosingInv /\ [Next]_vars => [Device!DeviceNext]_(Device!deviceVars)
  <2> SUFFICES ASSUME IInv, ClosingInv, [Next]_vars
               PROVE  Device!DeviceNext \/ UNCHANGED Device!deviceVars
    OBVIOUS
  <2>1. CASE UNCHANGED vars
    BY <2>1 DEF vars, handleVars, callVars, reportVars, Device!deviceVars
  <2>2. CASE Next
    BY <2>2, CommandImplements, StepImplements, BackgroundImplements
    DEF Next, Device!DeviceNext
  <2>. QED
    BY <2>1, <2>2
<1>. QED
  BY Invariant, ClosingStep, <1>1, <1>2, <1>3, PTL DEF Implements, Spec, Device!DeviceSpec

=============================================================================
