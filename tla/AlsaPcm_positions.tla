------------------------- MODULE AlsaPcm_positions -------------------------
(* Reported playback positions do not go back, for every buffer and every   *)
(* number of underruns.                                                     *)
EXTENDS AlsaPcm_proofs

\* What write() has counted, with the call it is in, is what it has moved.
Counted == mFrameWritten + status = moved

\* A device in underrun has nothing queued, and a callback that saw the underrun
\* runs before anything is queued again, or knows of the reset between.
Dry ==
  /\ device.state = "xrun" => device.queued = 0
  /\ (tick.on /\ tick.xrun /\ ~tick.crossed) =>
       device.state \in {"xrun", "setup"} /\ device.queued = 0

\* The last report is behind the frames moved and, while the fields account for
\* every frame, behind the device and what a callback that runs will report.
Behind ==
  ~rewound =>
    /\ position <= moved
    /\ Accounted =>
         /\ position <= mFrameUnderrun + device.played
         /\ (tick.on /\ ~tick.failed /\ ~tick.xrun) => position <= mFrameUnderrun + tick.played

BackInv == mType = "playback" => Counted /\ Dry /\ Behind

\* What these are about.
backVars == <<device, mFrameWritten, mFrameUnderrun, moved, status, tick, position, rewound>>

-----------------------------------------------------------------------------
(* The ways a step can disturb it. *)

LEMMA BackNumbers ==
  ASSUME TypeOK
  PROVE  /\ mFrameWritten \in Nat /\ mFrameUnderrun \in Nat /\ moved \in Nat
         /\ status \in Nat /\ position \in Nat
         /\ device.queued \in Nat /\ device.played \in Nat /\ tick.played \in Nat
  BY AlsaAssumption DEF TypeOK

LEMMA BackUnchanged ==
  ASSUME BackInv, UNCHANGED <<mType, backVars>>
  PROVE  BackInv'
  BY DEF BackInv, Counted, Dry, Behind, Accounted, backVars

\* The device changes its state only, and not from an underrun to another one
\* than setup.
LEMMA BackState ==
  ASSUME TypeOK, BackInv, mType' = mType,
         UNCHANGED <<mFrameWritten, mFrameUnderrun, moved, status, tick, position, rewound>>,
         device'.queued = device.queued, device'.played = device.played,
         device'.state # "xrun",
         device.state \in {"xrun", "setup"} => device'.state = "setup"
  PROVE  BackInv'
  BY DEF BackInv, Counted, Dry, Behind, Accounted

\* The buffer is emptied, with the clock left alone or set back to zero.
LEMMA BackReset ==
  ASSUME TypeOK, CountInv, BackInv, mType' = mType,
         UNCHANGED <<mFrameWritten, mFrameUnderrun, moved, status, position, rewound>>,
         device'.queued = 0, device'.played \in {0, device.played},
         device'.state \in {"prepared", "setup", "closed"},
         \/ Crossed
         \/ tick' = tick /\ (tick.on => device'.state = "setup")
  PROVE  BackInv'
<1>. SUFFICES ASSUME mType = "playback" PROVE Counted' /\ Dry' /\ Behind'
  BY DEF BackInv
<1>0. Counted /\ Dry /\ Behind
  BY DEF BackInv
<1>1. /\ tick'.on = tick.on /\ tick'.failed = tick.failed
      /\ tick'.xrun = tick.xrun /\ tick'.played = tick.played
  BY DEF Crossed, TypeOK
<1>2. Counted'
  BY <1>0 DEF Counted
<1>3. Dry'
  <2>1. CASE Crossed
    BY <2>1 DEF Crossed, TypeOK, Dry
  <2>2. CASE tick' = tick /\ (tick.on => device'.state = "setup")
    BY <2>2 DEF Dry
  <2>. QED
    BY <2>1, <2>2
<1>4. ASSUME Accounted' PROVE Accounted /\ device'.played = device.played
  <2>1. mFrameUnderrun + device'.played = moved
    BY <1>4, BackNumbers DEF Accounted
  <2>2. mFrameUnderrun + device.played + device.queued <= moved
    BY DEF CountInv
  <2>. QED
    BY <2>1, <2>2, BackNumbers DEF Accounted
<1>5. Behind'
  BY <1>0, <1>1, <1>4 DEF Behind
<1>. QED
  BY <1>2, <1>3, <1>5

\* close() up to the drain, or its answer where no stream is open.
LEMMA BackClose ==
  ASSUME TypeOK, BackInv, NEW o, NEW result, NEW open, CloseFrom(o, result, open)
  PROVE  BackInv'
<1>1. /\ mType' = mType
      /\ UNCHANGED <<mFrameWritten, mFrameUnderrun, moved, status, tick, position, rewound>>
  BY DEF CloseFrom, given, counters, transferVars, reportVars
<1>2. CASE mHandle
  <2>1. device' = Drained
    BY <1>2 DEF CloseFrom
  <2>2. /\ Drained.queued = device.queued /\ Drained.played = device.played
        /\ Drained.state # "xrun"
    BY <1>2, DrainedType
  <2>3. device.state \in {"xrun", "setup"} => Drained.state = "setup"
    BY DEF Drained, TypeOK
  <2>. QED
    BY <1>1, <2>1, <2>2, <2>3, BackState
<1>3. CASE ~mHandle
  BY <1>1, <1>3, BackUnchanged DEF CloseFrom, backVars
<1>. QED
  BY <1>2, <1>3

\* What is reported is not ahead of the frames moved, nor of the device.
LEMMA BackReport ==
  ASSUME TypeOK, CountInv, BackInv, TickReport
  PROVE  BackInv'
<1>. SUFFICES ASSUME mType = "playback" PROVE Counted' /\ Dry' /\ Behind'
  BY DEF BackInv, TickReport, given
<1>0. Counted /\ Dry
  BY DEF BackInv
<1>1. /\ UNCHANGED <<device, mFrameWritten, mFrameUnderrun, moved, status>>
      /\ tick.on /\ ~tick'.on
      /\ IF tick.failed THEN UNCHANGED <<position, rewound>>
                        ELSE position' = Reading /\ rewound' = tick.crossed
  BY DEF TickReport, counters, transferVars, NoTick
<1>2. Counted' /\ Dry'
  BY <1>0, <1>1 DEF Counted, Dry
<1>3. /\ mFrameUnderrun + device.played + device.queued <= moved
      /\ mFrameWritten + status <= moved
      /\ ~tick.crossed => tick.played <= device.played
  BY <1>1 DEF CountInv
<1>4. ASSUME ~tick.crossed
      PROVE  Reading <= moved /\ (Accounted => Reading <= mFrameUnderrun + device.played)
  <2>1. CASE tick.xrun
    BY <1>0, <1>1, <1>3, <1>4, <2>1, BackNumbers DEF Reading, Dry, Accounted
  <2>2. CASE ~tick.xrun
    BY <1>3, <1>4, <2>2, BackNumbers DEF Reading
  <2>. QED
    BY <2>1, <2>2
<1>5. Behind'
  <2>1. CASE tick.failed
    BY <1>1, <2>1 DEF BackInv, Behind, Accounted
  <2>2. CASE ~tick.failed
    BY <1>1, <1>4, <2>2 DEF Behind, Accounted
  <2>. QED
    BY <2>1, <2>2
<1>. QED
  BY <1>2, <1>5

-----------------------------------------------------------------------------
(* The invariant. *)

LEMMA BackStep == IInv /\ BackInv /\ [Next]_vars => BackInv'
<1>. SUFFICES ASSUME IInv, BackInv, [Next]_vars PROVE BackInv'
  OBVIOUS
<1>. USE DEF given, counters, transferVars, callVars, reportVars, backVars
<1>0. TypeOK /\ CallInv /\ TransferInv /\ QueueInv /\ CountInv
  BY DEF IInv
<1>1. ASSUME NEW o, NotOpened(o) PROVE BackInv'
  BY <1>1, BackUnchanged DEF NotOpened
<1>2. CASE Close \/ OpenFails \/ QueryFails \/ NotConfigured
  BY <1>0, <1>2, BackClose DEF Close, OpenFails, QueryFails, NotConfigured
<1>3. CASE OpenDevice
  <2>1. /\ UNCHANGED <<mType, mFrameWritten, mFrameUnderrun, moved, status>> /\ rewound'
        /\ device'.state = "open" /\ Crossed
    BY <1>3 DEF OpenDevice, NoDevice
  <2>. QED
    BY <1>0, <2>1 DEF BackInv, Counted, Dry, Behind, Crossed, TypeOK
<1>4. CASE Query \/ \E o \in Triggers : TriggerFails(o)
  BY <1>4, BackUnchanged DEF Query, TriggerFails
<1>5. CASE Start \/ Resume \/ Pause
  <2>1. /\ UNCHANGED <<mType, mFrameWritten, mFrameUnderrun, moved, status, tick, position, rewound>>
        /\ device.state \in {"prepared", "paused", "running"}
        /\ device'.queued = device.queued /\ device'.played = device.played
        /\ device'.state \in {"running", "paused"}
    BY <1>0, <1>5 DEF Start, Resume, Pause, TypeOK
  <2>. QED
    BY <1>0, <2>1, BackState
<1>6. CASE Stop
  <2>1. UNCHANGED <<mType, mFrameWritten, mFrameUnderrun, moved, status, position, rewound>>
    BY <1>6 DEF Stop
  <2>2. CASE device' = Prepared /\ Crossed
    BY <1>0, <2>1, <2>2, BackReset DEF Prepared
  <2>3. CASE device' = [device EXCEPT !.state = "setup", !.queued = 0] /\ tick' = tick
    <3>1. device'.queued = 0 /\ device'.played = device.played /\ device'.state = "setup"
      BY <1>0, <2>3 DEF TypeOK
    <3>. QED
      BY <1>0, <2>1, <2>3, <3>1, BackReset
  <2>. QED
    BY <1>6, <2>2, <2>3 DEF Stop
<1>7. ASSUME NEW o \in {"read", "write"}, NEW n \in 0 .. MaxRequest, Transfer(o, n)
      PROVE  BackInv'
  BY <1>7, BackUnchanged DEF Transfer
<1>8. CASE StopTimer \/ ArmTimer \/ TimerStopped \/ Moved
  BY <1>8, BackUnchanged DEF StopTimer, ArmTimer, TimerStopped, Moved
<1>9. CASE CloseHandle
  <2>1. /\ UNCHANGED <<mType, mFrameWritten, mFrameUnderrun, moved, status, position, rewound, tick>>
        /\ device'.queued = 0 /\ device'.played = 0 /\ device'.state = "closed"
        /\ ~tick.on
    BY <1>9 DEF CloseHandle, NoDevice
  <2>. QED
    BY <1>0, <2>1, BackReset
<1>10. CASE Configured
  <2>1. /\ mType' = mType /\ status' = status /\ mFrameWritten' = 0 /\ moved' = 0 /\ rewound'
        /\ device'.state = "prepared" /\ Crossed
    BY <1>10 DEF Configured, Prepared
  <2>2. status = 0
    BY <1>0, <1>10 DEF Configured, TransferInv, Moving
  <2>. QED
    BY <1>0, <2>1, <2>2 DEF BackInv, Counted, Dry, Behind, Crossed, TypeOK
<1>11. CASE MoveFrame
  <2>. SUFFICES ASSUME mType = "playback" PROVE Counted' /\ Dry' /\ Behind'
    BY <1>11 DEF BackInv, MoveFrame
  <2>1. /\ status' = status + 1 /\ moved' = moved + 1
        /\ UNCHANGED <<mFrameWritten, mFrameUnderrun, tick, position, rewound>>
        /\ device.state \in {"prepared", "running", "paused"}
        /\ device'.state = device.state /\ device'.played = device.played
        /\ device'.queued = device.queued + 1
    BY <1>0, <1>11 DEF MoveFrame, Direction, TypeOK
  <2>2. Counted /\ Dry /\ Behind
    BY DEF BackInv
  <2>3. Counted'
    BY <1>0, <2>1, <2>2, BackNumbers DEF Counted
  <2>4. Dry'
    BY <2>1, <2>2 DEF Dry
  <2>5. Accounted' => Accounted
    BY <1>0, <2>1, BackNumbers DEF Accounted
  <2>6. position <= moved => position' <= moved'
    BY <1>0, <2>1, BackNumbers
  <2>7. Behind'
    BY <2>1, <2>2, <2>5, <2>6 DEF Behind
  <2>. QED
    BY <2>3, <2>4, <2>7
<1>12. ASSUME NEW result, Finish(op, result) \/ Finish("write", result),
              status = 0, UNCHANGED <<given, counters, device, reportVars>>
       PROVE  BackInv'
  BY <1>12, BackUnchanged DEF Finish
<1>13. CASE TransferRefused \/ DeviceError
  BY <1>12, <1>13 DEF TransferRefused, DeviceError
<1>14. CASE Recover
  <2>1. CASE device' = Prepared /\ Crossed /\ UNCHANGED transferVars
    BY <1>0, <1>14, <2>1, BackReset DEF Recover, Prepared
  <2>2. CASE Finish("write", "error") /\ UNCHANGED <<device, tick>>
    BY <1>12, <1>14, <2>2 DEF Recover
  <2>. QED
    BY <1>14, <2>1, <2>2 DEF Recover
<1>15. CASE Overrun
  BY <1>0, <1>15, BackReset DEF Overrun, Prepared
<1>16. CASE Underrun
  <2>. SUFFICES ASSUME mType = "playback" PROVE Counted' /\ Dry' /\ Behind'
    BY <1>16 DEF BackInv, Underrun
  <2>1. /\ UNCHANGED <<device, mFrameWritten, moved, status, tick, position, rewound>>
        /\ mFrameUnderrun' = mFrameWritten /\ status = 0
    BY <1>0, <1>16 DEF Underrun, TransferInv
  <2>2. Counted /\ Dry /\ Behind
    BY DEF BackInv
  <2>3. Counted' /\ Dry'
    BY <2>1, <2>2 DEF Counted, Dry
  <2>4. mFrameUnderrun' = moved
    BY <1>0, <2>1, <2>2, BackNumbers DEF Counted
  <2>5. position <= moved => /\ position' <= mFrameUnderrun' + device'.played
                             /\ position' <= mFrameUnderrun' + tick'.played
    BY <1>0, <2>1, <2>4, BackNumbers
  <2>6. Behind'
    BY <2>1, <2>2, <2>5 DEF Behind
  <2>. QED
    BY <2>3, <2>6
<1>17. CASE Count
  <2>. SUFFICES ASSUME mType = "playback" PROVE Counted' /\ Dry' /\ Behind'
    BY <1>17 DEF BackInv, Count
  <2>1. /\ UNCHANGED <<device, mFrameUnderrun, moved, tick, position, rewound>>
        /\ mFrameWritten' = mFrameWritten + status /\ status' = 0
    BY <1>0, <1>17 DEF Count, TransferInv, Direction
  <2>2. Counted /\ Dry /\ Behind
    BY DEF BackInv
  <2>3. Counted'
    BY <1>0, <2>1, <2>2, BackNumbers DEF Counted
  <2>4. Dry' /\ Behind'
    BY <2>1, <2>2 DEF Dry, Behind, Accounted
  <2>. QED
    BY <2>3, <2>4
<1>18. CASE NextTurn
  <2>1. status = 0
    BY <1>0, <1>18 DEF NextTurn, TransferInv
  <2>2. CASE UNCHANGED transferVars
    BY <1>18, <2>2, BackUnchanged DEF NextTurn
  <2>3. CASE Finish(op, "ok")
    BY <1>12, <1>18, <2>1, <2>3 DEF NextTurn
  <2>. QED
    BY <1>18, <2>2, <2>3 DEF NextTurn
<1>19. CASE Restart
  <2>1. status = 0
    BY <1>0, <1>19 DEF Restart, TransferInv
  <2>2. CASE device.state = "prepared" /\ device' = [device EXCEPT !.state = "running"]
    <3>1. UNCHANGED <<mType, mFrameWritten, mFrameUnderrun, moved, status, tick, position, rewound>>
      BY <1>19, <2>1 DEF Restart, Finish
    <3>2. /\ device'.queued = device.queued /\ device'.played = device.played
          /\ device'.state = "running"
      BY <1>0, <2>2 DEF TypeOK
    <3>. QED
      BY <1>0, <2>2, <3>1, <3>2, BackState
  <2>3. CASE Finish("write", "error") /\ UNCHANGED device
    BY <1>12, <1>19, <2>1, <2>3 DEF Restart
  <2>. QED
    BY <1>19, <2>2, <2>3 DEF Restart
<1>20. CASE Play
  <2>1. /\ UNCHANGED <<mType, mFrameWritten, mFrameUnderrun, moved, status, tick, position, rewound>>
        /\ mType = "playback" /\ device.state \in {"running", "draining"}
        /\ device'.queued = device.queued - 1 /\ device'.played = device.played + 1
        /\ device'.state = "xrun" => device.queued <= 1
    BY <1>0, <1>20, BackNumbers DEF Play
  <2>2. Counted /\ Dry /\ Behind /\ device.queued > 0
    BY <1>0, <2>1 DEF BackInv, QueueInv
  <2>3. Counted' /\ Dry'
    BY <1>0, <2>1, <2>2, BackNumbers DEF Counted, Dry
  <2>4. Accounted' => Accounted
    BY <1>0, <2>1, BackNumbers DEF Accounted
  <2>5. position <= mFrameUnderrun + device.played =>
          position' <= mFrameUnderrun' + device'.played
    BY <1>0, <2>1, BackNumbers
  <2>6. Behind'
    BY <2>1, <2>2, <2>4, <2>5 DEF Behind
  <2>. QED
    BY <2>3, <2>6 DEF BackInv
<1>21. CASE Record
  BY <1>21 DEF Record, BackInv
<1>22. CASE TickSnapshot
  <2>1. /\ UNCHANGED <<mType, device, mFrameWritten, mFrameUnderrun, moved, status, position, rewound>>
    BY <1>22 DEF TickSnapshot
  <2>2. PICK failed \in BOOLEAN :
          tick' = [on |-> TRUE, failed |-> failed,
                   xrun |-> ~failed /\ device.state = "xrun",
                   played |-> IF failed THEN 0 ELSE device.played, crossed |-> FALSE]
    BY <1>22 DEF TickSnapshot
  <2>3. /\ ~tick'.failed => tick'.played = device.played
        /\ tick'.xrun => device.state = "xrun"
    BY <2>2
  <2>. QED
    BY <2>1, <2>3 DEF BackInv, Counted, Dry, Behind, Accounted
<1>23. CASE TickReport
  BY <1>0, <1>23, BackReport
<1>24. CASE UNCHANGED vars
  BY <1>24, BackUnchanged DEF vars
<1>. QED
  BY <1>1, <1>2, <1>3, <1>4, <1>5, <1>6, <1>7, <1>8, <1>9, <1>10, <1>11, <1>13, <1>14,
     <1>15, <1>16, <1>17, <1>18, <1>19, <1>20, <1>21, <1>22, <1>23, <1>24
  DEF Next, Command, Step, Hardware, Tick

LEMMA BackInit == Init => BackInv
  BY DEF Init, BackInv, Counted, Dry, Behind, Accounted, NoTick, NoDevice

\* A report of a status that was read does not lie below an earlier one, while the clock and mFrameUnderrun
\* account for every frame: across any number of underruns, whatever the callback
\* of the timer thread interleaves with.
THEOREM NeverGoesBack == Spec => NeverBack
<1>1. BackInv /\ IInv /\ [Next]_vars =>
        [(/\ Reports /\ mType = "playback"
          /\ ~tick.failed /\ ~rewound
          /\ Accounted
          /\ tick.xrun => mFrameWritten = moved) => Reading >= position]_vars
  <2>. SUFFICES ASSUME BackInv, IInv, Next, Reports, mType = "playback",
                       ~tick.failed, ~rewound, Accounted,
                       tick.xrun => mFrameWritten = moved
                PROVE  Reading >= position
    BY DEF vars
  <2>1. TypeOK /\ TickReport
    BY OnlyReportEnds DEF IInv, Reports
  <2>2. tick.on
    BY <2>1 DEF TickReport
  <2>3. Behind
    BY DEF BackInv
  <2>. QED
    BY <2>1, <2>2, <2>3, BackNumbers DEF Behind, Reading
<1>2. Spec => []BackInv
  BY BackInit, BackStep, Invariant, PTL DEF Spec
<1>. QED
  BY <1>1, <1>2, Invariant, PTL DEF Spec, NeverBack
=============================================================================
