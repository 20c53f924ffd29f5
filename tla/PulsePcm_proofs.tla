-------------------------- MODULE PulsePcm_proofs --------------------------
(* The inductive invariant of PulsePcm and the safety theorems it gives.    *)
EXTENDS PulsePcm, TLAPS

\* A thread waits where the call it is in can wait.
CallInv ==
  \A s \in Streams :
    /\ pc[s] = "idle" => op[s] = "none"
    /\ pc[s] = "open" => op[s] = "open"
    /\ pc[s] = "cork" => op[s] \in Triggers
    /\ pc[s] = "flush" => op[s] \in {"stop", "close"}
    /\ pc[s] = "disconnect" => op[s] = "close"
    /\ pc[s] = "transfer" => op[s] \in {"read", "write"}

\* Only a stream the server knows has requests outstanding, and one that is
\* being created has exactly that one, with its thread waiting for it.
StreamInv ==
  \A s \in Streams :
    /\ mStream[s] \in {"creating", "ready"} => context = "ready"
    /\ mStream[s] \notin {"creating", "ready"} => inflight[s] = <<>>
    /\ mStream[s] = "creating" => inflight[s] = <<"create">> /\ pc[s] = "open"
    /\ Outstanding(s, "create") => mStream[s] = "creating"

\* The thread does not leave a wait whose operation is outstanding.
WaitInv ==
  \A s \in Streams :
    /\ Outstanding(s, "cork") => pc[s] = "cork"
    /\ Outstanding(s, "flush") => pc[s] = "flush"

\* On a healthy stream mSuccess is the verdict on the trigger in progress as
\* soon as its cork is no longer outstanding.
AckInv ==
  \A s \in Streams : mStream[s] = "ready" =>
    /\ (pc[s] = "cork" /\ mSuccess[s] /\ ~Outstanding(s, "cork")) => acked[s]
    /\ (pc[s] = "flush" /\ op[s] = "stop") => acked[s]

\* Where an orderly frontend can be while a call runs, and its time event.
TimerInv ==
  Orderly => \A s \in Streams :
    /\ ~stray[s]
    /\ pc[s] = "open" => phase[s] = "closed"
    /\ (pc[s] = "cork" /\ op[s] = "start") => phase[s] = "opened"
    /\ (pc[s] # "idle" /\ op[s] = "close") => ~mTimeEvent[s]
    /\ mTimeEvent[s] => phase[s] \in {"running", "paused"}

\* While close() waits for its flush nothing is asked after it, and nothing
\* but the delete is outstanding when it waits for the end of the stream.
Quiet(s) ==
  /\ (pc[s] = "flush" /\ op[s] = "close" /\ inflight[s] # <<>>)
       => inflight[s][Len(inflight[s])] = "flush"
  /\ pc[s] = "disconnect" => inflight[s] \in {<<>>, <<"delete">>}

QuietInv == Orderly => \A s \in Playback : Quiet(s)

IInv ==
  /\ TypeOK /\ CallInv /\ StreamInv /\ WaitInv /\ AckInv
  /\ NoLostWakeup /\ TimerInv /\ QuietInv /\ PlaybackCloseQuiet

-----------------------------------------------------------------------------
(* What the operators of the model preserve. *)

\* A call that returns leaves the threads well typed.
LEMMA AnswerType ==
  ASSUME ThreadOK, NEW s \in Streams, NEW o \in Ops, NEW r \in {"ok", "error"},
         Answer(s, o, r)
  PROVE  ThreadOK'
  BY DEF ThreadOK, Answer, PhaseAfter, Ops, Triggers, Phases

\* So does one that waits.
LEMMA WaitType ==
  ASSUME ThreadOK, NEW s \in Streams, NEW o \in Ops, NEW n \in Nat,
         NEW at \in {"open", "cork", "flush", "disconnect", "transfer"},
         WaitAt(s, o, n, at)
  PROVE  ThreadOK'
  BY DEF ThreadOK, WaitAt, Ops, Triggers

\* A request keeps the queues of requests well typed.
LEMMA SendType ==
  ASSUME PulseOK, NEW s \in Streams, NEW r \in Requests, Send(s, r)
  PROVE  inflight' \in [Streams -> Seq(Requests)]
  BY DEF PulseOK, Send

\* What can be moved without waiting is within the capacity.
LEMMA RoomType ==
  ASSUME PulseOK, ObjectOK, NEW s \in Streams
  PROVE  Room(s) \in 0 .. Capacity
  BY PulseAssumption DEF PulseOK, ObjectOK, Room

\* Remainders.
LEMMA ModFacts ==
  ASSUME NEW a \in Nat, NEW b \in Nat \ {0}
  PROVE  a % b \in 0 .. b - 1 /\ a % b <= a /\ (a < b => a % b = a)
  OBVIOUS

\* Moving what there is room for keeps the buffer and the read position in range.
LEMMA MoveType ==
  ASSUME PulseOK, ObjectOK, NEW s \in Streams, NEW k \in 0 .. Room(s), Move(s, k)
  PROVE  /\ queue' \in [Streams -> 0 .. Capacity]
         /\ mReadIndex' \in [Streams -> 0 .. Fragment - 1]
<1>1. /\ Capacity \in Nat /\ Fragment \in Nat \ {0}
      /\ queue[s] \in 0 .. Capacity /\ mReadIndex[s] \in 0 .. Fragment - 1
      /\ Room(s) \in 0 .. Capacity
  BY PulseAssumption, RoomType DEF PulseOK, ObjectOK
<1>2. CASE s \in Playback
  <2>1. queue[s] + k \in 0 .. Capacity
    BY <1>1, <1>2 DEF Room
  <2>. QED
    BY <1>2, <2>1 DEF PulseOK, ObjectOK, Move
<1>3. CASE s \notin Playback
  <2> DEFINE index == mReadIndex[s] + k
             rest  == index % Fragment
  <2>1. index \in Nat /\ k \in Nat
    BY <1>1
  <2>2. rest \in 0 .. Fragment - 1 /\ rest <= index /\ (index < Fragment => rest = index)
    BY <1>1, <2>1, ModFacts
  <2>3. index <= queue[s] \/ (k = 0 /\ index < Fragment)
    BY <1>1, <1>3 DEF Room
  <2>4. queue[s] - (index - rest) \in 0 .. Capacity
    <3> HIDE DEF index, rest
    <3>. QED
      BY <1>1, <2>1, <2>2, <2>3
  <2>. QED
    BY <1>3, <2>2, <2>4 DEF PulseOK, ObjectOK, Move
<1>. QED
  BY <1>2, <1>3

\* The end of close() keeps the types.
LEMMA DisconnectType ==
  ASSUME PulseOK, ThreadOK, NEW s \in Streams, Disconnect(s)
  PROVE  ThreadOK' /\ inflight' \in [Streams -> Seq(Requests)]
<1>1. ThreadOK'
  BY WaitType DEF Disconnect, Ops
<1>2. inflight' \in [Streams -> Seq(Requests)]
  BY SendType DEF Disconnect, PulseOK, Requests
<1>. QED
  BY <1>1, <1>2

\* Every turn of the loops of read and write keeps the types.
LEMMA TransferType ==
  ASSUME PulseOK, ObjectOK, ThreadOK, NEW s \in Streams,
         NEW o \in {"read", "write"}, NEW n \in Nat, Transfer(s, o, n)
  PROVE  /\ ThreadOK'
         /\ queue' \in [Streams -> 0 .. Capacity]
         /\ mReadIndex' \in [Streams -> 0 .. Fragment - 1]
<1>1. Room(s) \in 0 .. Capacity /\ Capacity \in Nat /\ o \in Ops
  BY RoomType, PulseAssumption DEF Ops
<1>2. CASE Answer(s, o, "error") /\ UNCHANGED <<queue, mReadIndex>>
  BY <1>1, <1>2, AnswerType DEF PulseOK, ObjectOK
<1>3. CASE n <= Room(s) /\ Move(s, n) /\ Answer(s, o, "ok")
  BY <1>1, <1>3, AnswerType, MoveType
<1>4. CASE n > Room(s) /\ Move(s, Room(s)) /\ WaitAt(s, o, n - Room(s), "transfer")
  <2>1. n - Room(s) \in Nat /\ Room(s) \in 0 .. Room(s)
    BY <1>1, <1>4
  <2>2. ThreadOK'
    BY <1>1, <1>4, <2>1, WaitType
  <2>3. /\ queue' \in [Streams -> 0 .. Capacity]
        /\ mReadIndex' \in [Streams -> 0 .. Fragment - 1]
    BY <1>4, <2>1, MoveType
  <2>. QED
    BY <2>2, <2>3
<1>. QED
  BY <1>2, <1>3, <1>4 DEF Transfer

\* Every step keeps the types.
LEMMA TypeStep == TypeOK /\ CallInv /\ [Next]_vars => TypeOK'
<1> SUFFICES ASSUME TypeOK, CallInv, [Next]_vars PROVE TypeOK'
  OBVIOUS
<1> USE PulseAssumption DEF TypeOK
<1>1. ASSUME NEW s \in Streams, OpenRefused(s) PROVE TypeOK'
  <2>1. mReadIndex' \in [Streams -> 0 .. Fragment - 1]
    BY <1>1 DEF OpenRefused, ObjectOK
  <2>. QED
    BY <1>1, <2>1
    DEF OpenRefused, Begin, Answer, PhaseAfter, pulse, PulseOK, ObjectOK, ThreadOK,
        Ops, Triggers, Requests, Phases, States
<1>2. ASSUME NEW s \in Streams, OpenNotConnected(s) PROVE TypeOK'
  BY <1>2
  DEF OpenNotConnected, Begin, Answer, PhaseAfter, PulseOK, ObjectOK, ThreadOK,
      Ops, Triggers, Requests, Phases, States
<1>3. ASSUME NEW s \in Streams, OpenConnect(s) PROVE TypeOK'
  BY <1>3
  DEF OpenConnect, Begin, WaitAt, Send, PulseOK, ObjectOK, ThreadOK,
      Ops, Triggers, Requests, Phases, States
<1>4. ASSUME NEW s \in Streams, NEW o \in Triggers, TriggerNull(s, o)
      PROVE  TypeOK'
  BY <1>4
  DEF TriggerNull, Begin, pulse, object, thread, PulseOK, ObjectOK, ThreadOK,
      Ops, Triggers, Requests, Phases, States
<1>5. ASSUME NEW s \in Streams, NEW o \in Triggers, TriggerRefused(s, o)
      PROVE  TypeOK'
  BY <1>5
  DEF TriggerRefused, Begin, Answer, PhaseAfter, pulse, object, PulseOK, ObjectOK, ThreadOK,
      Ops, Triggers, Requests, Phases, States
<1>6. ASSUME NEW s \in Streams, NEW o \in Triggers, TriggerSend(s, o)
      PROVE  TypeOK'
  BY <1>6
  DEF TriggerSend, Begin, WaitAt, Send, object, PulseOK, ObjectOK, ThreadOK,
      Ops, Triggers, Requests, Phases, States
<1>7. ASSUME NEW s \in Streams, CloseNull(s) PROVE TypeOK'
  BY <1>7
  DEF CloseNull, Begin, Answer, StopTimer, PhaseAfter, pulse, PulseOK, ObjectOK, ThreadOK,
      Ops, Triggers, Requests, Phases, States
<1>8. ASSUME NEW s \in Streams, Close(s) PROVE TypeOK'
  <2>1. ThreadOK' /\ inflight' \in [Streams -> Seq(Requests)]
    BY <1>8, DisconnectType, WaitType, SendType DEF Close, Ops, Requests
  <2>. QED
    BY <1>8, <2>1 DEF Close, Begin, StopTimer, PulseOK, ObjectOK
<1>9. ASSUME NEW s \in Streams, NEW o \in {"read", "write"}, NEW n \in 0 .. Capacity + 1, ReadOrWrite(s, o, n)
      PROVE  TypeOK'
  <2>1. n \in Nat /\ o \in Ops
    BY DEF Ops
  <2>2. CASE Transfer(s, o, n)
    BY <1>9, <2>1, <2>2, TransferType DEF ReadOrWrite, Begin, PulseOK, ObjectOK
  <2>3. CASE Answer(s, o, "error") /\ UNCHANGED <<queue, mReadIndex>>
    <3>1. ThreadOK'
      BY <2>1, <2>3, AnswerType
    <3>. QED
      BY <1>9, <2>3, <3>1 DEF ReadOrWrite, Begin, PulseOK, ObjectOK
  <2>. QED
    BY <1>9, <2>2, <2>3 DEF ReadOrWrite
<1>10. ASSUME NEW s \in Streams, OpenWake(s) PROVE TypeOK'
  <2>1. ThreadOK'
    BY <1>10, AnswerType, WaitType DEF OpenWake, Ops
  <2>. QED
    BY <1>10, <2>1 DEF OpenWake, Wake, pulse, object, PulseOK, ObjectOK
<1>11. ASSUME NEW s \in Streams, CorkWaitsOn(s) PROVE TypeOK'
  BY <1>11
  DEF CorkWaitsOn, Wake, WaitAt, pulse, object, PulseOK, ObjectOK, ThreadOK,
      Ops, Triggers, Requests, Phases, States
<1>12. ASSUME NEW s \in Streams, CorkFailed(s) PROVE TypeOK'
  BY <1>12
  DEF CorkFailed, Wake, Answer, PhaseAfter, pulse, object, PulseOK, ObjectOK, ThreadOK,
      Ops, Triggers, Requests, Phases, States
<1>13. ASSUME NEW s \in Streams, Started(s) PROVE TypeOK'
  <2>1. ThreadOK'
    BY <1>13, AnswerType DEF Started, Ops, Triggers
  <2>. QED
    BY <1>13, <2>1 DEF Started, Wake, StopTimer, pulse, PulseOK, ObjectOK
<1>14. ASSUME NEW s \in Streams, PausedOrResumed(s) PROVE TypeOK'
  BY <1>14
  DEF PausedOrResumed, Wake, Answer, PhaseAfter, pulse, object, PulseOK, ObjectOK, ThreadOK,
      Ops, Triggers, Requests, Phases, States
<1>15. ASSUME NEW s \in Streams, StopFlushes(s) PROVE TypeOK'
  <2>1. ThreadOK' /\ inflight' \in [Streams -> Seq(Requests)]
    BY <1>15, AnswerType, WaitType, SendType
    DEF StopFlushes, Ops, Triggers, Requests, PulseOK
  <2>. QED
    BY <1>15, <2>1 DEF StopFlushes, Wake, StopTimer, PulseOK, ObjectOK
<1>16. ASSUME NEW s \in Streams, FlushWaitsOn(s) PROVE TypeOK'
  BY <1>16
  DEF FlushWaitsOn, Wake, WaitAt, pulse, object, PulseOK, ObjectOK, ThreadOK,
      Ops, Triggers, Requests, Phases, States
<1>17. ASSUME NEW s \in Streams, StopFlushed(s) PROVE TypeOK'
  BY <1>17
  DEF StopFlushed, Wake, Answer, StopTimer, PhaseAfter, pulse, PulseOK, ObjectOK, ThreadOK,
      Ops, Triggers, Requests, Phases, States
<1>18. ASSUME NEW s \in Streams, CloseFlushed(s) PROVE TypeOK'
  <2>1. ThreadOK' /\ inflight' \in [Streams -> Seq(Requests)]
    BY <1>18, DisconnectType DEF CloseFlushed
  <2>. QED
    BY <1>18, <2>1 DEF CloseFlushed, Wake, object, PulseOK, ObjectOK
<1>19. ASSUME NEW s \in Streams, DisconnectWake(s) PROVE TypeOK'
  BY <1>19
  DEF DisconnectWake, Wake, Answer, PhaseAfter, object, PulseOK, ObjectOK, ThreadOK,
      Ops, Triggers, Requests, Phases, States
<1>20. ASSUME NEW s \in Streams, TransferWake(s) PROVE TypeOK'
  <2>1. op[s] \in {"read", "write"} /\ size[s] \in Nat
    BY <1>20 DEF TransferWake, Wake, CallInv, ThreadOK
  <2>. QED
    BY <1>20, <2>1, TransferType DEF TransferWake, Wake, PulseOK, ObjectOK
<1>21. ASSUME NEW s \in Streams, NEW ok \in BOOLEAN, ReplyCreate(s, ok)
      PROVE  TypeOK'
  BY <1>21
  DEF ReplyCreate, Signal, Answered, Due, object, thread, PulseOK, ObjectOK, ThreadOK,
      Ops, Triggers, Requests, Phases, States
<1>22. ASSUME NEW s \in Streams, NEW ok \in BOOLEAN, ReplyCork(s, ok)
      PROVE  TypeOK'
  BY <1>22
  DEF ReplyCork, Signal, Answered, Due, PulseOK, ObjectOK, ThreadOK,
      Ops, Triggers, Requests, Phases, States
<1>23. ASSUME NEW s \in Streams, NEW ok \in BOOLEAN, ReplyFlush(s, ok)
      PROVE  TypeOK'
  BY <1>23
  DEF ReplyFlush, Signal, Answered, Due, thread, PulseOK, ObjectOK, ThreadOK,
      Ops, Triggers, Requests, Phases, States
<1>24. ASSUME NEW s \in Streams, ReplyDelete(s) PROVE TypeOK'
  BY <1>24
  DEF ReplyDelete, Signal, Due, object, thread, PulseOK, ObjectOK, ThreadOK,
      Ops, Triggers, Requests, Phases, States
<1>25. ASSUME NEW s \in Streams, ReplyTiming(s) PROVE TypeOK'
  BY <1>25
  DEF ReplyTiming, Signal, Answered, Due, object, thread, PulseOK, ObjectOK, ThreadOK,
      Ops, Triggers, Requests, Phases, States
<1>26. ASSUME NEW s \in Streams, ReplyDetached(s) PROVE TypeOK'
  BY <1>26
  DEF ReplyDetached, object, thread, PulseOK, ObjectOK, ThreadOK,
      Ops, Triggers, Requests, Phases, States
<1>27. ASSUME NEW s \in Streams, StreamRequest(s) PROVE TypeOK'
  <2>1. ASSUME \E k \in 1 .. queue[s] : queue' = [queue EXCEPT ![s] = @ - k]
        PROVE  queue' \in [Streams -> 0 .. Capacity]
    <3>1. PICK k \in 1 .. queue[s] : queue' = [queue EXCEPT ![s] = @ - k]
      BY <2>1
    <3>2. queue[s] - k \in 0 .. Capacity
      BY DEF PulseOK
    <3>. QED
      BY <3>1, <3>2 DEF PulseOK
  <2>2. ASSUME queue[s] + Fragment <= Capacity, queue' = [queue EXCEPT ![s] = @ + Fragment]
        PROVE  queue' \in [Streams -> 0 .. Capacity]
    BY <2>2 DEF PulseOK
  <2>3. queue' \in [Streams -> 0 .. Capacity]
    BY <1>27, <2>1, <2>2 DEF StreamRequest
  <2>. QED
    BY <1>27, <2>3 DEF StreamRequest, Signal, object, thread, PulseOK, ObjectOK, ThreadOK
<1>28. ASSUME NEW s \in Streams, StreamFailed(s) PROVE TypeOK'
  BY <1>28
  DEF StreamFailed, Signal, object, thread, PulseOK, ObjectOK, ThreadOK,
      Ops, Triggers, Requests, Phases, States
<1>29. ASSUME NEW s \in Streams, TimeEvent(s) PROVE TypeOK'
  BY <1>29
  DEF TimeEvent, Send, object, thread, PulseOK, ObjectOK, ThreadOK,
      Ops, Triggers, Requests, Phases, States
<1>30. ASSUME NEW s \in Streams, LatencyUpdate(s) PROVE TypeOK'
  BY <1>30 DEF LatencyUpdate, Signal, pulse, object, thread, PulseOK, ObjectOK, ThreadOK
<1>31. CASE ContextFailed
  BY <1>31 DEF ContextFailed, Signal, object, thread, PulseOK, ObjectOK, ThreadOK, States
<1>32. CASE UNCHANGED vars
  BY <1>32 DEF vars, pulse, object, thread, PulseOK, ObjectOK, ThreadOK
<1>. QED
  BY <1>1, <1>2, <1>3, <1>4, <1>5, <1>6, <1>7, <1>8, <1>9, <1>10, <1>11,
     <1>12, <1>13, <1>14, <1>15, <1>16, <1>17, <1>18, <1>19, <1>20, <1>21,
     <1>22, <1>23, <1>24, <1>25, <1>26, <1>27, <1>28, <1>29, <1>30, <1>31,
     <1>32
  DEF Next, Command, Resume, Reply, Trigger, TriggerWake, FlushWake

-----------------------------------------------------------------------------
(* What an answer and a request do to the requests outstanding.             *)

\* A request is the last one outstanding, and the only new one.
LEMMA SendFacts ==
  ASSUME PulseOK, NEW s \in Streams, NEW r \in Requests, Send(s, r)
  PROVE  /\ \A t \in Streams \ {s} : inflight'[t] = inflight[t]
         /\ inflight'[s] = Append(inflight[s], r)
         /\ Len(inflight'[s]) = Len(inflight[s]) + 1
         /\ inflight'[s][Len(inflight'[s])] = r
         /\ \A t \in Streams, q \in Requests :
              Outstanding(t, q)' <=> (Outstanding(t, q) \/ (t = s /\ q = r))
<1>1. inflight \in [Streams -> Seq(Requests)]
  BY DEF PulseOK
<1>2. /\ inflight' = [inflight EXCEPT ![s] = Append(@, r)]
      /\ inflight'[s] = Append(inflight[s], r)
  BY <1>1 DEF Send
<1>3. /\ Len(inflight'[s]) = Len(inflight[s]) + 1
      /\ inflight'[s][Len(inflight[s]) + 1] = r
      /\ \A i \in 1 .. Len(inflight[s]) : inflight'[s][i] = inflight[s][i]
      /\ Len(inflight[s]) \in Nat
  BY <1>1, <1>2
<1>4. \A t \in Streams \ {s} : inflight'[t] = inflight[t]
  BY <1>1, <1>2
<1>5. ASSUME NEW t \in Streams, NEW q \in Requests
      PROVE  Outstanding(t, q)' <=> (Outstanding(t, q) \/ (t = s /\ q = r))
  <2>1. CASE t # s
    BY <1>4, <2>1 DEF Outstanding
  <2>2. CASE t = s
    BY <1>3, <2>2 DEF Outstanding
  <2>. QED
    BY <2>1, <2>2
<1>. QED
  BY <1>2, <1>3, <1>4, <1>5

\* An answer takes the first request away and no other.
LEMMA AnsweredFacts ==
  ASSUME PulseOK, NEW s \in Streams, NEW r \in Requests, Answered(s, r)
  PROVE  /\ \A t \in Streams \ {s} : inflight'[t] = inflight[t]
         /\ inflight'[s] = Tail(inflight[s])
         /\ Outstanding(s, r)
         /\ \A t \in Streams, q \in Requests : Outstanding(t, q)' => Outstanding(t, q)
         /\ \A t \in Streams, q \in Requests \ {r} :
              Outstanding(t, q) => Outstanding(t, q)'
<1>1. inflight \in [Streams -> Seq(Requests)]
  BY DEF PulseOK
<1>2. /\ inflight'[s] = Tail(inflight[s]) /\ inflight[s] # <<>>
      /\ Head(inflight[s]) = r
      /\ \A t \in Streams \ {s} : inflight'[t] = inflight[t]
  BY <1>1 DEF Answered, Due
<1>3. /\ Len(inflight[s]) \in Nat \ {0}
      /\ Len(inflight'[s]) = Len(inflight[s]) - 1
      /\ inflight[s][1] = r
      /\ \A i \in 1 .. Len(inflight[s]) - 1 : inflight'[s][i] = inflight[s][i + 1]
  BY <1>1, <1>2
<1>4. Outstanding(s, r)
  BY <1>3 DEF Outstanding
<1>5. ASSUME NEW t \in Streams, NEW q \in Requests, Outstanding(t, q)'
      PROVE  Outstanding(t, q)
  <2>1. CASE t # s
    BY <1>2, <1>5, <2>1 DEF Outstanding
  <2>2. CASE t = s
    <3>1. PICK i \in 1 .. Len(inflight'[s]) : inflight'[s][i] = q
      BY <1>5, <2>2 DEF Outstanding
    <3>2. i + 1 \in 1 .. Len(inflight[s]) /\ inflight[s][i + 1] = q
      BY <1>3, <3>1
    <3>. QED
      BY <2>2, <3>2 DEF Outstanding
  <2>. QED
    BY <2>1, <2>2
<1>6. ASSUME NEW t \in Streams, NEW q \in Requests \ {r}, Outstanding(t, q)
      PROVE  Outstanding(t, q)'
  <2>1. CASE t # s
    BY <1>2, <1>6, <2>1 DEF Outstanding
  <2>2. CASE t = s
    <3>1. PICK i \in 1 .. Len(inflight[s]) : inflight[s][i] = q
      BY <1>6, <2>2 DEF Outstanding
    <3>2. /\ i - 1 \in 1 .. Len(inflight'[s])
          /\ inflight'[s][i - 1] = inflight[s][(i - 1) + 1]
          /\ (i - 1) + 1 = i
      BY <1>3, <3>1
    <3>. QED
      BY <2>2, <3>1, <3>2 DEF Outstanding
  <2>. QED
    BY <2>1, <2>2
<1>. QED
  BY <1>2, <1>4, <1>5, <1>6

\* Nothing is outstanding in an empty queue; equal queues hold the same.
LEMMA EmptyFacts ==
  /\ \A t \in Streams, q \in Requests : inflight[t] = <<>> => ~Outstanding(t, q)
  /\ \A t \in Streams, q \in Requests : inflight'[t] = <<>> => ~Outstanding(t, q)'
  /\ \A t \in Streams, q \in Requests :
       inflight'[t] = inflight[t] => (Outstanding(t, q)' <=> Outstanding(t, q))
  BY DEF Outstanding

\* After as much as can be moved without waiting, nothing more can.
LEMMA MoveAllEmpties ==
  ASSUME PulseOK, ObjectOK, NEW s \in Streams, Move(s, Room(s))
  PROVE  Room(s)' = 0
<1>1. /\ Capacity \in Nat /\ Fragment \in Nat \ {0}
      /\ queue[s] \in 0 .. Capacity /\ mReadIndex[s] \in 0 .. Fragment - 1
  BY PulseAssumption DEF PulseOK, ObjectOK
<1>2. CASE s \in Playback
  <2>1. queue'[s] = Capacity
    BY <1>1, <1>2 DEF Move, Room, PulseOK
  <2>. QED
    BY <1>1, <1>2, <2>1 DEF Room
<1>3. CASE s \notin Playback
  <2> DEFINE index == mReadIndex[s] + Room(s)
             rest  == index % Fragment
  <2>1. queue'[s] = queue[s] - (index - rest) /\ mReadIndex'[s] = rest
    BY <1>3 DEF Move, PulseOK, ObjectOK
  <2>2. CASE queue[s] >= mReadIndex[s]
    <3>1. index = queue[s]
      BY <1>1, <1>3, <2>2 DEF Room
    <3>2. rest \in Nat
      BY <1>1, <3>1, ModFacts
    <3>3. queue'[s] = mReadIndex'[s] /\ mReadIndex'[s] \in Nat
      <4> HIDE DEF index, rest
      <4>. QED
        BY <1>1, <2>1, <3>1, <3>2
    <3>. QED
      BY <1>3, <3>3 DEF Room
  <2>3. CASE queue[s] < mReadIndex[s]
    <3>1. index = mReadIndex[s] /\ rest = index
      <4>1. index = mReadIndex[s]
        BY <1>1, <1>3, <2>3 DEF Room
      <4>2. index \in Nat /\ index < Fragment
        BY <1>1, <4>1
      <4>. QED
        BY <1>1, <4>1, <4>2, ModFacts
    <3>2. queue'[s] = queue[s] /\ mReadIndex'[s] = mReadIndex[s]
      <4> HIDE DEF index, rest
      <4>. QED
        BY <1>1, <2>1, <3>1
    <3>. QED
      BY <1>1, <1>3, <2>3, <3>2 DEF Room
  <2>. QED
    BY <1>1, <2>2, <2>3
<1>. QED
  BY <1>2, <1>3

-----------------------------------------------------------------------------
(* The steps, one invariant at a time.                                      *)

\* The call a thread is in.
LEMMA CallStep ==
  TypeOK /\ CallInv /\ [Next]_vars => CallInv'
<1> SUFFICES ASSUME PulseOK, ObjectOK, ThreadOK, CallInv, [Next]_vars PROVE
      CallInv'
  BY DEF TypeOK
<1> USE DEF CallInv, ThreadOK, Triggers
<1>1. ASSUME NEW s \in Streams, OpenRefused(s) PROVE CallInv'
  BY <1>1 DEF OpenRefused, Begin, Answer
<1>2. ASSUME NEW s \in Streams, OpenNotConnected(s) PROVE CallInv'
  BY <1>2 DEF OpenNotConnected, Begin, Answer
<1>3. ASSUME NEW s \in Streams, OpenConnect(s) PROVE CallInv'
  BY <1>3 DEF OpenConnect, Begin, WaitAt
<1>4. ASSUME NEW s \in Streams, NEW o \in Triggers, TriggerNull(s, o) PROVE
      CallInv'
  BY <1>4 DEF TriggerNull, Begin, thread
<1>5. ASSUME NEW s \in Streams, NEW o \in Triggers, TriggerRefused(s, o) PROVE
      CallInv'
  BY <1>5 DEF TriggerRefused, Begin, Answer
<1>6. ASSUME NEW s \in Streams, NEW o \in Triggers, TriggerSend(s, o) PROVE
      CallInv'
  BY <1>6 DEF TriggerSend, Begin, WaitAt
<1>7. ASSUME NEW s \in Streams, CloseNull(s) PROVE CallInv'
  BY <1>7 DEF CloseNull, Begin, Answer
<1>8. ASSUME NEW s \in Streams, Close(s) PROVE CallInv'
  BY <1>8 DEF Close, Disconnect, Begin, WaitAt
<1>9. ASSUME NEW s \in Streams, NEW o \in {"read", "write"}, NEW n \in 0 ..
      Capacity + 1, ReadOrWrite(s, o, n) PROVE CallInv'
  BY <1>9 DEF ReadOrWrite, Transfer, Begin, Answer, WaitAt
<1>10. ASSUME NEW s \in Streams, OpenWake(s) PROVE CallInv'
  BY <1>10 DEF OpenWake, Wake, Answer, WaitAt
<1>11. ASSUME NEW s \in Streams, CorkWaitsOn(s) PROVE CallInv'
  BY <1>11 DEF CorkWaitsOn, Wake, WaitAt
<1>12. ASSUME NEW s \in Streams, CorkFailed(s) PROVE CallInv'
  BY <1>12 DEF CorkFailed, Wake, Answer
<1>13. ASSUME NEW s \in Streams, Started(s) PROVE CallInv'
  BY <1>13 DEF Started, Wake, Answer
<1>14. ASSUME NEW s \in Streams, PausedOrResumed(s) PROVE CallInv'
  BY <1>14 DEF PausedOrResumed, Wake, Answer
<1>15. ASSUME NEW s \in Streams, StopFlushes(s) PROVE CallInv'
  BY <1>15 DEF StopFlushes, Wake, Answer, WaitAt
<1>16. ASSUME NEW s \in Streams, FlushWaitsOn(s) PROVE CallInv'
  BY <1>16 DEF FlushWaitsOn, Wake, WaitAt
<1>17. ASSUME NEW s \in Streams, StopFlushed(s) PROVE CallInv'
  BY <1>17 DEF StopFlushed, Wake, Answer
<1>18. ASSUME NEW s \in Streams, CloseFlushed(s) PROVE CallInv'
  BY <1>18 DEF CloseFlushed, Disconnect, Wake, WaitAt
<1>19. ASSUME NEW s \in Streams, DisconnectWake(s) PROVE CallInv'
  BY <1>19 DEF DisconnectWake, Wake, Answer
<1>20. ASSUME NEW s \in Streams, TransferWake(s) PROVE CallInv'
  BY <1>20 DEF TransferWake, Transfer, Wake, Answer, WaitAt
<1>21. ASSUME NEW s \in Streams, NEW ok \in BOOLEAN, ReplyCreate(s, ok) PROVE
      CallInv'
  BY <1>21 DEF ReplyCreate, thread
<1>22. ASSUME NEW s \in Streams, NEW ok \in BOOLEAN, ReplyCork(s, ok) PROVE
      CallInv'
  BY <1>22 DEF ReplyCork
<1>23. ASSUME NEW s \in Streams, NEW ok \in BOOLEAN, ReplyFlush(s, ok) PROVE
      CallInv'
  BY <1>23 DEF ReplyFlush, thread
<1>24. ASSUME NEW s \in Streams, ReplyDelete(s) PROVE CallInv'
  BY <1>24 DEF ReplyDelete, thread
<1>25. ASSUME NEW s \in Streams, ReplyTiming(s) PROVE CallInv'
  BY <1>25 DEF ReplyTiming, thread
<1>26. ASSUME NEW s \in Streams, ReplyDetached(s) PROVE CallInv'
  BY <1>26 DEF ReplyDetached, thread
<1>27. ASSUME NEW s \in Streams, StreamRequest(s) PROVE CallInv'
  BY <1>27 DEF StreamRequest, thread
<1>28. ASSUME NEW s \in Streams, StreamFailed(s) PROVE CallInv'
  BY <1>28 DEF StreamFailed, thread
<1>29. ASSUME NEW s \in Streams, TimeEvent(s) PROVE CallInv'
  BY <1>29 DEF TimeEvent, thread
<1>30. ASSUME NEW s \in Streams, LatencyUpdate(s) PROVE CallInv'
  BY <1>30 DEF LatencyUpdate, thread
<1>31. CASE ContextFailed
  BY <1>31 DEF ContextFailed, thread
<1>32. CASE UNCHANGED vars
  BY <1>32 DEF vars, pulse, object, thread, ThreadOK
<1>. QED
  BY <1>1, <1>2, <1>3, <1>4, <1>5, <1>6, <1>7, <1>8, <1>9, <1>10, <1>11,
      <1>12, <1>13, <1>14, <1>15, <1>16, <1>17, <1>18, <1>19, <1>20, <1>21,
      <1>22, <1>23, <1>24, <1>25, <1>26, <1>27, <1>28, <1>29, <1>30, <1>31,
     <1>32
  DEF Next, Command, Resume, Reply, Trigger, TriggerWake, FlushWake

\* A request sent on a ready stream keeps StreamInv.
LEMMA SendReady ==
  ASSUME PulseOK, StreamInv, NEW s \in Streams, NEW r \in Requests \ {"create"},
         mStream[s] = "ready", Send(s, r), mStream' = mStream, context' = context,
         \A t \in Streams \ {s} : pc'[t] = pc[t]
  PROVE  StreamInv'
<1>1. \A t \in Streams \ {s} : inflight'[t] = inflight[t]
  BY SendFacts
<1>2. \A t \in Streams : Outstanding(t, "create")' => Outstanding(t, "create")
  BY SendFacts DEF Requests
<1>. QED
  BY <1>1, <1>2 DEF StreamInv

\* Only a ready stream is answered a request that is not its creation.
LEMMA AnsweredReady ==
  ASSUME PulseOK, StreamInv, NEW s \in Streams, NEW r \in Requests \ {"create"},
         Answered(s, r)
  PROVE  mStream[s] = "ready"
  BY DEF StreamInv, Answered, Due

\* Such an answer keeps StreamInv.
LEMMA AnsweredStream ==
  ASSUME PulseOK, StreamInv, NEW s \in Streams, NEW r \in Requests \ {"create"},
         Answered(s, r), mStream' = mStream, context' = context, pc' = pc
  PROVE  StreamInv'
<1>1. mStream[s] = "ready" /\ \A t \in Streams \ {s} : inflight'[t] = inflight[t]
  BY AnsweredReady, AnsweredFacts
<1>2. \A t \in Streams : Outstanding(t, "create")' => Outstanding(t, "create")
  BY AnsweredFacts DEF Requests
<1>. QED
  BY <1>1, <1>2 DEF StreamInv

\* Requests, stream state and the thread that waits for the creation.
LEMMA StreamStep ==
  TypeOK /\ CallInv /\ StreamInv /\ [Next]_vars => StreamInv'
<1> SUFFICES ASSUME PulseOK, ObjectOK, ThreadOK, CallInv, StreamInv,
      [Next]_vars PROVE StreamInv'
  BY DEF TypeOK
<1> USE DEF StreamInv, CallInv, PulseOK, ThreadOK, Requests
<1>1. ASSUME NEW s \in Streams, OpenRefused(s) PROVE StreamInv'
  BY <1>1, EmptyFacts DEF OpenRefused, Begin, Answer, pulse
<1>2. ASSUME NEW s \in Streams, OpenNotConnected(s) PROVE StreamInv'
  BY <1>2, EmptyFacts DEF OpenNotConnected, Begin, Answer
<1>3. ASSUME NEW s \in Streams, OpenConnect(s) PROVE StreamInv'
  <2>1. inflight[s] = <<>>
    BY <1>3 DEF OpenConnect
  <2>2. inflight'[s] = <<"create">>
    BY <1>3, <2>1, SendFacts DEF OpenConnect
  <2>. QED
    BY <1>3, <2>2, SendFacts DEF OpenConnect, WaitAt
<1>4. ASSUME NEW s \in Streams, NEW o \in Triggers, TriggerNull(s, o) PROVE
      StreamInv'
  BY <1>4, EmptyFacts DEF TriggerNull, Begin, pulse, object, thread
<1>5. ASSUME NEW s \in Streams, NEW o \in Triggers, TriggerRefused(s, o) PROVE
      StreamInv'
  BY <1>5, EmptyFacts DEF TriggerRefused, Begin, Answer, pulse, object
<1>6. ASSUME NEW s \in Streams, NEW o \in Triggers, TriggerSend(s, o) PROVE
      StreamInv'
  BY <1>6, SendReady DEF TriggerSend, WaitAt, thread
<1>7. ASSUME NEW s \in Streams, CloseNull(s) PROVE StreamInv'
  BY <1>7, EmptyFacts DEF CloseNull, Begin, Answer, StopTimer, pulse
<1>8. ASSUME NEW s \in Streams, Close(s) PROVE StreamInv'
  <2>1. mStream' = mStream /\ context' = context /\ \A t \in Streams \ {s} : pc'[t] = pc[t]
    BY <1>8 DEF Close, Disconnect, WaitAt
  <2>2. CASE mStream[s] = "ready"
    <3>1. Send(s, "flush") \/ Send(s, "delete")
      BY <1>8, <2>2 DEF Close, Disconnect
    <3>2. {"flush", "delete"} \subseteq Requests \ {"create"}
      OBVIOUS
    <3>. HIDE DEF StreamInv
    <3>. QED
      BY <2>1, <2>2, <3>1, <3>2, SendReady
  <2>3. CASE mStream[s] # "ready"
    <3>1. inflight' = inflight /\ mStream[s] # "creating"
      BY <1>8, <2>3 DEF Close, Disconnect, Begin
    <3>. QED
      BY <2>1, <3>1, EmptyFacts
  <2>. QED
    BY <2>2, <2>3
<1>9. ASSUME NEW s \in Streams, NEW o \in {"read", "write"}, NEW n \in 0 ..
      Capacity + 1, ReadOrWrite(s, o, n) PROVE StreamInv'
  BY <1>9, EmptyFacts DEF ReadOrWrite, Transfer, Begin, Answer, WaitAt,
      StatusOk
<1>10. ASSUME NEW s \in Streams, OpenWake(s) PROVE StreamInv'
  BY <1>10, EmptyFacts DEF OpenWake, Wake, Answer, WaitAt, pulse, object
<1>11. ASSUME NEW s \in Streams, CorkWaitsOn(s) PROVE StreamInv'
  BY <1>11, EmptyFacts DEF CorkWaitsOn, Wake, WaitAt, OperationFinished,
      StatusOk, pulse, object
<1>12. ASSUME NEW s \in Streams, CorkFailed(s) PROVE StreamInv'
  BY <1>12, EmptyFacts DEF CorkFailed, Wake, Answer, OperationFinished,
      Succeeded, StatusOk, pulse, object
<1>13. ASSUME NEW s \in Streams, Started(s) PROVE StreamInv'
  BY <1>13, EmptyFacts DEF Started, Wake, Answer, StopTimer,
      OperationFinished, Succeeded, StatusOk, pulse
<1>14. ASSUME NEW s \in Streams, PausedOrResumed(s) PROVE StreamInv'
  BY <1>14, EmptyFacts DEF PausedOrResumed, Wake, Answer, OperationFinished,
      Succeeded, StatusOk, pulse, object
<1>15. ASSUME NEW s \in Streams, StopFlushes(s) PROVE StreamInv'
  <2>1. CASE inflight' # inflight
    BY <1>15, <2>1, SendReady DEF StopFlushes, Wake, WaitAt
  <2>2. CASE inflight' = inflight
    BY <1>15, <2>2, EmptyFacts DEF StopFlushes, Wake, WaitAt, Answer
  <2>. QED
    BY <2>1, <2>2
<1>16. ASSUME NEW s \in Streams, FlushWaitsOn(s) PROVE StreamInv'
  BY <1>16, EmptyFacts DEF FlushWaitsOn, Wake, WaitAt, OperationFinished,
      StatusOk, pulse, object
<1>17. ASSUME NEW s \in Streams, StopFlushed(s) PROVE StreamInv'
  BY <1>17, EmptyFacts DEF StopFlushed, Wake, Answer, StopTimer,
      OperationFinished, StatusOk, pulse
<1>18. ASSUME NEW s \in Streams, CloseFlushed(s) PROVE StreamInv'
  <2>1. CASE inflight' # inflight
    BY <1>18, <2>1, SendReady DEF CloseFlushed, Disconnect, Wake, WaitAt
  <2>2. CASE inflight' = inflight
    BY <1>18, <2>2, EmptyFacts DEF CloseFlushed, Disconnect, Wake, WaitAt, Answer
  <2>. QED
    BY <2>1, <2>2
<1>19. ASSUME NEW s \in Streams, DisconnectWake(s) PROVE StreamInv'
  BY <1>19, EmptyFacts DEF DisconnectWake, Wake, Answer, object
<1>20. ASSUME NEW s \in Streams, TransferWake(s) PROVE StreamInv'
  BY <1>20, EmptyFacts DEF TransferWake, Transfer, Wake, Answer, WaitAt,
      StatusOk
<1>21. ASSUME NEW s \in Streams, NEW ok \in BOOLEAN, ReplyCreate(s, ok) PROVE
      StreamInv'
  <2>1. mStream[s] = "creating"
    BY <1>21, AnsweredFacts DEF ReplyCreate
  <2>2. inflight[s] = <<"create">> /\ inflight'[s] = Tail(inflight[s])
    BY <1>21, <2>1, AnsweredFacts DEF ReplyCreate
  <2>3. inflight'[s] = <<>>
    BY <2>2
  <2>4. \A t \in Streams \ {s} : inflight'[t] = inflight[t]
    BY <1>21, AnsweredFacts DEF ReplyCreate
  <2>. QED
    BY <1>21, <2>1, <2>3, <2>4, EmptyFacts DEF ReplyCreate, thread
<1>22. ASSUME NEW s \in Streams, NEW ok \in BOOLEAN, ReplyCork(s, ok) PROVE
      StreamInv'
  BY <1>22, AnsweredStream DEF ReplyCork, thread
<1>23. ASSUME NEW s \in Streams, NEW ok \in BOOLEAN, ReplyFlush(s, ok) PROVE
      StreamInv'
  BY <1>23, AnsweredStream DEF ReplyFlush, thread
<1>24. ASSUME NEW s \in Streams, ReplyDelete(s) PROVE StreamInv'
  BY <1>24, EmptyFacts DEF ReplyDelete, Signal, Due, object, thread
<1>25. ASSUME NEW s \in Streams, ReplyTiming(s) PROVE StreamInv'
  BY <1>25, AnsweredStream DEF ReplyTiming, thread
<1>26. ASSUME NEW s \in Streams, ReplyDetached(s) PROVE StreamInv'
  BY <1>26, EmptyFacts DEF ReplyDetached, object, thread
<1>27. ASSUME NEW s \in Streams, StreamRequest(s) PROVE StreamInv'
  BY <1>27, EmptyFacts DEF StreamRequest, Signal, object, thread
<1>28. ASSUME NEW s \in Streams, StreamFailed(s) PROVE StreamInv'
  BY <1>28, EmptyFacts DEF StreamFailed, Signal, object, thread
<1>29. ASSUME NEW s \in Streams, TimeEvent(s) PROVE StreamInv'
  BY <1>29, SendReady DEF TimeEvent, WaitAt, thread
<1>30. ASSUME NEW s \in Streams, LatencyUpdate(s) PROVE StreamInv'
  BY <1>30, EmptyFacts DEF LatencyUpdate, Signal, pulse, object, thread
<1>31. CASE ContextFailed
  BY <1>31, EmptyFacts DEF ContextFailed, Signal, object, thread
<1>32. CASE UNCHANGED vars
  BY <1>32 DEF vars, pulse, object, thread, Outstanding, StatusOk, Room
<1>. QED
  BY <1>1, <1>2, <1>3, <1>4, <1>5, <1>6, <1>7, <1>8, <1>9, <1>10, <1>11,
      <1>12, <1>13, <1>14, <1>15, <1>16, <1>17, <1>18, <1>19, <1>20, <1>21,
      <1>22, <1>23, <1>24, <1>25, <1>26, <1>27, <1>28, <1>29, <1>30, <1>31,
     <1>32
  DEF Next, Command, Resume, Reply, Trigger, TriggerWake, FlushWake

\* No request of a wait outlives the wait.
LEMMA WaitStep ==
  TypeOK /\ CallInv /\ StreamInv /\ WaitInv /\ [Next]_vars => WaitInv'
<1> SUFFICES ASSUME PulseOK, ObjectOK, ThreadOK, CallInv, StreamInv, WaitInv,
      [Next]_vars PROVE WaitInv'
  BY DEF TypeOK
<1> USE DEF WaitInv, StreamInv, CallInv, PulseOK, ThreadOK, Requests, Triggers
<1>1. ASSUME NEW s \in Streams, OpenRefused(s) PROVE WaitInv'
  BY <1>1, EmptyFacts DEF OpenRefused, Begin, Answer, pulse
<1>2. ASSUME NEW s \in Streams, OpenNotConnected(s) PROVE WaitInv'
  BY <1>2, EmptyFacts DEF OpenNotConnected, Begin, Answer
<1>3. ASSUME NEW s \in Streams, OpenConnect(s) PROVE WaitInv'
  BY <1>3, SendFacts, EmptyFacts DEF OpenConnect, Begin, WaitAt
<1>4. ASSUME NEW s \in Streams, NEW o \in Triggers, TriggerNull(s, o) PROVE
      WaitInv'
  BY <1>4, EmptyFacts DEF TriggerNull, Begin, pulse, object, thread
<1>5. ASSUME NEW s \in Streams, NEW o \in Triggers, TriggerRefused(s, o) PROVE
      WaitInv'
  BY <1>5, EmptyFacts DEF TriggerRefused, Begin, Answer, pulse, object
<1>6. ASSUME NEW s \in Streams, NEW o \in Triggers, TriggerSend(s, o) PROVE
      WaitInv'
  BY <1>6, SendFacts, EmptyFacts DEF TriggerSend, Begin, WaitAt, object
<1>7. ASSUME NEW s \in Streams, CloseNull(s) PROVE WaitInv'
  BY <1>7, EmptyFacts DEF CloseNull, Begin, Answer, StopTimer, pulse
<1>8. ASSUME NEW s \in Streams, Close(s) PROVE WaitInv'
  BY <1>8, SendFacts, EmptyFacts DEF Close, Disconnect, Begin, WaitAt,
      StopTimer
<1>9. ASSUME NEW s \in Streams, NEW o \in {"read", "write"}, NEW n \in 0 ..
      Capacity + 1, ReadOrWrite(s, o, n) PROVE WaitInv'
  BY <1>9, EmptyFacts DEF ReadOrWrite, Transfer, Begin, Answer, WaitAt,
      StatusOk
<1>10. ASSUME NEW s \in Streams, OpenWake(s) PROVE WaitInv'
  BY <1>10, EmptyFacts DEF OpenWake, Wake, Answer, WaitAt, pulse, object
<1>11. ASSUME NEW s \in Streams, CorkWaitsOn(s) PROVE WaitInv'
  BY <1>11, EmptyFacts DEF CorkWaitsOn, Wake, WaitAt, OperationFinished,
      StatusOk, pulse, object
<1>12. ASSUME NEW s \in Streams, CorkFailed(s) PROVE WaitInv'
  BY <1>12, EmptyFacts DEF CorkFailed, Wake, Answer, OperationFinished,
      Succeeded, StatusOk, pulse, object
<1>13. ASSUME NEW s \in Streams, Started(s) PROVE WaitInv'
  BY <1>13, EmptyFacts DEF Started, Wake, Answer, StopTimer,
      OperationFinished, Succeeded, StatusOk, pulse
<1>14. ASSUME NEW s \in Streams, PausedOrResumed(s) PROVE WaitInv'
  BY <1>14, EmptyFacts DEF PausedOrResumed, Wake, Answer, OperationFinished,
      Succeeded, StatusOk, pulse, object
<1>15. ASSUME NEW s \in Streams, StopFlushes(s) PROVE WaitInv'
  BY <1>15, SendFacts, EmptyFacts DEF StopFlushes, Wake, Answer, WaitAt,
      StopTimer, OperationFinished, Succeeded, StatusOk
<1>16. ASSUME NEW s \in Streams, FlushWaitsOn(s) PROVE WaitInv'
  BY <1>16, EmptyFacts DEF FlushWaitsOn, Wake, WaitAt, OperationFinished,
      StatusOk, pulse, object
<1>17. ASSUME NEW s \in Streams, StopFlushed(s) PROVE WaitInv'
  BY <1>17, EmptyFacts DEF StopFlushed, Wake, Answer, StopTimer,
      OperationFinished, StatusOk, pulse
<1>18. ASSUME NEW s \in Streams, CloseFlushed(s) PROVE WaitInv'
  BY <1>18, SendFacts, EmptyFacts DEF CloseFlushed, Disconnect, Wake,
      OperationFinished, WaitAt, StatusOk, object
<1>19. ASSUME NEW s \in Streams, DisconnectWake(s) PROVE WaitInv'
  BY <1>19, EmptyFacts DEF DisconnectWake, Wake, Answer, object
<1>20. ASSUME NEW s \in Streams, TransferWake(s) PROVE WaitInv'
  BY <1>20, EmptyFacts DEF TransferWake, Transfer, Wake, Answer, WaitAt,
      StatusOk
<1>21. ASSUME NEW s \in Streams, NEW ok \in BOOLEAN, ReplyCreate(s, ok) PROVE
      WaitInv'
  BY <1>21, AnsweredFacts, EmptyFacts DEF ReplyCreate, Signal, object, thread
<1>22. ASSUME NEW s \in Streams, NEW ok \in BOOLEAN, ReplyCork(s, ok) PROVE
      WaitInv'
  BY <1>22, AnsweredFacts, EmptyFacts DEF ReplyCork, Signal
<1>23. ASSUME NEW s \in Streams, NEW ok \in BOOLEAN, ReplyFlush(s, ok) PROVE
      WaitInv'
  BY <1>23, AnsweredFacts, EmptyFacts DEF ReplyFlush, Signal, thread
<1>24. ASSUME NEW s \in Streams, ReplyDelete(s) PROVE WaitInv'
  BY <1>24, EmptyFacts DEF ReplyDelete, Signal, object, thread
<1>25. ASSUME NEW s \in Streams, ReplyTiming(s) PROVE WaitInv'
  BY <1>25, AnsweredFacts, EmptyFacts DEF ReplyTiming, Signal, object, thread
<1>26. ASSUME NEW s \in Streams, ReplyDetached(s) PROVE WaitInv'
  BY <1>26, EmptyFacts DEF ReplyDetached, object, thread
<1>27. ASSUME NEW s \in Streams, StreamRequest(s) PROVE WaitInv'
  BY <1>27, EmptyFacts DEF StreamRequest, Signal, object, thread
<1>28. ASSUME NEW s \in Streams, StreamFailed(s) PROVE WaitInv'
  BY <1>28, EmptyFacts DEF StreamFailed, Signal, object, thread
<1>29. ASSUME NEW s \in Streams, TimeEvent(s) PROVE WaitInv'
  BY <1>29, SendFacts, EmptyFacts DEF TimeEvent, object, thread
<1>30. ASSUME NEW s \in Streams, LatencyUpdate(s) PROVE WaitInv'
  BY <1>30, EmptyFacts DEF LatencyUpdate, Signal, pulse, object, thread
<1>31. CASE ContextFailed
  BY <1>31, EmptyFacts DEF ContextFailed, Signal, object, thread
<1>32. CASE UNCHANGED vars
  BY <1>32 DEF vars, pulse, object, thread, Outstanding, StatusOk, Room
<1>. QED
  BY <1>1, <1>2, <1>3, <1>4, <1>5, <1>6, <1>7, <1>8, <1>9, <1>10, <1>11,
      <1>12, <1>13, <1>14, <1>15, <1>16, <1>17, <1>18, <1>19, <1>20, <1>21,
      <1>22, <1>23, <1>24, <1>25, <1>26, <1>27, <1>28, <1>29, <1>30, <1>31,
     <1>32
  DEF Next, Command, Resume, Reply, Trigger, TriggerWake, FlushWake

\* mSuccess and the server's verdict.
LEMMA AckStep ==
  TypeOK /\ CallInv /\ StreamInv /\ WaitInv /\ AckInv /\ [Next]_vars => AckInv'
<1> SUFFICES ASSUME PulseOK, ObjectOK, ThreadOK, CallInv, StreamInv, WaitInv,
      AckInv, [Next]_vars PROVE AckInv'
  BY DEF TypeOK
<1> USE DEF AckInv, WaitInv, StreamInv, CallInv, PulseOK, ObjectOK, ThreadOK,
      Requests, Triggers
<1>1. ASSUME NEW s \in Streams, OpenRefused(s) PROVE AckInv'
  BY <1>1, EmptyFacts DEF OpenRefused, Begin, Answer, pulse
<1>2. ASSUME NEW s \in Streams, OpenNotConnected(s) PROVE AckInv'
  BY <1>2, EmptyFacts DEF OpenNotConnected, Begin, Answer
<1>3. ASSUME NEW s \in Streams, OpenConnect(s) PROVE AckInv'
  BY <1>3, SendFacts, EmptyFacts DEF OpenConnect, Begin, WaitAt
<1>4. ASSUME NEW s \in Streams, NEW o \in Triggers, TriggerNull(s, o) PROVE
      AckInv'
  BY <1>4, EmptyFacts DEF TriggerNull, Begin, pulse, object, thread
<1>5. ASSUME NEW s \in Streams, NEW o \in Triggers, TriggerRefused(s, o) PROVE
      AckInv'
  BY <1>5, EmptyFacts DEF TriggerRefused, Begin, Answer, pulse, object
<1>6. ASSUME NEW s \in Streams, NEW o \in Triggers, TriggerSend(s, o) PROVE
      AckInv'
  BY <1>6, SendFacts, EmptyFacts DEF TriggerSend, Begin, WaitAt, object
<1>7. ASSUME NEW s \in Streams, CloseNull(s) PROVE AckInv'
  BY <1>7, EmptyFacts DEF CloseNull, Begin, Answer, StopTimer, pulse
<1>8. ASSUME NEW s \in Streams, Close(s) PROVE AckInv'
  <2>1. mStream' = mStream /\ mSuccess' = mSuccess /\ acked' = acked
    BY <1>8 DEF Close, Disconnect, WaitAt
  <2>2. \A t \in Streams \ {s} :
          pc'[t] = pc[t] /\ op'[t] = op[t] /\ (Outstanding(t, "cork")' <=> Outstanding(t, "cork"))
    BY <1>8, SendFacts, EmptyFacts DEF Close, Disconnect, WaitAt
  <2>3. pc'[s] \in {"flush", "disconnect"} /\ op'[s] = "close"
    BY <1>8 DEF Close, Disconnect, WaitAt
  <2>. QED
    BY <2>1, <2>2, <2>3
<1>9. ASSUME NEW s \in Streams, NEW o \in {"read", "write"}, NEW n \in 0 ..
      Capacity + 1, ReadOrWrite(s, o, n) PROVE AckInv'
  <2>1. /\ mStream' = mStream /\ mSuccess' = mSuccess /\ inflight' = inflight
        /\ pc'[s] \in {"idle", "transfer"}
        /\ \A t \in Streams \ {s} :
             pc'[t] = pc[t] /\ op'[t] = op[t] /\ acked'[t] = acked[t]
    BY <1>9 DEF ReadOrWrite, Transfer, Answer, WaitAt
  <2>. QED
    BY <2>1, EmptyFacts
<1>10. ASSUME NEW s \in Streams, OpenWake(s) PROVE AckInv'
  <2>1. /\ mStream' = mStream /\ mSuccess' = mSuccess /\ inflight' = inflight
        /\ pc'[s] \in {"idle", "open", "transfer"}
        /\ \A t \in Streams \ {s} :
             pc'[t] = pc[t] /\ op'[t] = op[t] /\ acked'[t] = acked[t]
    BY <1>10 DEF OpenWake, Answer, WaitAt, pulse, object, Wake
  <2>. QED
    BY <2>1, EmptyFacts
<1>11. ASSUME NEW s \in Streams, CorkWaitsOn(s) PROVE AckInv'
  BY <1>11, EmptyFacts DEF CorkWaitsOn, Wake, WaitAt, OperationFinished,
      StatusOk, pulse, object
<1>12. ASSUME NEW s \in Streams, CorkFailed(s) PROVE AckInv'
  BY <1>12, EmptyFacts DEF CorkFailed, Wake, Answer, OperationFinished,
      Succeeded, StatusOk, pulse, object
<1>13. ASSUME NEW s \in Streams, Started(s) PROVE AckInv'
  <2>1. /\ mStream' = mStream /\ mSuccess' = mSuccess /\ inflight' = inflight
        /\ pc'[s] \in {"idle", "open", "transfer"}
        /\ \A t \in Streams \ {s} :
             pc'[t] = pc[t] /\ op'[t] = op[t] /\ acked'[t] = acked[t]
    BY <1>13 DEF Started, Answer, pulse, Wake
  <2>. QED
    BY <2>1, EmptyFacts
<1>14. ASSUME NEW s \in Streams, PausedOrResumed(s) PROVE AckInv'
  BY <1>14, EmptyFacts DEF PausedOrResumed, Wake, Answer, OperationFinished,
      Succeeded, StatusOk, pulse, object
<1>15. ASSUME NEW s \in Streams, StopFlushes(s) PROVE AckInv'
  <2>1. CASE mStream[s] = "ready" /\ Send(s, "flush") /\ WaitAt(s, "stop", 0, "flush")
    <3>1. acked[s]
      BY <1>15, <2>1 DEF StopFlushes, OperationFinished, Succeeded, StatusOk, Wake
    <3>2. \A t \in Streams : Outstanding(t, "cork")' <=> Outstanding(t, "cork")
      BY <2>1, SendFacts
    <3>. QED
      BY <1>15, <2>1, <3>1, <3>2 DEF StopFlushes, WaitAt
  <2>2. CASE Answer(s, "stop", "ok") /\ UNCHANGED inflight
    BY <1>15, <2>2, EmptyFacts DEF StopFlushes, Answer
  <2>. QED
    BY <1>15, <2>1, <2>2 DEF StopFlushes
<1>16. ASSUME NEW s \in Streams, FlushWaitsOn(s) PROVE AckInv'
  BY <1>16, EmptyFacts DEF FlushWaitsOn, Wake, WaitAt, OperationFinished,
      StatusOk, pulse, object
<1>17. ASSUME NEW s \in Streams, StopFlushed(s) PROVE AckInv'
  BY <1>17, EmptyFacts DEF StopFlushed, Wake, Answer, StopTimer,
      OperationFinished, StatusOk, pulse
<1>18. ASSUME NEW s \in Streams, CloseFlushed(s) PROVE AckInv'
  BY <1>18, SendFacts, EmptyFacts DEF CloseFlushed, Disconnect, Wake,
      OperationFinished, WaitAt, StatusOk, object
<1>19. ASSUME NEW s \in Streams, DisconnectWake(s) PROVE AckInv'
  BY <1>19, EmptyFacts DEF DisconnectWake, Wake, Answer, object
<1>20. ASSUME NEW s \in Streams, TransferWake(s) PROVE AckInv'
  <2>1. /\ mStream' = mStream /\ mSuccess' = mSuccess /\ inflight' = inflight
        /\ pc'[s] \in {"idle", "open", "transfer"}
        /\ \A t \in Streams \ {s} :
             pc'[t] = pc[t] /\ op'[t] = op[t] /\ acked'[t] = acked[t]
    BY <1>20 DEF TransferWake, Transfer, Answer, WaitAt
  <2>. QED
    BY <2>1, EmptyFacts
<1>21. ASSUME NEW s \in Streams, NEW ok \in BOOLEAN, ReplyCreate(s, ok) PROVE
      AckInv'
  BY <1>21, AnsweredFacts, EmptyFacts DEF ReplyCreate, Signal, object, thread
<1>22. ASSUME NEW s \in Streams, NEW ok \in BOOLEAN, ReplyCork(s, ok) PROVE
      AckInv'
  BY <1>22, AnsweredFacts, EmptyFacts DEF ReplyCork, Signal
<1>23. ASSUME NEW s \in Streams, NEW ok \in BOOLEAN, ReplyFlush(s, ok) PROVE
      AckInv'
  BY <1>23, AnsweredFacts, EmptyFacts DEF ReplyFlush, Signal, thread
<1>24. ASSUME NEW s \in Streams, ReplyDelete(s) PROVE AckInv'
  BY <1>24, EmptyFacts DEF ReplyDelete, Signal, object, thread
<1>25. ASSUME NEW s \in Streams, ReplyTiming(s) PROVE AckInv'
  BY <1>25, AnsweredFacts, EmptyFacts DEF ReplyTiming, Signal, object, thread
<1>26. ASSUME NEW s \in Streams, ReplyDetached(s) PROVE AckInv'
  BY <1>26, EmptyFacts DEF ReplyDetached, object, thread
<1>27. ASSUME NEW s \in Streams, StreamRequest(s) PROVE AckInv'
  BY <1>27, EmptyFacts DEF StreamRequest, Signal, object, thread
<1>28. ASSUME NEW s \in Streams, StreamFailed(s) PROVE AckInv'
  BY <1>28, EmptyFacts DEF StreamFailed, Signal, object, thread
<1>29. ASSUME NEW s \in Streams, TimeEvent(s) PROVE AckInv'
  BY <1>29, SendFacts, EmptyFacts DEF TimeEvent, object, thread
<1>30. ASSUME NEW s \in Streams, LatencyUpdate(s) PROVE AckInv'
  BY <1>30, EmptyFacts DEF LatencyUpdate, Signal, pulse, object, thread
<1>31. CASE ContextFailed
  BY <1>31, EmptyFacts DEF ContextFailed, Signal, object, thread
<1>32. CASE UNCHANGED vars
  BY <1>32 DEF vars, pulse, object, thread, Outstanding, StatusOk, Room
<1>. QED
  BY <1>1, <1>2, <1>3, <1>4, <1>5, <1>6, <1>7, <1>8, <1>9, <1>10, <1>11,
      <1>12, <1>13, <1>14, <1>15, <1>16, <1>17, <1>18, <1>19, <1>20, <1>21,
      <1>22, <1>23, <1>24, <1>25, <1>26, <1>27, <1>28, <1>29, <1>30, <1>31,
     <1>32
  DEF Next, Command, Resume, Reply, Trigger, TriggerWake, FlushWake


\* A step of the thread of s leaves the other threads' wake-ups to come.
LEMMA WakeFrame ==
  ASSUME NoLostWakeup, NEW s \in Streams, woken \ {s} \subseteq woken',
         ~crashed, context' = context,
         \A t \in Streams \ {s} :
           /\ pc'[t] = pc[t] /\ mStream'[t] = mStream[t] /\ queue'[t] = queue[t]
           /\ inflight'[t] = inflight[t] /\ mReadIndex'[t] = mReadIndex[t],
         WillWake(s)'
  PROVE  NoLostWakeup'
<1>1. ASSUME NEW t \in Streams \ {s}, WillWake(t) PROVE WillWake(t)'
  BY <1>1 DEF WillWake, Outstanding, StatusOk, Room
<1>. QED
  BY <1>1 DEF NoLostWakeup

\* A thread that is idle claims no release.
LEMMA IdleWillWake ==
  ASSUME NEW s \in Streams, pc'[s] = "idle"
  PROVE  WillWake(s)'
  BY DEF WillWake

\* One that enters the last wait of close() has asked for the end of the stream
\* if it is ready.
LEMMA DisconnectWillWake ==
  ASSUME PulseOK, ThreadOK, NEW s \in Streams, Disconnect(s), mStream' = mStream
  PROVE  WillWake(s)'
<1>1. pc'[s] = "disconnect"
  BY DEF Disconnect, WaitAt, ThreadOK
<1>2. CASE mStream[s] = "ready"
  <2>1. Outstanding(s, "delete")'
    BY <1>2, SendFacts DEF Disconnect, Requests
  <2>. QED
    BY <1>1, <2>1 DEF WillWake
<1>3. CASE mStream[s] # "ready"
  BY <1>1, <1>3 DEF WillWake
<1>. QED
  BY <1>2, <1>3

\* A broadcast releases every waiter.
LEMMA SignalAll ==
  ASSUME Signal, pc' = pc, ThreadOK
  PROVE  NoLostWakeup'
<1>1. \A t \in Streams \ woken' : pc'[t] = "idle"
  BY DEF Signal
<1>. QED
  BY <1>1, IdleWillWake DEF NoLostWakeup

\* A read or write touches its own stream only.
LEMMA TransferFrame ==
  ASSUME PulseOK, ObjectOK, ThreadOK, NEW s \in Streams, NEW o \in Ops, NEW n \in Nat,
         Transfer(s, o, n)
  PROVE  \A t \in Streams \ {s} :
           pc'[t] = pc[t] /\ queue'[t] = queue[t] /\ mReadIndex'[t] = mReadIndex[t]
  BY DEF PulseOK, ObjectOK, ThreadOK, Transfer, Answer, WaitAt, Move

\* Every wait is entered with its release to come, and every callback that
\* ends one signals.
LEMMA WakeupStep ==
  TypeOK /\ CallInv /\ StreamInv /\ NoLostWakeup /\ [Next]_vars => NoLostWakeup'
<1> SUFFICES ASSUME PulseOK, ObjectOK, ThreadOK, CallInv, StreamInv,
      NoLostWakeup, [Next]_vars PROVE NoLostWakeup'
  BY DEF TypeOK
<1> USE DEF StreamInv, CallInv, PulseOK, ThreadOK, Requests, StatusOk
<1>1. ASSUME NEW s \in Streams, OpenRefused(s) PROVE NoLostWakeup'
  <2>1. /\ \A t \in Streams \ {s} :
             /\ pc'[t] = pc[t] /\ mStream'[t] = mStream[t] /\ queue'[t] = queue[t]
             /\ inflight'[t] = inflight[t] /\ mReadIndex'[t] = mReadIndex[t]
        /\ woken \ {s} \subseteq woken' /\ context' = context /\ ~crashed
    <3>1. \A t \in Streams \ {s} : mReadIndex'[t] = mReadIndex[t]
      BY <1>1 DEF OpenRefused, ObjectOK
    <3>. QED
      BY <1>1, <3>1 DEF OpenRefused, Begin, Answer, pulse
  <2>2. WillWake(s)'
    BY <1>1, IdleWillWake DEF OpenRefused, Answer
  <2>. QED
    BY <2>1, <2>2, WakeFrame
<1>2. ASSUME NEW s \in Streams, OpenNotConnected(s) PROVE NoLostWakeup'
  <2>1. /\ \A t \in Streams \ {s} :
             /\ pc'[t] = pc[t] /\ mStream'[t] = mStream[t] /\ queue'[t] = queue[t]
             /\ inflight'[t] = inflight[t] /\ mReadIndex'[t] = mReadIndex[t]
        /\ woken \ {s} \subseteq woken' /\ context' = context /\ ~crashed
    BY <1>2 DEF OpenNotConnected, Begin, Answer
  <2>2. WillWake(s)'
    BY <1>2, IdleWillWake DEF OpenNotConnected, Answer
  <2>. QED
    BY <2>1, <2>2, WakeFrame
<1>3. ASSUME NEW s \in Streams, OpenConnect(s) PROVE NoLostWakeup'
  <2>1. /\ \A t \in Streams \ {s} :
             /\ pc'[t] = pc[t] /\ mStream'[t] = mStream[t] /\ queue'[t] = queue[t]
             /\ inflight'[t] = inflight[t] /\ mReadIndex'[t] = mReadIndex[t]
        /\ woken \ {s} \subseteq woken' /\ context' = context /\ ~crashed
    BY <1>3 DEF OpenConnect, Begin, WaitAt, Send
  <2>2. WillWake(s)'
    BY <1>3, SendFacts DEF OpenConnect, WaitAt, WillWake
  <2>. QED
    BY <2>1, <2>2, WakeFrame
<1>4. ASSUME NEW s \in Streams, NEW o \in Triggers, TriggerNull(s, o) PROVE
      NoLostWakeup'
  BY <1>4 DEF TriggerNull, NoLostWakeup
<1>5. ASSUME NEW s \in Streams, NEW o \in Triggers, TriggerRefused(s, o) PROVE
      NoLostWakeup'
  <2>1. /\ \A t \in Streams \ {s} :
             /\ pc'[t] = pc[t] /\ mStream'[t] = mStream[t] /\ queue'[t] = queue[t]
             /\ inflight'[t] = inflight[t] /\ mReadIndex'[t] = mReadIndex[t]
        /\ woken \ {s} \subseteq woken' /\ context' = context /\ ~crashed
    BY <1>5 DEF TriggerRefused, Begin, Answer, pulse, object
  <2>2. WillWake(s)'
    BY <1>5, IdleWillWake DEF TriggerRefused, Answer
  <2>. QED
    BY <2>1, <2>2, WakeFrame
<1>6. ASSUME NEW s \in Streams, NEW o \in Triggers, TriggerSend(s, o) PROVE
      NoLostWakeup'
  <2>1. /\ \A t \in Streams \ {s} :
             /\ pc'[t] = pc[t] /\ mStream'[t] = mStream[t] /\ queue'[t] = queue[t]
             /\ inflight'[t] = inflight[t] /\ mReadIndex'[t] = mReadIndex[t]
        /\ woken \ {s} \subseteq woken' /\ context' = context /\ ~crashed
    BY <1>6 DEF TriggerSend, Begin, WaitAt, Send, object
  <2>2. WillWake(s)'
    BY <1>6, SendFacts DEF TriggerSend, WaitAt, WillWake
  <2>. QED
    BY <2>1, <2>2, WakeFrame
<1>7. ASSUME NEW s \in Streams, CloseNull(s) PROVE NoLostWakeup'
  <2>1. /\ \A t \in Streams \ {s} :
             /\ pc'[t] = pc[t] /\ mStream'[t] = mStream[t] /\ queue'[t] = queue[t]
             /\ inflight'[t] = inflight[t] /\ mReadIndex'[t] = mReadIndex[t]
        /\ woken \ {s} \subseteq woken' /\ context' = context /\ ~crashed
    BY <1>7 DEF CloseNull, Begin, Answer, StopTimer, pulse
  <2>2. WillWake(s)'
    BY <1>7, IdleWillWake DEF CloseNull, Answer
  <2>. QED
    BY <2>1, <2>2, WakeFrame
<1>8. ASSUME NEW s \in Streams, Close(s) PROVE NoLostWakeup'
  <2>1. /\ \A t \in Streams \ {s} :
             /\ pc'[t] = pc[t] /\ mStream'[t] = mStream[t] /\ queue'[t] = queue[t]
             /\ inflight'[t] = inflight[t] /\ mReadIndex'[t] = mReadIndex[t]
        /\ woken \ {s} \subseteq woken' /\ context' = context /\ ~crashed
    BY <1>8 DEF Close, Disconnect, Begin, WaitAt, Send, StopTimer
  <2>2. WillWake(s)'
    <3>1. CASE s \in Playback /\ mStream[s] = "ready"
      BY <1>8, <3>1, SendFacts DEF Close, WaitAt, WillWake
    <3>2. CASE ~(s \in Playback /\ mStream[s] = "ready")
      BY <1>8, <3>2, DisconnectWillWake DEF Close
    <3>. QED
      BY <3>1, <3>2
  <2>. QED
    BY <2>1, <2>2, WakeFrame
<1>9. ASSUME NEW s \in Streams, NEW o \in {"read", "write"}, NEW n \in 0 ..
      Capacity + 1, ReadOrWrite(s, o, n) PROVE NoLostWakeup'
  <2>1. /\ \A t \in Streams \ {s} :
             /\ pc'[t] = pc[t] /\ mStream'[t] = mStream[t] /\ queue'[t] = queue[t]
             /\ inflight'[t] = inflight[t] /\ mReadIndex'[t] = mReadIndex[t]
        /\ woken \ {s} \subseteq woken' /\ context' = context /\ ~crashed
    <3>1. o \in Ops /\ n \in Nat
      BY <1>9, PulseAssumption DEF ReadOrWrite, Begin, Ops
    <3>2. CASE Transfer(s, o, n)
      BY <1>9, <3>1, <3>2, TransferFrame DEF ReadOrWrite, Begin
    <3>3. CASE Answer(s, o, "error") /\ UNCHANGED <<queue, mReadIndex>>
      BY <1>9, <3>3 DEF ReadOrWrite, Begin, Answer
    <3>. QED
      BY <1>9, <3>2, <3>3 DEF ReadOrWrite
  <2>2. WillWake(s)'
    <3>1. CASE Answer(s, o, "error") \/ Answer(s, o, "ok")
      BY <3>1, IdleWillWake DEF Answer
    <3>2. CASE StatusOk(s) /\ Move(s, Room(s)) /\ pc' = [pc EXCEPT ![s] = "transfer"]
      <4>1. Room(s)' = 0
        BY <3>2, MoveAllEmpties
      <4>2. mStream' = mStream /\ context' = context
        BY <1>9 DEF ReadOrWrite
      <4>. QED
        BY <3>2, <4>1, <4>2 DEF WillWake
    <3>. QED
      BY <1>9, <3>1, <3>2 DEF ReadOrWrite, Transfer, WaitAt
  <2>. QED
    BY <2>1, <2>2, WakeFrame
<1>10. ASSUME NEW s \in Streams, OpenWake(s) PROVE NoLostWakeup'
  <2>1. /\ \A t \in Streams \ {s} :
             /\ pc'[t] = pc[t] /\ mStream'[t] = mStream[t] /\ queue'[t] = queue[t]
             /\ inflight'[t] = inflight[t] /\ mReadIndex'[t] = mReadIndex[t]
        /\ woken \ {s} \subseteq woken' /\ context' = context /\ ~crashed
    BY <1>10 DEF OpenWake, Wake, Answer, WaitAt, pulse, object
  <2>2. WillWake(s)'
    <3>1. CASE Answer(s, "open", "ok") \/ Answer(s, "open", "error")
      BY <3>1, IdleWillWake DEF Answer
    <3>2. CASE mStream[s] = "creating" /\ WaitAt(s, "open", 0, "open")
      <4>1. Outstanding(s, "create")
        <5>1. inflight[s] = <<"create">>
          BY <3>2
        <5>2. Len(inflight[s]) = 1 /\ inflight[s][1] = "create"
          BY <5>1
        <5>. QED
          BY <5>2 DEF Outstanding
      <4>2. inflight' = inflight /\ mStream' = mStream
        BY <1>10 DEF OpenWake, pulse
      <4>. QED
        BY <3>2, <4>1, <4>2, EmptyFacts DEF WaitAt, WillWake
    <3>. QED
      BY <1>10, <3>1, <3>2 DEF OpenWake
  <2>. QED
    BY <2>1, <2>2, WakeFrame
<1>11. ASSUME NEW s \in Streams, CorkWaitsOn(s) PROVE NoLostWakeup'
  <2>1. /\ \A t \in Streams \ {s} :
             /\ pc'[t] = pc[t] /\ mStream'[t] = mStream[t] /\ queue'[t] = queue[t]
             /\ inflight'[t] = inflight[t] /\ mReadIndex'[t] = mReadIndex[t]
        /\ woken \ {s} \subseteq woken' /\ context' = context /\ ~crashed
    BY <1>11 DEF CorkWaitsOn, Wake, WaitAt, pulse, object
  <2>2. WillWake(s)'
    BY <1>11, EmptyFacts DEF CorkWaitsOn, OperationFinished, WaitAt, WillWake, pulse
  <2>. QED
    BY <2>1, <2>2, WakeFrame
<1>12. ASSUME NEW s \in Streams, CorkFailed(s) PROVE NoLostWakeup'
  <2>1. /\ \A t \in Streams \ {s} :
             /\ pc'[t] = pc[t] /\ mStream'[t] = mStream[t] /\ queue'[t] = queue[t]
             /\ inflight'[t] = inflight[t] /\ mReadIndex'[t] = mReadIndex[t]
        /\ woken \ {s} \subseteq woken' /\ context' = context /\ ~crashed
    BY <1>12 DEF CorkFailed, Wake, Answer, pulse, object
  <2>2. WillWake(s)'
    BY <1>12, IdleWillWake DEF CorkFailed, Wake, Answer
  <2>. QED
    BY <2>1, <2>2, WakeFrame
<1>13. ASSUME NEW s \in Streams, Started(s) PROVE NoLostWakeup'
  <2>1. /\ \A t \in Streams \ {s} :
             /\ pc'[t] = pc[t] /\ mStream'[t] = mStream[t] /\ queue'[t] = queue[t]
             /\ inflight'[t] = inflight[t] /\ mReadIndex'[t] = mReadIndex[t]
        /\ woken \ {s} \subseteq woken' /\ context' = context /\ ~crashed
    BY <1>13 DEF Started, Wake, Answer, StopTimer, pulse
  <2>2. WillWake(s)'
    BY <1>13, IdleWillWake DEF Started, Wake, Answer
  <2>. QED
    BY <2>1, <2>2, WakeFrame
<1>14. ASSUME NEW s \in Streams, PausedOrResumed(s) PROVE NoLostWakeup'
  <2>1. /\ \A t \in Streams \ {s} :
             /\ pc'[t] = pc[t] /\ mStream'[t] = mStream[t] /\ queue'[t] = queue[t]
             /\ inflight'[t] = inflight[t] /\ mReadIndex'[t] = mReadIndex[t]
        /\ woken \ {s} \subseteq woken' /\ context' = context /\ ~crashed
    BY <1>14 DEF PausedOrResumed, Wake, Answer, pulse, object
  <2>2. WillWake(s)'
    BY <1>14, IdleWillWake DEF PausedOrResumed, Wake, Answer
  <2>. QED
    BY <2>1, <2>2, WakeFrame
<1>15. ASSUME NEW s \in Streams, StopFlushes(s) PROVE NoLostWakeup'
  <2>1. /\ \A t \in Streams \ {s} :
             /\ pc'[t] = pc[t] /\ mStream'[t] = mStream[t] /\ queue'[t] = queue[t]
             /\ inflight'[t] = inflight[t] /\ mReadIndex'[t] = mReadIndex[t]
        /\ woken \ {s} \subseteq woken' /\ context' = context /\ ~crashed
    BY <1>15 DEF StopFlushes, Wake, Answer, WaitAt, Send, StopTimer
  <2>2. WillWake(s)'
    <3>1. CASE mStream[s] = "ready" /\ Send(s, "flush") /\ WaitAt(s, "stop", 0, "flush")
      BY <1>15, <3>1, SendFacts DEF StopFlushes, WaitAt, WillWake
    <3>2. CASE Answer(s, "stop", "ok")
      BY <3>2, IdleWillWake DEF Answer
    <3>. QED
      BY <1>15, <3>1, <3>2 DEF StopFlushes
  <2>. QED
    BY <2>1, <2>2, WakeFrame
<1>16. ASSUME NEW s \in Streams, FlushWaitsOn(s) PROVE NoLostWakeup'
  <2>1. /\ \A t \in Streams \ {s} :
             /\ pc'[t] = pc[t] /\ mStream'[t] = mStream[t] /\ queue'[t] = queue[t]
             /\ inflight'[t] = inflight[t] /\ mReadIndex'[t] = mReadIndex[t]
        /\ woken \ {s} \subseteq woken' /\ context' = context /\ ~crashed
    BY <1>16 DEF FlushWaitsOn, Wake, WaitAt, pulse, object
  <2>2. WillWake(s)'
    BY <1>16, EmptyFacts DEF FlushWaitsOn, OperationFinished, WaitAt, WillWake, pulse
  <2>. QED
    BY <2>1, <2>2, WakeFrame
<1>17. ASSUME NEW s \in Streams, StopFlushed(s) PROVE NoLostWakeup'
  <2>1. /\ \A t \in Streams \ {s} :
             /\ pc'[t] = pc[t] /\ mStream'[t] = mStream[t] /\ queue'[t] = queue[t]
             /\ inflight'[t] = inflight[t] /\ mReadIndex'[t] = mReadIndex[t]
        /\ woken \ {s} \subseteq woken' /\ context' = context /\ ~crashed
    BY <1>17 DEF StopFlushed, Wake, Answer, StopTimer, pulse
  <2>2. WillWake(s)'
    BY <1>17, IdleWillWake DEF StopFlushed, Wake, Answer
  <2>. QED
    BY <2>1, <2>2, WakeFrame
<1>18. ASSUME NEW s \in Streams, CloseFlushed(s) PROVE NoLostWakeup'
  <2>1. /\ \A t \in Streams \ {s} :
             /\ pc'[t] = pc[t] /\ mStream'[t] = mStream[t] /\ queue'[t] = queue[t]
             /\ inflight'[t] = inflight[t] /\ mReadIndex'[t] = mReadIndex[t]
        /\ woken \ {s} \subseteq woken' /\ context' = context /\ ~crashed
    BY <1>18 DEF CloseFlushed, Disconnect, Wake, WaitAt, Send, object
  <2>2. WillWake(s)'
    BY <1>18, DisconnectWillWake DEF CloseFlushed
  <2>. QED
    BY <2>1, <2>2, WakeFrame
<1>19. ASSUME NEW s \in Streams, DisconnectWake(s) PROVE NoLostWakeup'
  <2>1. /\ \A t \in Streams \ {s} :
             /\ pc'[t] = pc[t] /\ mStream'[t] = mStream[t] /\ queue'[t] = queue[t]
             /\ inflight'[t] = inflight[t] /\ mReadIndex'[t] = mReadIndex[t]
        /\ woken \ {s} \subseteq woken' /\ context' = context /\ ~crashed
    BY <1>19 DEF DisconnectWake, Wake, Answer, object
  <2>2. WillWake(s)'
    BY <1>19, IdleWillWake DEF DisconnectWake, Wake, Answer
  <2>. QED
    BY <2>1, <2>2, WakeFrame
<1>20. ASSUME NEW s \in Streams, TransferWake(s) PROVE NoLostWakeup'
  <2>1. /\ \A t \in Streams \ {s} :
             /\ pc'[t] = pc[t] /\ mStream'[t] = mStream[t] /\ queue'[t] = queue[t]
             /\ inflight'[t] = inflight[t] /\ mReadIndex'[t] = mReadIndex[t]
        /\ woken \ {s} \subseteq woken' /\ context' = context /\ ~crashed
    <3>1. op[s] \in Ops /\ size[s] \in Nat
      BY <1>20, PulseAssumption DEF TransferWake, Wake, Ops
    <3>2. CASE Transfer(s, op[s], size[s])
      BY <1>20, <3>1, <3>2, TransferFrame DEF TransferWake, Wake
    <3>. QED
      BY <1>20, <3>2 DEF TransferWake
  <2>2. WillWake(s)'
    <3>1. CASE Answer(s, op[s], "error") \/ Answer(s, op[s], "ok")
      BY <3>1, IdleWillWake DEF Answer
    <3>2. CASE StatusOk(s) /\ Move(s, Room(s)) /\ pc' = [pc EXCEPT ![s] = "transfer"]
      <4>1. Room(s)' = 0
        BY <3>2, MoveAllEmpties
      <4>2. mStream' = mStream /\ context' = context
        BY <1>20 DEF TransferWake
      <4>. QED
        BY <3>2, <4>1, <4>2 DEF WillWake
    <3>. QED
      BY <1>20, <3>1, <3>2 DEF TransferWake, Transfer, WaitAt
  <2>. QED
    BY <2>1, <2>2, WakeFrame
<1>21. ASSUME NEW s \in Streams, NEW ok \in BOOLEAN, ReplyCreate(s, ok) PROVE
      NoLostWakeup'
  BY <1>21, SignalAll DEF ReplyCreate, thread
<1>22. ASSUME NEW s \in Streams, NEW ok \in BOOLEAN, ReplyCork(s, ok) PROVE
      NoLostWakeup'
  BY <1>22, SignalAll DEF ReplyCork, thread
<1>23. ASSUME NEW s \in Streams, NEW ok \in BOOLEAN, ReplyFlush(s, ok) PROVE
      NoLostWakeup'
  BY <1>23, SignalAll DEF ReplyFlush, thread
<1>24. ASSUME NEW s \in Streams, ReplyDelete(s) PROVE NoLostWakeup'
  BY <1>24, SignalAll DEF ReplyDelete, thread
<1>25. ASSUME NEW s \in Streams, ReplyTiming(s) PROVE NoLostWakeup'
  <2>1. CASE s \in Playback
    BY <1>25, <2>1 DEF ReplyTiming, Signal, thread, NoLostWakeup, WillWake
  <2>2. CASE s \notin Playback
    <3>1. ASSUME NEW t \in Streams, WillWake(t) PROVE WillWake(t)'
      BY <1>25, <3>1, AnsweredFacts DEF ReplyTiming, thread, object, WillWake, Room
    <3>. QED
      BY <1>25, <2>2, <3>1 DEF ReplyTiming, Answered, Due, NoLostWakeup
  <2>. QED
    BY <2>1, <2>2
<1>26. ASSUME NEW s \in Streams, ReplyDetached(s) PROVE NoLostWakeup'
  <2>1. ASSUME NEW t \in Streams, WillWake(t) PROVE WillWake(t)'
    BY <1>26, <2>1, EmptyFacts DEF ReplyDetached, thread, object, WillWake, Room
  <2>. QED
    BY <1>26, <2>1 DEF ReplyDetached, NoLostWakeup
<1>27. ASSUME NEW s \in Streams, StreamRequest(s) PROVE NoLostWakeup'
  BY <1>27, SignalAll DEF StreamRequest, thread
<1>28. ASSUME NEW s \in Streams, StreamFailed(s) PROVE NoLostWakeup'
  BY <1>28, SignalAll DEF StreamFailed, thread
<1>29. ASSUME NEW s \in Streams, TimeEvent(s) PROVE NoLostWakeup'
  <2>1. ASSUME NEW t \in Streams, WillWake(t) PROVE WillWake(t)'
    BY <1>29, <2>1, SendFacts DEF TimeEvent, thread, object, WillWake, Room
  <2>. QED
    BY <1>29, <2>1 DEF TimeEvent, NoLostWakeup
<1>30. ASSUME NEW s \in Streams, LatencyUpdate(s) PROVE NoLostWakeup'
  BY <1>30, SignalAll DEF LatencyUpdate, thread
<1>31. CASE ContextFailed
  BY <1>31, SignalAll DEF ContextFailed, thread
<1>32. CASE UNCHANGED vars
  BY <1>32 DEF vars, pulse, object, thread, WillWake, NoLostWakeup, Outstanding, StatusOk, Room
<1>. QED
  BY <1>1, <1>2, <1>3, <1>4, <1>5, <1>6, <1>7, <1>8, <1>9, <1>10, <1>11,
      <1>12, <1>13, <1>14, <1>15, <1>16, <1>17, <1>18, <1>19, <1>20, <1>21,
      <1>22, <1>23, <1>24, <1>25, <1>26, <1>27, <1>28, <1>29, <1>30, <1>31,
     <1>32
  DEF Next, Command, Resume, Reply, Trigger, TriggerWake, FlushWake

\* The time event of an orderly frontend's stream.
LEMMA TimerStep ==
  TypeOK /\ CallInv /\ TimerInv /\ [Next]_vars => TimerInv'
<1> SUFFICES ASSUME PulseOK, ObjectOK, ThreadOK, CallInv, TimerInv,
      [Next]_vars PROVE TimerInv'
  BY DEF TypeOK
<1> USE DEF CallInv, TimerInv, ThreadOK, ObjectOK, Protocol, PhaseAfter,
      Triggers, object
<1>1. ASSUME NEW s \in Streams, OpenRefused(s) PROVE TimerInv'
  BY <1>1 DEF OpenRefused, Begin, Answer
<1>2. ASSUME NEW s \in Streams, OpenNotConnected(s) PROVE TimerInv'
  BY <1>2 DEF OpenNotConnected, Begin, Answer
<1>3. ASSUME NEW s \in Streams, OpenConnect(s) PROVE TimerInv'
  BY <1>3 DEF OpenConnect, Begin, WaitAt
<1>4. ASSUME NEW s \in Streams, NEW o \in Triggers, TriggerNull(s, o) PROVE
      TimerInv'
  BY <1>4 DEF TriggerNull, Begin, thread
<1>5. ASSUME NEW s \in Streams, NEW o \in Triggers, TriggerRefused(s, o) PROVE
      TimerInv'
  BY <1>5 DEF TriggerRefused, Begin, Answer
<1>6. ASSUME NEW s \in Streams, NEW o \in Triggers, TriggerSend(s, o) PROVE
      TimerInv'
  BY <1>6 DEF TriggerSend, Begin, WaitAt
<1>7. ASSUME NEW s \in Streams, CloseNull(s) PROVE TimerInv'
  BY <1>7 DEF CloseNull, Begin, Answer, StopTimer
<1>8. ASSUME NEW s \in Streams, Close(s) PROVE TimerInv'
  BY <1>8 DEF Close, Disconnect, Begin, WaitAt, StopTimer
<1>9. ASSUME NEW s \in Streams, NEW o \in {"read", "write"}, NEW n \in 0 ..
      Capacity + 1, ReadOrWrite(s, o, n) PROVE TimerInv'
  BY <1>9 DEF ReadOrWrite, Transfer, Begin, Answer, WaitAt
<1>10. ASSUME NEW s \in Streams, OpenWake(s) PROVE TimerInv'
  BY <1>10 DEF OpenWake, Wake, Answer, WaitAt
<1>11. ASSUME NEW s \in Streams, CorkWaitsOn(s) PROVE TimerInv'
  BY <1>11 DEF CorkWaitsOn, Wake, WaitAt
<1>12. ASSUME NEW s \in Streams, CorkFailed(s) PROVE TimerInv'
  BY <1>12 DEF CorkFailed, Wake, Answer
<1>13. ASSUME NEW s \in Streams, Started(s) PROVE TimerInv'
  BY <1>13 DEF Started, Wake, Answer, StopTimer
<1>14. ASSUME NEW s \in Streams, PausedOrResumed(s) PROVE TimerInv'
  BY <1>14 DEF PausedOrResumed, Wake, Answer
<1>15. ASSUME NEW s \in Streams, StopFlushes(s) PROVE TimerInv'
  BY <1>15 DEF StopFlushes, Wake, Answer, WaitAt, StopTimer
<1>16. ASSUME NEW s \in Streams, FlushWaitsOn(s) PROVE TimerInv'
  BY <1>16 DEF FlushWaitsOn, Wake, WaitAt
<1>17. ASSUME NEW s \in Streams, StopFlushed(s) PROVE TimerInv'
  BY <1>17 DEF StopFlushed, Wake, Answer, StopTimer
<1>18. ASSUME NEW s \in Streams, CloseFlushed(s) PROVE TimerInv'
  BY <1>18 DEF CloseFlushed, Disconnect, Wake, WaitAt
<1>19. ASSUME NEW s \in Streams, DisconnectWake(s) PROVE TimerInv'
  BY <1>19 DEF DisconnectWake, Wake, Answer
<1>20. ASSUME NEW s \in Streams, TransferWake(s) PROVE TimerInv'
  BY <1>20 DEF TransferWake, Transfer, Wake, Answer, WaitAt
<1>21. ASSUME NEW s \in Streams, NEW ok \in BOOLEAN, ReplyCreate(s, ok) PROVE
      TimerInv'
  BY <1>21 DEF ReplyCreate, thread
<1>22. ASSUME NEW s \in Streams, NEW ok \in BOOLEAN, ReplyCork(s, ok) PROVE
      TimerInv'
  BY <1>22 DEF ReplyCork
<1>23. ASSUME NEW s \in Streams, NEW ok \in BOOLEAN, ReplyFlush(s, ok) PROVE
      TimerInv'
  BY <1>23 DEF ReplyFlush, thread
<1>24. ASSUME NEW s \in Streams, ReplyDelete(s) PROVE TimerInv'
  BY <1>24 DEF ReplyDelete, thread
<1>25. ASSUME NEW s \in Streams, ReplyTiming(s) PROVE TimerInv'
  BY <1>25 DEF ReplyTiming, thread
<1>26. ASSUME NEW s \in Streams, ReplyDetached(s) PROVE TimerInv'
  BY <1>26 DEF ReplyDetached, thread
<1>27. ASSUME NEW s \in Streams, StreamRequest(s) PROVE TimerInv'
  BY <1>27 DEF StreamRequest, thread
<1>28. ASSUME NEW s \in Streams, StreamFailed(s) PROVE TimerInv'
  BY <1>28 DEF StreamFailed, thread
<1>29. ASSUME NEW s \in Streams, TimeEvent(s) PROVE TimerInv'
  BY <1>29 DEF TimeEvent, thread
<1>30. ASSUME NEW s \in Streams, LatencyUpdate(s) PROVE TimerInv'
  BY <1>30 DEF LatencyUpdate, object, thread
<1>31. CASE ContextFailed
  BY <1>31 DEF ContextFailed, thread
<1>32. CASE UNCHANGED vars
  BY <1>32 DEF vars, pulse, object, thread, CallInv
<1>. QED
  BY <1>1, <1>2, <1>3, <1>4, <1>5, <1>6, <1>7, <1>8, <1>9, <1>10, <1>11,
      <1>12, <1>13, <1>14, <1>15, <1>16, <1>17, <1>18, <1>19, <1>20, <1>21,
      <1>22, <1>23, <1>24, <1>25, <1>26, <1>27, <1>28, <1>29, <1>30, <1>31,
     <1>32
  DEF Next, Command, Resume, Reply, Trigger, TriggerWake, FlushWake

\* A step of the thread of s keeps the other streams quiet.
LEMMA QuietFrame ==
  ASSUME QuietInv, NEW s \in Streams,
         \A t \in Streams \ {s} :
           pc'[t] = pc[t] /\ op'[t] = op[t] /\ inflight'[t] = inflight[t],
         (Orderly /\ s \in Playback) => Quiet(s)'
  PROVE  QuietInv'
  BY DEF QuietInv, Quiet, Streams

\* An answer takes the head of the queue and leaves its last request last.
LEMMA AnsweredQuiet ==
  ASSUME PulseOK, QuietInv, NEW s \in Streams, NEW r \in Requests, Answered(s, r),
         pc' = pc, op' = op
  PROVE  QuietInv'
<1>1. \A t \in Streams \ {s} : inflight'[t] = inflight[t]
  BY AnsweredFacts
<1>2. inflight'[s] = Tail(inflight[s]) /\ inflight[s] # <<>> /\ inflight[s] \in Seq(Requests)
  BY AnsweredFacts DEF Answered, Due, PulseOK
<1>3. ASSUME inflight'[s] # <<>>
      PROVE  inflight'[s][Len(inflight'[s])] = inflight[s][Len(inflight[s])]
  BY <1>2, <1>3
<1>4. ASSUME inflight[s] \in {<<>>, <<"delete">>} PROVE inflight'[s] = <<>>
  <2>1. inflight[s] = <<"delete">>
    BY <1>2, <1>4
  <2>2. Tail(<<"delete">>) = <<>>
    OBVIOUS
  <2>. QED
    BY <1>2, <2>1, <2>2
<1>5. ASSUME Quiet(s) PROVE Quiet(s)'
  BY <1>2, <1>3, <1>4, <1>5 DEF Quiet
<1>6. ASSUME NEW t \in Playback, t # s, Quiet(t) PROVE Quiet(t)'
  BY <1>1, <1>6 DEF Quiet, Streams
<1>. QED
  BY <1>5, <1>6 DEF QuietInv

\* Nothing is asked after the flush of close().
LEMMA QuietStep ==
  TypeOK /\ CallInv /\ StreamInv /\ TimerInv /\ QuietInv /\ [Next]_vars => QuietInv'
<1> SUFFICES ASSUME PulseOK, ObjectOK, ThreadOK, CallInv, StreamInv, TimerInv,
      QuietInv, [Next]_vars PROVE QuietInv'
  BY DEF TypeOK
<1> USE DEF StreamInv, PulseOK, ThreadOK, Requests
<1>1. ASSUME NEW s \in Streams, OpenRefused(s) PROVE QuietInv'
  <2>1. /\ \A t \in Streams \ {s} :
             pc'[t] = pc[t] /\ op'[t] = op[t] /\ inflight'[t] = inflight[t]
    BY <1>1 DEF OpenRefused, Answer, pulse
  <2>2. Quiet(s)'
    BY <1>1 DEF OpenRefused, Answer, pulse, Quiet
  <2>. QED
    BY <2>1, <2>2, QuietFrame
<1>2. ASSUME NEW s \in Streams, OpenNotConnected(s) PROVE QuietInv'
  <2>1. /\ \A t \in Streams \ {s} :
             pc'[t] = pc[t] /\ op'[t] = op[t] /\ inflight'[t] = inflight[t]
    BY <1>2 DEF OpenNotConnected, Answer
  <2>2. Quiet(s)'
    BY <1>2 DEF OpenNotConnected, Answer, Quiet
  <2>. QED
    BY <2>1, <2>2, QuietFrame
<1>3. ASSUME NEW s \in Streams, OpenConnect(s) PROVE QuietInv'
  <2>1. /\ \A t \in Streams \ {s} :
             pc'[t] = pc[t] /\ op'[t] = op[t] /\ inflight'[t] = inflight[t]
    BY <1>3, SendFacts DEF OpenConnect, WaitAt
  <2>2. Quiet(s)'
    BY <1>3 DEF OpenConnect, WaitAt, Quiet
  <2>. QED
    BY <2>1, <2>2, QuietFrame
<1>4. ASSUME NEW s \in Streams, NEW o \in Triggers, TriggerNull(s, o) PROVE
      QuietInv'
  <2>1. pc' = pc /\ op' = op /\ inflight' = inflight
    BY <1>4 DEF TriggerNull, pulse, thread
  <2>. QED
    BY <2>1 DEF QuietInv, Quiet
<1>5. ASSUME NEW s \in Streams, NEW o \in Triggers, TriggerRefused(s, o) PROVE
      QuietInv'
  <2>1. /\ \A t \in Streams \ {s} :
             pc'[t] = pc[t] /\ op'[t] = op[t] /\ inflight'[t] = inflight[t]
    BY <1>5 DEF TriggerRefused, Answer, pulse, object
  <2>2. Quiet(s)'
    BY <1>5 DEF TriggerRefused, Answer, pulse, Quiet
  <2>. QED
    BY <2>1, <2>2, QuietFrame
<1>6. ASSUME NEW s \in Streams, NEW o \in Triggers, TriggerSend(s, o) PROVE
      QuietInv'
  <2>1. /\ \A t \in Streams \ {s} :
             pc'[t] = pc[t] /\ op'[t] = op[t] /\ inflight'[t] = inflight[t]
    BY <1>6, SendFacts DEF TriggerSend, WaitAt, object
  <2>2. Quiet(s)'
    BY <1>6 DEF TriggerSend, WaitAt, Quiet
  <2>. QED
    BY <2>1, <2>2, QuietFrame
<1>7. ASSUME NEW s \in Streams, CloseNull(s) PROVE QuietInv'
  <2>1. /\ \A t \in Streams \ {s} :
             pc'[t] = pc[t] /\ op'[t] = op[t] /\ inflight'[t] = inflight[t]
    BY <1>7 DEF CloseNull, Answer, pulse
  <2>2. Quiet(s)'
    BY <1>7 DEF CloseNull, Answer, pulse, Quiet
  <2>. QED
    BY <2>1, <2>2, QuietFrame
<1>8. ASSUME NEW s \in Streams, Close(s) PROVE QuietInv'
  <2>1. /\ \A t \in Streams \ {s} :
             pc'[t] = pc[t] /\ op'[t] = op[t] /\ inflight'[t] = inflight[t]
    BY <1>8, SendFacts DEF Close, Disconnect, WaitAt
  <2>2. ASSUME Orderly, s \in Playback PROVE Quiet(s)'
    <3>1. CASE mStream[s] = "ready"
      BY <1>8, <2>2, <3>1, SendFacts DEF Close, WaitAt, Quiet
    <3>2. CASE mStream[s] # "ready"
      <4>1. inflight'[s] = <<>>
        BY <1>8, <3>2 DEF Close, Disconnect, Begin
      <4>. QED
        BY <1>8, <3>2, <4>1 DEF Close, Disconnect, WaitAt, Quiet
    <3>. QED
      BY <3>1, <3>2
  <2>. QED
    BY <2>1, <2>2, QuietFrame DEF QuietInv
<1>9. ASSUME NEW s \in Streams, NEW o \in {"read", "write"}, NEW n \in 0 ..
      Capacity + 1, ReadOrWrite(s, o, n) PROVE QuietInv'
  <2>1. /\ \A t \in Streams \ {s} :
             pc'[t] = pc[t] /\ op'[t] = op[t] /\ inflight'[t] = inflight[t]
    BY <1>9 DEF ReadOrWrite, Transfer, Answer, WaitAt
  <2>2. Quiet(s)'
    BY <1>9 DEF ReadOrWrite, Transfer, Answer, WaitAt, Quiet
  <2>. QED
    BY <2>1, <2>2, QuietFrame
<1>10. ASSUME NEW s \in Streams, OpenWake(s) PROVE QuietInv'
  <2>1. /\ \A t \in Streams \ {s} :
             pc'[t] = pc[t] /\ op'[t] = op[t] /\ inflight'[t] = inflight[t]
    BY <1>10 DEF OpenWake, Wake, Answer, WaitAt, pulse, object
  <2>2. Quiet(s)'
    BY <1>10 DEF OpenWake, Answer, WaitAt, Quiet
  <2>. QED
    BY <2>1, <2>2, QuietFrame
<1>11. ASSUME NEW s \in Streams, CorkWaitsOn(s) PROVE QuietInv'
  <2>1. pc' = pc /\ op' = op /\ inflight' = inflight
    BY <1>11 DEF CorkWaitsOn, WaitAt, Wake, pulse
  <2>. QED
    BY <2>1 DEF QuietInv, Quiet
<1>12. ASSUME NEW s \in Streams, CorkFailed(s) PROVE QuietInv'
  <2>1. /\ \A t \in Streams \ {s} :
             pc'[t] = pc[t] /\ op'[t] = op[t] /\ inflight'[t] = inflight[t]
    BY <1>12 DEF CorkFailed, Wake, Answer, pulse, object
  <2>2. Quiet(s)'
    BY <1>12 DEF CorkFailed, Answer, pulse, Quiet
  <2>. QED
    BY <2>1, <2>2, QuietFrame
<1>13. ASSUME NEW s \in Streams, Started(s) PROVE QuietInv'
  <2>1. /\ \A t \in Streams \ {s} :
             pc'[t] = pc[t] /\ op'[t] = op[t] /\ inflight'[t] = inflight[t]
    BY <1>13 DEF Started, Wake, Answer, pulse
  <2>2. Quiet(s)'
    BY <1>13 DEF Started, Answer, WaitAt, Quiet
  <2>. QED
    BY <2>1, <2>2, QuietFrame
<1>14. ASSUME NEW s \in Streams, PausedOrResumed(s) PROVE QuietInv'
  <2>1. /\ \A t \in Streams \ {s} :
             pc'[t] = pc[t] /\ op'[t] = op[t] /\ inflight'[t] = inflight[t]
    BY <1>14 DEF PausedOrResumed, Wake, Answer, pulse, object
  <2>2. Quiet(s)'
    BY <1>14 DEF PausedOrResumed, Answer, pulse, Quiet
  <2>. QED
    BY <2>1, <2>2, QuietFrame
<1>15. ASSUME NEW s \in Streams, StopFlushes(s) PROVE QuietInv'
  <2>1. /\ \A t \in Streams \ {s} :
             pc'[t] = pc[t] /\ op'[t] = op[t] /\ inflight'[t] = inflight[t]
    BY <1>15, SendFacts DEF StopFlushes, Wake, Answer, WaitAt
  <2>2. Quiet(s)'
    BY <1>15 DEF StopFlushes, Answer, WaitAt, Quiet
  <2>. QED
    BY <2>1, <2>2, QuietFrame
<1>16. ASSUME NEW s \in Streams, FlushWaitsOn(s) PROVE QuietInv'
  <2>1. pc' = pc /\ op' = op /\ inflight' = inflight
    BY <1>16 DEF FlushWaitsOn, WaitAt, Wake, pulse
  <2>. QED
    BY <2>1 DEF QuietInv, Quiet
<1>17. ASSUME NEW s \in Streams, StopFlushed(s) PROVE QuietInv'
  <2>1. /\ \A t \in Streams \ {s} :
             pc'[t] = pc[t] /\ op'[t] = op[t] /\ inflight'[t] = inflight[t]
    BY <1>17 DEF StopFlushed, Wake, Answer, pulse
  <2>2. Quiet(s)'
    BY <1>17 DEF StopFlushed, Answer, pulse, Quiet
  <2>. QED
    BY <2>1, <2>2, QuietFrame
<1>18. ASSUME NEW s \in Streams, CloseFlushed(s) PROVE QuietInv'
  <2>1. /\ \A t \in Streams \ {s} :
             pc'[t] = pc[t] /\ op'[t] = op[t] /\ inflight'[t] = inflight[t]
    BY <1>18, SendFacts DEF CloseFlushed, Disconnect, Wake, WaitAt, object
  <2>2. ASSUME Orderly, s \in Playback PROVE Quiet(s)'
    <3>1. inflight[s] = <<>>
      <4>1. CASE StatusOk(s)
        <5>1. ~Outstanding(s, "flush") /\ pc[s] = "flush" /\ op[s] = "close"
          BY <1>18, <4>1 DEF CloseFlushed, OperationFinished, Wake
        <5>2. ASSUME inflight[s] # <<>> PROVE FALSE
          <6>1. inflight[s][Len(inflight[s])] = "flush"
            BY <2>2, <5>1, <5>2 DEF QuietInv, Quiet
          <6>2. Len(inflight[s]) \in 1 .. Len(inflight[s])
            BY <5>2
          <6>. QED
            BY <5>1, <6>1, <6>2 DEF Outstanding
        <5>. QED
          BY <5>2
      <4>2. CASE ~StatusOk(s)
        BY <4>2 DEF StatusOk
      <4>. QED
        BY <4>1, <4>2
    <3>2. inflight'[s] \in {<<>>, <<"delete">>}
      <4>1. CASE mStream[s] = "ready"
        <5>1. inflight'[s] = Append(<<>>, "delete")
          BY <1>18, <3>1, <4>1, SendFacts DEF CloseFlushed, Disconnect
        <5>. QED
          BY <5>1
      <4>2. CASE mStream[s] # "ready"
        BY <1>18, <3>1, <4>2 DEF CloseFlushed, Disconnect
      <4>. QED
        BY <4>1, <4>2
    <3>. QED
      BY <1>18, <3>2 DEF CloseFlushed, Disconnect, WaitAt, Quiet
  <2>. QED
    BY <2>1, <2>2, QuietFrame DEF QuietInv
<1>19. ASSUME NEW s \in Streams, DisconnectWake(s) PROVE QuietInv'
  <2>1. /\ \A t \in Streams \ {s} :
             pc'[t] = pc[t] /\ op'[t] = op[t] /\ inflight'[t] = inflight[t]
    BY <1>19 DEF DisconnectWake, Wake, Answer, object
  <2>2. Quiet(s)'
    BY <1>19 DEF DisconnectWake, Answer, Quiet
  <2>. QED
    BY <2>1, <2>2, QuietFrame
<1>20. ASSUME NEW s \in Streams, TransferWake(s) PROVE QuietInv'
  <2>1. /\ \A t \in Streams \ {s} :
             pc'[t] = pc[t] /\ op'[t] = op[t] /\ inflight'[t] = inflight[t]
    BY <1>20 DEF TransferWake, Transfer, Wake, Answer, WaitAt
  <2>2. Quiet(s)'
    BY <1>20 DEF TransferWake, Transfer, Answer, WaitAt, Quiet
  <2>. QED
    BY <2>1, <2>2, QuietFrame
<1>21. ASSUME NEW s \in Streams, NEW ok \in BOOLEAN, ReplyCreate(s, ok) PROVE
      QuietInv'
  <2>1. pc' = pc /\ op' = op
    BY <1>21 DEF ReplyCreate, thread
  <2>. QED
    BY <1>21, <2>1, AnsweredQuiet DEF ReplyCreate
<1>22. ASSUME NEW s \in Streams, NEW ok \in BOOLEAN, ReplyCork(s, ok) PROVE
      QuietInv'
  <2>1. pc' = pc /\ op' = op
    BY <1>22 DEF ReplyCork, thread
  <2>. QED
    BY <1>22, <2>1, AnsweredQuiet DEF ReplyCork
<1>23. ASSUME NEW s \in Streams, NEW ok \in BOOLEAN, ReplyFlush(s, ok) PROVE
      QuietInv'
  <2>1. pc' = pc /\ op' = op
    BY <1>23 DEF ReplyFlush, thread
  <2>. QED
    BY <1>23, <2>1, AnsweredQuiet DEF ReplyFlush
<1>24. ASSUME NEW s \in Streams, ReplyDelete(s) PROVE QuietInv'
  <2>1. Quiet(s)'
    BY <1>24 DEF ReplyDelete, Quiet, thread
  <2>. QED
    BY <1>24, <2>1, QuietFrame DEF ReplyDelete, thread
<1>25. ASSUME NEW s \in Streams, ReplyTiming(s) PROVE QuietInv'
  <2>1. pc' = pc /\ op' = op
    BY <1>25 DEF ReplyTiming, thread
  <2>. QED
    BY <1>25, <2>1, AnsweredQuiet DEF ReplyTiming
<1>26. ASSUME NEW s \in Streams, ReplyDetached(s) PROVE QuietInv'
  <2>1. pc' = pc /\ op' = op /\ inflight' = inflight
    BY <1>26 DEF ReplyDetached, pulse, thread
  <2>. QED
    BY <2>1 DEF QuietInv, Quiet
<1>27. ASSUME NEW s \in Streams, StreamRequest(s) PROVE QuietInv'
  <2>1. pc' = pc /\ op' = op /\ inflight' = inflight
    BY <1>27 DEF StreamRequest, pulse, thread
  <2>. QED
    BY <2>1 DEF QuietInv, Quiet
<1>28. ASSUME NEW s \in Streams, StreamFailed(s) PROVE QuietInv'
  <2>1. Quiet(s)'
    BY <1>28 DEF StreamFailed, Quiet, thread
  <2>. QED
    BY <1>28, <2>1, QuietFrame DEF StreamFailed, thread
<1>29. ASSUME NEW s \in Streams, TimeEvent(s) PROVE QuietInv'
  <2>1. /\ \A t \in Streams \ {s} :
             pc'[t] = pc[t] /\ op'[t] = op[t] /\ inflight'[t] = inflight[t]
    BY <1>29, SendFacts DEF TimeEvent, thread
  <2>2. ASSUME Orderly PROVE Quiet(s)'
    <3>1. mTimeEvent[s] /\ (pc[s] = "idle" \/ op[s] # "close")
      BY <1>29, <2>2 DEF TimeEvent, TimerInv
    <3>. QED
      BY <1>29, <3>1 DEF TimeEvent, thread, Quiet, CallInv
  <2>. QED
    BY <2>1, <2>2, QuietFrame DEF QuietInv
<1>30. ASSUME NEW s \in Streams, LatencyUpdate(s) PROVE QuietInv'
  BY <1>30 DEF LatencyUpdate, pulse, thread, QuietInv, Quiet
<1>31. CASE ContextFailed
  BY <1>31, EmptyFacts DEF ContextFailed, thread, QuietInv, Quiet, Streams
<1>32. CASE UNCHANGED vars
  BY <1>32 DEF vars, pulse, object, thread, QuietInv, Quiet
<1>. QED
  BY <1>1, <1>2, <1>3, <1>4, <1>5, <1>6, <1>7, <1>8, <1>9, <1>10, <1>11,
      <1>12, <1>13, <1>14, <1>15, <1>16, <1>17, <1>18, <1>19, <1>20, <1>21,
      <1>22, <1>23, <1>24, <1>25, <1>26, <1>27, <1>28, <1>29, <1>30, <1>31,
     <1>32
  DEF Next, Command, Resume, Reply, Trigger, TriggerWake, FlushWake

\* The elements of a concatenation.
LEMMA ConcatFacts ==
  ASSUME NEW S, NEW d \in Seq(S), NEW e \in Seq(S)
  PROVE  /\ Len(d) \in Nat /\ Len(e) \in Nat /\ Len(d \o e) = Len(d) + Len(e)
         /\ \A i \in 1 .. Len(d) : (d \o e)[i] = d[i]
         /\ \A i \in 1 .. Len(d \o e) : i > Len(d) =>
              i - Len(d) \in 1 .. Len(e) /\ (d \o e)[i] = e[i - Len(d)]
  OBVIOUS

\* Only the end of close() adds to the requests of a stream let go.
LEMMA ClosedStep ==
  TypeOK /\ QuietInv /\ PlaybackCloseQuiet /\ [Next]_vars => PlaybackCloseQuiet'
<1> SUFFICES ASSUME PulseOK, QuietInv, PlaybackCloseQuiet, Orderly, [Next]_vars,
                    NEW t \in Playback, NEW i \in 1 .. Len(detached'[t])
             PROVE  detached'[t][i] # "timing"
  BY DEF TypeOK, PlaybackCloseQuiet
<1>0. /\ \A j \in 1 .. Len(detached[t]) : detached[t][j] # "timing"
      /\ detached[t] \in Seq(Requests) /\ inflight[t] \in Seq(Requests) /\ t \in Streams
  BY DEF PlaybackCloseQuiet, PulseOK, Streams
<1>1. CASE detached' = detached
  BY <1>0, <1>1
<1>2. ASSUME NEW s \in Streams, DisconnectWake(s) PROVE detached'[t][i] # "timing"
  <2>1. CASE s # t
    BY <1>0, <1>2, <2>1 DEF DisconnectWake, PulseOK
  <2>2. CASE s = t
    <3>1. detached'[t] = detached[t] \o inflight[t]
      BY <1>0, <1>2, <2>2 DEF DisconnectWake, PulseOK
    <3>2. inflight[t] \in {<<>>, <<"delete">>}
      BY <1>2, <2>2 DEF DisconnectWake, Wake, QuietInv, Quiet
    <3>3. \A j \in 1 .. Len(inflight[t]) : inflight[t][j] # "timing"
      BY <3>2
    <3>4. CASE i <= Len(detached[t])
      BY <1>0, <3>1, <3>4, ConcatFacts
    <3>5. CASE i > Len(detached[t])
      <4>1. /\ detached'[t][i] = inflight[t][i - Len(detached[t])]
            /\ i - Len(detached[t]) \in 1 .. Len(inflight[t])
        <5>1. i \in 1 .. Len(detached[t] \o inflight[t])
          BY <3>1
        <5>2. i - Len(detached[t]) \in 1 .. Len(inflight[t])
          BY <1>0, <3>5, <5>1, ConcatFacts
        <5>3. (detached[t] \o inflight[t])[i] = inflight[t][i - Len(detached[t])]
          BY <1>0, <3>5, <5>1, ConcatFacts
        <5>. QED
          BY <3>1, <5>2, <5>3
      <4>. QED
        BY <3>3, <4>1
    <3>. QED
      BY <1>0, <3>4, <3>5, ConcatFacts
  <2>. QED
    BY <2>1, <2>2
<1>3. ASSUME NEW s \in Streams, ReplyDetached(s) PROVE detached'[t][i] # "timing"
  <2>1. CASE s # t
    BY <1>0, <1>3, <2>1 DEF ReplyDetached, PulseOK
  <2>2. CASE s = t
    <3>1. detached'[t] = Tail(detached[t]) /\ detached[t] # <<>>
      BY <1>0, <1>3, <2>2 DEF ReplyDetached, PulseOK
    <3>. QED
      BY <1>0, <3>1
  <2>. QED
    BY <2>1, <2>2
<1>4. CASE ContextFailed
  BY <1>0, <1>4 DEF ContextFailed
<1>5. ASSUME NEW s \in Streams, Command(s) PROVE detached' = detached
  BY <1>5 DEF Command, OpenRefused, OpenNotConnected, OpenConnect, Trigger,
      TriggerNull, TriggerRefused, TriggerSend, CloseNull, Close, ReadOrWrite,
      pulse
<1>6. ASSUME NEW s \in Streams, Resume(s), ~DisconnectWake(s) PROVE detached' = detached
  BY <1>6 DEF Resume, OpenWake, TriggerWake, CorkWaitsOn, CorkFailed, Started,
      PausedOrResumed, StopFlushes, FlushWake, FlushWaitsOn, StopFlushed,
      CloseFlushed, TransferWake, pulse
<1>7. ASSUME NEW s \in Streams, Reply(s), ~ReplyDetached(s) PROVE detached' = detached
  BY <1>7 DEF Reply, ReplyCreate, ReplyCork, ReplyFlush, ReplyDelete, ReplyTiming
<1>8. ASSUME NEW s \in Streams, StreamRequest(s) \/ StreamFailed(s) \/ TimeEvent(s)
                              \/ LatencyUpdate(s)
      PROVE  detached' = detached
  BY <1>8 DEF StreamRequest, StreamFailed, TimeEvent, LatencyUpdate, pulse
<1>9. CASE UNCHANGED vars
  BY <1>1, <1>9 DEF vars, pulse
<1>. QED
  BY <1>1, <1>2, <1>3, <1>4, <1>5, <1>6, <1>7, <1>8, <1>9 DEF Next

-----------------------------------------------------------------------------
(* Theorems. *)

\* The initial states.
LEMMA InitIInv == Init => IInv
<1> SUFFICES ASSUME Init PROVE IInv
  OBVIOUS
<1>1. TypeOK
  <2>1. <<>> \in Seq(Requests) /\ 0 \in 0 .. Capacity /\ 0 \in 0 .. Fragment - 1
    BY PulseAssumption
  <2>2. PulseOK
    BY <2>1 DEF Init, PulseOK, States
  <2>3. ObjectOK
    BY <2>1 DEF Init, ObjectOK
  <2>4. ThreadOK
    BY DEF Init, ThreadOK, Phases
  <2>. QED
    BY <2>2, <2>3, <2>4 DEF Init, TypeOK
<1>2. CallInv /\ StreamInv /\ WaitInv /\ AckInv
  BY EmptyFacts DEF Init, CallInv, StreamInv, WaitInv, AckInv, Requests
<1>3. NoLostWakeup /\ TimerInv /\ QuietInv /\ PlaybackCloseQuiet
  BY DEF Init, NoLostWakeup, WillWake, TimerInv, QuietInv, Quiet, PlaybackCloseQuiet, Streams
<1>. QED
  BY <1>1, <1>2, <1>3 DEF IInv

\* The inductive step.
LEMMA NextIInv == IInv /\ [Next]_vars => IInv'
  BY TypeStep, CallStep, StreamStep, WaitStep, AckStep, WakeupStep, TimerStep,
     QuietStep, ClosedStep DEF IInv

\* The inductive invariant holds for any number of streams, any capacity and
\* frontends orderly or not.
THEOREM Invariance == Spec => []IInv
  BY InitIInv, NextIInv, PTL DEF Spec

\* Every variable keeps its type; in particular the buffers keep within their
\* capacity and the read position within a fragment (read and write of
\* PulsePcm).
THEOREM TypeCorrect == Spec => []TypeOK
  BY Invariance, PTL DEF IInv

\* No request thread of PulsePcm ever waits for a signal that will not come, in
\* any number of streams (waitStreamReady, waitOperationFinished, read, write).
THEOREM NoWakeupIsLost == Spec => []NoLostWakeup
  BY Invariance, PTL DEF IInv

\* With orderly frontends the time event exists only while the stream is
\* started, and is never leaked (startTimer, stopTimer).
THEOREM TimerStopped == Spec => []TimerOnlyWhileStarted
<1>1. IInv => TimerOnlyWhileStarted
  BY DEF IInv, TimerInv, TimerOnlyWhileStarted
<1>. QED
  BY <1>1, Invariance, PTL

\* With orderly frontends no timing callback of a closed playback stream is
\* left to run on a null mStream (close, updateTimingCbk).
THEOREM PlaybackClosesQuietly == Spec => []PlaybackCloseQuiet
  BY Invariance, PTL DEF IInv

\* A trigger that succeeds on a healthy stream was acknowledged by the server
\* for this very command (waitOperationFinished, successCbk).
THEOREM TriggersAreAcked == Spec => AckedTriggers
<1>1. ASSUME IInv, [Next]_vars,
             NEW s \in Streams, op[s] \in Triggers, answer[s] = "none", answer'[s] = "ok",
             mStream[s] = "ready"
      PROVE  acked[s]
  <2>1. PulseOK /\ ThreadOK /\ CallInv /\ StreamInv /\ AckInv
    BY <1>1 DEF IInv, TypeOK
  <2>2. StatusOk(s) /\ pc[s] \in {"cork", "flush"} /\ (pc[s] = "flush" => op[s] = "stop")
    BY <1>1, <2>1 DEF StreamInv, StatusOk, CallInv, ThreadOK, Triggers
  <2>3. ASSUME NEW t \in Streams, Command(t) PROVE FALSE
    <3>1. pc[t] = "idle"
      BY <2>3
      DEF Command, OpenRefused, OpenNotConnected, OpenConnect, Trigger, TriggerNull,
          TriggerRefused, TriggerSend, CloseNull, Close, ReadOrWrite, Begin
    <3>2. answer'[s] = answer[s]
      BY <2>1, <2>2, <2>3, <3>1
      DEF Command, OpenRefused, OpenNotConnected, OpenConnect, Trigger, TriggerNull,
          TriggerRefused, TriggerSend, CloseNull, Close, Disconnect, ReadOrWrite,
          Transfer, Answer, WaitAt, thread, ThreadOK
    <3>. QED
      BY <1>1, <3>2
  <2>4. ASSUME NEW t \in Streams, Resume(t) PROVE acked[s]
    <3>1. t = s
      BY <1>1, <2>1, <2>4
      DEF Resume, OpenWake, TriggerWake, CorkWaitsOn, CorkFailed, Started,
          PausedOrResumed, StopFlushes, FlushWake, FlushWaitsOn, StopFlushed,
          CloseFlushed, Disconnect, DisconnectWake, TransferWake, Transfer,
          Answer, WaitAt, ThreadOK
    <3>2. CASE TriggerWake(s)
      <4>1. CASE CorkWaitsOn(s) \/ CorkFailed(s)
        BY <1>1, <2>1, <4>1 DEF CorkWaitsOn, CorkFailed, Answer, WaitAt, ThreadOK
      <4>2. CASE Started(s) \/ PausedOrResumed(s) \/ StopFlushes(s)
        BY <1>1, <2>1, <2>2, <4>2
        DEF Started, PausedOrResumed, StopFlushes, Wake, OperationFinished, Succeeded, AckInv
      <4>. QED
        BY <3>2, <4>1, <4>2 DEF TriggerWake
    <3>3. CASE FlushWake(s)
      BY <1>1, <2>1, <2>2, <3>3
      DEF FlushWake, FlushWaitsOn, StopFlushed, CloseFlushed, Wake, AckInv
    <3>4. CASE OpenWake(s) \/ DisconnectWake(s) \/ TransferWake(s)
      BY <2>2, <3>4 DEF OpenWake, DisconnectWake, TransferWake, Wake
    <3>. QED
      BY <2>4, <3>1, <3>2, <3>3, <3>4 DEF Resume
  <2>5. ASSUME NEW t \in Streams,
               Reply(t) \/ StreamRequest(t) \/ StreamFailed(t) \/ TimeEvent(t)
                 \/ LatencyUpdate(t)
        PROVE  answer' = answer
    BY <2>5
    DEF Reply, ReplyCreate, ReplyCork, ReplyFlush, ReplyDelete, ReplyTiming,
        ReplyDetached, StreamRequest, StreamFailed, TimeEvent, LatencyUpdate, thread
  <2>6. CASE ContextFailed \/ UNCHANGED vars
    BY <1>1, <2>6 DEF ContextFailed, vars, thread
  <2>. QED
    BY <1>1, <2>3, <2>4, <2>5, <2>6 DEF Next
<1>2. IInv /\ [Next]_vars =>
        [\A s \in Streams :
           (op[s] \in Triggers /\ answer[s] = "none" /\ answer'[s] = "ok"
              /\ mStream[s] = "ready") => acked[s]]_vars
  BY <1>1
<1>. QED
  BY <1>2, Invariance, PTL DEF Spec, AckedTriggers

-----------------------------------------------------------------------------
(* How a daemon with orderly frontends can be aborted. *)

\* No call runs on a device without a stream, and an orderly frontend thinks
\* one closed.
NullInv ==
  \A s \in Streams :
    mStream[s] = "null" => pc[s] = "idle" /\ (Orderly => phase[s] = "closed")

\* A step of s that gives it no stream away, or brings it to a close.
LEMMA NullFrame ==
  ASSUME NullInv, NEW s \in Streams,
         \A t \in Streams \ {s} :
           mStream'[t] = mStream[t] /\ pc'[t] = pc[t] /\ phase'[t] = phase[t],
         mStream'[s] = "null" => pc'[s] = "idle" /\ (Orderly => phase'[s] = "closed")
  PROVE  NullInv'
  BY DEF NullInv

\* A call that was answered at once on a closed device leaves it closed.
LEMMA AnswerNull ==
  ASSUME ThreadOK, NullInv, NEW s \in Streams, NEW o \in Ops, NEW r \in {"ok", "error"},
         Answer(s, o, r), mStream'[s] = mStream[s],
         o = "close" \/ r = "error" \/ mStream[s] # "null"
  PROVE  mStream'[s] = "null" => pc'[s] = "idle" /\ (Orderly => phase'[s] = "closed")
  BY DEF ThreadOK, NullInv, Answer, PhaseAfter

LEMMA NullStep == IInv /\ NullInv /\ [Next]_vars => NullInv'
<1> SUFFICES ASSUME PulseOK, ThreadOK, CallInv, StreamInv, NullInv, [Next]_vars PROVE NullInv'
  BY DEF IInv, TypeOK
<1> USE DEF PulseOK, ThreadOK
<1>1. ASSUME NEW s \in Streams, Command(s) PROVE NullInv'
  <2>1. \A t \in Streams \ {s} :
          mStream'[t] = mStream[t] /\ pc'[t] = pc[t] /\ phase'[t] = phase[t]
    BY <1>1
    DEF Command, OpenRefused, OpenNotConnected, OpenConnect, Trigger, TriggerNull,
        TriggerRefused, TriggerSend, CloseNull, Close, Disconnect, ReadOrWrite, Transfer,
        Answer, WaitAt, pulse, thread
  <2>2. CASE OpenRefused(s)
    BY <2>1, <2>2, AnswerNull, NullFrame DEF OpenRefused, pulse, Ops
  <2>3. CASE OpenNotConnected(s) \/ OpenConnect(s)
    <3>1. mStream'[s] # "null"
      BY <2>3 DEF OpenNotConnected, OpenConnect
    <3>. QED
      BY <2>1, <3>1, NullFrame
  <2>4. ASSUME NEW o \in Triggers, Trigger(s, o) PROVE NullInv'
    <3>1. CASE TriggerNull(s, o)
      BY <3>1 DEF TriggerNull, pulse, thread, NullInv
    <3>2. CASE TriggerRefused(s, o) \/ TriggerSend(s, o)
      <4>1. mStream'[s] # "null"
        BY <3>2 DEF TriggerRefused, TriggerSend, pulse
      <4>. QED
        BY <2>1, <4>1, NullFrame
    <3>. QED
      BY <2>4, <3>1, <3>2 DEF Trigger
  <2>5. CASE CloseNull(s)
    BY <2>1, <2>5, AnswerNull, NullFrame DEF CloseNull, pulse, Ops
  <2>6. CASE Close(s)
    <3>1. mStream'[s] # "null"
      BY <2>6 DEF Close
    <3>. QED
      BY <2>1, <3>1, NullFrame
  <2>7. ASSUME NEW o \in {"read", "write"}, NEW n \in 0 .. Capacity + 1, ReadOrWrite(s, o, n)
        PROVE  NullInv'
    <3>1. mStream' = mStream /\ o \in Ops
      BY <2>7 DEF ReadOrWrite, Ops
    <3>2. CASE mStream[s] # "null"
      BY <2>1, <3>1, <3>2, NullFrame
    <3>3. CASE mStream[s] = "null"
      <4>1. Answer(s, o, "error")
        BY <2>7, <3>3 DEF ReadOrWrite, Transfer, StatusOk
      <4>. QED
        BY <2>1, <3>1, <4>1, AnswerNull, NullFrame
    <3>. QED
      BY <3>2, <3>3
  <2>. QED
    BY <1>1, <2>2, <2>3, <2>4, <2>5, <2>6, <2>7 DEF Command
<1>2. ASSUME NEW s \in Streams, Resume(s) PROVE NullInv'
  <2>1. \A t \in Streams \ {s} :
          mStream'[t] = mStream[t] /\ pc'[t] = pc[t] /\ phase'[t] = phase[t]
    BY <1>2
    DEF Resume, OpenWake, TriggerWake, CorkWaitsOn, CorkFailed, Started, PausedOrResumed,
        StopFlushes, FlushWake, FlushWaitsOn, StopFlushed, CloseFlushed, Disconnect,
        DisconnectWake, TransferWake, Transfer, Answer, WaitAt, pulse
  <2>2. CASE DisconnectWake(s)
    <3>1. pc'[s] = "idle" /\ phase'[s] = "closed"
      BY <2>2 DEF DisconnectWake, Answer, PhaseAfter
    <3>. QED
      BY <2>1, <3>1, NullFrame
  <2>3. CASE ~DisconnectWake(s)
    <3>1. mStream' = mStream /\ pc[s] # "idle"
      BY <1>2, <2>3
      DEF Resume, OpenWake, TriggerWake, CorkWaitsOn, CorkFailed, Started, PausedOrResumed,
          StopFlushes, FlushWake, FlushWaitsOn, StopFlushed, CloseFlushed, TransferWake,
          Wake, pulse
    <3>. QED
      BY <2>1, <3>1, NullFrame DEF NullInv
  <2>. QED
    BY <2>2, <2>3
<1>3. ASSUME pc' = pc, phase' = phase,
             \A s \in Streams : mStream'[s] = "null" => mStream[s] = "null"
      PROVE  NullInv'
  BY <1>3 DEF NullInv
<1>4. ASSUME NEW s \in Streams,
             \/ Reply(s) \/ StreamRequest(s) \/ StreamFailed(s) \/ TimeEvent(s)
             \/ LatencyUpdate(s)
      PROVE  NullInv'
  <2>1. pc' = pc /\ phase' = phase
    BY <1>4
    DEF Reply, ReplyCreate, ReplyCork, ReplyFlush, ReplyDelete, ReplyTiming,
        ReplyDetached, StreamRequest, StreamFailed, TimeEvent, LatencyUpdate, thread
  <2>2. \A t \in Streams : mStream'[t] = "null" => mStream[t] = "null"
    BY <1>4
    DEF Reply, ReplyCreate, ReplyCork, ReplyFlush, ReplyDelete, ReplyTiming,
        ReplyDetached, StreamRequest, StreamFailed, TimeEvent, LatencyUpdate, pulse
  <2>. QED
    BY <1>3, <2>1, <2>2
<1>5. CASE ContextFailed
  BY <1>3, <1>5 DEF ContextFailed, thread
<1>6. CASE UNCHANGED vars
  BY <1>6 DEF vars, pulse, thread, NullInv
<1>. QED
  BY <1>1, <1>2, <1>4, <1>5, <1>6 DEF Next

\* What aborts an orderly frontend's daemon: a trigger does not, since no
\* trigger comes while the device has no stream.
LEMMA AbortStep ==
  ASSUME IInv, NullInv, [Next]_vars, Orderly, ~crashed, crashed'
  PROVE  \E s \in Capture :
           /\ detached[s] # <<>> /\ Head(detached[s]) = "timing"
           /\ detached'[s] = Tail(detached[s])
<1>1. PulseOK /\ crashed \in BOOLEAN
  BY DEF IInv, TypeOK
<1>2. PICK s \in Streams : ReplyDetached(s) \/ \E o \in Triggers : TriggerNull(s, o)
  BY DEF Next, Command, OpenRefused, OpenNotConnected, OpenConnect, Trigger,
     TriggerRefused, TriggerSend, CloseNull, Close, ReadOrWrite, Resume, OpenWake,
     TriggerWake, CorkWaitsOn, CorkFailed, Started, PausedOrResumed, StopFlushes, FlushWake,
     FlushWaitsOn, StopFlushed, CloseFlushed, DisconnectWake, TransferWake, Reply,
     ReplyCreate, ReplyCork, ReplyFlush, ReplyDelete, ReplyTiming, StreamRequest,
     StreamFailed, TimeEvent, LatencyUpdate, ContextFailed, vars
<1>3. ASSUME NEW o \in Triggers, TriggerNull(s, o) PROVE FALSE
  <2>1. phase[s] = "closed" /\ phase[s] \in Protocol(o)
    BY <1>3 DEF TriggerNull, Begin, NullInv
  <2>. QED
    BY <2>1 DEF Protocol, Triggers
<1>4. /\ detached[s] # <<>> /\ Head(detached[s]) = "timing"
      /\ detached'[s] = Tail(detached[s])
  BY <1>1, <1>2, <1>3 DEF ReplyDetached, PulseOK
<1>5. s \notin Playback
  <2>1. 1 \in 1 .. Len(detached[s]) /\ detached[s][1] = "timing"
    BY <1>1, <1>4 DEF PulseOK
  <2>. QED
    BY <2>1 DEF IInv, PlaybackCloseQuiet
<1>. QED
  BY <1>4, <1>5 DEF Streams

\* With orderly frontends libpulse aborts the daemon only when it answers the
\* timing request of a capture stream that close() has let go, for any number
\* of streams (updateTimingCbk, start, close).
THEOREM OnlyCaptureCanAbort == Spec => OnlyCaptureAborts
<1>1. Init => NullInv
  BY DEF Init, NullInv
<1>2. IInv /\ NullInv /\ [Next]_vars =>
        [Orderly /\ ~crashed /\ crashed' =>
           \E s \in Capture :
             /\ detached[s] # <<>> /\ Head(detached[s]) = "timing"
             /\ detached'[s] = Tail(detached[s])]_vars
  BY AbortStep
<1>. QED
  BY <1>1, <1>2, NullStep, Invariance, PTL DEF Spec, OnlyCaptureAborts
============================================================================
