--------------------------- MODULE PulsePcm_reads ---------------------------
(* Captured bytes are given once and none is dropped unread, in any number  *)
(* of streams and for every size of a fragment, a buffer and a read.        *)
EXTENDS PulsePcm_proofs

\* A stream that is being created has captured nothing and its read position is
\* at the start; an orderly frontend knows of a stream that is ready, but while
\* its OPEN runs.
Fresh(s) ==
  /\ mStream[s] = "creating" => queue[s] = 0 /\ mReadIndex[s] = 0
  /\ (Orderly /\ mStream[s] = "ready") => pc[s] = "open" \/ phase[s] # "closed"

FreshInv == \A s \in Streams : Fresh(s)

\* What ReadOnce says of a step and a stream: of what can be read, and of what
\* a READ that has n bytes to go is given.
ReadsOnce(s) ==
  (Orderly /\ s \in Capture) =>
    /\ Readable(s)' > Readable(s) => queue'[s] > queue[s]
    /\ (Readable(s)' < Readable(s) /\ mStream'[s] = "ready") => ReadGoesOn(s)

Takes(s, n) == Readable(s)' = Readable(s) - Given(s, n)

\* What of a stream these are about, and a step that leaves it alone.
Keeps(s) ==
  /\ mStream'[s] = mStream[s] /\ queue'[s] = queue[s] /\ mReadIndex'[s] = mReadIndex[s]
  /\ pc'[s] = pc[s] /\ phase'[s] = phase[s]

LEMMA RoomNat ==
  ASSUME PulseOK, ObjectOK, NEW s \in Streams
  PROVE  Room(s) \in Nat /\ Readable(s) \in Nat /\ queue[s] \in Nat
<1>1. Room(s) \in 0 .. Capacity /\ Capacity \in Nat /\ queue[s] \in 0 .. Capacity
  BY RoomType, PulseAssumption DEF PulseOK
<1>. QED
  BY <1>1 DEF Readable

LEMMA KeepsFresh ==
  ASSUME PulseOK, ObjectOK, NEW s \in Streams, Fresh(s), Keeps(s)
  PROVE  Fresh(s)' /\ ReadsOnce(s)
<1>1. Readable(s)' = Readable(s)
  BY DEF Keeps, Readable, Room
<1>. QED
  BY <1>1, RoomNat DEF Keeps, Fresh, ReadsOnce

\* A stream that is not ready after the step has nothing readable.
LEMMA NothingReadable ==
  ASSUME PulseOK, ObjectOK, NEW s \in Streams, mStream'[s] # "ready"
  PROVE  ReadsOnce(s)
<1>1. Readable(s)' = 0
  BY DEF Readable
<1>. QED
  BY <1>1, RoomNat DEF ReadsOnce

\* Copying takes what it copies from what can be read, whatever fragments end.
LEMMA MoveReads ==
  ASSUME PulseOK, ObjectOK, NEW s \in Capture, NEW k \in 0 .. Room(s), Move(s, k)
  PROVE  Room(s)' = Room(s) - k
<1>. DEFINE q     == queue[s]
            i     == mReadIndex[s]
            index == i + k
            rest  == index % Fragment
<1>1. /\ s \in Streams /\ s \notin Playback
      /\ q \in Nat /\ i \in 0 .. Fragment - 1 /\ Fragment \in Nat \ {0}
      /\ Room(s) \in Nat
  BY RoomNat, PulseAssumption DEF Streams, PulseOK, ObjectOK
<1>2. queue'[s] = q - (index - rest) /\ mReadIndex'[s] = rest
  BY <1>1 DEF Move, PulseOK, ObjectOK
<1>3. /\ Room(s) = IF q >= i THEN q - i ELSE 0
      /\ Room(s)' = IF queue'[s] >= mReadIndex'[s] THEN queue'[s] - mReadIndex'[s] ELSE 0
  BY <1>1 DEF Room
<1>4. index \in Nat /\ rest \in Nat /\ rest <= index /\ (index < Fragment => rest = index)
  <2>1. index \in Nat
    BY <1>1
  <2>. HIDE DEF index
  <2>2. /\ index % Fragment \in 0 .. Fragment - 1 /\ index % Fragment <= index
        /\ index < Fragment => index % Fragment = index
    BY <1>1, <2>1, ModFacts
  <2>. QED
    BY <1>1, <2>1, <2>2
<1>5. k \in Nat /\ k <= Room(s)
  BY <1>1
<1>. DEFINE r == Room(s)
            p == Room(s)'
<1>6. r \in Nat /\ k <= r /\ r = (IF q >= i THEN q - i ELSE 0)
      /\ p = IF q - (index - rest) >= rest THEN q - (index - rest) - rest ELSE 0
  BY <1>1, <1>2, <1>3, <1>5
<1>7. index = i + k
  OBVIOUS
<1>. HIDE DEF q, i, index, rest, r, p
<1>8. p = r - k
  BY <1>1, <1>4, <1>5, <1>6, <1>7
<1>. QED
  BY <1>8 DEF r, p

-----------------------------------------------------------------------------
(* The steps. *)

\* A step of one stream leaves the others alone.
LEMMA Elsewhere ==
  ASSUME PulseOK, ObjectOK, ThreadOK, NEW t \in Streams, NEW s \in Streams \ {t},
         \/ Command(t) \/ Resume(t) \/ Reply(t)
         \/ StreamRequest(t) \/ StreamFailed(t) \/ TimeEvent(t) \/ LatencyUpdate(t)
  PROVE  Keeps(s)
<1>. USE DEF Keeps, PulseOK, ObjectOK, ThreadOK, pulse, object, thread, Answer, WaitAt
<1>1. CASE OpenRefused(t) \/ OpenNotConnected(t) \/ OpenConnect(t) \/ OpenWake(t)
  BY <1>1 DEF OpenRefused, OpenNotConnected, OpenConnect, OpenWake
<1>2. ASSUME NEW o \in Triggers, Trigger(t, o)
      PROVE  Keeps(s)
  BY <1>2 DEF Trigger, TriggerNull, TriggerRefused, TriggerSend
<1>3. CASE TriggerWake(t)
  BY <1>3 DEF TriggerWake, CorkWaitsOn, CorkFailed, Started, PausedOrResumed, StopFlushes
<1>4. CASE CloseNull(t) \/ Close(t) \/ FlushWake(t) \/ DisconnectWake(t)
  BY <1>4 DEF CloseNull, Close, FlushWake, FlushWaitsOn, StopFlushed, CloseFlushed,
              Disconnect, DisconnectWake
<1>5. ASSUME NEW o \in {"read", "write"}, NEW n \in Nat, Transfer(t, o, n)
      PROVE  queue'[s] = queue[s] /\ mReadIndex'[s] = mReadIndex[s]
             /\ pc'[s] = pc[s] /\ phase'[s] = phase[s]
  BY <1>5 DEF Transfer, Move
<1>6. ASSUME NEW o \in {"read", "write"}, NEW n \in 0 .. Capacity + 1, ReadOrWrite(t, o, n)
      PROVE  Keeps(s)
  BY <1>5, <1>6, PulseAssumption DEF ReadOrWrite
<1>7. CASE TransferWake(t)
  <2>1. pc[t] = "transfer" /\ size[t] \in Nat /\ Transfer(t, op[t], size[t]) /\ mStream' = mStream
    BY <1>7 DEF TransferWake, Wake
  <2>. QED
    BY <2>1 DEF Transfer, Move
<1>8. CASE Reply(t)
  BY <1>8 DEF Reply, ReplyCreate, ReplyCork, ReplyFlush, ReplyDelete, ReplyTiming, ReplyDetached
<1>9. CASE StreamRequest(t) \/ StreamFailed(t) \/ TimeEvent(t) \/ LatencyUpdate(t)
  BY <1>9 DEF StreamRequest, StreamFailed, TimeEvent, LatencyUpdate
<1>. QED
  BY <1>1, <1>2, <1>3, <1>4, <1>6, <1>7, <1>8, <1>9 DEF Command, Resume

LEMMA OpenStep ==
  ASSUME TypeOK, StreamInv, FreshInv, NEW s \in Streams,
         OpenRefused(s) \/ OpenNotConnected(s) \/ OpenConnect(s) \/ OpenWake(s)
  PROVE  Fresh(s)' /\ ReadsOnce(s)
<1>. USE DEF TypeOK, PulseOK, ObjectOK, ThreadOK, Answer, WaitAt
<1>0. Fresh(s)
  BY DEF FreshInv
<1>1. CASE OpenRefused(s)
  <2>1. /\ mStream'[s] = mStream[s] /\ queue' = queue /\ pc[s] = "idle"
        /\ Orderly => phase[s] = "closed"
        /\ phase'[s] = phase[s]
        /\ mReadIndex'[s] \in {0, mReadIndex[s]}
    BY <1>1 DEF OpenRefused, Begin, Protocol, pulse
  <2>2. mStream[s] # "creating" /\ (Orderly => mStream[s] # "ready")
    BY <1>0, <2>1 DEF StreamInv, Fresh
  <2>3. ReadsOnce(s)
    BY <2>1, <2>2, NothingReadable DEF ReadsOnce
  <2>. QED
    BY <2>1, <2>2, <2>3 DEF Fresh
<1>2. CASE OpenNotConnected(s) \/ OpenConnect(s)
  <2>1. /\ mStream'[s] \in {"unconnected", "creating"}
        /\ mStream'[s] = "creating" => queue'[s] = 0 /\ mReadIndex'[s] = 0
    BY <1>2 DEF OpenNotConnected, OpenConnect
  <2>. QED
    BY <2>1, NothingReadable DEF Fresh
<1>3. CASE OpenWake(s)
  <2>1. /\ mStream' = mStream /\ queue' = queue /\ mReadIndex' = mReadIndex
    BY <1>3 DEF OpenWake, pulse, object
  <2>2. mStream[s] = "ready" => phase'[s] = "opened"
    BY <1>3 DEF OpenWake, PhaseAfter
  <2>3. Readable(s)' = Readable(s)
    BY <2>1 DEF Readable, Room
  <2>. QED
    BY <1>0, <2>1, <2>2, <2>3, RoomNat DEF Fresh, ReadsOnce
<1>. QED
  BY <1>1, <1>2, <1>3

LEMMA TriggerStep ==
  ASSUME TypeOK, CallInv, StreamInv, FreshInv, NEW s \in Streams,
         (\E o \in Triggers : Trigger(s, o)) \/ TriggerWake(s) \/ FlushWake(s)
           \/ CloseNull(s) \/ Close(s) \/ DisconnectWake(s)
  PROVE  Fresh(s)' /\ ReadsOnce(s)
<1>. USE DEF TypeOK, PulseOK, ObjectOK, ThreadOK, Answer, WaitAt
<1>0. Fresh(s)
  BY DEF FreshInv
<1>1. ASSUME mStream'[s] = mStream[s], queue'[s] = queue[s], mReadIndex'[s] = mReadIndex[s],
             mStream[s] = "creating" => pc[s] = "open",
             pc[s] # "open", phase'[s] # "closed" \/ phase'[s] = phase[s]
      PROVE  Fresh(s)' /\ ReadsOnce(s)
  <2>1. Readable(s)' = Readable(s)
    BY <1>1 DEF Readable, Room
  <2>. QED
    BY <1>0, <1>1, <2>1, RoomNat DEF Fresh, ReadsOnce
<1>2. mStream[s] = "creating" => pc[s] = "open"
  BY DEF StreamInv
<1>3. ASSUME NEW o \in Triggers, Trigger(s, o)
      PROVE  Fresh(s)' /\ ReadsOnce(s)
  <2>1. /\ mStream' = mStream /\ queue' = queue /\ mReadIndex' = mReadIndex
        /\ pc[s] = "idle" /\ phase'[s] = phase[s]
    BY <1>3 DEF Trigger, TriggerNull, TriggerRefused, TriggerSend, Begin, pulse, object, thread,
                Triggers
  <2>. QED
    BY <1>1, <1>2, <2>1
<1>4. CASE TriggerWake(s) \/ FlushWake(s)
  <2>1. /\ mStream' = mStream /\ queue' = queue /\ mReadIndex' = mReadIndex
        /\ pc[s] \in {"cork", "flush"}
    BY <1>4 DEF TriggerWake, CorkWaitsOn, CorkFailed, Started, PausedOrResumed, StopFlushes,
                FlushWake, FlushWaitsOn, StopFlushed, CloseFlushed, Wake, pulse, object
  <2>2. phase'[s] # "closed" \/ phase'[s] = phase[s]
    <3>1. CASE TriggerWake(s)
      BY <3>1 DEF TriggerWake, CorkWaitsOn, CorkFailed, Started, PausedOrResumed, StopFlushes,
                  Wake, CallInv, PhaseAfter, Triggers
    <3>2. CASE FlushWake(s)
      BY <3>2 DEF FlushWake, FlushWaitsOn, StopFlushed, CloseFlushed, Disconnect, PhaseAfter
    <3>. QED
      BY <1>4, <2>1, <3>1, <3>2 DEF FlushWake, TriggerWake
  <2>. QED
    BY <1>1, <1>2, <2>1, <2>2
<1>5. CASE Close(s)
  <2>1. /\ mStream' = mStream /\ queue' = queue /\ mReadIndex' = mReadIndex
        /\ pc[s] = "idle" /\ phase'[s] = phase[s]
    BY <1>5 DEF Close, Begin, Disconnect
  <2>. QED
    BY <1>1, <1>2, <2>1
<1>6. CASE CloseNull(s) \/ DisconnectWake(s)
  <2>1. mStream'[s] = "null"
    BY <1>6 DEF CloseNull, DisconnectWake, pulse
  <2>. QED
    BY <2>1, NothingReadable DEF Fresh
<1>. QED
  BY <1>3, <1>4, <1>5, <1>6

\* From a wake-up, or from the call, to the next wait or the return, a READ
\* takes from what can be read exactly what it gives.
LEMMA TransferTakes ==
  ASSUME TypeOK, StreamInv, FreshInv, NEW s \in Capture, NEW n \in Nat,
         NEW o \in {"read", "write"}, Transfer(s, o, n), mStream' = mStream
  PROVE  Takes(s, n) /\ Given(s, n) \in Nat
<1>. USE DEF TypeOK
<1>0. s \in Streams /\ (mStream[s] = "creating" => Room(s) = 0)
  <2>1. s \in Streams /\ s \notin Playback
    BY PulseAssumption DEF Streams
  <2>. QED
    BY <2>1 DEF FreshInv, Fresh, Room
<1>1. Room(s) \in Nat /\ Readable(s) \in Nat
  BY <1>0, RoomNat
<1>2. CASE ~StatusOk(s)
  <2>1. queue' = queue /\ mReadIndex' = mReadIndex /\ answer'[s] = "error"
    BY <1>0, <1>2 DEF Transfer, Answer, ThreadOK
  <2>2. Readable(s)' = Readable(s) /\ Given(s, n) = 0
    BY <2>1 DEF Readable, Room, Given
  <2>. QED
    BY <1>1, <2>1, <2>2 DEF Takes
<1>3. ASSUME StatusOk(s), NEW k \in 0 .. Room(s), Move(s, k), Given(s, n) = k
      PROVE  Takes(s, n)
  <2>1. Room(s)' = Room(s) - k
    BY <1>3, MoveReads
  <2>2. CASE mStream[s] = "ready"
    BY <1>3, <2>1, <2>2 DEF Takes, Readable
  <2>3. CASE mStream[s] = "creating"
    <3>1. k = 0 /\ Readable(s) = 0 /\ Readable(s)' = 0
      BY <1>0, <1>3, <2>3 DEF Readable
    <3>. QED
      BY <1>3, <3>1 DEF Takes
  <2>. QED
    BY <1>3, <2>2, <2>3 DEF StatusOk
<1>4. CASE StatusOk(s) /\ n <= Room(s)
  <2>1. Move(s, n) /\ n \in 0 .. Room(s) /\ answer'[s] = "ok"
    BY <1>0, <1>1, <1>4 DEF Transfer, Answer, ThreadOK
  <2>2. Given(s, n) = n
    BY <2>1 DEF Given
  <2>. QED
    BY <1>1, <1>3, <1>4, <2>1, <2>2
<1>5. CASE StatusOk(s) /\ n > Room(s)
  <2>1. /\ Move(s, Room(s)) /\ Room(s) \in 0 .. Room(s)
        /\ answer'[s] = "none" /\ size'[s] = n - Room(s)
    BY <1>0, <1>1, <1>5 DEF Transfer, WaitAt, ThreadOK
  <2>2. Given(s, n) = n - (n - Room(s))
    BY <2>1 DEF Given
  <2>3. Given(s, n) = Room(s)
    BY <1>1, <2>2
  <2>. QED
    BY <1>1, <1>3, <1>5, <2>1, <2>3
<1>. QED
  BY <1>1, <1>2, <1>4, <1>5

\* A call that does not get as far as the transfer gives nothing.
LEMMA RefusedTakes ==
  ASSUME TypeOK, NEW s \in Capture, NEW n \in Nat, NEW o \in {"read", "write"},
         Answer(s, o, "error"), UNCHANGED <<queue, mReadIndex>>, mStream' = mStream
  PROVE  Takes(s, n) /\ Readable(s)' = Readable(s)
<1>1. s \in Streams
  BY DEF Streams
<1>2. Readable(s)' = Readable(s) /\ answer'[s] = "error"
  BY <1>1 DEF Readable, Room, Answer, TypeOK, ThreadOK
<1>3. Readable(s) \in Nat /\ Given(s, n) = 0
  BY <1>1, <1>2, RoomNat DEF TypeOK, Given
<1>. QED
  BY <1>2, <1>3 DEF Takes

\* What ReadOnce says of a READ, in the form of the theorem.
LEMMA ReadTakes ==
  ASSUME TypeOK, CallInv, StreamInv, FreshInv, NEW s \in Capture
  PROVE  /\ \A n \in 0 .. Capacity + 1 : ReadOrWrite(s, "read", n) => Takes(s, n)
         /\ TransferWake(s) => Takes(s, size[s])
<1>1. ASSUME NEW n \in 0 .. Capacity + 1, ReadOrWrite(s, "read", n)
      PROVE  Takes(s, n)
  <2>1. n \in Nat /\ mStream' = mStream
    BY <1>1, PulseAssumption DEF ReadOrWrite
  <2>2. CASE Transfer(s, "read", n)
    BY <2>1, <2>2, TransferTakes
  <2>3. CASE Answer(s, "read", "error") /\ UNCHANGED <<queue, mReadIndex>>
    BY <2>1, <2>3, RefusedTakes
  <2>. QED
    BY <1>1, <2>2, <2>3 DEF ReadOrWrite
<1>2. ASSUME TransferWake(s)
      PROVE  Takes(s, size[s])
  <2>1. /\ mStream' = mStream /\ op[s] \in {"read", "write"}
        /\ size[s] \in Nat /\ Transfer(s, op[s], size[s])
    BY <1>2 DEF TransferWake, Wake, CallInv, TypeOK, ThreadOK, Streams
  <2>. QED
    BY <2>1, TransferTakes
<1>. QED
  BY <1>1, <1>2

LEMMA TransferStep ==
  ASSUME TypeOK, CallInv, StreamInv, FreshInv, NEW s \in Streams,
         (\E o \in {"read", "write"}, n \in 0 .. Capacity + 1 : ReadOrWrite(s, o, n))
           \/ TransferWake(s)
  PROVE  Fresh(s)' /\ ReadsOnce(s)
<1>. USE DEF TypeOK
<1>0. Fresh(s) /\ (mStream[s] = "creating" => pc[s] = "open")
  BY DEF FreshInv, StreamInv
<1>1. ASSUME pc[s] # "open", mStream' = mStream, phase'[s] = phase[s],
             s \in Capture => \/ Readable(s)' = Readable(s)
                              \/ ~ (Readable(s)' > Readable(s)) /\ ReadGoesOn(s)
      PROVE  Fresh(s)' /\ ReadsOnce(s)
  BY <1>0, <1>1, RoomNat DEF Fresh, ReadsOnce
<1>2. ASSUME NEW o \in {"read", "write"}, NEW n \in Nat, Transfer(s, o, n), mStream' = mStream
      PROVE  /\ phase'[s] = phase[s]
             /\ s \in Capture => ~ (Readable(s)' > Readable(s))
  <2>1. phase'[s] = phase[s]
    BY <1>2 DEF Transfer, Answer, WaitAt, ThreadOK, PhaseAfter
  <2>2. ASSUME s \in Capture
        PROVE  ~ (Readable(s)' > Readable(s))
    <3>1. Takes(s, n) /\ Given(s, n) \in Nat
      BY <1>2, <2>2, TransferTakes
    <3>2. Readable(s) \in Nat
      BY RoomNat
    <3>. QED
      BY <3>1, <3>2 DEF Takes
  <2>. QED
    BY <2>1, <2>2
<1>3. ASSUME NEW o \in {"read", "write"}, NEW n \in 0 .. Capacity + 1, ReadOrWrite(s, o, n)
      PROVE  /\ pc[s] # "open" /\ mStream' = mStream /\ phase'[s] = phase[s]
             /\ s \in Capture => \/ Readable(s)' = Readable(s)
                                 \/ ~ (Readable(s)' > Readable(s)) /\ ReadGoesOn(s)
  <2>1. n \in Nat /\ pc[s] = "idle" /\ mStream' = mStream
    BY <1>3, PulseAssumption DEF ReadOrWrite, Begin
  <2>2. CASE n > 0 /\ (s \in Playback <=> o = "write")
    <3>1. Transfer(s, o, n)
      BY <1>3, <2>2 DEF ReadOrWrite
    <3>2. s \in Capture => ReadGoesOn(s)
      BY <1>3, <2>2, PulseAssumption DEF ReadGoesOn
    <3>. QED
      BY <1>2, <2>1, <3>1, <3>2
  <2>3. CASE ~ (n > 0 /\ (s \in Playback <=> o = "write"))
    <3>1. Answer(s, o, "error") /\ UNCHANGED <<queue, mReadIndex>>
      BY <1>3, <2>3 DEF ReadOrWrite
    <3>2. phase'[s] = phase[s]
      BY <3>1 DEF Answer, ThreadOK
    <3>. QED
      BY <2>1, <3>1, <3>2, RefusedTakes
  <2>. QED
    BY <2>2, <2>3
<1>4. CASE TransferWake(s)
  <2>1. pc[s] = "transfer" /\ mStream' = mStream /\ op[s] \in {"read", "write"}
        /\ size[s] \in Nat /\ Transfer(s, op[s], size[s])
    BY <1>4 DEF TransferWake, Wake, CallInv, ThreadOK
  <2>2. pc[s] # "open" /\ mStream' = mStream /\ phase'[s] = phase[s]
        /\ (s \in Capture => ~ (Readable(s)' > Readable(s)))
    BY <1>2, <2>1
  <2>. QED
    BY <1>1, <1>4, <2>2 DEF ReadGoesOn
<1>. QED
  BY <1>1, <1>3, <1>4

LEMMA ServerStep ==
  ASSUME TypeOK, StreamInv, FreshInv, NEW s \in Streams,
         Reply(s) \/ StreamRequest(s) \/ StreamFailed(s) \/ TimeEvent(s) \/ LatencyUpdate(s)
  PROVE  Fresh(s)' /\ ReadsOnce(s)
<1>. USE DEF TypeOK
<1>0. Fresh(s) /\ (mStream[s] = "creating" => pc[s] = "open")
  BY DEF FreshInv, StreamInv
<1>1. ASSUME Keeps(s)
      PROVE  Fresh(s)' /\ ReadsOnce(s)
  BY <1>0, <1>1, KeepsFresh
<1>2. ASSUME NEW ok \in BOOLEAN, ReplyCreate(s, ok)
      PROVE  Fresh(s)' /\ ReadsOnce(s)
  <2>1. mStream[s] = "creating"
    BY <1>2, AnsweredFacts DEF ReplyCreate, StreamInv, Requests
  <2>2. /\ queue' = queue /\ mReadIndex' = mReadIndex /\ pc' = pc /\ phase' = phase
        /\ mStream'[s] \in {"ready", "failed"}
    BY <1>2 DEF ReplyCreate, PulseOK, object, thread
  <2>3. s \in Capture => Room(s)' = 0
    <3>1. queue'[s] = 0 /\ mReadIndex'[s] = 0
      BY <1>0, <2>1, <2>2 DEF Fresh
    <3>2. s \in Capture => s \notin Playback
      BY PulseAssumption
    <3>. QED
      BY <3>1, <3>2 DEF Room
  <2>4. s \in Capture => Readable(s)' = 0 /\ Readable(s) = 0
    BY <2>1, <2>3 DEF Readable
  <2>. QED
    BY <1>0, <2>1, <2>2, <2>4, RoomNat DEF Fresh, ReadsOnce
<1>3. ASSUME NEW ok \in BOOLEAN, ReplyFlush(s, ok)
      PROVE  Fresh(s)' /\ ReadsOnce(s)
  <2>1. CASE s \in Playback
    <3>1. /\ mStream' = mStream /\ mReadIndex' = mReadIndex /\ pc' = pc /\ phase' = phase
          /\ queue'[s] \in {0, queue[s]}
      BY <1>3 DEF ReplyFlush, PulseOK, thread
    <3>. QED
      BY <1>0, <2>1, <3>1, PulseAssumption DEF Fresh, ReadsOnce
  <2>2. CASE s \notin Playback
    BY <1>1, <1>3, <2>2 DEF ReplyFlush, PulseOK, thread, Keeps
  <2>. QED
    BY <2>1, <2>2
<1>4. ASSUME NEW ok \in BOOLEAN, ReplyCork(s, ok)
      PROVE  Keeps(s)
  BY <1>4 DEF ReplyCork, Keeps
<1>5. CASE ReplyTiming(s) \/ ReplyDetached(s) \/ TimeEvent(s) \/ LatencyUpdate(s)
  BY <1>1, <1>5
  DEF ReplyTiming, ReplyDetached, TimeEvent, LatencyUpdate, Keeps, pulse, object, thread
<1>6. CASE ReplyDelete(s) \/ StreamFailed(s)
  <2>1. mStream'[s] \in {"terminated", "failed"}
    BY <1>6 DEF ReplyDelete, StreamFailed, PulseOK
  <2>. QED
    BY <2>1, NothingReadable DEF Fresh
<1>7. CASE StreamRequest(s)
  <2>1. /\ mStream[s] = "ready" /\ mStream' = mStream /\ pc' = pc /\ phase' = phase
    BY <1>7 DEF StreamRequest, thread
  <2>2. s \in Capture => queue'[s] = queue[s] + Fragment
    BY <1>7, PulseAssumption DEF StreamRequest, PulseOK, Streams
  <2>3. s \in Capture => queue'[s] > queue[s]
    BY <2>2, RoomNat, PulseAssumption
  <2>4. s \in Capture => Room(s)' \in Nat /\ Room(s)' >= Room(s)
    <3>1. mReadIndex'[s] = mReadIndex[s] /\ mReadIndex[s] \in Nat /\ queue[s] \in Nat
      BY <1>7, RoomNat, PulseAssumption DEF StreamRequest, object, ObjectOK
    <3>2. s \in Capture => s \notin Playback
      BY PulseAssumption
    <3>3. ASSUME s \in Capture
          PROVE  Room(s)' \in Nat /\ Room(s)' >= Room(s)
      <4>1. /\ Room(s) = IF queue[s] >= mReadIndex[s] THEN queue[s] - mReadIndex[s] ELSE 0
            /\ Room(s)' = IF queue'[s] >= mReadIndex'[s]
                           THEN queue'[s] - mReadIndex'[s] ELSE 0
        BY <3>2, <3>3 DEF Room
      <4>2. queue'[s] = queue[s] + Fragment /\ Fragment \in Nat
        BY <2>2, <3>3, PulseAssumption
      <4>. DEFINE a == queue[s]  b == queue'[s]  i == mReadIndex[s]  j == mReadIndex'[s]
      <4>3. /\ a \in Nat /\ i \in Nat /\ j = i /\ b = a + Fragment
            /\ Room(s) = (IF a >= i THEN a - i ELSE 0)
            /\ Room(s)' = (IF b >= j THEN b - j ELSE 0)
        BY <3>1, <4>1, <4>2
      <4>. HIDE DEF a, b, i, j
      <4>. QED
        BY <4>2, <4>3
    <3>. QED
      BY <3>3
  <2>5. s \in Capture => ~ (Readable(s)' < Readable(s))
    <3>1. Readable(s) = Room(s) /\ Readable(s)' = Room(s)'
      BY <2>1 DEF Readable
    <3>2. Room(s) \in Nat
      BY RoomNat
    <3>. QED
      BY <2>4, <3>1, <3>2
  <2>. QED
    BY <1>0, <2>1, <2>3, <2>5 DEF Fresh, ReadsOnce
<1>. QED
  BY <1>1, <1>2, <1>3, <1>4, <1>5, <1>6, <1>7 DEF Reply

LEMMA ReadStep ==
  ASSUME IInv, FreshInv, [Next]_vars
  PROVE  FreshInv' /\ \A s \in Streams : ReadsOnce(s)
<1>. SUFFICES ASSUME NEW s \in Streams
              PROVE  Fresh(s)' /\ ReadsOnce(s)
  BY DEF FreshInv
<1>1. TypeOK /\ PulseOK /\ ObjectOK /\ ThreadOK /\ CallInv /\ StreamInv /\ Fresh(s)
  BY DEF IInv, TypeOK, FreshInv
<1>2. CASE UNCHANGED vars
  BY <1>1, <1>2, KeepsFresh DEF vars, pulse, object, thread, Keeps
<1>3. CASE ContextFailed
  <2>1. mStream'[s] \notin {"creating", "ready"}
    BY <1>1, <1>3 DEF ContextFailed
  <2>. QED
    BY <1>1, <2>1, NothingReadable DEF Fresh
<1>4. ASSUME NEW t \in Streams,
             \/ Command(t) \/ Resume(t) \/ Reply(t)
             \/ StreamRequest(t) \/ StreamFailed(t) \/ TimeEvent(t) \/ LatencyUpdate(t)
      PROVE  Fresh(s)' /\ ReadsOnce(s)
  <2>1. CASE s # t
    BY <1>1, <1>4, <2>1, Elsewhere, KeepsFresh
  <2>2. CASE s = t
    BY <1>1, <1>4, <2>2, OpenStep, TriggerStep, TransferStep, ServerStep
    DEF Command, Resume
  <2>. QED
    BY <2>1, <2>2
<1>. QED
  BY <1>2, <1>3, <1>4 DEF Next

\* What a READ gives an orderly frontend is exactly what can no longer be read:
\* no byte is offered again and none dropped unread, in any number of streams
\* and whatever the sizes of reads and fragments (read, PulsePcm.cpp).
THEOREM BytesAreReadOnce == Spec => ReadOnce
<1>1. Init => FreshInv
  BY DEF Init, FreshInv, Fresh, Streams
<1>2. IInv /\ FreshInv /\ [Next]_vars => FreshInv'
  BY ReadStep
<1>3. ASSUME IInv, FreshInv, [Next]_vars, NEW s \in Capture
      PROVE  /\ \A n \in 0 .. Capacity + 1 : ReadOrWrite(s, "read", n) => Takes(s, n)
             /\ TransferWake(s) => Takes(s, size[s])
             /\ ReadsOnce(s)
  <2>1. TypeOK /\ CallInv /\ StreamInv /\ s \in Streams
    BY <1>3 DEF IInv, Streams
  <2>. QED
    BY <1>3, <2>1, ReadTakes, ReadStep
<1>4. IInv /\ FreshInv /\ [Next]_vars =>
        [Orderly => \A s \in Capture :
           /\ \A n \in 0 .. Capacity + 1 :
                ReadOrWrite(s, "read", n) => Readable(s)' = Readable(s) - Given(s, n)
           /\ TransferWake(s) => Readable(s)' = Readable(s) - Given(s, size[s])
           /\ Readable(s)' > Readable(s) => queue'[s] > queue[s]
           /\ (Readable(s)' < Readable(s) /\ mStream'[s] = "ready") => ReadGoesOn(s)]_vars
  BY <1>3 DEF ReadsOnce, Takes
<1>. QED
  BY Invariance, <1>1, <1>2, <1>4, PTL DEF Spec, ReadOnce
=============================================================================
