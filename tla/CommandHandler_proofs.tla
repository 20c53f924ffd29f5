----------------------- MODULE CommandHandler_proofs -----------------------
(* The inductive invariant of CommandHandler and the safety theorems it     *)
(* gives, for every size of a page, a directory, a buffer and the ring.     *)
EXTENDS CommandHandler, TLAPS

\* The request being processed and what is left in the ring are, in order, the
\* requests sent and not answered.
RingInv ==
  /\ Len(responses) + InProcess + Len(requests) = Len(sent)
  /\ \A i \in 1 .. Len(responses) :
       responses[i].id = sent[i].id /\ responses[i].op = sent[i].op
  /\ \A i \in 1 .. Len(requests) : requests[i] = sent[Len(responses) + InProcess + i]
  /\ pc # "idle" => current = sent[Len(responses) + 1]
  /\ crashed => pc = "idle"

\* The status is zero until the command has failed, and never positive.
StatusInv ==
  /\ status <= 0
  /\ pc # "respond" => status = 0
  /\ (pc = "respond" /\ current.op \in {"unknown", "badTrigger"}) => status < 0

\* Which request is where, and which call the device is in.
CallInv ==
  /\ pc = "walk" => current.op = "open"
  /\ pc = "device" => current.op \in {"open", "close"}
  /\ pc = "call" => /\ current.op \in {"open", "close", "read", "write", "query", "trigger"}
                    /\ call = DeviceCall(current.op)
  /\ pc # "call" => call = "none"

\* The walk has collected no more references than the buffer has pages, and of a
\* sound directory the first pages of the buffer, in order: all those of the
\* directories behind it, or all there are.
WalkInv ==
  pc = "walk" =>
    /\ refs \in Seq(Nat)
    /\ Len(refs) <= Len(Pages(current.size))
    /\ requestedNumGrefs = Len(Pages(current.size)) - Len(refs)
    /\ frontend.sound =>
         /\ \A i \in 1 .. Len(refs) : refs[i] = i
         /\ directory # 0 => /\ directory <= Directories(current.size)
                             /\ Len(refs) = (directory - 1) * PerPage
         /\ directory = 0 => Len(refs) = Len(Pages(current.size))

\* What getBufferRefs collected is mapped.
Mapped ==
  /\ mBuffer \in Seq(Nat)
  /\ Len(mBuffer) <= Len(Pages(current.size))
  /\ frontend.sound => mBuffer = Pages(current.size)

\* From the mapping to the response the buffer is the whole one.
MappedInv ==
  current.op = "open" =>
    /\ (pc \in {"device", "call"} \/ (pc = "respond" /\ status = 0)) => Mapped
    /\ (pc = "respond" /\ status = 0) => answer = "ok"

\* A device that has a stream belongs to a stream the frontend knows of, or is
\* about to be told of; what reports is one that has a stream or an OPEN.
DeviceInv ==
  /\ open = TRUE => \/ phase = "opened"
                    \/ pc = "respond" /\ current.op = "open" /\ status = 0
  /\ (pc = "respond" /\ current.op = "close") => open = FALSE
  /\ QuietWhenClosed

\* A frontend in order has one request under way, in its place in the protocol,
\* and a buffer for as long as it takes the stream for open.
OrderlyInv ==
  frontend.inOrder =>
    /\ ~crashed
    /\ InProcess + Len(requests) <= 1
    /\ \A i \in 1 .. Len(requests) : phase \in Protocol(requests[i].op)
    /\ pc # "idle" => phase \in Protocol(current.op)
    /\ phase = "opened" => \/ mBuffer # NoBuffer
                           \/ pc # "idle" /\ current.op = "close"

IInv ==
  /\ TypeOK /\ RingInv /\ StatusInv /\ CallInv
  /\ WalkInv /\ MappedInv /\ DeviceInv /\ OrderlyInv
  /\ StatusIsError

-----------------------------------------------------------------------------
(* The numbers of pages and directories, and what is on a page.             *)

\* The pages of n bytes, p to a page: enough, and no page too many.
LEMMA Ceiling ==
  ASSUME NEW n \in Nat, NEW p \in Nat \ {0}
  PROVE  LET d == (n + p - 1) \div p
         IN  d \in Nat /\ n <= d * p /\ (d > 0 => (d - 1) * p < n)
<1> DEFINE m == n + p - 1
           d == m \div p
           r == m % p
<1>1. m \in Nat /\ p \in Int /\ p > 0
  OBVIOUS
<1>2. d \in Int /\ r \in 0 .. p - 1 /\ m = p * d + r
  BY <1>1
<1>3. d >= 0
  BY <1>1
<1>4. n <= p * d /\ p * d - p < n
  BY <1>2 DEF m
<1>5. d * p = p * d /\ (d - 1) * p = p * d - p
  BY <1>2
<1>. QED
  BY <1>2, <1>3, <1>4, <1>5

\* The buffer of n bytes is the sequence of its page numbers.
LEMMA PagesFacts ==
  ASSUME NEW n \in Nat
  PROVE  /\ Pages(n) \in Seq(Nat)
         /\ Len(Pages(n)) \in Nat
         /\ \A i \in 1 .. Len(Pages(n)) : Pages(n)[i] = i
<1> DEFINE l == (n + PageSize - 1) \div PageSize
<1>1. l \in Nat
  BY Ceiling, CommandAssumption
<1>2. Pages(n) = [i \in 1 .. l |-> i]
  BY DEF Pages
<1> HIDE DEF l
<1>3. Pages(n) \in Seq(Nat) /\ Len(Pages(n)) = l
  BY <1>1, <1>2
<1>4. \A i \in 1 .. l : Pages(n)[i] = i
  BY <1>2
<1>. QED
  BY <1>1, <1>3, <1>4

\* Collected references are never taken for no buffer.
LEMMA BufferIsMapped ==
  ASSUME NEW s \in Seq(Nat)
  PROVE  s # NoBuffer
<1>1. SUFFICES ASSUME s = <<-1>> PROVE FALSE
  BY DEF NoBuffer
<1>2. Len(s) = 1 /\ s[1] = -1
  BY <1>1
<1>3. s[1] \in Nat
  BY <1>2
<1>. QED
  BY <1>2, <1>3

\* The directories of a buffer hold all its pages, and none of them is empty.
LEMMA DirectoryFacts ==
  ASSUME NEW n \in Nat
  PROVE  /\ Directories(n) \in Nat
         /\ Len(Pages(n)) <= Directories(n) * PerPage
         /\ Directories(n) > 0 => (Directories(n) - 1) * PerPage < Len(Pages(n))
  BY PagesFacts, CommandAssumption, Ceiling DEF Directories

\* The page OPEN names as the first: the first one of a sound directory that has
\* pages at all.
LEMMA FirstPageFacts ==
  ASSUME NEW n \in Nat, NEW d \in NextPages(0, n)
  PROVE  /\ d \in Nat
         /\ frontend.sound => d = IF Directories(n) > 0 THEN 1 ELSE 0
<1>1. Directories(n) \in Nat
  BY DirectoryFacts
<1>2. CASE frontend.sound
  BY <1>1, <1>2 DEF NextPages, NextPage
<1>3. CASE ~frontend.sound
  BY <1>3, CommandAssumption DEF NextPages
<1>. QED
  BY <1>2, <1>3

\* A sequence that lists the pages in order and is as long as the buffer is it.
LEMMA WholePages ==
  ASSUME NEW n \in Nat, NEW s \in Seq(Nat), Len(s) = Len(Pages(n)),
         \A i \in 1 .. Len(s) : s[i] = i
  PROVE  s = Pages(n)
<1>1. Pages(n) \in Seq(Nat) /\ \A i \in 1 .. Len(s) : Pages(n)[i] = s[i]
  BY PagesFacts
<1>2. /\ s = [i \in 1 .. Len(s) |-> s[i]]
      /\ Pages(n) = [i \in 1 .. Len(s) |-> Pages(n)[i]]
  BY <1>1
<1>. QED
  BY <1>1, <1>2, Zenon

\* The references taken from one directory page.
LEMMA NumGrefsFacts ==
  ASSUME NEW r \in Nat
  PROVE  /\ NumGrefs(r) \in Nat
         /\ NumGrefs(r) <= PerPage /\ NumGrefs(r) <= r
         /\ NumGrefs(r) = PerPage \/ NumGrefs(r) = r
  BY CommandAssumption DEF NumGrefs

\* Smaller factor, smaller product.
LEMMA Multiples ==
  ASSUME NEW a \in Nat, NEW b \in Nat, a <= b, NEW p \in Nat
  PROVE  a * p <= b * p /\ (a + 1) * p = a * p + p
  OBVIOUS

\* No exception becomes a status that looks like success.
LEMMA StatusNegative ==
  ASSUME NEW e \in Thrown
  PROVE  StatusOf(e) \in Int /\ StatusOf(e) < 0
  BY DEF Thrown, StatusOf, EIO, EINVAL

\* A command that throws waits to be answered with an error.
LEMMA ThrowFacts ==
  ASSUME \E e \in Thrown : Throw(e)
  PROVE  pc' = "respond" /\ status' \in Int /\ status' < 0
  BY StatusNegative DEF Throw

\* One turn of the directory walk: the references of one page more, and of a sound
\* directory the next pages of the buffer.
LEMMA WalkStep ==
  ASSUME TypeOK, WalkInv, DirectoryPage
  PROVE  WalkInv' /\ requestedNumGrefs' \in Nat /\ refs' \in Seq(Nat) /\ directory' \in Nat
<1> DEFINE n    == current.size
           N    == Len(Pages(n))
           D    == Directories(n)
           k    == NumGrefs(requestedNumGrefs)
           more == [i \in 1 .. k |-> Entry(directory, i, n)]
<1>0. /\ n \in Nat /\ N \in Nat /\ D \in Nat /\ PerPage \in Nat \ {0}
      /\ directory \in Nat /\ directory # 0 /\ pc = "walk" /\ refs \in Seq(Nat)
      /\ requestedNumGrefs \in Nat
  BY PagesFacts, DirectoryFacts, CommandAssumption DEF TypeOK, DirectoryPage
<1>1. Len(refs) <= N /\ requestedNumGrefs = N - Len(refs)
  BY <1>0 DEF WalkInv
<1>s. frontend.sound => /\ \A i \in 1 .. Len(refs) : refs[i] = i
                        /\ directory <= D /\ Len(refs) = (directory - 1) * PerPage
  BY <1>0 DEF WalkInv
<1>d. N <= D * PerPage /\ (D > 0 => (D - 1) * PerPage < N)
  BY <1>0, DirectoryFacts
<1>2. k \in Nat /\ k <= PerPage /\ k <= N - Len(refs) /\ (k = PerPage \/ k = N - Len(refs))
  <2>1. /\ k \in Nat /\ k <= PerPage /\ k <= requestedNumGrefs
        /\ k = PerPage \/ k = requestedNumGrefs
    BY <1>0, NumGrefsFacts
  <2>. QED
    BY <2>1, <1>1
<1>3. /\ frontend.sound => \A i \in 1 .. k : Entry(directory, i, n) = Len(refs) + i
      /\ \A i \in 1 .. k : Entry(directory, i, n) \in Nat
  <2>1. ASSUME frontend.sound, NEW i \in 1 .. k PROVE Entry(directory, i, n) = Len(refs) + i
    <3>1. /\ directory <= D /\ Len(refs) = (directory - 1) * PerPage
          /\ i \in Nat /\ i <= PerPage /\ i <= N - Len(refs)
      BY <1>0, <1>1, <1>s, <1>2, <2>1
    <3>. QED
      BY <1>0, <1>1, <3>1 DEF Entry
  <2>2. ASSUME NEW i \in 1 .. k PROVE Entry(directory, i, n) \in Nat
    <3>1. (directory - 1) * PerPage + i \in Nat
      BY <1>0, <1>2
    <3>. QED
      BY <3>1 DEF Entry
  <2>. QED
    BY <2>1, <2>2
<1>4. /\ refs' = refs \o more
      /\ requestedNumGrefs' = requestedNumGrefs - k
      /\ directory' \in NextPages(directory, n)
      /\ current' = current /\ pc' = pc /\ frontend' = frontend
  BY DEF DirectoryPage, ring
<1>5. /\ more \in Seq(Nat) /\ Len(more) = k
      /\ frontend.sound => \A i \in 1 .. k : more[i] = Len(refs) + i
  <2>1. more \in Seq(Nat) /\ Len(more) = k
    <3> DEFINE entry(i) == Entry(directory, i, n)
    <3>1. k \in Nat /\ \A i \in 1 .. k : entry(i) \in Nat
      BY <1>2, <1>3
    <3> HIDE DEF k, entry
    <3>2. [i \in 1 .. k |-> entry(i)] \in Seq(Nat) /\ Len([i \in 1 .. k |-> entry(i)]) = k
      BY <3>1
    <3>. QED
      BY <3>2 DEF entry
  <2>2. frontend.sound => \A i \in 1 .. k : more[i] = Len(refs) + i
    BY <1>3
  <2>. QED
    BY <2>1, <2>2
<1> HIDE DEF more, k, N, D
<1>6. refs' \in Seq(Nat) /\ Len(refs') = Len(refs) + k
  <2>1. refs \in Seq(Nat) /\ more \in Seq(Nat)
    BY <1>0, <1>5
  <2>2. refs \o more \in Seq(Nat) /\ Len(refs \o more) = Len(refs) + Len(more)
    BY <2>1
  <2>. QED
    BY <2>2, <1>4, <1>5
<1>b. /\ Len(refs') <= N /\ requestedNumGrefs' = N - Len(refs') /\ requestedNumGrefs' \in Nat
  <2>1. requestedNumGrefs' = (N - Len(refs)) - k /\ Len(refs) \in Nat
    BY <1>0, <1>1, <1>4
  <2>. QED
    BY <2>1, <1>0, <1>1, <1>2, <1>6
<1>e. CASE ~frontend.sound
  <2>1. directory' \in Nat
    BY <1>4, <1>e, CommandAssumption DEF NextPages
  <2>. QED
    BY <1>4, <1>6, <1>b, <1>e, <2>1 DEF WalkInv, N
<1>f. SUFFICES ASSUME frontend.sound
               PROVE  /\ WalkInv' /\ directory' \in Nat
                      /\ requestedNumGrefs' \in Nat /\ refs' \in Seq(Nat)
  BY <1>e
<1>w. /\ \A i \in 1 .. Len(refs) : refs[i] = i
      /\ directory <= D /\ Len(refs) = (directory - 1) * PerPage
  BY <1>s, <1>f
<1>g. directory' = NextPage(directory, n)
  BY <1>4, <1>f DEF NextPages
<1>h. \A i \in 1 .. Len(refs') : refs'[i] = i
  <2>2. ASSUME NEW i \in 1 .. Len(refs) PROVE refs'[i] = i
    BY <1>0, <1>w, <1>4, <1>5, <2>2
  <2>3. ASSUME NEW i \in Len(refs) + 1 .. Len(refs) + k PROVE refs'[i] = i
    <3>1. i - Len(refs) \in 1 .. k /\ refs'[i] = more[i - Len(refs)]
      BY <1>0, <1>2, <1>4, <1>5, <2>3
    <3>2. more[i - Len(refs)] = Len(refs) + (i - Len(refs))
      BY <1>5, <1>f, <3>1
    <3>. QED
      BY <1>0, <3>1, <3>2
  <2>. QED
    BY <1>0, <1>2, <1>6, <2>2, <2>3
<1>7. CASE directory < D
  <2>1. directory * PerPage <= (D - 1) * PerPage
    BY <1>0, <1>7, Multiples
  <2>2. directory * PerPage = (directory - 1) * PerPage + PerPage
    <3>1. directory - 1 \in Nat /\ (directory - 1) + 1 = directory
      BY <1>0
    <3>. QED
      BY <1>0, <3>1, Multiples
  <2>3. (D - 1) * PerPage < N
    BY <1>0, <1>7, <1>d
  <2>4. directory * PerPage \in Nat /\ (D - 1) * PerPage \in Nat /\ (directory - 1) * PerPage \in Nat
    BY <1>0, <1>7
  <2>5. k = PerPage /\ Len(refs') = directory * PerPage
    <3>1. Len(refs) + PerPage = directory * PerPage /\ Len(refs) \in Nat
      BY <1>0, <1>w, <2>2
    <3>2. Len(refs) + PerPage < N
      BY <1>0, <2>1, <2>3, <2>4, <3>1
    <3>. QED
      BY <1>0, <1>2, <1>6, <3>1, <3>2
  <2>6. directory' = directory + 1 /\ directory' - 1 = directory
    BY <1>0, <1>g, <1>7 DEF NextPage, D
  <2>7. /\ directory' \in Nat /\ directory' # 0 /\ directory' <= D
        /\ Len(refs') = (directory' - 1) * PerPage
    BY <1>0, <1>7, <2>5, <2>6
  <2>. QED
    BY <1>4, <1>6, <1>b, <1>h, <2>7 DEF WalkInv, N, D
<1>8. CASE directory = D
  <2>1. N <= (directory - 1) * PerPage + PerPage
    <3>1. directory - 1 \in Nat /\ (directory - 1) + 1 = directory
      BY <1>0
    <3>. QED
      BY <1>0, <1>8, <1>d, <3>1, Multiples
  <2>2. k = N - Len(refs) /\ Len(refs') = N
    BY <1>0, <1>1, <1>w, <1>2, <1>6, <2>1
  <2>3. directory' = 0
    BY <1>g, <1>8, <1>0 DEF NextPage, D
  <2>. QED
    BY <1>0, <1>4, <1>6, <1>b, <1>h, <2>2, <2>3 DEF WalkInv, N, D
<1>. QED
  BY <1>0, <1>w, <1>7, <1>8

\* The oldest element of a sequence and the rest.
LEMMA TailFacts ==
  ASSUME NEW S, NEW s \in Seq(S), s # <<>>
  PROVE  /\ Head(s) \in S /\ Head(s) = s[1]
         /\ Tail(s) \in Seq(S) /\ Len(s) \in Nat /\ Len(s) > 0
         /\ Len(Tail(s)) = Len(s) - 1
         /\ \A i \in 1 .. Len(Tail(s)) : Tail(s)[i] = s[i + 1]
  OBVIOUS

-----------------------------------------------------------------------------
(* What a step of the device does to its state. *)

LEMMA CallFacts ==
  ASSUME DeviceOK, NEW c \in Calls, Call(c)
  PROVE  /\ DeviceOK' /\ call = "none" /\ call' = c
         /\ open' = TRUE => open = TRUE
         /\ c # "open" => open' = open
         /\ reporting' = reporting
  BY DEF DeviceOK, Call, Calls

LEMMA OutcomeFacts ==
  ASSUME DeviceOK, NEW c \in Calls, NEW result \in {"ok", "error"}, Outcome(c, result)
  PROVE  /\ DeviceOK' /\ call' = "none" /\ answer' = result
         /\ open' = TRUE => open = TRUE \/ (c = "open" /\ result = "ok")
         /\ c = "close" => open' = FALSE /\ result = "ok"
         /\ reporting' = TRUE => open' = TRUE
  BY DEF DeviceOK, Outcome, Calls

LEMMA BackgroundFacts ==
  ASSUME DeviceOK, Report \/ Lose
  PROVE  /\ DeviceOK' /\ call' = call /\ answer' = answer
         /\ open' = TRUE => open = TRUE
         /\ QuietWhenClosed => QuietWhenClosed'
  BY DEF DeviceOK, Report, Lose, QuietWhenClosed

LEMMA DeviceCalls ==
  ASSUME NEW o \in {"open", "close", "read", "write", "query", "trigger"}
  PROVE  /\ DeviceCall(o) \in Calls
         /\ DeviceCall(o) = "open" <=> o = "open"
         /\ DeviceCall(o) = "close" <=> o = "close"
  BY DEF DeviceCall, Calls

LEMMA AtDeviceFacts ==
  ASSUME CallInv, AtDevice
  PROVE  /\ current.op \in {"open", "close", "read", "write", "query", "trigger"}
         /\ pc \in {"device", "process"}
         /\ current.op = "open" => pc = "device"
         /\ call = "none"
  BY DEF CallInv, AtDevice, Process

\* The call of current ends, in the way its answer says.
LEMMA ReturnsFacts ==
  ASSUME CallInv, DeviceReturns
  PROVE  /\ current.op \in {"open", "close", "read", "write", "query", "trigger"}
         /\ pc \in {"device", "process", "call"}
         /\ current.op = "open" => pc \in {"device", "call"}
         /\ \E result \in {"ok", "error"} : Outcome(DeviceCall(current.op), result)
         /\ pc' = "respond"
         /\ answer' = "ok" => status' = status
         /\ answer' # "ok" => status' \in Int /\ status' < 0
         /\ UNCHANGED <<ring, current, walk, mBuffer, mEventId, crashed>>
<1>1. CASE pc = "call" /\ Return
  BY <1>1, ThrowFacts DEF DeviceReturns, CallInv, Return
<1>2. CASE AtDevice /\ CallAndReturn(DeviceCall(current.op))
  BY <1>2, ThrowFacts, AtDeviceFacts DEF DeviceReturns, CallAndReturn
<1>. QED
  BY <1>1, <1>2 DEF DeviceReturns

-----------------------------------------------------------------------------
(* Types. *)

LEMMA TypeStep ==
  ASSUME TypeOK, WalkInv, CallInv, Next
  PROVE  TypeOK'
<1>. USE CommandAssumption
<1>1. ASSUME NEW o \in Ops, NEW n \in Nat, Send(o, n) PROVE TypeOK'
  <2> DEFINE req == [id |-> Len(sent) + 1, op |-> o, size |-> n]
  <2>1. req \in [id : Nat, op : Ops, size : Nat]
    BY <1>1 DEF TypeOK
  <2>2. /\ sent' = Append(sent, req) /\ requests' = Append(requests, req)
        /\ Len(sent) < MaxRequests /\ Len(requests) < RingSize
        /\ UNCHANGED <<frontend, responses, phase, pc, current, status, walk,
                       mBuffer, deviceVars, mEventId, crashed>>
    BY <1>1 DEF Send
  <2> HIDE DEF req
  <2>3. /\ sent' \in Seq([id : Nat, op : Ops, size : Nat]) /\ Len(sent') <= MaxRequests
        /\ requests' \in Seq([id : Nat, op : Ops, size : Nat]) /\ Len(requests') <= RingSize
    BY <2>1, <2>2 DEF TypeOK
  <2>. QED
    BY <2>2, <2>3 DEF TypeOK, walk, deviceVars, DeviceOK
<1>2. CASE Take
  <2>1. /\ requests # <<>> /\ current' = Head(requests) /\ requests' = Tail(requests)
        /\ pc' = "process" /\ status' = 0
        /\ UNCHANGED <<frontend, responses, sent, phase, walk, mBuffer, deviceVars,
                       mEventId, crashed>>
    BY <1>2 DEF Take
  <2>2. /\ current' \in [id : Nat, op : Ops, size : Nat]
        /\ requests' \in Seq([id : Nat, op : Ops, size : Nat]) /\ Len(requests') <= RingSize
    <3>1. requests \in Seq([id : Nat, op : Ops, size : Nat]) /\ Len(requests) <= RingSize
      BY DEF TypeOK
    <3>2. /\ Head(requests) \in [id : Nat, op : Ops, size : Nat]
          /\ Tail(requests) \in Seq([id : Nat, op : Ops, size : Nat])
          /\ Len(Tail(requests)) = Len(requests) - 1 /\ Len(requests) \in Nat
      BY <2>1, <3>1, TailFacts, Zenon
    <3>3. Len(Tail(requests)) <= RingSize
      BY <3>1, <3>2
    <3>. QED
      BY <2>1, <3>2, <3>3
  <2>. QED
    BY <2>1, <2>2 DEF TypeOK, walk, deviceVars, DeviceOK
<1>3. CASE Respond
  BY <1>3 DEF Respond, TypeOK, ring, walk, deviceVars, DeviceOK, NoRequest, Ops
<1>4. CASE Refused
  <2>1. pc' = "respond" /\ status' \in Int
    BY <1>4, StatusNegative DEF Refused, Throw, StatusOf, EINVAL, EIO
  <2>. QED
    BY <1>4, <2>1 DEF Refused, TypeOK, ring, walk, deviceVars, DeviceOK
<1>5. CASE GetBufferRefs
  <2>1. (current.size + PageSize - 1) \div PageSize \in Nat
    BY Ceiling DEF TypeOK
  <2>2. directory' \in Nat
    BY <1>5, FirstPageFacts DEF GetBufferRefs, TypeOK
  <2>. QED
    BY <1>5, <2>1, <2>2 DEF GetBufferRefs, TypeOK, ring, walk, deviceVars, DeviceOK
<1>6. CASE DirectoryPage
  BY <1>6, WalkStep DEF DirectoryPage, TypeOK, ring, walk, deviceVars, DeviceOK
<1>7. CASE MapBuffer
  BY <1>7 DEF MapBuffer, TypeOK, ring, walk, deviceVars, DeviceOK
<1>8. CASE MappingThrows
  <2>1. pc' = "respond" /\ status' \in Int
    BY <1>8, ThrowFacts DEF MappingThrows
  <2>. QED
    BY <1>8, <2>1 DEF MappingThrows, TypeOK, ring, walk, deviceVars, DeviceOK
<1>9. CASE UnmapBuffer
  BY <1>9 DEF UnmapBuffer, TypeOK, ring, walk, deviceVars, DeviceOK, NoBuffer
<1>10. CASE TransferNull
  BY <1>10 DEF TransferNull, TypeOK, ring, walk, deviceVars, DeviceOK
<1>11. CASE CallDevice
  <2>1. DeviceOK'
    BY <1>11, AtDeviceFacts, DeviceCalls, CallFacts DEF CallDevice, TypeOK
  <2>. QED
    BY <1>11, <2>1 DEF CallDevice, TypeOK, ring, walk
<1>12. CASE DeviceReturns
  <2>1. DeviceOK'
    BY <1>12, ReturnsFacts, DeviceCalls, OutcomeFacts DEF TypeOK
  <2>2. pc' = "respond" /\ status' \in Int
    BY <1>12, ReturnsFacts DEF TypeOK
  <2>. QED
    BY <1>12, <2>1, <2>2, ReturnsFacts DEF TypeOK, ring, walk
<1>13. CASE Background
  <2>1. DeviceOK'
    BY <1>13, BackgroundFacts DEF Background, TypeOK
  <2>. QED
    BY <1>13, <2>1 DEF Background, TypeOK, ring, walk
<1>14. CASE Progress
  BY <1>14 DEF Progress, TypeOK, ring, walk, deviceVars, DeviceOK
<1>. QED
  BY <1>1, <1>2, <1>3, <1>4, <1>5, <1>6, <1>7, <1>8, <1>9, <1>10, <1>11, <1>12,
     <1>13, <1>14 DEF Next, RequestThread, Ops

-----------------------------------------------------------------------------
(* The parts of the invariant. *)

LEMMA InProcessFacts ==
  /\ InProcess \in {0, 1}
  /\ InProcess = 1 <=> pc # "idle" \/ crashed
  BY DEF InProcess

LEMMA RingStep ==
  ASSUME TypeOK, RingInv, CallInv, Next
  PROVE  RingInv'
<1>. DEFINE Request  == [id : Nat, op : Ops, size : Nat]
            Response == [id : Nat, op : Ops, status : Int]
<1>0. /\ requests \in Seq(Request) /\ sent \in Seq(Request)
      /\ responses \in Seq(Response)
      /\ Len(requests) \in Nat /\ Len(sent) \in Nat /\ Len(responses) \in Nat
  BY DEF TypeOK
<1>9. InProcess \in {0, 1}
  BY InProcessFacts
<1>1. ASSUME NEW o \in Ops, NEW n \in Nat, Send(o, n) PROVE RingInv'
  <2> DEFINE req == [id |-> Len(sent) + 1, op |-> o, size |-> n]
  <2>1. /\ sent' = Append(sent, req) /\ requests' = Append(requests, req)
        /\ UNCHANGED <<responses, pc, current, crashed>> /\ InProcess' = InProcess
    BY <1>1 DEF Send, InProcess
  <2> HIDE DEF req
  <2>2. /\ Len(sent') = Len(sent) + 1 /\ Len(requests') = Len(requests) + 1
        /\ \A i \in 1 .. Len(sent) : sent'[i] = sent[i]
        /\ \A i \in 1 .. Len(requests) : requests'[i] = requests[i]
        /\ sent'[Len(sent) + 1] = req /\ requests'[Len(requests) + 1] = req
    BY <1>0, <2>1
  <2>3. Len(responses) + InProcess + Len(requests) = Len(sent)
    BY DEF RingInv
  <2>4. \A i \in 1 .. Len(responses) : i \in 1 .. Len(sent)
    BY <1>0, <2>3, InProcessFacts
  <2>5. \A i \in 1 .. Len(responses) :
           responses[i].id = sent'[i].id /\ responses[i].op = sent'[i].op
    BY <2>2, <2>4 DEF RingInv
  <2>6. ASSUME NEW i \in 1 .. Len(requests')
        PROVE  requests'[i] = sent'[Len(responses) + InProcess + i]
    <3>1. CASE i = Len(requests) + 1
      <4>1. Len(responses) + InProcess + i = Len(sent) + 1
        BY <1>0, <1>9, <2>3, <3>1
      <4>. QED
        BY <2>2, <3>1, <4>1
    <3>2. CASE i \in 1 .. Len(requests)
      <4>1. Len(responses) + InProcess + i \in 1 .. Len(sent)
        <5> DEFINE a == Len(responses)  b == InProcess  c == Len(requests)  d == Len(sent)
        <5>1. /\ a \in Nat /\ b \in Nat /\ c \in Nat /\ d \in Nat /\ a + b + c = d
              /\ i \in 1 .. c
          BY <1>0, <1>9, <2>3, <3>2
        <5> HIDE DEF a, b, c, d
        <5>2. a + b + i \in 1 .. d
          BY <5>1
        <5>. QED
          BY <5>2 DEF a, b, c, d
      <4>. QED
        BY <2>2, <3>2, <4>1 DEF RingInv
    <3>. QED
      BY <1>0, <2>2, <3>1, <3>2
  <2>7. pc # "idle" => current = sent'[Len(responses) + 1]
    <3>1. pc # "idle" => Len(responses) + 1 \in 1 .. Len(sent)
      BY <1>0, <2>3, InProcessFacts
    <3>. QED
      BY <2>2, <3>1 DEF RingInv
  <2>8. Len(responses) + InProcess + Len(requests') = Len(sent')
    <3>1. Len(requests') = Len(requests) + 1 /\ Len(sent') = Len(sent) + 1
      BY <2>2
    <3> DEFINE a == Len(responses)  b == InProcess  c == Len(requests)  d == Len(sent)
    <3>2. a \in Int /\ b \in Int /\ c \in Int /\ d \in Int /\ a + b + c = d
      BY <1>0, <1>9, <2>3
    <3> HIDE DEF a, b, c, d
    <3>3. a + b + (c + 1) = d + 1
      BY <3>2
    <3>. QED
      BY <3>1, <3>3 DEF a, b, c, d
  <2>. QED
    BY <2>1, <2>5, <2>6, <2>7, <2>8 DEF RingInv
<1>2. CASE Take
  <2>1. /\ requests # <<>> /\ requests' = Tail(requests) /\ current' = Head(requests)
        /\ UNCHANGED <<responses, sent, crashed>>
        /\ pc = "idle" /\ ~crashed /\ pc' = "process"
    BY <1>2 DEF Take
  <2>2. InProcess = 0 /\ InProcess' = 1
    BY <2>1 DEF InProcess
  <2>3. /\ current' = requests[1] /\ Len(requests) > 0
        /\ Len(requests') = Len(requests) - 1
        /\ \A i \in 1 .. Len(requests') : requests'[i] = requests[i + 1]
    BY <1>0, <2>1, TailFacts
  <2>4. \A i \in 1 .. Len(requests) : requests[i] = sent[Len(responses) + i]
    BY <1>0, <2>2 DEF RingInv
  <2>5. \A i \in 1 .. Len(requests') : requests'[i] = sent[Len(responses) + 1 + i]
    <3>1. ASSUME NEW i \in 1 .. Len(requests')
          PROVE  i + 1 \in 1 .. Len(requests) /\ Len(responses) + (i + 1) = Len(responses) + 1 + i
      BY <1>0, <2>3, <3>1
    <3>. QED
      BY <2>3, <2>4, <3>1
  <2>6. current' = sent[Len(responses) + 1]
    BY <1>0, <2>3, <2>4
  <2>7. Len(responses) + 1 + Len(requests') = Len(sent)
    <3>1. Len(responses) + InProcess + Len(requests) = Len(sent)
      BY DEF RingInv
    <3> DEFINE a == Len(responses)  c == Len(requests)  d == Len(sent)
    <3>2. a \in Int /\ c \in Int /\ a + 0 + c = d
      BY <1>0, <2>2, <3>1
    <3>3. Len(requests') = c - 1
      BY <2>3
    <3> HIDE DEF a, c, d
    <3>4. a + 1 + (c - 1) = d
      BY <3>2
    <3>. QED
      BY <3>3, <3>4 DEF a, c, d
  <2>. QED
    BY <2>1, <2>2, <2>5, <2>6, <2>7 DEF RingInv
<1>3. CASE Respond
  <2> DEFINE rsp == [id |-> current.id, op |-> current.op, status |-> status]
  <2>1. /\ responses' = Append(responses, rsp)
        /\ UNCHANGED <<requests, sent, crashed>>
        /\ pc = "respond" /\ pc' = "idle" /\ ~crashed
    BY <1>3 DEF Respond, RingInv
  <2>2. InProcess = 1 /\ InProcess' = 0
    BY <2>1 DEF InProcess
  <2>3. rsp \in Response /\ rsp.id = current.id /\ rsp.op = current.op
    BY DEF TypeOK
  <2> HIDE DEF rsp
  <2>4. /\ Len(responses') = Len(responses) + 1
        /\ \A i \in 1 .. Len(responses) : responses'[i] = responses[i]
        /\ responses'[Len(responses) + 1] = rsp
    BY <1>0, <2>1, <2>3
  <2>5. current = sent[Len(responses) + 1]
    BY <2>1 DEF RingInv
  <2>6. ASSUME NEW i \in 1 .. Len(responses')
        PROVE  responses'[i].id = sent[i].id /\ responses'[i].op = sent[i].op
    <3>1. CASE i = Len(responses) + 1
      BY <2>3, <2>4, <2>5, <3>1
    <3>2. CASE i \in 1 .. Len(responses)
      BY <2>4, <3>2 DEF RingInv
    <3>. QED
      BY <1>0, <2>4, <3>1, <3>2
  <2>7. \A i \in 1 .. Len(requests) : requests[i] = sent[Len(responses') + 0 + i]
    BY <1>0, <2>2, <2>4 DEF RingInv
  <2>8. Len(responses') + 0 + Len(requests) = Len(sent)
    BY <1>0, <2>2, <2>4 DEF RingInv
  <2>. QED
    BY <2>1, <2>2, <2>6, <2>7, <2>8 DEF RingInv
<1>4. ASSUME UNCHANGED <<ring, current, crashed>>, pc # "idle" /\ pc' # "idle"
      PROVE  RingInv'
  BY <1>4 DEF RingInv, InProcess, ring
<1>5. CASE TransferNull
  BY <1>5 DEF TransferNull, Process, RingInv, InProcess, ring
<1>6. CASE Background \/ Progress
  BY <1>6 DEF Background, Progress, RingInv, InProcess, ring
<1>7. ASSUME Refused \/ GetBufferRefs \/ DirectoryPage \/ MapBuffer \/ MappingThrows \/ UnmapBuffer
             \/ CallDevice \/ DeviceReturns
      PROVE  UNCHANGED <<ring, current, crashed>> /\ pc # "idle" /\ pc' # "idle"
  <2>1. CASE CallDevice \/ DeviceReturns
    BY <2>1, AtDeviceFacts, ReturnsFacts DEF CallDevice
  <2>2. CASE Refused \/ MappingThrows
    BY <2>2 DEF Refused, MappingThrows, Throw, Process
  <2>3. CASE GetBufferRefs \/ DirectoryPage \/ MapBuffer \/ UnmapBuffer
    BY <2>3 DEF GetBufferRefs, DirectoryPage, MapBuffer, UnmapBuffer, Process
  <2>. QED
    BY <1>7, <2>1, <2>2, <2>3
<1>. QED
  BY <1>1, <1>2, <1>3, <1>4, <1>5, <1>6, <1>7, CommandAssumption
     DEF Next, RequestThread, Ops

\* Splitting Next into its actions.
LEMMA Steps ==
  ASSUME Next
  PROVE  \/ \E o \in Ops, n \in Nat : Send(o, n)
         \/ Take \/ Respond \/ Refused
         \/ GetBufferRefs \/ DirectoryPage \/ MapBuffer \/ MappingThrows
         \/ UnmapBuffer \/ TransferNull \/ CallDevice \/ DeviceReturns
         \/ Background \/ Progress
  BY CommandAssumption DEF Next, RequestThread, Ops

\* A command refused is one of the two, and its status is an error.
LEMMA RefusedFacts ==
  ASSUME Refused
  PROVE  /\ pc = "process" /\ current.op \in {"unknown", "badTrigger"}
         /\ pc' = "respond" /\ status' \in Int /\ status' < 0
         /\ UNCHANGED <<ring, current, walk, mBuffer, deviceVars, mEventId, crashed>>
  BY StatusNegative DEF Refused, Throw, Process, StatusOf, EINVAL, EIO

LEMMA StatusStep ==
  ASSUME TypeOK, RingInv, StatusInv, CallInv, Next
  PROVE  StatusInv'
<1>1. ASSUME NEW o \in Ops, NEW n \in Nat, Send(o, n) PROVE StatusInv'
  BY <1>1 DEF Send, StatusInv
<1>2. CASE Take \/ Respond
  BY <1>2 DEF Take, Respond, StatusInv
<1>3. CASE Refused
  BY <1>3, RefusedFacts DEF StatusInv
<1>4. CASE MappingThrows
  BY <1>4, ThrowFacts DEF MappingThrows, StatusInv
<1>5. CASE DeviceReturns
  <2>1. /\ pc # "respond" /\ pc' = "respond" /\ current' = current
        /\ current.op \notin {"unknown", "badTrigger"}
        /\ status' = status \/ (status' \in Int /\ status' < 0)
    BY <1>5, ReturnsFacts
  <2>. QED
    BY <2>1 DEF StatusInv
<1>6. CASE GetBufferRefs \/ DirectoryPage \/ MapBuffer \/ TransferNull \/ Background \/ Progress
  BY <1>6 DEF GetBufferRefs, DirectoryPage, MapBuffer, TransferNull, Background, Progress,
              Process, StatusInv
<1>7. CASE UnmapBuffer
  BY <1>7 DEF UnmapBuffer, Process, StatusInv
<1>8. CASE CallDevice
  BY <1>8, AtDeviceFacts DEF CallDevice, StatusInv
<1>. QED
  BY <1>1, <1>2, <1>3, <1>4, <1>5, <1>6, <1>7, <1>8, Steps

LEMMA StatusIsErrorStep ==
  ASSUME TypeOK, StatusInv, CallInv, StatusIsError, Next
  PROVE  StatusIsError'
<1>1. CASE Respond
  <2> DEFINE rsp == [id |-> current.id, op |-> current.op, status |-> status]
  <2>1. responses' = Append(responses, rsp) /\ pc = "respond"
    BY <1>1 DEF Respond
  <2>2. rsp.status = status /\ rsp.op = current.op
    OBVIOUS
  <2>3. /\ rsp \in [id : Nat, op : Ops, status : Int]
        /\ responses \in Seq([id : Nat, op : Ops, status : Int])
    BY DEF TypeOK
  <2> HIDE DEF rsp
  <2>4. /\ Len(responses') = Len(responses) + 1 /\ Len(responses) \in Nat
        /\ \A i \in 1 .. Len(responses) : responses'[i] = responses[i]
        /\ responses'[Len(responses) + 1] = rsp
    BY <2>1, <2>3
  <2>5. ASSUME NEW i \in 1 .. Len(responses')
        PROVE  /\ responses'[i].status <= 0
               /\ responses'[i].op \in {"unknown", "badTrigger"} => responses'[i].status < 0
    <3>1. CASE i = Len(responses) + 1
      BY <2>1, <2>2, <2>4, <3>1 DEF StatusInv
    <3>2. CASE i \in 1 .. Len(responses)
      BY <2>4, <3>2 DEF StatusIsError
    <3>. QED
      BY <2>4, <3>1, <3>2
  <2>. QED
    BY <2>5 DEF StatusIsError
<1>2. ASSUME ~Respond PROVE responses' = responses
  BY <1>2, Steps, RefusedFacts, ReturnsFacts
     DEF Send, Take, GetBufferRefs, DirectoryPage, MapBuffer, MappingThrows,
         UnmapBuffer, TransferNull, CallDevice, Background, Progress, ring
<1>. QED
  BY <1>1, <1>2 DEF StatusIsError

LEMMA CallStep ==
  ASSUME TypeOK, CallInv, Next
  PROVE  CallInv'
<1>1. ASSUME NEW o \in Ops, NEW n \in Nat, Send(o, n) PROVE CallInv'
  BY <1>1 DEF Send, CallInv, deviceVars
<1>2. CASE Take \/ Respond
  BY <1>2 DEF Take, Respond, CallInv, deviceVars
<1>3. CASE Refused
  BY <1>3, RefusedFacts DEF CallInv, deviceVars
<1>4. CASE MappingThrows
  BY <1>4, ThrowFacts DEF MappingThrows, CallInv, deviceVars
<1>5. CASE DeviceReturns
  <2>1. call' = "none"
    BY <1>5, ReturnsFacts, DeviceCalls, OutcomeFacts DEF TypeOK
  <2>. QED
    BY <1>5, <2>1, ReturnsFacts DEF CallInv
<1>6. CASE GetBufferRefs \/ DirectoryPage \/ MapBuffer \/ TransferNull
  BY <1>6 DEF GetBufferRefs, DirectoryPage, MapBuffer, TransferNull, Process, CallInv, deviceVars
<1>7. CASE UnmapBuffer
  BY <1>7 DEF UnmapBuffer, Process, CallInv, deviceVars
<1>8. CASE CallDevice
  <2>1. call' = DeviceCall(current.op)
    BY <1>8, AtDeviceFacts, DeviceCalls, CallFacts DEF CallDevice, TypeOK
  <2>. QED
    BY <1>8, <2>1, AtDeviceFacts DEF CallDevice, CallInv
<1>9. CASE Background
  BY <1>9, BackgroundFacts DEF Background, CallInv, TypeOK
<1>10. CASE Progress
  BY <1>10 DEF Progress, CallInv, deviceVars
<1>. QED
  BY <1>1, <1>2, <1>3, <1>4, <1>5, <1>6, <1>7, <1>8, <1>9, <1>10, Steps

\* A frontend is what it is.
LEMMA FrontendStays ==
  ASSUME Next
  PROVE  frontend' = frontend
  BY Steps, RefusedFacts
     DEF Send, Take, Respond, GetBufferRefs, DirectoryPage, MapBuffer, MappingThrows,
         UnmapBuffer, TransferNull, CallDevice, DeviceReturns, Background, Progress, ring

LEMMA WalkInvStep ==
  ASSUME TypeOK, WalkInv, CallInv, Next
  PROVE  WalkInv'
<1>1. ASSUME NEW o \in Ops, NEW n \in Nat, Send(o, n) PROVE WalkInv'
  BY <1>1, FrontendStays DEF Send, WalkInv, walk
<1>2. CASE pc' # "walk"
  BY <1>2 DEF WalkInv
<1>3. CASE GetBufferRefs
  <2>1. /\ refs' = <<>> /\ current' = current /\ frontend' = frontend
        /\ requestedNumGrefs' = Len(Pages(current.size))
        /\ frontend.sound => directory' = IF Directories(current.size) > 0 THEN 1 ELSE 0
        /\ current.size \in Nat
    <3>1. (current.size + PageSize - 1) \div PageSize \in Nat
      BY Ceiling, CommandAssumption DEF TypeOK
    <3>2. (current.size + PageSize - 1) \div PageSize = Len(Pages(current.size))
      BY <3>1 DEF Pages
    <3>. QED
      BY <1>3, <3>2, FirstPageFacts DEF GetBufferRefs, TypeOK, ring
  <2>2. Len(Pages(current.size)) \in Nat /\ Directories(current.size) \in Nat
    BY <2>1, PagesFacts, DirectoryFacts
  <2>3. refs' \in Seq(Nat) /\ Len(refs') = 0
    BY <2>1
  <2>4. frontend.sound /\ directory' # 0 => directory' = 1 /\ 1 <= Directories(current.size)
    BY <2>1, <2>2
  <2>5. frontend.sound /\ directory' = 0 => Len(Pages(current.size)) = 0
    <3>1. ASSUME frontend.sound, directory' = 0 PROVE Directories(current.size) = 0
      BY <2>1, <2>2, <3>1
    <3>2. ASSUME Directories(current.size) = 0 PROVE Len(Pages(current.size)) <= 0
      <4>1. Len(Pages(current.size)) <= Directories(current.size) * PerPage
        BY <2>1, DirectoryFacts
      <4>. QED
        BY <4>1, <3>2, CommandAssumption
    <3>. QED
      BY <2>2, <3>1, <3>2
  <2>6. (1 - 1) * PerPage = 0
    BY CommandAssumption
  <2>. QED
    BY <2>1, <2>2, <2>3, <2>4, <2>5, <2>6 DEF WalkInv
<1>4. CASE DirectoryPage
  BY <1>4, WalkStep
<1>5. CASE Background \/ Progress
  BY <1>5, FrontendStays DEF Background, Progress, WalkInv, walk
<1>6. ASSUME Take \/ Respond \/ Refused \/ MapBuffer \/ MappingThrows \/ UnmapBuffer
             \/ TransferNull \/ CallDevice \/ DeviceReturns
      PROVE  pc' # "walk"
  BY <1>6, RefusedFacts, ThrowFacts, ReturnsFacts
     DEF Take, Respond, MapBuffer, MappingThrows, UnmapBuffer, TransferNull, CallDevice
<1>. QED
  BY <1>1, <1>2, <1>3, <1>4, <1>5, <1>6, Steps

LEMMA MappedStep ==
  ASSUME TypeOK, WalkInv, CallInv, MappedInv, Next
  PROVE  MappedInv'
<1>f. frontend' = frontend
  BY FrontendStays
<1>m. UNCHANGED <<mBuffer, current>> => (Mapped' <=> Mapped)
  BY <1>f DEF Mapped
<1>1. ASSUME NEW o \in Ops, NEW n \in Nat, Send(o, n) PROVE MappedInv'
  BY <1>1, <1>m DEF Send, MappedInv, deviceVars
<1>2. CASE Take \/ Respond
  BY <1>2 DEF Take, Respond, MappedInv
<1>3. CASE Refused
  BY <1>3, RefusedFacts DEF MappedInv
<1>4. CASE MappingThrows
  BY <1>4, ThrowFacts DEF MappingThrows, MappedInv
<1>5. CASE MapBuffer
  <2>1. /\ mBuffer' = refs /\ current' = current /\ pc' = "device"
        /\ current.size \in Nat /\ refs \in Seq(Nat)
        /\ Len(refs) <= Len(Pages(current.size))
        /\ frontend.sound => /\ Len(refs) = Len(Pages(current.size))
                             /\ \A i \in 1 .. Len(refs) : refs[i] = i
    BY <1>5 DEF MapBuffer, WalkInv, TypeOK
  <2>2. frontend.sound => refs = Pages(current.size)
    BY <2>1, WholePages
  <2>3. Mapped'
    BY <1>f, <2>1, <2>2 DEF Mapped
  <2>. QED
    BY <2>1, <2>3 DEF MappedInv
<1>6. CASE DeviceReturns
  <2>1. /\ pc' = "respond" /\ UNCHANGED <<current, mBuffer>>
        /\ current.op = "open" => pc \in {"device", "call"}
        /\ answer' # "ok" => status' < 0 /\ status' \in Int
    BY <1>6, ReturnsFacts
  <2>. QED
    BY <1>m, <2>1 DEF MappedInv
<1>7. CASE CallDevice
  BY <1>7, <1>m, AtDeviceFacts DEF CallDevice, MappedInv
<1>8. CASE GetBufferRefs \/ DirectoryPage \/ TransferNull \/ Progress
  BY <1>8, <1>m DEF GetBufferRefs, DirectoryPage, TransferNull, Progress, Process, MappedInv,
                    deviceVars
<1>9. CASE UnmapBuffer
  BY <1>9 DEF UnmapBuffer, Process, MappedInv
<1>10. CASE Background
  BY <1>10, <1>m, BackgroundFacts DEF Background, MappedInv, TypeOK
<1>. QED
  BY <1>1, <1>2, <1>3, <1>4, <1>5, <1>6, <1>7, <1>8, <1>9, <1>10, Steps

LEMMA DeviceStep ==
  ASSUME TypeOK, StatusInv, CallInv, DeviceInv, Next
  PROVE  DeviceInv'
<1>1. ASSUME NEW o \in Ops, NEW n \in Nat, Send(o, n) PROVE DeviceInv'
  BY <1>1 DEF Send, DeviceInv, QuietWhenClosed, deviceVars
<1>2. CASE Take \/ Respond
  BY <1>2 DEF Take, Respond, DeviceInv, QuietWhenClosed, deviceVars, NoRequest
<1>3. CASE Refused
  BY <1>3, RefusedFacts DEF DeviceInv, QuietWhenClosed, deviceVars, ring
<1>4. CASE MappingThrows
  BY <1>4, ThrowFacts DEF MappingThrows, DeviceInv, CallInv, QuietWhenClosed, deviceVars, ring
<1>5. CASE DeviceReturns
  <2> DEFINE c == DeviceCall(current.op)
  <2>1. /\ pc # "respond" /\ pc' = "respond" /\ UNCHANGED <<phase, current>>
        /\ answer' = "ok" => status' = status
        /\ current.op \in {"open", "close", "read", "write", "query", "trigger"}
    BY <1>5, ReturnsFacts DEF ring
  <2>2. /\ c \in Calls /\ (c = "open" <=> current.op = "open")
        /\ c = "close" <=> current.op = "close"
    BY <2>1, DeviceCalls
  <2> HIDE DEF c
  <2>3. PICK result \in {"ok", "error"} : Outcome(c, result)
    BY <1>5, ReturnsFacts DEF c
  <2>4. /\ answer' = result
        /\ open' = TRUE => open = TRUE \/ (c = "open" /\ result = "ok")
        /\ c = "close" => open' = FALSE
        /\ reporting' = TRUE => open' = TRUE
    BY <2>2, <2>3, OutcomeFacts DEF TypeOK
  <2>5. status = 0
    BY <2>1 DEF StatusInv
  <2>6. open = TRUE => phase = "opened"
    BY <2>1 DEF DeviceInv
  <2>. QED
    BY <2>1, <2>2, <2>4, <2>5, <2>6 DEF DeviceInv, QuietWhenClosed
<1>6. CASE CallDevice
  <2>1. /\ open' = TRUE => open = TRUE
        /\ call' = "open" <=> current.op = "open"
        /\ current.op # "open" => open' = open
        /\ reporting' = reporting /\ call = "none"
    BY <1>6, AtDeviceFacts, DeviceCalls, CallFacts DEF CallDevice, TypeOK
  <2>2. /\ UNCHANGED <<phase, current>> /\ pc' = "call" /\ pc # "respond"
    BY <1>6, AtDeviceFacts DEF CallDevice, ring
  <2>3. reporting' = TRUE => open' = TRUE \/ call' = "open"
    BY <2>1 DEF DeviceInv, QuietWhenClosed
  <2>. QED
    BY <2>1, <2>2, <2>3 DEF DeviceInv, QuietWhenClosed
<1>7. CASE GetBufferRefs \/ DirectoryPage \/ MapBuffer \/ TransferNull \/ Progress
  BY <1>7 DEF GetBufferRefs, DirectoryPage, MapBuffer, TransferNull, Progress, Process,
              DeviceInv, QuietWhenClosed, deviceVars, ring
<1>8. CASE UnmapBuffer
  BY <1>8 DEF UnmapBuffer, Process, DeviceInv, QuietWhenClosed, deviceVars, ring
<1>9. CASE Background
  <2>1. /\ open' = TRUE => open = TRUE
        /\ QuietWhenClosed'
        /\ UNCHANGED <<phase, pc, current, status>> /\ open' \in BOOLEAN
    BY <1>9, BackgroundFacts DEF Background, DeviceInv, TypeOK, DeviceOK, ring
  <2>. QED
    BY <2>1 DEF DeviceInv
<1>. QED
  BY <1>1, <1>2, <1>3, <1>4, <1>5, <1>6, <1>7, <1>8, <1>9, Steps

LEMMA OrderlyStep ==
  ASSUME IInv, Next
  PROVE  OrderlyInv'
<1>. USE DEF IInv
<1>0. SUFFICES ASSUME frontend.inOrder
               PROVE  OrderlyInv'
  BY FrontendStays DEF OrderlyInv
<1>1. /\ ~crashed
      /\ InProcess + Len(requests) <= 1
      /\ \A i \in 1 .. Len(requests) : phase \in Protocol(requests[i].op)
      /\ pc # "idle" => phase \in Protocol(current.op)
      /\ phase = "opened" => mBuffer # NoBuffer \/ (pc # "idle" /\ current.op = "close")
      /\ InProcess \in {0, 1} /\ Len(requests) \in Nat
      /\ requests \in Seq([id : Nat, op : Ops, size : Nat])
  BY <1>0, InProcessFacts DEF OrderlyInv, TypeOK
<1>2. ASSUME NEW o \in Ops, NEW n \in Nat, Send(o, n) PROVE OrderlyInv'
  <2> DEFINE req == [id |-> Len(sent) + 1, op |-> o, size |-> n]
  <2>1. /\ Len(responses) = Len(sent) /\ phase \in Protocol(o)
        /\ requests' = Append(requests, req)
        /\ UNCHANGED <<phase, pc, current, crashed, mBuffer>> /\ InProcess' = InProcess
    BY <1>0, <1>2 DEF Send, InProcess
  <2>2. req.op = o
    OBVIOUS
  <2> HIDE DEF req
  <2>3. Len(requests) = 0 /\ InProcess = 0
    <3>1. Len(responses) + InProcess + Len(requests) = Len(sent)
      BY DEF RingInv
    <3>2. sent \in Seq([id : Nat, op : Ops, size : Nat])
      BY DEF TypeOK
    <3> DEFINE a == Len(responses)  b == InProcess  c == Len(requests)  d == Len(sent)
    <3>3. d \in Nat
      BY <3>2
    <3>4. a + b + c = d /\ a = d /\ b \in {0, 1} /\ c \in Nat
      BY <1>1, <2>1, <3>1
    <3> HIDE DEF a, b, c, d
    <3>5. c = 0 /\ b = 0
      BY <3>3, <3>4
    <3>. QED
      BY <3>5 DEF b, c
  <2>4. Len(requests') = 1 /\ requests'[1] = req
    BY <1>1, <2>1, <2>3
  <2>5. InProcess' + Len(requests') <= 1
    BY <2>1, <2>3, <2>4
  <2>6. \A i \in 1 .. Len(requests') : phase' \in Protocol(requests'[i].op)
    BY <2>1, <2>2, <2>4
  <2>. QED
    BY <1>1, <2>1, <2>5, <2>6 DEF OrderlyInv
<1>3. CASE Take
  <2>1. /\ requests # <<>> /\ requests' = Tail(requests) /\ current' = Head(requests)
        /\ UNCHANGED <<phase, mBuffer, crashed>> /\ pc = "idle" /\ pc' = "process"
    BY <1>3 DEF Take
  <2>2. current' = requests[1] /\ Len(requests) > 0 /\ Len(requests') = Len(requests) - 1
    BY <1>1, <2>1, TailFacts
  <2>3. Len(requests) = 1 /\ Len(requests') = 0 /\ InProcess' = 1
    BY <1>1, <2>1, <2>2 DEF InProcess
  <2>4. phase' \in Protocol(current'.op)
    BY <1>1, <2>1, <2>2, <2>3
  <2>5. InProcess' + Len(requests') <= 1 /\ \A i \in 1 .. Len(requests') : FALSE
    BY <2>3
  <2>. QED
    BY <1>1, <2>1, <2>4, <2>5 DEF OrderlyInv
<1>4. CASE Respond
  <2>1. /\ UNCHANGED <<requests, mBuffer, crashed>> /\ pc = "respond" /\ pc' = "idle"
        /\ phase' = IF current.op = "close" THEN "closed"
                    ELSE IF current.op = "open" /\ status = 0 THEN "opened" ELSE phase
    BY <1>4 DEF Respond
  <2>2. InProcess = 1 /\ InProcess' = 0
    BY <1>1, <2>1 DEF InProcess
  <2>3. Len(requests) = 0 /\ InProcess' + Len(requests') <= 1
    BY <1>1, <2>1, <2>2
  <2>4. phase' = "opened" => mBuffer' # NoBuffer
    <3>1. CASE current.op = "open" /\ status = 0
      <4>1. mBuffer \in Seq(Nat)
        BY <2>1, <3>1 DEF MappedInv, Mapped
      <4>. QED
        BY <2>1, <4>1, BufferIsMapped
    <3>2. CASE ~(current.op = "open" /\ status = 0)
      BY <1>1, <2>1, <3>2
    <3>. QED
      BY <3>1, <3>2
  <2>5. \A i \in 1 .. Len(requests') : FALSE
    BY <2>1, <2>3
  <2>. QED
    BY <1>1, <2>1, <2>3, <2>4, <2>5 DEF OrderlyInv
\* The request goes on: only the buffer may change.
<1>5. ASSUME UNCHANGED <<requests, phase, current, crashed>>,
             pc # "idle", pc' # "idle",
             mBuffer' # NoBuffer \/ mBuffer' = mBuffer \/ current.op = "close"
      PROVE  OrderlyInv'
  <2>1. InProcess' = InProcess
    BY <1>5 DEF InProcess
  <2>. QED
    BY <1>1, <1>5, <2>1 DEF OrderlyInv
<1>6. CASE Refused \/ GetBufferRefs \/ DirectoryPage \/ MappingThrows \/ CallDevice \/ DeviceReturns
  <2>1. /\ UNCHANGED <<requests, phase, current, crashed, mBuffer>>
        /\ pc # "idle" /\ pc' # "idle"
    <3>1. CASE Refused \/ DeviceReturns
      BY <3>1, RefusedFacts, ReturnsFacts DEF ring
    <3>2. CASE GetBufferRefs \/ DirectoryPage \/ CallDevice
      BY <3>2, AtDeviceFacts DEF GetBufferRefs, DirectoryPage, CallDevice, Process, ring
    <3>3. CASE MappingThrows
      BY <3>3, ThrowFacts DEF MappingThrows, ring
    <3>. QED
      BY <1>6, <3>1, <3>2, <3>3
  <2>. QED
    BY <1>5, <2>1
<1>7. CASE MapBuffer
  <2>1. /\ mBuffer' = refs /\ refs \in Seq(Nat) /\ pc = "walk" /\ pc' = "device"
        /\ UNCHANGED <<requests, phase, current, crashed>>
    BY <1>7 DEF MapBuffer, WalkInv, ring
  <2>2. refs # NoBuffer
    BY <2>1, BufferIsMapped
  <2>. QED
    BY <1>5, <2>1, <2>2
<1>8. CASE UnmapBuffer
  BY <1>5, <1>8 DEF UnmapBuffer, Process, ring
<1>9. ASSUME TransferNull PROVE FALSE
  <2>1. /\ pc = "process" /\ current.op \in {"read", "write"} /\ mBuffer = NoBuffer
    BY <1>9 DEF TransferNull, Process
  <2>2. phase = "opened"
    BY <1>1, <2>1 DEF Protocol
  <2>. QED
    BY <1>1, <2>1, <2>2
<1>10. CASE Background \/ Progress
  BY <1>1, <1>10 DEF Background, Progress, OrderlyInv, InProcess, ring
<1>. QED
  BY <1>2, <1>3, <1>4, <1>6, <1>7, <1>8, <1>9, <1>10, Steps

-----------------------------------------------------------------------------
(* The invariant is inductive. *)

LEMMA Initial == Init => IInv
<1>. SUFFICES ASSUME Init PROVE IInv
  OBVIOUS
<1>1. TypeOK
  <2>1. NoRequest \in [id : Nat, op : Ops, size : Nat]
    BY DEF NoRequest, Ops
  <2>2. NoBuffer \in Seq(Int)
    BY DEF NoBuffer
  <2>3. /\ <<>> \in Seq([id : Nat, op : Ops, size : Nat])
        /\ <<>> \in Seq([id : Nat, op : Ops, status : Int])
        /\ <<>> \in Seq(Nat) /\ Len(<<>>) = 0
    OBVIOUS
  <2>4. DeviceOK
    BY DEF Init, DeviceInit, DeviceOK
  <2>5. 0 \in 0 .. EventIds - 1 /\ 0 <= RingSize /\ 0 <= MaxRequests /\ 0 \in Nat /\ 0 \in Int
    BY CommandAssumption
  <2>. QED
    BY <2>1, <2>2, <2>3, <2>4, <2>5, ZenonT(60) DEF Init, TypeOK
<1>2. RingInv /\ StatusInv /\ CallInv /\ WalkInv
  BY DEF Init, RingInv, StatusInv, CallInv, WalkInv, DeviceInit, InProcess
<1>3. MappedInv /\ DeviceInv
  BY DEF Init, MappedInv, DeviceInv, QuietWhenClosed, DeviceInit, NoRequest
<1>4. OrderlyInv
  BY DEF Init, OrderlyInv, InProcess
<1>5. StatusIsError
  BY DEF Init, StatusIsError
<1>. QED
  BY <1>1, <1>2, <1>3, <1>4, <1>5 DEF IInv

LEMMA Stutter == IInv /\ UNCHANGED vars => IInv'
  BY DEF IInv, vars, ring, walk, deviceVars, TypeOK, DeviceOK, RingInv, InProcess,
         StatusInv, CallInv, WalkInv, MappedInv, Mapped, DeviceInv, QuietWhenClosed, OrderlyInv,
         StatusIsError

LEMMA Inductive == IInv /\ [Next]_vars => IInv'
<1>1. ASSUME IInv, Next PROVE IInv'
  BY <1>1, TypeStep, RingStep, StatusStep, CallStep, WalkInvStep, MappedStep, DeviceStep,
     OrderlyStep, StatusIsErrorStep DEF IInv
<1>. QED
  BY <1>1, Stutter

\* Every part of the invariant holds in every reachable state.
THEOREM Invariance == Spec => []IInv
  BY Initial, Inductive, PTL DEF Spec

\* Every reachable state is well typed: no directory, however its pages are
\* filled, brings requestedNumGrefs below zero.
THEOREM TypeCorrect == Spec => []TypeOK
<1>1. IInv => TypeOK
  BY DEF IInv
<1>. QED
  BY Invariance, <1>1, PTL

\* One response to each request, in the order of the requests, however many the
\* frontend has sent ahead and whichever of them fail.
THEOREM OneResponseEach == Spec => []ResponsesMatch
<1>1. IInv => ResponsesMatch
  BY DEF IInv, RingInv, ResponsesMatch
<1>. QED
  BY Invariance, <1>1, PTL

\* No failure is answered as a success, whatever sign its errno had.
THEOREM FailuresAreErrors == Spec => []StatusIsError
<1>1. IInv => StatusIsError
  BY DEF IInv
<1>. QED
  BY Invariance, <1>1, PTL

\* OPEN is answered with success only when the device has said yes, and the whole
\* buffer is mapped, for every size of buffer, page and directory; of a directory
\* that is not sound, no more pages than the buffer has.
THEOREM MapsWholeBuffer == Spec => []WholeBuffer
<1>1. IInv => WholeBuffer
  BY DEF IInv, MappedInv, Mapped, WholeBuffer
<1>. QED
  BY Invariance, <1>1, PTL

\* READ and WRITE of a frontend in order always find a buffer.
THEOREM AlwaysABuffer == Spec => []BufferForTransfer
<1>1. IInv => BufferForTransfer
  BY DEF IInv, OrderlyInv, BufferForTransfer
<1>. QED
  BY Invariance, <1>1, PTL

\* No event between the response to CLOSE and the next OPEN, over any device
\* that keeps the interface.
THEOREM QuietAfterwards == Spec => QuietAfterClose
<1> DEFINE Loud == mEventId' # mEventId => phase = "opened" \/ current.op = "open"
<1>1. IInv /\ [Next]_vars => [Loud]_vars
  <2>1. SUFFICES ASSUME IInv, Next, mEventId' # mEventId
                 PROVE  phase = "opened" \/ current.op = "open"
    OBVIOUS
  <2>2. Progress
    BY <2>1, Steps, RefusedFacts, ReturnsFacts
       DEF IInv, Send, Take, Respond, GetBufferRefs, DirectoryPage, MapBuffer,
           MappingThrows, UnmapBuffer, TransferNull, CallDevice, Background
  <2>3. open = TRUE \/ call = "open"
    BY <2>1, <2>2 DEF Progress, IInv, DeviceInv, QuietWhenClosed
  <2>4. CASE open = TRUE
    BY <2>1, <2>4 DEF IInv, DeviceInv
  <2>5. CASE call = "open"
    <3>1. pc = "call" /\ DeviceCall(current.op) = "open"
          /\ current.op \in {"open", "close", "read", "write", "query", "trigger"}
      BY <2>1, <2>5 DEF IInv, CallInv
    <3>. QED
      BY <3>1, DeviceCalls
  <2>. QED
    BY <2>3, <2>4, <2>5
<1>. QED
  BY Invariance, <1>1, PTL DEF Spec, QuietAfterClose

-----------------------------------------------------------------------------
(* How long a request takes. *)

LEMMA LinksLeftFacts ==
  ASSUME TypeOK, WalkInv, pc = "walk"
  PROVE  LinksLeft \in Nat /\ LinksLeft <= Directories(current.size)
<1>1. current.size \in Nat /\ Directories(current.size) \in Nat /\ directory \in Nat
  BY DirectoryFacts DEF TypeOK
<1>2. frontend.sound /\ directory # 0 => directory <= Directories(current.size)
  BY DEF WalkInv
<1>. HIDE DEF Directories
<1>. QED
  BY <1>1, <1>2 DEF LinksLeft

\* The page of a sound directory being walked is one of the buffer's, and the
\* measure is a number that only an idle thread has at zero.
LEMMA StepsLeftFacts ==
  ASSUME TypeOK, WalkInv
  PROVE  /\ StepsLeft \in Nat
         /\ pc = "idle" <=> StepsLeft = 0
         /\ StepsLeft <= 5 + Directories(current.size)
<1>1. current.size \in Nat /\ Directories(current.size) \in Nat /\ directory \in Nat
  BY DirectoryFacts DEF TypeOK
<1>2. pc = "walk" => LinksLeft \in Nat /\ LinksLeft <= Directories(current.size)
  BY <1>1, LinksLeftFacts
<1>3. pc \in {"idle", "process", "walk", "device", "call", "respond"}
  BY DEF TypeOK
<1>. HIDE DEF Directories
<1>. QED
  BY <1>1, <1>2, <1>3 DEF StepsLeft

\* Every step of the request thread on its request leaves fewer to do, but for
\* one along a link of a directory that is not sound, which leaves as many.
LEMMA ThreadNears ==
  ASSUME IInv, Next, pc # "idle", RequestThread \/ MappingThrows
  PROVE  /\ StepsLeft' \in Nat /\ StepsLeft' <= StepsLeft
         /\ StepsLeft' < StepsLeft \/ (DirectoryPage /\ OnLooseDirectory)
<1>1. TypeOK /\ WalkInv /\ CallInv /\ TypeOK' /\ WalkInv'
  BY TypeStep, WalkInvStep DEF IInv
<1>2. StepsLeft \in Nat /\ StepsLeft > 0
  BY <1>1, StepsLeftFacts
<1>3. /\ current.size \in Nat /\ Directories(current.size) \in Nat
      /\ directory \in Nat /\ directory' \in Nat /\ frontend' = frontend
      /\ pc = "walk" => LinksLeft \in Nat /\ LinksLeft <= Directories(current.size)
  BY <1>1, DirectoryFacts, LinksLeftFacts, FrontendStays DEF TypeOK
<1>4. CASE Take \/ Respond \/ TransferNull
  <2>1. pc' = "idle"
    BY <1>4 DEF Take, Respond, TransferNull
  <2>2. StepsLeft' = 0
    BY <2>1 DEF StepsLeft
  <2>. QED
    BY <1>2, <2>2
<1>5. CASE Refused \/ MappingThrows \/ DeviceReturns
  <2>1. pc' = "respond" /\ pc \in {"process", "walk", "device", "call"}
    BY <1>1, <1>5, RefusedFacts, ThrowFacts, ReturnsFacts DEF Refused, Process, MappingThrows
  <2>. QED
    BY <1>3, <2>1 DEF StepsLeft
<1>6. CASE CallDevice
  <2>1. pc' = "call" /\ pc \in {"device", "process"}
    BY <1>1, <1>6, AtDeviceFacts DEF CallDevice
  <2>. QED
    BY <1>3, <2>1 DEF StepsLeft
<1>7. CASE UnmapBuffer \/ MapBuffer
  <2>1. pc' = "device" /\ (pc = "process" \/ (pc = "walk" /\ directory = 0))
    BY <1>7 DEF UnmapBuffer, MapBuffer, Process
  <2>. QED
    BY <1>3, <2>1 DEF StepsLeft
<1>8. CASE GetBufferRefs
  <2>1. pc = "process" /\ pc' = "walk" /\ current' = current
    BY <1>8 DEF GetBufferRefs, Process
  <2>2. StepsLeft = 5 + Directories(current.size) /\ StepsLeft' = 4 + LinksLeft'
    BY <2>1 DEF StepsLeft
  <2>3. frontend.sound => directory' \in {0, 1}
    BY <1>3, <1>8, FirstPageFacts DEF GetBufferRefs
  <2>4. LinksLeft' \in {0, Directories(current.size)}
    <3>1. directory' = 1 => Directories(current.size) + 1 - directory' = Directories(current.size)
      BY <1>3
    <3>2. current' = current /\ frontend' = frontend
      BY <1>3, <2>1
    <3> HIDE DEF Directories
    <3>. QED
      BY <2>3, <3>1, <3>2 DEF LinksLeft
  <2>5. StepsLeft' \in Nat /\ StepsLeft' < StepsLeft
    <3> DEFINE d == Directories(current.size)  l == LinksLeft'  s == StepsLeft'  t == StepsLeft
    <3>1. d \in Nat /\ l \in {0, d} /\ t = 5 + d /\ s = 4 + l
      BY <1>3, <2>2, <2>4
    <3> HIDE DEF d, l, s, t
    <3>2. s \in Nat /\ s < t
      BY <3>1
    <3>. QED
      BY <3>2 DEF s, t
  <2>. QED
    BY <1>2, <2>5
<1>9. CASE DirectoryPage
  <2>1. /\ pc = "walk" /\ directory # 0 /\ pc' = "walk" /\ current' = current
        /\ directory' \in NextPages(directory, current.size)
    BY <1>9 DEF DirectoryPage
  <2>2. StepsLeft = 4 + LinksLeft /\ StepsLeft' = 4 + LinksLeft'
    BY <2>1 DEF StepsLeft
  <2>3. CASE frontend.sound
    <3>1. directory' = NextPage(directory, current.size)
      BY <2>1, <2>3 DEF NextPages
    <3>2. directory <= Directories(current.size)
      BY <1>1, <2>1, <2>3 DEF WalkInv
    <3>3. /\ LinksLeft = Directories(current.size) + 1 - directory
          /\ LinksLeft' = IF directory' = 0 THEN 0
                          ELSE Directories(current.size) + 1 - directory'
      BY <1>3, <2>1, <2>3 DEF LinksLeft
    <3>. QED
      BY <1>3, <2>1, <2>2, <3>1, <3>2, <3>3 DEF NextPage
  <2>4. CASE ~frontend.sound
    <3>1. LinksLeft = 0 /\ LinksLeft' = 0
      BY <1>3, <2>4 DEF LinksLeft
    <3>. QED
      BY <1>9, <2>1, <2>2, <2>4, <3>1 DEF OnLooseDirectory
  <2>. QED
    BY <2>3, <2>4
<1>. QED
  BY <1>2, <1>4, <1>5, <1>6, <1>7, <1>8, <1>9 DEF RequestThread

\* The request thread is done with a request after at most five steps and one for
\* each page of a sound directory, whatever is thrown, reported or sent meanwhile:
\* the part of Answered that is no matter of fairness.  Of a directory that is not
\* sound it says that nothing but the walk over its links holds the thread up.
THEOREM ResponsesNear == Spec => ResponseNears
<1>1. ASSUME IInv, Next, pc # "idle"
      PROVE  /\ StepsLeft' <= StepsLeft
             /\ RequestThread \/ MappingThrows =>
                  StepsLeft' < StepsLeft \/ (DirectoryPage /\ OnLooseDirectory)
  <2>1. StepsLeft \in Nat
    BY <1>1, StepsLeftFacts DEF IInv
  <2>2. ASSUME NEW o \in Ops, NEW n \in Nat, Send(o, n) PROVE UNCHANGED <<pc, directory, current>>
    BY <2>2 DEF Send, walk
  <2>3. ASSUME Background \/ Progress PROVE UNCHANGED <<pc, directory, current>>
    BY <2>3 DEF Background, Progress, walk
  <2>4. UNCHANGED <<pc, directory, current>> => StepsLeft' = StepsLeft
    BY <1>1, FrontendStays DEF StepsLeft, LinksLeft
  <2>5. CASE RequestThread \/ MappingThrows
    BY <1>1, <2>1, <2>5, ThreadNears
  <2>6. CASE UNCHANGED <<pc, directory, current>> /\ ~(RequestThread \/ MappingThrows)
    BY <2>1, <2>4, <2>6
  <2>. QED
    BY <1>1, <2>2, <2>3, <2>5, <2>6, Steps DEF RequestThread, Background, Progress, walk
<1>2. IInv /\ [Next]_vars =>
        [pc # "idle" =>
           /\ StepsLeft' <= StepsLeft
           /\ RequestThread \/ MappingThrows =>
                StepsLeft' < StepsLeft \/ (DirectoryPage /\ OnLooseDirectory)]_vars
  BY <1>1
<1>. QED
  BY Invariance, <1>2, PTL DEF Spec, ResponseNears

=============================================================================
