--------------------------- MODULE CommandHandler ---------------------------
(* The commands of one stream (CommandHandler.cpp, StreamRingBuffer of      *)
(* SndBackend.cpp): the request thread takes them off the request ring one  *)
(* at a time, carries them out on the buffer and the PCM device, and sends  *)
(* one response each; a thread of the device reports progress as events.    *)
(*                                                                          *)
(* The PCM device is PcmDevice, the interface of SoundItf.hpp, composed     *)
(* with the command handler: a command makes a call of it, and while the    *)
(* call runs, and between calls, the device reports and may lose its stream.*)
EXTENDS Integers, Sequences, PcmDevice

CONSTANTS
  Frontends,    \* kinds of frontend: inOrder, its requests follow the protocol;
                \* sound, its page directories list the pages of the buffer
  PageSize,     \* XC_PAGE_SIZE
  PerPage,      \* grant references one page directory holds
  MaxLink,      \* bound on the directory pages of a frontend that is not sound
  Sizes,        \* sizes of the buffers frontends ask for
  RingSize,     \* requests the ring holds
  EventIds,     \* 2^16: the range of mEventId
  MaxRequests   \* bound on the requests of a run

ASSUME CommandAssumption ==
  /\ Frontends \subseteq [inOrder : BOOLEAN, sound : BOOLEAN]
  /\ PageSize \in Nat \ {0} /\ PerPage \in Nat \ {0} /\ MaxLink \in Nat
  /\ Sizes \subseteq Nat
  /\ RingSize \in Nat \ {0} /\ EventIds \in Nat \ {0, 1}
  /\ MaxRequests \in Nat

Ops == {"open", "close", "read", "write", "trigger", "badTrigger", "query", "unknown"}

VARIABLES
  frontend,     \* which kind of frontend this is
  requests,     \* the request ring, oldest first
  responses,    \* the responses sent so far
  sent,         \* the requests sent so far
  phase,        \* the frontend's view of the stream: "closed" or "opened"
  pc,           \* where the request thread is
  current,      \* the request it is processing
  status,       \* the status it will send
  directory,    \* getBufferRefs: number of the directory page to map, 0: none
  requestedNumGrefs,
  refs,         \* getBufferRefs: the references collected
  mBuffer,      \* references of the mapped buffer, NoBuffer: none is mapped
  mEventId,     \* id of the next event: it moves with each event sent
  crashed       \* a null mBuffer was dereferenced

ring == <<frontend, requests, responses, sent, phase>>
walk == <<directory, requestedNumGrefs, refs>>
vars == <<ring, pc, current, status, walk, mBuffer, mEventId, crashed, deviceVars>>

NoBuffer  == <<-1>>
NoRequest == [id |-> 0, op |-> "unknown", size |-> 0]

EINVAL == 22
EIO == 5

TypeOK ==
  /\ frontend \in Frontends
  /\ requests \in Seq([id : Nat, op : Ops, size : Nat]) /\ Len(requests) <= RingSize
  /\ responses \in Seq([id : Nat, op : Ops, status : Int])
  /\ sent \in Seq([id : Nat, op : Ops, size : Nat]) /\ Len(sent) <= MaxRequests
  /\ phase \in {"closed", "opened"}
  /\ pc \in {"idle", "process", "walk", "device", "call", "respond"}
  /\ current \in [id : Nat, op : Ops, size : Nat]
  /\ status \in Int
  /\ directory \in Nat /\ requestedNumGrefs \in Nat /\ refs \in Seq(Nat)
  /\ mBuffer \in Seq(Int)
  /\ DeviceOK
  /\ mEventId \in 0 .. EventIds - 1
  /\ crashed \in BOOLEAN

Init ==
  /\ frontend \in Frontends
  /\ requests = <<>> /\ responses = <<>> /\ sent = <<>>
  /\ phase = "closed"
  /\ pc = "idle" /\ current = NoRequest /\ status = 0
  /\ directory = 0 /\ requestedNumGrefs = 0 /\ refs = <<>>
  /\ mBuffer = NoBuffer
  /\ DeviceInit
  /\ mEventId = 0
  /\ crashed = FALSE

-----------------------------------------------------------------------------
(* The frontend. *)

\* The pages of a buffer of n bytes, and the directory a sound frontend builds
\* for it: each page lists PerPage of them and names the next page, the last
\* one 0.
Pages(n) == [i \in 1 .. (n + PageSize - 1) \div PageSize |-> i]
Directories(n) == (Len(Pages(n)) + PerPage - 1) \div PerPage
Entry(d, i, n) ==
  LET page == (d - 1) * PerPage + i
  IN  IF i <= PerPage /\ page <= Len(Pages(n)) THEN page ELSE 0   \* no entry of it
NextPage(d, n) == IF d < Directories(n) THEN d + 1 ELSE 0

\* The page that directory page d names as the next, for d = 0 the one that OPEN
\* names as the first.  A frontend that is not sound names any, one the walk has
\* been on, or ends the directory where it likes.
NextPages(d, n) == IF frontend.sound THEN {NextPage(d, n)} ELSE 0 .. MaxLink

Protocol(o) ==
  CASE o = "open" -> {"closed"}
    [] o \in {"read", "write", "trigger"} -> {"opened"}
    [] OTHER -> {"closed", "opened"}

\* A frontend in order waits for each response before its next request.
Send(o, n) ==
  /\ Len(sent) < MaxRequests
  /\ Len(requests) < RingSize
  /\ frontend.inOrder =>
       Len(responses) = Len(sent) /\ phase \in Protocol(o)
  /\ LET req == [id |-> Len(sent) + 1, op |-> o, size |-> n]
     IN  /\ requests' = Append(requests, req)
         /\ sent' = Append(sent, req)
  /\ UNCHANGED <<frontend, responses, phase, pc, current, status, walk,
                 mBuffer, deviceVars, mEventId, crashed>>

-----------------------------------------------------------------------------
(* StreamRingBuffer::processRequest and CommandHandler::processCommand. *)

\* What the handlers throw: a XenBackend::Exception with some errno, or another
\* exception; an operation not in the table throws out_of_range.
Thrown == [kind : {"errno"}, errno : {EIO, 0, -EINVAL}]
            \cup [kind : {"out_of_range", "other"}, errno : {0}]

\* Mutant of StatusOf: the sign of the errno not looked at.
StatusUnchecked(e) ==
  CASE e.kind = "errno"        -> - e.errno
    [] e.kind = "out_of_range" -> - EINVAL
    [] e.kind = "other"        -> - EIO

StatusOf(e) ==
  CASE e.kind = "errno"        -> IF e.errno > 0 THEN - e.errno ELSE - EINVAL
    [] e.kind = "out_of_range" -> - EINVAL
    [] e.kind = "other"        -> - EIO

Take ==
  /\ ~crashed
  /\ pc = "idle"
  /\ requests # <<>>
  /\ current' = Head(requests)
  /\ requests' = Tail(requests)
  /\ pc' = "process"
  /\ status' = 0
  /\ UNCHANGED <<frontend, responses, sent, phase, walk, mBuffer, deviceVars, mEventId, crashed>>

\* The handler of current has thrown e.
Throw(e) ==
  /\ pc' = "respond"
  /\ status' = StatusOf(e)

\* Mutant of Respond: no response to a command that failed.
RespondToSuccess ==
  /\ pc = "respond"
  /\ IF status = 0
       THEN responses' = Append(responses,
              [id |-> current.id, op |-> current.op, status |-> status])
       ELSE UNCHANGED responses
  /\ pc' = "idle"
  /\ current' = NoRequest
  /\ status' = 0
  /\ phase' = IF current.op = "close" THEN "closed"
              ELSE IF current.op = "open" /\ status = 0 THEN "opened" ELSE phase
  /\ directory' = 0 /\ requestedNumGrefs' = 0 /\ refs' = <<>>
  /\ UNCHANGED <<frontend, requests, sent, mBuffer, deviceVars, mEventId, crashed>>

\* sendResponse; the frontend reads it.
Respond ==
  /\ pc = "respond"
  /\ responses' = Append(responses,
       [id |-> current.id, op |-> current.op, status |-> status])
  /\ pc' = "idle"
  /\ current' = NoRequest
  /\ status' = 0
  /\ phase' = IF current.op = "close" THEN "closed"
              ELSE IF current.op = "open" /\ status = 0 THEN "opened" ELSE phase
  /\ directory' = 0 /\ requestedNumGrefs' = 0 /\ refs' = <<>>
  /\ UNCHANGED <<frontend, requests, sent, mBuffer, deviceVars, mEventId, crashed>>

Process(ops) == pc = "process" /\ current.op \in ops

\* sCmdTable.at throws; trigger() throws -EINVAL for a type it does not know.
Refused ==
  /\ \/ Process({"unknown"}) /\ Throw([kind |-> "out_of_range", errno |-> 0])
     \/ Process({"badTrigger"}) /\ Throw([kind |-> "errno", errno |-> - EINVAL])
  /\ UNCHANGED <<ring, current, walk, mBuffer, deviceVars, mEventId, crashed>>

-----------------------------------------------------------------------------
(* OPEN: getBufferRefs, the mapping of the buffer, and the device. *)

GetBufferRefs ==
  /\ Process({"open"})
  /\ refs' = <<>>
  /\ requestedNumGrefs' = (current.size + PageSize - 1) \div PageSize
  /\ directory' \in NextPages(0, current.size)
  /\ pc' = "walk"
  /\ UNCHANGED <<ring, current, status, mBuffer, deviceVars, mEventId, crashed>>

\* Mutants of NumGrefs: the references still missing, however many there are;
\* a whole page of references, however few are missing.
AllGrefs(requested) == requested

FullPage(requested) == PerPage

NumGrefs(requested) == IF requested < PerPage THEN requested ELSE PerPage

\* Mutant of DirectoryPage: the same page again.
DirectoryPageAgain ==
  /\ pc = "walk"
  /\ directory # 0
  /\ LET numGrefs == NumGrefs(requestedNumGrefs)
     IN  /\ refs' = refs \o [i \in 1 .. numGrefs |-> Entry(directory, i, current.size)]
         /\ requestedNumGrefs' = requestedNumGrefs - numGrefs
  /\ UNCHANGED <<ring, pc, current, status, directory, mBuffer, deviceVars, mEventId, crashed>>

\* One turn of the loop over the page directory, which maps the page.  The loop
\* follows the links to the zero one, also when no reference is missing any more.
DirectoryPage ==
  /\ pc = "walk"
  /\ directory # 0
  /\ LET numGrefs == NumGrefs(requestedNumGrefs)
     IN  /\ refs' = refs \o [i \in 1 .. numGrefs |-> Entry(directory, i, current.size)]
         /\ requestedNumGrefs' = requestedNumGrefs - numGrefs
  /\ directory' \in NextPages(directory, current.size)
  /\ UNCHANGED <<ring, pc, current, status, mBuffer, deviceVars, mEventId, crashed>>

\* Mutant of MapBuffer: the mapping not kept.
MapAndForget ==
  /\ pc = "walk"
  /\ directory = 0
  /\ pc' = "device"
  /\ UNCHANGED <<ring, current, status, walk, mBuffer, deviceVars, mEventId, crashed>>

\* mBuffer.reset(new XenGnttabBuffer), in place of the buffer there was.
MapBuffer ==
  /\ pc = "walk"
  /\ directory = 0
  /\ mBuffer' = refs
  /\ pc' = "device"
  /\ UNCHANGED <<ring, current, status, walk, deviceVars, mEventId, crashed>>

\* Mapping a directory page or the buffer throws; mBuffer stays as it was.
MappingThrows ==
  /\ pc = "walk"
  /\ \E e \in Thrown : Throw(e)
  /\ UNCHANGED <<ring, current, walk, mBuffer, deviceVars, mEventId, crashed>>

-----------------------------------------------------------------------------
(* The other commands. *)

\* Mutant of UnmapBuffer: the device not closed.
UnmapAndRespond ==
  /\ Process({"close"})
  /\ mBuffer' = NoBuffer
  /\ pc' = "respond"
  /\ UNCHANGED <<ring, current, status, walk, deviceVars, mEventId, crashed>>

UnmapBuffer ==
  /\ Process({"close"})
  /\ mBuffer' = NoBuffer
  /\ pc' = "device"
  /\ UNCHANGED <<ring, current, status, walk, deviceVars, mEventId, crashed>>

\* mBuffer->get() without a buffer.
TransferNull ==
  /\ Process({"read", "write"})
  /\ mBuffer = NoBuffer
  /\ crashed' = TRUE
  /\ pc' = "idle"
  /\ UNCHANGED <<ring, current, status, walk, mBuffer, deviceVars, mEventId>>

-----------------------------------------------------------------------------
(* The calls of the device. *)

DeviceCall(o) ==
  CASE o \in {"read", "write"}          -> "transfer"
    [] o \in {"open", "close", "query", "trigger"} -> o

\* The handler of current has come to its call of the device.
AtDevice ==
  \/ pc = "device"
  \/ Process({"trigger", "query"})
  \/ Process({"read", "write"}) /\ mBuffer # NoBuffer

CallDevice ==
  /\ AtDevice
  /\ Call(DeviceCall(current.op))
  /\ pc' = "call"
  /\ UNCHANGED <<ring, current, status, walk, mBuffer, mEventId, crashed>>

\* The call, one that took no time or one that went on, returns or throws.
DeviceReturns ==
  /\ \/ pc = "call" /\ Return
     \/ AtDevice /\ CallAndReturn(DeviceCall(current.op))
  /\ IF answer' = "ok"
       THEN pc' = "respond" /\ UNCHANGED status
       ELSE \E e \in Thrown : Throw(e)
  /\ UNCHANGED <<ring, current, walk, mBuffer, mEventId, crashed>>

\* What the device does by itself.
Background ==
  /\ ~crashed
  /\ Report \/ Lose
  /\ UNCHANGED <<ring, pc, current, status, walk, mBuffer, mEventId, crashed>>

\* progressCbk, on a thread of the device.
Progress ==
  /\ ~crashed
  /\ reporting = TRUE
  /\ mEventId' = (mEventId + 1) % EventIds
  /\ UNCHANGED <<ring, pc, current, status, walk, mBuffer, crashed, deviceVars>>

-----------------------------------------------------------------------------
RequestThread ==
  \/ Take \/ Respond \/ Refused
  \/ GetBufferRefs \/ DirectoryPage \/ MapBuffer
  \/ UnmapBuffer \/ TransferNull
  \/ CallDevice \/ DeviceReturns

Next ==
  \/ \E n \in Sizes : Send("open", n)
  \/ \E o \in Ops \ {"open"} : Send(o, 0)
  \/ RequestThread
  \/ MappingThrows
  \/ Background
  \/ Progress

Spec == Init /\ [][Next]_vars

\* The request thread is scheduled, and the calls it makes return.
FairSpec == Spec /\ WF_vars(RequestThread)

-----------------------------------------------------------------------------
(* Properties. *)

InProcess == IF pc # "idle" \/ crashed THEN 1 ELSE 0

\* The responses are those to the requests sent, in their order, one to each,
\* whichever commands failed and however many the frontend has sent ahead.
ResponsesMatch ==
  /\ Len(responses) + InProcess + Len(requests) = Len(sent)
  /\ \A i \in 1 .. Len(responses) :
       responses[i].id = sent[i].id /\ responses[i].op = sent[i].op

\* No status is positive, and none of a command that was refused is zero,
\* whatever sign the errno of the exception had.
StatusIsError ==
  \A i \in 1 .. Len(responses) :
    /\ responses[i].status <= 0
    /\ responses[i].op \in {"unknown", "badTrigger"} => responses[i].status < 0

\* When OPEN is answered with success, the buffer mapped is the frontend's:
\* every page, once, in order, collected over the pages of its directory.  Of a
\* directory that is not sound, one that loops included, no more pages are mapped
\* than the buffer has; that they may be fewer is not noticed.
WholeBuffer ==
  (pc = "respond" /\ current.op = "open" /\ status = 0)
    => /\ answer = "ok"
       /\ Len(mBuffer) <= Len(Pages(current.size))
       /\ frontend.sound => mBuffer = Pages(current.size)

\* A READ or WRITE of a frontend in order finds the buffer mapped, after any
\* sequence of commands that failed and were tried again.
BufferForTransfer == frontend.inOrder => ~crashed

\* After the response to CLOSE no progress event comes before the next OPEN.
QuietAfterClose ==
  [][mEventId' # mEventId => phase = "opened" \/ current.op = "open"]_vars

\* The walk is on a directory page of a frontend that may link it to any other,
\* or to itself.
OnLooseDirectory == pc = "walk" /\ directory # 0 /\ ~frontend.sound

\* Every request is answered, and no exception, whatever it is, ends the request
\* thread, as long as each directory it is given to walk has an end: one whose
\* links come round keeps it in getBufferRefs for good.
Answered ==
  []<>~OnLooseDirectory =>
    (Len(responses) < Len(sent) ~> Len(responses) = Len(sent) \/ crashed)

\* The directory pages the walk has still to map, of a directory that is sound.
LinksLeft ==
  IF frontend.sound /\ directory # 0 THEN Directories(current.size) + 1 - directory ELSE 0

\* The steps the request thread has left, at most, for the request it is at:
\* one for each directory page of a sound frontend and a handful beside.
StepsLeft ==
  CASE pc = "idle"    -> 0
    [] pc = "respond" -> 1
    [] pc = "call"    -> 2
    [] pc = "device"  -> 3
    [] pc = "walk"    -> 4 + LinksLeft
    [] pc = "process" -> 5 + Directories(current.size)

\* Every step of the request thread brings the response closer, and nothing
\* else puts it off: not what the device does meanwhile, not an exception, nor
\* the requests that come in behind.  The one step that may not is to follow the
\* link of a directory that is not sound, for which the code has no bound; a sound
\* directory of whatever length holds the response up by its pages only.
ResponseNears ==
  [][pc # "idle" =>
       /\ StepsLeft' <= StepsLeft
       /\ RequestThread \/ MappingThrows =>
            StepsLeft' < StepsLeft \/ (DirectoryPage /\ OnLooseDirectory)]_vars

=============================================================================
