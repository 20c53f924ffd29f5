---------------------------- MODULE SndFrontend ----------------------------
(* SndFrontendHandler (SndBackend.cpp): what one frontend has published in  *)
(* XenStore becomes a pair of rings and a PCM device per stream.            *)
(*                                                                          *)
(* The handler has a PulseMainloop as a member: it is bound only once that  *)
(* is built, and takes it along when it is deleted.  A stream id is a       *)
(* sequence of tokens: the delimiters "<", ">", ":" and ";", and words.     *)
EXTENDS PulseMainloop, Sequences, FiniteSets

CONSTANTS
  BackEnds,     \* the back ends built in: a subset of {"PULSE", "ALSA"}
  NumDevices,   \* bound on the device directories of a card
  NumStreams,   \* bound on the stream directories of a device
  Entries,      \* what a stream directory may hold
  Words,        \* what the fields of an id are made of, beside the delimiters
  Fields        \* the fields of the ids written in the documented format

Absent == [id |-> <<>>, type |-> "absent", complete |-> FALSE]

ASSUME FrontendAssumption ==
  /\ BackEnds \subseteq {"PULSE", "ALSA"}
  /\ NumDevices \in Nat /\ NumStreams \in Nat
  /\ Absent \notin Entries

Delimiters == {"<", ">", ":", ";"}
Tokens     == Words \cup Delimiters

\* In the documented format only the type may not be left out, and only the
\* field before a delimiter may not hold it.
ASSUME FieldsAssumption ==
  \A f \in Fields :
    /\ f.pcmType \in Seq(Tokens) \ {<<>>} /\ f.deviceName \in Seq(Tokens)
    /\ f.propName \in Seq(Tokens) /\ f.propValue \in Seq(Tokens)
    /\ \A i \in 1 .. Len(f.pcmType) : f.pcmType[i] # "<"
    /\ \A i \in 1 .. Len(f.deviceName) : f.deviceName[i] # ">"
    /\ \A i \in 1 .. Len(f.propName) : f.propName[i] # ":"

DeviceIndices == 0 .. NumDevices - 1
StreamIndices == 0 .. NumStreams - 1

VARIABLES
  devices,      \* XenStore: the device directories there are
  store,        \* XenStore: the content of each stream directory
  walk,         \* where onBind is, "idle": it has not been called
  devIndex,     \* processCard's index
  streamIndex,  \* processDevice's index
  rings         \* the rings given to addRingBuffer, in order

xenstore     == <<devices, store>>
frontendVars == <<xenstore, walk, devIndex, streamIndex, rings>>
vars         == <<pulseVars, frontendVars>>

Paths == DeviceIndices \X StreamIndices

TypeOK ==
  /\ MainloopOK
  /\ devices \subseteq DeviceIndices
  /\ store \in [Paths -> Entries \cup {Absent}]
  /\ walk \in {"idle", "device", "stream", "request", "bound", "failed", "closed"}
  /\ devIndex \in Nat /\ streamIndex \in Nat
  /\ Len(rings) <= 2 * NumDevices * NumStreams

\* A stream directory is inside a device directory.
Init ==
  /\ MainloopInit
  /\ devices \in SUBSET DeviceIndices
  /\ store \in [Paths -> Entries \cup {Absent}]
  /\ \A p \in Paths : store[p] # Absent => p[1] \in devices
  /\ walk = "idle" /\ devIndex = 0 /\ streamIndex = 0
  /\ rings = <<>>

-----------------------------------------------------------------------------
(* parseStreamId. *)

\* The place of the first c in s, 0 when there is none.
Find(c, s) ==
  IF \E i \in 1 .. Len(s) : s[i] = c
    THEN CHOOSE i \in 1 .. Len(s) : s[i] = c /\ \A j \in 1 .. i - 1 : s[j] # c
    ELSE 0

Drop(s, n) == SubSeq(s, n + 1, Len(s))

\* The parsers of the fields return the field and what is left of the input.
ParsePcmType(input) ==
  LET pos == Find("<", input)
  IN  IF pos = 0 THEN <<input, <<>>>>
                 ELSE <<SubSeq(input, 1, pos - 1), Drop(input, pos - 1)>>

Replace(s) == [i \in 1 .. Len(s) |-> IF s[i] = ";" THEN "," ELSE s[i]]

\* Mutant of ParseDeviceName: the commas not put back.
DeviceNameAsIs(input) ==
  LET pos == Find(">", input)
  IN  IF pos = 0 THEN <<<<>>, <<>>>>
                 ELSE <<SubSeq(input, 2, pos - 1), Drop(input, pos)>>

\* Defined only where the code does not throw.
ParseDeviceName(input) ==
  LET pos == Find(">", input)
  IN  IF pos = 0 THEN <<<<>>, <<>>>>
                 ELSE <<Replace(SubSeq(input, 2, pos - 1)), Drop(input, pos)>>

\* Without a ":" the input is not consumed, and is the value too.
ParsePropName(input) ==
  LET pos == Find(":", input)
  IN  IF pos = 0 THEN <<input, input>>
                 ELSE <<SubSeq(input, 1, pos - 1), Drop(input, pos)>>

\* There is a "<" and no ">" after it: parseDeviceName throws.
Unterminated(id) ==
  LET rest == ParsePcmType(id)[2]
  IN  rest # <<>> /\ Find(">", rest) = 0

ParseStreamId(id) ==
  LET type   == ParsePcmType(id)
      device == ParseDeviceName(type[2])
      name   == ParsePropName(device[2])
  IN  [pcmType |-> type[1], deviceName |-> device[1],
       propName |-> name[1], propValue |-> name[2]]

-----------------------------------------------------------------------------
(* createPcmDevice. *)

\* toupper, on the names of the back ends; one spelling in mixed case stands
\* for all the others.
Upper(type) ==
  CASE type \in {<<"pulse">>, <<"Pulse">>, <<"PULSE">>} -> "PULSE"
    [] type \in {<<"alsa">>, <<"Alsa">>, <<"ALSA">>}    -> "ALSA"
    [] type = <<>>                                      -> ""
    [] OTHER                                            -> "unknown"

OrElse(s, default) == IF s = <<>> THEN default ELSE s

Takes(backEnd, pcmType) == backEnd \in BackEnds /\ Upper(pcmType) \in {backEnd, ""}

\* With no type both back ends make a device, and the later one, ALSA's, stays.
CreatePcmDevice(type, id) ==
  LET f == ParseStreamId(id)
  IN  IF Takes("ALSA", f.pcmType)
        THEN [kind |-> "ALSA", type |-> type,
              device |-> OrElse(f.deviceName, <<"default">>)]
        ELSE [kind |-> "PULSE", type |-> type, device |-> f.deviceName,
              propName |-> OrElse(f.propName, <<"media.role">>),
              propValue |-> f.propValue]

InvalidId(id) ==
  \/ Unterminated(id)
  \/ \A b \in {"ALSA", "PULSE"} : ~Takes(b, ParseStreamId(id).pcmType)

-----------------------------------------------------------------------------
(* onBind: processCard, processDevice, processStream and createStream. *)

\* processStream's conversion of the type node: what is not "capture" plays.
StreamType(node) == IF node = "capture" THEN "CAPTURE" ELSE "PLAYBACK"

Here  == <<devIndex, streamIndex>>
Found == Here \in Paths /\ store[Here] # Absent

\* The constructor of the handler has returned; the base class calls onBind.
OnBind ==
  /\ walk = "idle"
  /\ "PULSE" \in BackEnds => caller = "built"
  /\ walk' = "device"
  /\ UNCHANGED <<xenstore, devIndex, streamIndex, rings>>

\* Mutant of ProcessDevice: the index of the streams carried over.
ProcessDeviceOn ==
  /\ walk = "device"
  /\ devIndex \in devices
  /\ walk' = "stream"
  /\ UNCHANGED <<xenstore, devIndex, streamIndex, rings>>

ProcessDevice ==
  /\ walk = "device"
  /\ devIndex \in devices
  /\ streamIndex' = 0
  /\ walk' = "stream"
  /\ UNCHANGED <<xenstore, devIndex, rings>>

\* The first index without a directory ends the card.
Bound ==
  /\ walk = "device"
  /\ devIndex \notin devices
  /\ walk' = "bound"
  /\ UNCHANGED <<xenstore, devIndex, streamIndex, rings>>

\* The first index without a directory ends the device.
DeviceDone ==
  /\ walk = "stream"
  /\ ~Found
  /\ devIndex' = devIndex + 1
  /\ walk' = "device"
  /\ UNCHANGED <<xenstore, streamIndex, rings>>

\* An exception leaves onBind.
BindThrows ==
  /\ walk' = "failed"
  /\ UNCHANGED <<xenstore, devIndex, streamIndex, rings>>

\* A node of the stream is missing, or its event channel or page is refused.
StreamThrows ==
  /\ walk = "stream"
  /\ Found
  /\ BindThrows

\* The nodes are read, and the event ring is made and added.
AddEventRing ==
  /\ walk = "stream"
  /\ Found
  /\ store[Here].complete
  /\ rings' = Append(rings, [kind |-> "event", path |-> Here])
  /\ walk' = "request"
  /\ UNCHANGED <<xenstore, devIndex, streamIndex>>

\* Mutants of AddRequestRing: the same stream again; every request ring given
\* the first event ring.
AddRingAgain ==
  /\ walk = "request"
  /\ ~InvalidId(store[Here].id)
  /\ rings' = Append(rings,
       [kind |-> "request", path |-> Here, events |-> Len(rings),
        device |-> CreatePcmDevice(StreamType(store[Here].type), store[Here].id)])
  /\ walk' = "stream"
  /\ UNCHANGED <<xenstore, devIndex, streamIndex>>
AddToFirstRing ==
  /\ walk = "request"
  /\ ~InvalidId(store[Here].id)
  /\ rings' = Append(rings,
       [kind |-> "request", path |-> Here, events |-> 1,
        device |-> CreatePcmDevice(StreamType(store[Here].type), store[Here].id)])
  /\ streamIndex' = streamIndex + 1
  /\ walk' = "stream"
  /\ UNCHANGED <<xenstore, devIndex>>

\* createPcmDevice, and the request ring with that device and the event ring.
AddRequestRing ==
  /\ walk = "request"
  /\ ~InvalidId(store[Here].id)
  /\ rings' = Append(rings,
       [kind |-> "request", path |-> Here, events |-> Len(rings),
        device |-> CreatePcmDevice(StreamType(store[Here].type), store[Here].id)])
  /\ streamIndex' = streamIndex + 1
  /\ walk' = "stream"
  /\ UNCHANGED <<xenstore, devIndex>>

\* The id is invalid, or the request ring's channel or page is refused: the
\* event ring stays.
RequestThrows ==
  /\ walk = "request"
  /\ BindThrows

\* The base class calls onClosing, which does nothing, and releases the rings
\* of a frontend that closes or whose binding failed.
Closing ==
  /\ walk \in {"bound", "failed"}
  /\ rings' = <<>>
  /\ walk' = "closed"
  /\ UNCHANGED <<xenstore, devIndex, streamIndex>>

-----------------------------------------------------------------------------
Bind ==
  \/ OnBind \/ ProcessDevice \/ Bound \/ DeviceDone
  \/ StreamThrows \/ AddEventRing \/ AddRequestRing \/ RequestThrows
  \/ Closing

\* The base class deletes a handler it has never bound, or has closed.
Delete == walk \in {"idle", "closed"} /\ Destruct

Next ==
  \/ Bind /\ UNCHANGED pulseVars
  \/ /\ "PULSE" \in BackEnds
     /\ Construct \/ CallerStep \/ Delete \/ MainloopThread
     /\ UNCHANGED frontendVars

Spec == Init /\ [][Next]_vars

\* The two threads run and the server answers, if only with a failure.
Fairness ==
  /\ WF_vars(CallerStep /\ UNCHANGED frontendVars)
  /\ WF_vars(ContextCallback /\ UNCHANGED frontendVars)
  /\ WF_vars(Answering /\ UNCHANGED frontendVars)

FairSpec == Spec /\ Fairness

-----------------------------------------------------------------------------
(* Properties. *)

\* The directories that count: those before the first gap among the devices,
\* and among the streams of their device.
Published ==
  {p \in Paths :
     /\ \A d \in 0 .. p[1] : d \in devices
     /\ \A s \in 0 .. p[2] : store[<<p[1], s>>] # Absent}

Before(p, q) == p[1] < q[1] \/ (p[1] = q[1] /\ p[2] < q[2])

\* Every request ring comes right after the event ring of its own stream and
\* reports there; the streams are those published, each once and in the order
\* of their indices.  A binding that fails leaves at most one event ring
\* without its request ring, and that is the last.
Paired ==
  \A i \in 1 .. Len(rings) :
    /\ rings[i].path \in Published
    /\ i % 2 = 1 => rings[i].kind = "event"
    /\ i % 2 = 0 => /\ rings[i].kind = "request"
                    /\ rings[i].events = i - 1
                    /\ rings[i].path = rings[i - 1].path
    /\ i > 2 => Before(rings[i - 2].path, rings[i].path)

\* When onBind returns, every stream published has its two rings.
AllBound == walk = "bound" => Len(rings) = 2 * Cardinality(Published)

\* The id the documentation writes for these fields, all but the type optional.
Text(f) ==
  LET prop   == IF f.propName = <<>> /\ f.propValue = <<>> THEN <<>>
                ELSE f.propName \o <<":">> \o f.propValue
  IN  f.pcmType \o (IF f.deviceName = <<>> /\ prop = <<>> THEN <<>>
                    ELSE <<"<">> \o f.deviceName \o <<">">> \o prop)

\* The device of a stream is the one its unique-id names in the documented
\* format pcmtype<device>propname:propvalue, with ";" for "," and whatever
\* fields are left out, although device names and values may hold a ":" too;
\* it captures if the type node says so, and plays whatever else that says.
DeviceAsNamed ==
  \A i \in 1 .. Len(rings), f \in Fields :
    (rings[i].kind = "request" /\ store[rings[i].path].id = Text(f)) =>
      LET device == rings[i].device
      IN  /\ device.kind = Upper(f.pcmType)
          /\ device.type = "CAPTURE" <=> store[rings[i].path].type = "capture"
          /\ IF device.kind = "ALSA"
               THEN device.device = OrElse(Replace(f.deviceName), <<"default">>)
               ELSE /\ device.device = Replace(f.deviceName)
                    /\ device.propName = OrElse(f.propName, <<"media.role">>)
                    /\ device.propValue = f.propValue

=============================================================================
