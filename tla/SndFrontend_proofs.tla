------------------------- MODULE SndFrontend_proofs -------------------------
(* The inductive invariants of a frontend's handler: what its mainloop, its *)
(* context and the lock are at each point of the constructor and destructor,*)
(* and what the rings are at each point of onBind; for every XenStore.      *)
EXTENDS SndFrontend, FiniteSetTheorems, SequenceTheorems, TLAPS

-----------------------------------------------------------------------------
(* The mainloop. *)

\* The constructor holds the lock from the start of the mainloop thread on, but
\* for its wait; the destructor does not.
LockInv ==
  /\ lock = "caller" <=> caller \in {"start", "check"}
  /\ lock = "mainloop" => mMainloop = "running"

\* How far the mainloop and the context have come where the caller is.
StageInv ==
  /\ caller \in {"none", "new"} => mMainloop = "null"
  /\ caller \in {"context", "connect", "lock", "start"} => mMainloop = "created"
  /\ caller \in {"check", "wait", "built", "join"} => mMainloop = "running"
  /\ caller = "free" => mMainloop = "created"
  /\ caller \in {"disconnect", "unref", "stop"} => mMainloop # "freed"
  /\ caller = "stop" => mMainloop # "null"
  /\ caller = "gone" => mMainloop \in {"null", "freed"}
  /\ caller \in {"none", "new", "context"} => mContext = "null"
  /\ caller = "connect" => mContext = "unconnected"
  /\ caller \in {"lock", "start"} => mContext = "connecting"
  /\ caller \in {"check", "wait", "built"} =>
       mContext \in {"connecting", "authorizing", "ready", "failed"}
  /\ caller \in {"stop", "join", "free", "gone"} => mContext \in {"null", "freed"}

MainloopInv == MainloopOK /\ LockInv /\ StageInv /\ ReadyNotLost

LEMMA MainloopInitial == MainloopInit => MainloopInv /\ ReleasedAll
  BY DEF MainloopInit, MainloopInv, MainloopOK, LockInv, StageInv, ReadyNotLost, ReleasedAll,
         ContextStates, Inside, Outside

\* What the invariant says, with its sets written out.
LEMMA MainloopReleases == MainloopInv => ReleasedAll
  BY DEF MainloopInv, MainloopOK, LockInv, StageInv, ReleasedAll

LEMMA CallerKeeps ==
  ASSUME MainloopInv, Construct \/ CallerStep \/ Destruct
  PROVE  MainloopInv'
<1>. USE DEF MainloopInv, MainloopOK, LockInv, StageInv, ReadyNotLost, ContextStates,
             Inside, Outside, Release, Unwind, Good
<1>1. CASE Construct \/ NewMainloop \/ NewContext \/ Connect \/ InitThrows
  BY <1>1 DEF Construct, NewMainloop, NewContext, Connect, InitThrows
<1>2. CASE LockMainloop \/ StartMainloop \/ StartFails
  BY <1>2 DEF LockMainloop, StartMainloop, StartFails
<1>3. CASE ContextReady \/ ContextBad \/ Wait \/ WakeUp
  BY <1>3 DEF ContextReady, ContextBad, Wait, WakeUp
<1>4. CASE Destruct \/ Disconnect \/ Unref
  BY <1>4 DEF Destruct, Disconnect, Unref
<1>5. CASE Stop \/ Join \/ FreeMainloop
  BY <1>5 DEF Stop, Join, FreeMainloop
<1>. QED
  BY <1>1, <1>2, <1>3, <1>4, <1>5 DEF CallerStep

LEMMA MainloopThreadKeeps ==
  ASSUME MainloopInv, MainloopThread
  PROVE  MainloopInv'
<1>. USE DEF MainloopInv, MainloopOK, LockInv, StageInv, ReadyNotLost, ContextStates,
             Inside, Outside, Good
<1>1. CASE ContextEvent
  BY <1>1 DEF ContextEvent
<1>2. CASE ContextCallback
  BY <1>2 DEF ContextCallback, Signal
<1>. QED
  BY <1>1, <1>2 DEF MainloopThread

LEMMA MainloopStep ==
  ASSUME MainloopInv, [Next]_vars
  PROVE  MainloopInv'
<1>1. CASE UNCHANGED pulseVars
  BY <1>1 DEF pulseVars, MainloopInv, MainloopOK, LockInv, StageInv, ReadyNotLost
<1>2. CASE Construct \/ CallerStep \/ Delete \/ MainloopThread
  BY <1>2, CallerKeeps, MainloopThreadKeeps DEF Delete
<1>. QED
  BY <1>1, <1>2 DEF Next, vars

\* While the constructor waits for the context, the event that releases it is
\* still to come.
THEOREM ReadyIsNotLost == Spec => []ReadyNotLost
<1>1. Init => MainloopInv
  BY MainloopInitial DEF Init
<1>2. MainloopInv /\ [Next]_vars => MainloopInv'
  BY MainloopStep
<1>3. MainloopInv => ReadyNotLost
  BY DEF MainloopInv
<1>. QED
  BY <1>1, <1>2, <1>3, PTL DEF Spec

\* No callback on a freed mainloop, and nothing left when the constructor has
\* thrown or the destructor returned, whichever call failed.
THEOREM EverythingReleased == Spec => []ReleasedAll
<1>1. Init => MainloopInv
  BY MainloopInitial DEF Init
<1>2. MainloopInv /\ [Next]_vars => MainloopInv'
  BY MainloopStep
<1>. QED
  BY <1>1, <1>2, MainloopReleases, PTL DEF Spec

-----------------------------------------------------------------------------
(* The rings. *)

\* The rings a stream may have.
Devices == {CreatePcmDevice(StreamType(e.type), e.id) : e \in Entries \cup {Absent}}
Rings ==
  [kind : {"event"}, path : Paths]
    \cup [kind : {"request"}, path : Paths, events : Nat, device : Devices]

\* XenStore does not change; the walk is inside it.
WalkInv ==
  /\ devices \subseteq DeviceIndices
  /\ store \in [Paths -> Entries \cup {Absent}]
  /\ walk \in {"idle", "device", "stream", "request", "bound", "failed", "closed"}
  /\ devIndex \in Nat /\ streamIndex \in Nat
  /\ \A d \in 0 .. devIndex - 1 : d \in devices
  /\ walk \in {"stream", "request"} =>
       /\ devIndex \in devices
       /\ \A s \in 0 .. streamIndex - 1 :
            <<devIndex, s>> \in Paths /\ store[<<devIndex, s>>] # Absent
  /\ walk = "request" => Found
  /\ walk = "idle" => devIndex = 0 /\ rings = <<>>

\* The ring that p got comes before what the walk is at.
Behind(p) == Before(p, Here)

\* The rings come in pairs, in the order of the walk; while a request ring is
\* being made its event ring is the last.
RingsInv ==
  /\ rings \in Seq(Rings)
  /\ Paired
  /\ walk \in {"idle", "device", "stream", "bound"} => Len(rings) % 2 = 0
  /\ walk = "device" => \A i \in 1 .. Len(rings) : rings[i].path[1] < devIndex
  /\ walk = "stream" => \A i \in 1 .. Len(rings) : Behind(rings[i].path)
  /\ walk = "request" =>
       /\ Len(rings) % 2 = 1 /\ rings[Len(rings)].path = Here
       /\ \A i \in 1 .. Len(rings) - 1 : Behind(rings[i].path)

LEMMA PathFacts ==
  ASSUME NEW p \in Paths
  PROVE  p = <<p[1], p[2]>> /\ p[1] \in Nat /\ p[2] \in Nat
  BY FrontendAssumption DEF Paths, DeviceIndices, StreamIndices

LEMMA RingFacts ==
  ASSUME rings \in Seq(Rings), NEW i \in 1 .. Len(rings)
  PROVE  rings[i].path \in Paths
  BY DEF Rings

\* The directory the walk is at counts.
LEMMA HerePublished ==
  ASSUME WalkInv, Found, walk \in {"stream", "request"}
  PROVE  Here \in Published
<1>1. Here \in Paths /\ Here[1] = devIndex /\ Here[2] = streamIndex
  BY DEF Found, Here
<1>2. \A d \in 0 .. devIndex : d \in devices
  BY DEF WalkInv
<1>3. \A s \in 0 .. streamIndex : store[<<devIndex, s>>] # Absent
  BY DEF WalkInv, Found, Here
<1>. QED
  BY <1>1, <1>2, <1>3 DEF Published

LEMMA Appended ==
  ASSUME NEW S, NEW s \in Seq(S), NEW e \in S
  PROVE  /\ Append(s, e) \in Seq(S) /\ Len(s) \in Nat
         /\ Len(Append(s, e)) = Len(s) + 1
         /\ \A i \in 1 .. Len(s) : Append(s, e)[i] = s[i]
         /\ Append(s, e)[Len(s) + 1] = e
  OBVIOUS

LEMMA WalkKeeps ==
  ASSUME WalkInv, Bind
  PROVE  WalkInv'
<1>. USE DEF WalkInv, xenstore
<1>1. CASE OnBind \/ Bound \/ Closing
  BY <1>1 DEF OnBind, Bound, Closing
<1>2. CASE ProcessDevice
  BY <1>2 DEF ProcessDevice
<1>3. CASE DeviceDone
  BY <1>3 DEF DeviceDone
<1>4. CASE StreamThrows \/ RequestThrows
  BY <1>4 DEF StreamThrows, RequestThrows, BindThrows
<1>5. CASE AddEventRing
  BY <1>5 DEF AddEventRing, Found, Here
<1>6. CASE AddRequestRing
  BY <1>6 DEF AddRequestRing, Found, Here
<1>. QED
  BY <1>1, <1>2, <1>3, <1>4, <1>5, <1>6 DEF Bind

LEMMA RingsKeep ==
  ASSUME WalkInv, RingsInv, Bind
  PROVE  RingsInv'
<1>0. ASSUME UNCHANGED <<xenstore, rings>>
      PROVE  /\ Paired' /\ rings' \in Seq(Rings)
             /\ \A i \in 1 .. Len(rings) : rings[i].path \in Paths
  BY <1>0, RingFacts DEF RingsInv, Paired, Published, xenstore
<1>1. CASE OnBind \/ Bound
  BY <1>0, <1>1 DEF OnBind, Bound, RingsInv, WalkInv
<1>2. CASE ProcessDevice
  <2>1. \A i \in 1 .. Len(rings) : rings[i].path[1] < devIndex
    BY <1>2 DEF ProcessDevice, RingsInv
  <2>. QED
    BY <1>0, <1>2, <2>1 DEF ProcessDevice, RingsInv, Behind, Before, Here
<1>3. CASE DeviceDone
  <2>1. \A i \in 1 .. Len(rings) : rings[i].path[1] < devIndex + 1
    BY <1>0, <1>3, PathFacts DEF DeviceDone, RingsInv, WalkInv, Behind, Before, Here
  <2>. QED
    BY <1>0, <1>3, <2>1 DEF DeviceDone, RingsInv
<1>4. CASE StreamThrows \/ RequestThrows
  BY <1>0, <1>4 DEF StreamThrows, RequestThrows, BindThrows, RingsInv
<1>5. CASE Closing
  BY <1>5 DEF Closing, RingsInv, Paired
<1>6. CASE AddEventRing
  <2> DEFINE ring == [kind |-> "event", path |-> Here]
  <2>1. /\ walk = "stream" /\ Found /\ rings' = Append(rings, ring) /\ walk' = "request"
        /\ UNCHANGED <<xenstore, devIndex, streamIndex>>
    BY <1>6 DEF AddEventRing
  <2>2. ring \in Rings /\ ring.path = Here /\ ring.kind = "event"
    BY <2>1 DEF Rings, Found
  <2> HIDE DEF ring
  <2>3. /\ rings' \in Seq(Rings) /\ Len(rings) \in Nat /\ Len(rings') = Len(rings) + 1
        /\ \A i \in 1 .. Len(rings) : rings'[i] = rings[i]
        /\ rings'[Len(rings) + 1] = ring
    BY <2>1, <2>2, Appended DEF RingsInv
  <2>4. Len(rings) % 2 = 0 /\ (Len(rings) + 1) % 2 = 1
    BY <2>1, <2>3 DEF RingsInv
  <2>5. \A i \in 1 .. Len(rings) : Before(rings[i].path, Here)
    BY <2>1 DEF RingsInv, Behind
  <2>6. Here' = Here /\ Published' = Published
    BY <2>1 DEF Here, Published, xenstore
  <2>7. Here \in Published
    BY <2>1, HerePublished
  <2>8. ASSUME NEW i \in 1 .. Len(rings')
        PROVE  /\ rings'[i].path \in Published'
               /\ i % 2 = 1 => rings'[i].kind = "event"
               /\ i % 2 = 0 => /\ rings'[i].kind = "request"
                               /\ rings'[i].events = i - 1
                               /\ rings'[i].path = rings'[i - 1].path
               /\ i > 2 => Before(rings'[i - 2].path, rings'[i].path)
    <3>1. CASE i = Len(rings) + 1
      <4>1. i > 2 => i - 2 \in 1 .. Len(rings)
        BY <2>3, <3>1
      <4>. QED
        BY <2>2, <2>3, <2>4, <2>5, <2>6, <2>7, <3>1, <4>1
    <3>2. CASE i \in 1 .. Len(rings)
      <4>1. /\ i > 2 => i - 2 \in 1 .. Len(rings)
            /\ i % 2 = 0 => i - 1 \in 1 .. Len(rings)
        BY <2>3, <3>2
      <4>. QED
        BY <2>3, <2>6, <3>2, <4>1 DEF RingsInv, Paired
    <3>. QED
      BY <2>3, <3>1, <3>2
  <2>9. Paired'
    BY <2>8 DEF Paired
  <2>10. \A i \in 1 .. Len(rings') - 1 : Before(rings'[i].path, Here)
    BY <2>3, <2>5
  <2>. QED
    BY <2>1, <2>2, <2>3, <2>4, <2>6, <2>9, <2>10 DEF RingsInv, Behind
<1>7. CASE AddRequestRing
  <2> DEFINE ring == [kind |-> "request", path |-> Here, events |-> Len(rings),
                      device |-> CreatePcmDevice(StreamType(store[Here].type), store[Here].id)]
  <2>1. /\ walk = "request" /\ rings' = Append(rings, ring) /\ walk' = "stream"
        /\ streamIndex' = streamIndex + 1
        /\ UNCHANGED <<xenstore, devIndex>>
    BY <1>7 DEF AddRequestRing
  <2>2. /\ ring \in Rings /\ ring.path = Here /\ ring.kind = "request"
        /\ ring.events = Len(rings)
    <3>1. Here \in Paths /\ Len(rings) \in Nat
      BY <2>1 DEF WalkInv, Found, RingsInv
    <3>2. store[Here] \in Entries \cup {Absent}
      BY <3>1 DEF WalkInv
    <3>3. CreatePcmDevice(StreamType(store[Here].type), store[Here].id) \in Devices
      BY <3>2 DEF Devices
    <3>. QED
      BY <3>1, <3>3 DEF Rings
  <2> HIDE DEF ring
  <2>3. /\ rings' \in Seq(Rings) /\ Len(rings) \in Nat /\ Len(rings') = Len(rings) + 1
        /\ \A i \in 1 .. Len(rings) : rings'[i] = rings[i]
        /\ rings'[Len(rings) + 1] = ring
    BY <2>1, <2>2, Appended DEF RingsInv
  <2>4. /\ Len(rings) % 2 = 1 /\ (Len(rings) + 1) % 2 = 0 /\ Len(rings) > 0
        /\ rings[Len(rings)].path = Here
    <3> DEFINE n == Len(rings)
    <3>1. n % 2 = 1 /\ rings[n].path = Here
      BY <2>1 DEF RingsInv
    <3>2. n \in Nat
      BY <2>3
    <3>. HIDE DEF n
    <3>3. (n + 1) % 2 = 0 /\ n > 0
      BY <3>1, <3>2
    <3>. QED
      BY <3>1, <3>3 DEF n
  <2>5. \A i \in 1 .. Len(rings) - 1 : Before(rings[i].path, Here)
    BY <2>1 DEF RingsInv, Behind
  <2>6. Published' = Published /\ Here' = <<devIndex, streamIndex + 1>>
    BY <2>1 DEF Here, Published, xenstore
  <2>7. Here \in Published
    BY <2>1, HerePublished DEF WalkInv
  <2>8. ASSUME NEW i \in 1 .. Len(rings')
        PROVE  /\ rings'[i].path \in Published'
               /\ i % 2 = 1 => rings'[i].kind = "event"
               /\ i % 2 = 0 => /\ rings'[i].kind = "request"
                               /\ rings'[i].events = i - 1
                               /\ rings'[i].path = rings'[i - 1].path
               /\ i > 2 => Before(rings'[i - 2].path, rings'[i].path)
    <3>1. CASE i = Len(rings) + 1
      <4>1. /\ i > 2 => i - 2 \in 1 .. Len(rings) - 1
            /\ i - 1 = Len(rings) /\ Len(rings) \in 1 .. Len(rings)
            /\ \A j \in 1 .. Len(rings) - 1 : j \in 1 .. Len(rings)
        BY <2>3, <2>4, <3>1
      <4>. QED
        BY <2>2, <2>3, <2>4, <2>5, <2>6, <2>7, <3>1, <4>1
    <3>2. CASE i \in 1 .. Len(rings)
      <4>1. /\ i > 2 => i - 2 \in 1 .. Len(rings)
            /\ i % 2 = 0 => i - 1 \in 1 .. Len(rings)
        BY <2>3, <3>2
      <4>. QED
        BY <2>3, <2>6, <3>2, <4>1 DEF RingsInv, Paired
    <3>. QED
      BY <2>3, <3>1, <3>2
  <2>9. Paired'
    BY <2>8 DEF Paired
  <2>10. ASSUME NEW i \in 1 .. Len(rings') PROVE Before(rings'[i].path, Here')
    <3>1. streamIndex \in Nat /\ devIndex \in Nat
      BY DEF WalkInv
    <3>2. CASE i \in 1 .. Len(rings) - 1
      <4>1. rings'[i] = rings[i] /\ rings[i].path \in Paths
        BY <2>3, <3>2, RingFacts DEF RingsInv
      <4>2. Before(rings[i].path, <<devIndex, streamIndex>>)
        BY <2>5, <3>2 DEF Here
      <4>3. rings[i].path[1] \in Nat /\ rings[i].path[2] \in Nat
        BY <4>1, PathFacts
      <4>. QED
        BY <2>6, <3>1, <4>1, <4>2, <4>3 DEF Before
    <3>3. CASE i \in {Len(rings), Len(rings) + 1}
      <4>1. rings'[i].path = Here
        BY <2>2, <2>3, <2>4, <3>3
      <4>. QED
        BY <2>6, <3>1, <4>1 DEF Before, Here
    <3>. QED
      BY <2>3, <3>2, <3>3
  <2>. QED
    BY <2>1, <2>3, <2>4, <2>9, <2>10 DEF RingsInv, Behind
<1>. QED
  BY <1>1, <1>2, <1>3, <1>4, <1>5, <1>6, <1>7 DEF Bind

LEMMA RingsInitial == Init => WalkInv /\ RingsInv
  BY DEF Init, WalkInv, RingsInv, Paired

LEMMA RingsStep ==
  ASSUME WalkInv, RingsInv, [Next]_vars
  PROVE  WalkInv' /\ RingsInv'
<1>1. CASE UNCHANGED frontendVars
  BY <1>1 DEF frontendVars, xenstore, WalkInv, RingsInv, Paired, Published, Behind, Before,
              Found, Here
<1>2. CASE Bind
  BY <1>2, WalkKeeps, RingsKeep
<1>. QED
  BY <1>1, <1>2 DEF Next, vars

\* Every request ring has its own stream's event ring before it, whatever
\* XenStore holds and wherever the binding fails.
THEOREM RingsArePaired == Spec => []Paired
<1>1. WalkInv /\ RingsInv /\ [Next]_vars => WalkInv' /\ RingsInv'
  BY RingsStep
<1>2. RingsInv => Paired
  BY DEF RingsInv
<1>. QED
  BY RingsInitial, <1>1, <1>2, PTL DEF Spec

-----------------------------------------------------------------------------
(* The number of rings. *)

\* Two rings for each stream before the one the walk is at.
Passed == 2 * (devIndex * NumStreams + streamIndex)

CountInv ==
  /\ Len(rings) <= 2 * NumDevices * NumStreams
  /\ walk \in {"device", "bound"} => Len(rings) <= 2 * (devIndex * NumStreams)
  /\ walk = "stream" => Len(rings) <= Passed
  /\ walk = "request" => Len(rings) <= Passed + 1

\* The indices at which there is a stream, and what they leave room for.
LEMMA Room ==
  ASSUME NEW d \in Nat, NEW s \in Nat, d < NumDevices, s <= NumStreams
  PROVE  /\ 2 * (d * NumStreams + s) <= 2 * ((d + 1) * NumStreams)
         /\ 2 * ((d + 1) * NumStreams) <= 2 * NumDevices * NumStreams
         /\ 2 * (d * NumStreams + s) \in Nat
<1>1. NumDevices \in Nat /\ NumStreams \in Nat
  BY FrontendAssumption
<1>2. PICK k \in Nat : NumDevices = d + 1 + k
  <2>1. NumDevices - d - 1 \in Nat /\ NumDevices = d + 1 + (NumDevices - d - 1)
    BY <1>1
  <2>. QED
    BY <2>1
<1>3. NumDevices * NumStreams = (d + 1) * NumStreams + k * NumStreams
  BY <1>1, <1>2
<1>4. k * NumStreams \in Nat /\ d * NumStreams \in Nat
  BY <1>1
<1>5. (d + 1) * NumStreams = d * NumStreams + NumStreams
  BY <1>1
<1>. DEFINE a == d * NumStreams
            b == k * NumStreams
            c == NumDevices * NumStreams
<1>6. a \in Nat /\ b \in Nat /\ c = a + NumStreams + b
  BY <1>3, <1>4, <1>5
<1>7. 2 * NumDevices * NumStreams = 2 * c
  BY <1>1
<1>. HIDE DEF a, b, c
<1>8. /\ 2 * (a + s) <= 2 * (a + NumStreams) /\ 2 * (a + NumStreams) <= 2 * c
      /\ 2 * (a + s) \in Nat
  BY <1>1, <1>6
<1>. QED
  BY <1>5, <1>7, <1>8 DEF a

LEMMA InsideBounds ==
  ASSUME WalkInv, walk \in {"stream", "request"}
  PROVE  /\ devIndex < NumDevices /\ streamIndex <= NumStreams
         /\ Found => streamIndex < NumStreams
<1>1. devIndex < NumDevices
  BY FrontendAssumption DEF WalkInv, DeviceIndices
<1>2. \A s \in 0 .. streamIndex - 1 : s \in 0 .. NumStreams - 1
  BY DEF WalkInv, Paths, StreamIndices
<1>3. streamIndex <= NumStreams
  BY <1>2, FrontendAssumption DEF WalkInv
<1>4. Found => streamIndex < NumStreams
  BY FrontendAssumption DEF Found, Here, Paths, StreamIndices, WalkInv
<1>. QED
  BY <1>1, <1>3, <1>4

LEMMA CountKeeps ==
  ASSUME WalkInv, RingsInv, CountInv, Bind
  PROVE  CountInv'
<1>. DEFINE all == 2 * NumDevices * NumStreams
            n   == Len(rings)
<1>0. /\ all \in Nat /\ n \in Nat /\ n <= all
      /\ devIndex \in Nat /\ streamIndex \in Nat /\ devIndex * NumStreams \in Nat
  BY FrontendAssumption DEF RingsInv, CountInv, WalkInv
<1>1. CASE OnBind
  <2>1. Len(rings') = 0 /\ walk' = "device" /\ devIndex' = 0
    BY <1>1 DEF OnBind, WalkInv
  <2>. QED
    BY <1>0, <2>1, FrontendAssumption DEF CountInv
<1>2. CASE ProcessDevice
  <2>1. /\ walk = "device" /\ walk' = "stream" /\ streamIndex' = 0
        /\ rings' = rings /\ devIndex' = devIndex
    BY <1>2 DEF ProcessDevice
  <2>2. Passed' = 2 * (devIndex * NumStreams)
    BY <1>0, <2>1 DEF Passed
  <2>. QED
    BY <1>0, <2>1, <2>2 DEF CountInv
<1>3. CASE Bound
  BY <1>3 DEF Bound, CountInv
<1>4. CASE DeviceDone
  <2>1. /\ walk = "stream" /\ walk' = "device" /\ devIndex' = devIndex + 1
        /\ rings' = rings
    BY <1>4 DEF DeviceDone
  <2>2. n <= Passed /\ Passed \in Nat /\ Passed <= 2 * ((devIndex + 1) * NumStreams)
    BY <1>0, <2>1, InsideBounds, Room DEF CountInv, Passed
  <2>3. 2 * ((devIndex + 1) * NumStreams) \in Nat
    BY <1>0, FrontendAssumption
  <2>4. n <= 2 * ((devIndex + 1) * NumStreams)
    BY <1>0, <2>2, <2>3
  <2>. QED
    BY <1>0, <2>1, <2>4 DEF CountInv
<1>5. CASE StreamThrows \/ RequestThrows
  BY <1>5 DEF StreamThrows, RequestThrows, BindThrows, CountInv
<1>6. CASE Closing
  <2>1. Len(rings') = 0 /\ walk' = "closed"
    BY <1>6 DEF Closing
  <2>. QED
    BY <1>0, <2>1 DEF CountInv
<1>7. CASE AddEventRing \/ AddRequestRing
  <2>1. /\ Found /\ walk \in {"stream", "request"}
        /\ devIndex' = devIndex
        /\ Len(rings') = n + 1
    BY <1>7 DEF AddEventRing, AddRequestRing, RingsInv, WalkInv
  <2>2. /\ 2 * (devIndex * NumStreams + (streamIndex + 1)) <= all
        /\ Passed + 2 = 2 * (devIndex * NumStreams + (streamIndex + 1))
        /\ Passed \in Nat
    <3>1. devIndex < NumDevices /\ streamIndex + 1 <= NumStreams
      BY <1>0, <2>1, InsideBounds, FrontendAssumption
    <3>2. /\ 2 * (devIndex * NumStreams + (streamIndex + 1)) <= 2 * ((devIndex + 1) * NumStreams)
          /\ 2 * ((devIndex + 1) * NumStreams) <= all
          /\ 2 * ((devIndex + 1) * NumStreams) \in Nat
      BY <1>0, <3>1, Room, FrontendAssumption
    <3>3. 2 * (devIndex * NumStreams + (streamIndex + 1)) \in Nat
      BY <1>0
    <3>. DEFINE x == 2 * (devIndex * NumStreams + (streamIndex + 1))
                y == 2 * ((devIndex + 1) * NumStreams)
    <3>4. x <= all
      <4>1. x \in Nat /\ y \in Nat /\ x <= y /\ y <= all
        BY <3>2, <3>3
      <4>. HIDE DEF x, y, all
      <4>. QED
        BY <1>0, <4>1
    <3>. QED
      BY <1>0, <3>4 DEF Passed
  <2>3. CASE AddEventRing
    <3>1. walk = "stream" /\ walk' = "request" /\ streamIndex' = streamIndex
      BY <2>3 DEF AddEventRing
    <3>2. Passed' = Passed /\ n <= Passed
      BY <2>1, <3>1 DEF Passed, CountInv
    <3>3. Passed + 2 <= all
      BY <2>2
    <3>. HIDE DEF n, all
    <3>4. n + 1 <= Passed + 1 /\ n + 1 <= all
      BY <1>0, <2>2, <3>2, <3>3
    <3>. QED
      BY <2>1, <3>1, <3>2, <3>4 DEF CountInv, all
  <2>4. CASE AddRequestRing
    <3>1. walk = "request" /\ walk' = "stream" /\ streamIndex' = streamIndex + 1
      BY <2>4 DEF AddRequestRing
    <3>2. Passed' = Passed + 2 /\ n <= Passed + 1
      BY <2>1, <2>2, <3>1 DEF Passed, CountInv
    <3>3. Passed + 2 <= all
      BY <2>2
    <3>. HIDE DEF n, all
    <3>4. n + 1 <= Passed + 2 /\ n + 1 <= all
      BY <1>0, <2>2, <3>2, <3>3
    <3>. QED
      BY <2>1, <3>1, <3>2, <3>4 DEF CountInv, all
  <2>. QED
    BY <1>7, <2>3, <2>4
<1>. QED
  BY <1>1, <1>2, <1>3, <1>4, <1>5, <1>6, <1>7 DEF Bind

LEMMA CountStep ==
  ASSUME WalkInv, RingsInv, CountInv, [Next]_vars
  PROVE  CountInv'
<1>1. CASE UNCHANGED frontendVars
  BY <1>1 DEF frontendVars, CountInv, Passed
<1>2. CASE Bind
  BY <1>2, CountKeeps
<1>. QED
  BY <1>1, <1>2 DEF Next, vars

\* Every reachable state is well typed, and the rings never outnumber the
\* streams a card has room for.
THEOREM TypeCorrect == Spec => []TypeOK
<1>1. Init => MainloopInv
  BY MainloopInitial DEF Init
<1>2. MainloopInv /\ [Next]_vars => MainloopInv'
  BY MainloopStep
<1>3. Init => CountInv
  BY FrontendAssumption DEF Init, CountInv
<1>4. WalkInv /\ RingsInv /\ [Next]_vars => WalkInv' /\ RingsInv'
  BY RingsStep
<1>5. WalkInv /\ RingsInv /\ CountInv /\ [Next]_vars => CountInv'
  BY CountStep
<1>6. MainloopInv /\ WalkInv /\ CountInv => TypeOK
  BY DEF MainloopInv, WalkInv, CountInv, TypeOK
<1>. QED
  BY RingsInitial, <1>1, <1>2, <1>3, <1>4, <1>5, <1>6, PTL DEF Spec

-----------------------------------------------------------------------------
(* Every stream published is bound. *)

LEMMA PublishedFinite == IsFiniteSet(Published)
<1>1. IsFiniteSet(DeviceIndices) /\ IsFiniteSet(StreamIndices)
  BY FrontendAssumption, FS_Interval DEF DeviceIndices, StreamIndices
<1>2. IsFiniteSet(Paths)
  BY <1>1, FS_Product DEF Paths
<1>. QED
  BY <1>2, FS_Subset DEF Published

\* The streams the walk has bound.
Done ==
  IF walk \in {"stream", "request"}
    THEN {p \in Published : Before(p, Here)}
    ELSE {p \in Published : p[1] < devIndex}

\* Two rings for each of them, and one for the stream at hand.
DoneInv ==
  /\ walk \in {"idle", "device", "stream", "bound"} => Len(rings) = 2 * Cardinality(Done)
  /\ walk = "request" => Len(rings) = 2 * Cardinality(Done) + 1
  /\ walk = "bound" => devIndex \notin devices

LEMMA DoneFinite == IsFiniteSet(Done) /\ Cardinality(Done) \in Nat
<1>1. Done \subseteq Published
  BY DEF Done
<1>2. IsFiniteSet(Done)
  BY <1>1, PublishedFinite, FS_Subset
<1>. QED
  BY <1>2, FS_CardinalityType

\* The device the walk enters has nothing bound; the one it leaves is bound
\* whole.
LEMMA NothingBefore ==
  ASSUME NEW d \in Nat
  PROVE  {p \in Published : Before(p, <<d, 0>>)} = {p \in Published : p[1] < d}
<1>1. ASSUME NEW p \in Published PROVE Before(p, <<d, 0>>) <=> p[1] < d
  <2>1. p[1] \in Nat /\ p[2] \in Nat
    BY PathFacts DEF Published
  <2>. QED
    BY <2>1 DEF Before
<1>. QED
  BY <1>1

LEMMA NothingAfter ==
  ASSUME WalkInv, walk = "stream", ~Found
  PROVE  {p \in Published : p[1] < devIndex + 1} = {p \in Published : Before(p, Here)}
<1>1. ASSUME NEW p \in Published PROVE Before(p, Here) <=> p[1] < devIndex + 1
  <2>1. p \in Paths /\ p = <<p[1], p[2]>> /\ p[1] \in Nat /\ p[2] \in Nat
    BY PathFacts DEF Published
  <2>2. devIndex \in Nat /\ streamIndex \in Nat
    BY DEF WalkInv
  <2>3. ASSUME p[1] = devIndex, streamIndex <= p[2] PROVE FALSE
    <3>1. streamIndex \in 0 .. p[2]
      BY <2>1, <2>2, <2>3
    <3>2. store[<<devIndex, streamIndex>>] # Absent
      BY <2>3, <3>1 DEF Published
    <3>3. p[1] \in DeviceIndices /\ p[2] \in StreamIndices
      BY <2>1 DEF Paths
    <3>4. <<devIndex, streamIndex>> \in Paths
      BY <2>2, <2>3, <3>1, <3>3, FrontendAssumption DEF Paths, StreamIndices
    <3>. QED
      BY <3>2, <3>4 DEF Found, Here
  <2>. QED
    BY <2>1, <2>2, <2>3 DEF Before, Here
<1>. QED
  BY <1>1

\* Binding the stream at hand adds it.
LEMMA OneMore ==
  ASSUME WalkInv, walk = "request"
  PROVE  /\ Here \notin {p \in Published : Before(p, Here)}
         /\ {p \in Published : Before(p, <<devIndex, streamIndex + 1>>)}
              = {p \in Published : Before(p, Here)} \cup {Here}
<1>1. devIndex \in Nat /\ streamIndex \in Nat
  BY DEF WalkInv
<1>2. ~Before(Here, Here)
  BY <1>1 DEF Before, Here
<1>3. Here \in Published
  BY HerePublished DEF WalkInv
<1>4. ASSUME NEW p \in Published
      PROVE  Before(p, <<devIndex, streamIndex + 1>>) <=> Before(p, Here) \/ p = Here
  <2>1. p = <<p[1], p[2]>> /\ p[1] \in Nat /\ p[2] \in Nat
    BY PathFacts DEF Published
  <2>. QED
    BY <1>1, <2>1 DEF Before, Here
<1>. QED
  BY <1>2, <1>3, <1>4

LEMMA DoneKeeps ==
  ASSUME WalkInv, DoneInv, Bind
  PROVE  DoneInv'
<1>. DEFINE n == Cardinality(Done)
<1>0. n \in Nat /\ devIndex \in Nat
  BY DoneFinite DEF WalkInv
<1>1. ASSUME UNCHANGED xenstore PROVE Published' = Published
  BY <1>1 DEF xenstore, Published
<1>2. CASE OnBind
  <2>1. walk = "idle" /\ walk' = "device" /\ devIndex' = devIndex /\ rings' = rings
    BY <1>2 DEF OnBind
  <2>2. Done' = Done
    BY <1>1, <1>2, <2>1 DEF Done, OnBind
  <2>. QED
    BY <2>1, <2>2 DEF DoneInv
<1>3. CASE ProcessDevice
  <2>1. /\ walk = "device" /\ walk' = "stream" /\ Here' = <<devIndex, 0>> /\ rings' = rings
    BY <1>3 DEF ProcessDevice, Here
  <2>2. Done' = Done
    BY <1>0, <1>1, <1>3, <2>1, NothingBefore DEF Done, ProcessDevice
  <2>. QED
    BY <2>1, <2>2 DEF DoneInv
<1>4. CASE Bound
  <2>1. /\ walk = "device" /\ walk' = "bound" /\ devIndex \notin devices
        /\ UNCHANGED <<devices, devIndex, rings>>
    BY <1>4 DEF Bound, xenstore
  <2>2. Done' = Done
    BY <1>1, <1>4, <2>1 DEF Done, Bound
  <2>. QED
    BY <2>1, <2>2 DEF DoneInv
<1>5. CASE DeviceDone
  <2>1. walk = "stream" /\ ~Found /\ walk' = "device" /\ devIndex' = devIndex + 1 /\ rings' = rings
    BY <1>5 DEF DeviceDone
  <2>2. Done' = Done
    BY <1>1, <1>5, <2>1, NothingAfter DEF Done, DeviceDone
  <2>. QED
    BY <2>1, <2>2 DEF DoneInv
<1>6. CASE StreamThrows \/ RequestThrows \/ Closing
  BY <1>6 DEF StreamThrows, RequestThrows, BindThrows, Closing, DoneInv
<1>7. CASE AddEventRing
  <2>1. walk = "stream" /\ walk' = "request" /\ Here' = Here
    BY <1>7 DEF AddEventRing, Here
  <2>2. Len(rings') = Len(rings) + 1
    BY <1>7 DEF AddEventRing
  <2>3. Done' = Done
    BY <1>1, <1>7, <2>1 DEF Done, AddEventRing
  <2>. QED
    BY <2>1, <2>2, <2>3 DEF DoneInv
<1>8. CASE AddRequestRing
  <2>1. walk = "request" /\ walk' = "stream" /\ Here' = <<devIndex, streamIndex + 1>>
    BY <1>8 DEF AddRequestRing, Here
  <2>2. Len(rings') = Len(rings) + 1
    BY <1>8 DEF AddRequestRing
  <2>3. Done' = Done \cup {Here} /\ Here \notin Done
    BY <1>1, <1>8, <2>1, OneMore DEF Done, AddRequestRing
  <2>4. Cardinality(Done') = n + 1
    BY <2>3, DoneFinite, FS_AddElement
  <2>5. Len(rings) = 2 * n + 1
    BY <2>1 DEF DoneInv
  <2>. HIDE DEF n
  <2>6. Len(rings') = 2 * (n + 1)
    BY <1>0, <2>2, <2>5
  <2>. QED
    BY <2>1, <2>4, <2>6 DEF DoneInv
<1>. QED
  BY <1>2, <1>3, <1>4, <1>5, <1>6, <1>7, <1>8 DEF Bind

LEMMA DoneInitial == Init => DoneInv
<1>1. ASSUME Init PROVE Done = {}
  <2>1. \A p \in Published : p[1] \in Nat
    BY PathFacts DEF Published
  <2>. QED
    BY <1>1, <2>1 DEF Init, Done
<1>. QED
  BY <1>1, FS_EmptySet DEF Init, DoneInv

LEMMA DoneStep ==
  ASSUME WalkInv, DoneInv, [Next]_vars
  PROVE  DoneInv'
<1>1. CASE UNCHANGED frontendVars
  BY <1>1 DEF frontendVars, xenstore, DoneInv, Done, Published, Here
<1>2. CASE Bind
  BY <1>2, DoneKeeps
<1>. QED
  BY <1>1, <1>2 DEF Next, vars

\* When the first index without a directory ends the card, nothing that counts
\* lies beyond it.
LEMMA BoundAll ==
  ASSUME WalkInv, DoneInv
  PROVE  AllBound
<1>. SUFFICES ASSUME walk = "bound" PROVE Done = Published
  BY DEF AllBound, DoneInv
<1>1. ASSUME NEW p \in Published PROVE p[1] < devIndex
  <2>1. p[1] \in Nat /\ devIndex \in Nat
    BY PathFacts DEF Published, WalkInv
  <2>2. devIndex \notin 0 .. p[1]
    BY DEF DoneInv, Published
  <2>. QED
    BY <2>1, <2>2
<1>. QED
  BY <1>1 DEF Done

\* However many streams a frontend publishes, and wherever the indices have
\* gaps, a binding that succeeds has made two rings for each stream that counts.
THEOREM EveryStreamBound == Spec => []AllBound
<1>1. WalkInv /\ RingsInv /\ [Next]_vars => WalkInv' /\ RingsInv'
  BY RingsStep
<1>2. WalkInv /\ DoneInv /\ [Next]_vars => DoneInv'
  BY DoneStep
<1>3. WalkInv /\ DoneInv => AllBound
  BY BoundAll
<1>. QED
  BY RingsInitial, DoneInitial, <1>1, <1>2, <1>3, PTL DEF Spec

-----------------------------------------------------------------------------
(* What the parser makes of an id in the documented format. *)

\* Find returns the first of the places.
LEMMA FindFirst ==
  ASSUME NEW s, Len(s) \in Nat, NEW c, NEW i \in 1 .. Len(s),
         s[i] = c, \A j \in 1 .. i - 1 : s[j] # c
  PROVE  Find(c, s) = i
<1>. DEFINE P(k) == s[k] = c /\ \A j \in 1 .. k - 1 : s[j] # c
            at   == CHOOSE k \in 1 .. Len(s) : P(k)
<1>1. P(i)
  OBVIOUS
<1>2. at \in 1 .. Len(s) /\ P(at)
  BY <1>1
<1>3. at = i
  <2>. HIDE DEF at
  <2>1. ~(at < i) /\ ~(i < at)
    BY <1>2
  <2>. QED
    BY <1>2, <2>1
<1>4. Find(c, s) = at
  BY DEF Find
<1>. QED
  BY <1>3, <1>4

LEMMA FindNone ==
  ASSUME NEW s, NEW c, \A i \in 1 .. Len(s) : s[i] # c
  PROVE  Find(c, s) = 0
  BY DEF Find

\* A field and what follows its delimiter.
LEMMA Delimited ==
  ASSUME NEW S, NEW a \in Seq(S), NEW c \in S, NEW b \in Seq(S),
         \A i \in 1 .. Len(a) : a[i] # c
  PROVE  LET s == a \o (<<c>> \o b)
         IN  /\ s \in Seq(S) /\ s # <<>>
             /\ Find(c, s) = Len(a) + 1
             /\ SubSeq(s, 1, Len(a)) = a
             /\ Drop(s, Len(a)) = <<c>> \o b
             /\ Drop(s, Len(a) + 1) = b
<1>. DEFINE t == <<c>> \o b
            s == a \o t
            n == Len(a)
            m == Len(b)
<1>1. n \in Nat /\ m \in Nat /\ <<c>> \in Seq(S) /\ Len(<<c>>) = 1
  BY LenProperties
<1>2. /\ t \in Seq(S) /\ Len(t) = m + 1 /\ t[1] = c
      /\ \A i \in 1 .. m : t[i + 1] = b[i]
  BY <1>1, ConcatProperties
<1>. HIDE DEF t
<1>3. /\ s \in Seq(S) /\ Len(s) = n + 1 + m
      /\ \A i \in 1 .. n : s[i] = a[i]
      /\ \A i \in 1 .. m + 1 : s[n + i] = t[i]
  <2>1. /\ s \in Seq(S) /\ Len(s) = n + (m + 1)
        /\ \A i \in 1 .. n + (m + 1) : s[i] = IF i <= n THEN a[i] ELSE t[i - n]
    <3>1. /\ s \in Seq(S) /\ Len(s) = Len(a) + Len(t)
          /\ \A i \in 1 .. Len(a) + Len(t) : s[i] = IF i <= Len(a) THEN a[i] ELSE t[i - Len(a)]
      BY <1>2, ConcatProperties
    <3>. QED
      BY <1>2, <3>1
  <2>. HIDE DEF s, n, m
  <2>. QED
    BY <1>1, <2>1
<1>. HIDE DEF s
<1>4. \A i \in 1 .. Len(s) : s[i] \in S
  BY <1>3, ElementOfSeq
<1>5. s # <<>>
  BY <1>1, <1>3
<1>6. Find(c, s) = n + 1
  <2>. DEFINE k == n + 1
  <2>1. s[k] = c
    BY <1>1, <1>2, <1>3
  <2>2. k \in 1 .. Len(s) /\ Len(s) \in Nat
    BY <1>1, <1>3
  <2>3. \A j \in 1 .. k - 1 : s[j] # c
    BY <1>1, <1>3
  <2>. HIDE DEF k
  <2>4. Find(c, s) = k
    BY <2>1, <2>2, <2>3, FindFirst
  <2>. QED
    BY <2>4 DEF k
<1>7. SubSeq(s, 1, n) = a
  <2>1. \A i \in 1 .. n : s[i] \in S
    BY <1>1, <1>3, <1>4
  <2>2. /\ SubSeq(s, 1, n) \in Seq(S)
        /\ Len(SubSeq(s, 1, n)) = n
        /\ \A i \in 1 .. n : SubSeq(s, 1, n)[i] = s[i]
    BY <1>1, <2>1, SubSeqProperties
  <2>. QED
    BY <1>3, <2>2, SeqEqual
<1>8. Drop(s, n) = t
  <2>1. \A i \in n + 1 .. Len(s) : s[i] \in S
    BY <1>1, <1>4
  <2>2. /\ Drop(s, n) \in Seq(S)
        /\ Len(Drop(s, n)) = m + 1
        /\ \A i \in 1 .. m + 1 : Drop(s, n)[i] = s[n + i]
    BY <1>1, <1>3, <2>1, SubSeqProperties DEF Drop
  <2>. QED
    BY <1>2, <1>3, <2>2, SeqEqual
<1>9. Drop(s, n + 1) = b
  <2>1. \A i \in n + 2 .. Len(s) : s[i] \in S
    BY <1>1, <1>4
  <2>2. /\ Drop(s, n + 1) \in Seq(S)
        /\ Len(Drop(s, n + 1)) = m
        /\ \A i \in 1 .. m : Drop(s, n + 1)[i] = s[n + 1 + i]
    BY <1>1, <1>3, <2>1, SubSeqProperties DEF Drop
  <2>3. ASSUME NEW i \in 1 .. m PROVE s[n + 1 + i] = b[i]
    <3>1. i + 1 \in 1 .. m + 1 /\ n + 1 + i = n + (i + 1)
      BY <1>1
    <3>2. s[n + (i + 1)] = t[i + 1]
      BY <1>3, <3>1
    <3>. QED
      BY <1>2, <3>1, <3>2
  <2>4. \A i \in 1 .. m : Drop(s, n + 1)[i] = b[i]
    BY <2>2, <2>3
  <2>. QED
    BY <2>2, <2>4, SeqEqual
<1>. QED
  BY <1>3, <1>5, <1>6, <1>7, <1>8, <1>9 DEF s, t

\* The parts of the documented id.
PropText(f) ==
  IF f.propName = <<>> /\ f.propValue = <<>> THEN <<>>
  ELSE f.propName \o <<":">> \o f.propValue
DeviceText(f) ==
  IF f.deviceName = <<>> /\ PropText(f) = <<>> THEN <<>>
  ELSE <<"<">> \o f.deviceName \o <<">">> \o PropText(f)

LEMMA DelimiterFacts == "<" \in Tokens /\ ">" \in Tokens /\ ":" \in Tokens
  BY DEF Tokens, Delimiters

LEMMA FieldFacts ==
  ASSUME NEW f \in Fields
  PROVE  /\ f.pcmType \in Seq(Tokens) /\ f.pcmType # <<>> /\ f.deviceName \in Seq(Tokens)
         /\ f.propName \in Seq(Tokens) /\ f.propValue \in Seq(Tokens)
         /\ \A i \in 1 .. Len(f.pcmType) : f.pcmType[i] # "<"
         /\ \A i \in 1 .. Len(f.deviceName) : f.deviceName[i] # ">"
         /\ \A i \in 1 .. Len(f.propName) : f.propName[i] # ":"
  BY FieldsAssumption

LEMMA PropParsed ==
  ASSUME NEW f \in Fields
  PROVE  /\ PropText(f) \in Seq(Tokens)
         /\ ParsePropName(PropText(f)) = <<f.propName, f.propValue>>
<1>. DEFINE name  == f.propName
            value == f.propValue
<1>0. /\ name \in Seq(Tokens) /\ value \in Seq(Tokens) /\ ":" \in Tokens
      /\ \A i \in 1 .. Len(name) : name[i] # ":"
  BY FieldFacts, DelimiterFacts
<1>1. CASE name = <<>> /\ value = <<>>
  <2>1. PropText(f) = <<>> /\ <<>> \in Seq(Tokens) /\ Len(<<>>) = 0
    BY <1>1, EmptySeq DEF PropText
  <2>2. Find(":", <<>>) = 0
    BY <2>1, FindNone
  <2>. QED
    BY <1>1, <2>1, <2>2 DEF ParsePropName
<1>2. CASE ~(name = <<>> /\ value = <<>>)
  <2>. DEFINE s == name \o (<<":">> \o value)
  <2>1. PropText(f) = (name \o <<":">>) \o value
    BY <1>2 DEF PropText
  <2>2. <<":">> \in Seq(Tokens)
    BY <1>0
  <2>. HIDE DEF name, value
  <2>3. (name \o <<":">>) \o value = s
    BY <1>0, <2>2, ConcatAssociative
  <2>4. /\ s \in Seq(Tokens) /\ Find(":", s) = Len(name) + 1
        /\ SubSeq(s, 1, Len(name)) = name /\ Drop(s, Len(name) + 1) = value
    BY <1>0, Delimited
  <2>5. Len(name) \in Nat
    BY <1>0, LenProperties
  <2>. HIDE DEF s
  <2>6. Find(":", s) # 0 /\ Find(":", s) - 1 = Len(name)
    BY <2>4, <2>5
  <2>7. ParsePropName(s) = <<name, value>>
    BY <2>4, <2>6 DEF ParsePropName
  <2>. QED
    BY <2>1, <2>3, <2>4, <2>7 DEF name, value
<1>. QED
  BY <1>1, <1>2

LEMMA ReplaceNothing == Replace(<<>>) = <<>>
<1>1. Len(<<>>) = 0
  OBVIOUS
<1>. QED
  BY <1>1 DEF Replace

LEMMA DeviceParsed ==
  ASSUME NEW f \in Fields
  PROVE  /\ DeviceText(f) \in Seq(Tokens)
         /\ ParseDeviceName(DeviceText(f)) = <<Replace(f.deviceName), PropText(f)>>
         /\ DeviceText(f) # <<>> =>
              /\ Find(">", DeviceText(f)) # 0
              /\ \E b \in Seq(Tokens) : DeviceText(f) = <<"<">> \o b
<1>. DEFINE device == f.deviceName
            prop   == PropText(f)
<1>0. /\ device \in Seq(Tokens) /\ prop \in Seq(Tokens) /\ "<" \in Tokens /\ ">" \in Tokens
      /\ \A i \in 1 .. Len(device) : device[i] # ">"
  BY FieldFacts, PropParsed, DelimiterFacts
<1>1. CASE device = <<>> /\ prop = <<>>
  <2>1. DeviceText(f) = <<>> /\ <<>> \in Seq(Tokens) /\ Len(<<>>) = 0
    BY <1>1, EmptySeq DEF DeviceText
  <2>2. Find(">", <<>>) = 0
    BY <2>1, FindNone
  <2>. QED
    BY <1>1, <2>1, <2>2, ReplaceNothing DEF ParseDeviceName
<1>2. CASE ~(device = <<>> /\ prop = <<>>)
  <2>. DEFINE a == <<"<">> \o device
              t == <<">">> \o prop
              s == a \o t
              n == Len(device)
  <2>1. DeviceText(f) = (a \o <<">">>) \o prop
    BY <1>2 DEF DeviceText
  <2>. HIDE DEF device, prop
  <2>2. /\ <<"<">> \in Seq(Tokens) /\ Len(<<"<">>) = 1 /\ <<"<">>[1] = "<"
        /\ <<">">> \in Seq(Tokens) /\ n \in Nat
    BY <1>0, LenProperties
  <2>3. /\ a \in Seq(Tokens) /\ Len(a) = 1 + n
        /\ \A i \in 1 .. 1 + n : a[i] = IF i <= 1 THEN <<"<">>[i] ELSE device[i - 1]
    BY <1>0, <2>2, ConcatProperties
  <2>4. /\ \A i \in 1 .. n : a[i + 1] = device[i]
        /\ \A i \in 1 .. Len(a) : a[i] # ">"
    <3>. HIDE DEF a
    <3>1. ASSUME NEW i \in 1 .. n PROVE a[i + 1] = device[i]
      <4>1. i + 1 \in 1 .. 1 + n /\ ~(i + 1 <= 1) /\ i + 1 - 1 = i
        BY <2>2
      <4>. QED
        BY <2>3, <4>1
    <3>2. ASSUME NEW i \in 1 .. Len(a) PROVE a[i] # ">"
      <4>1. CASE i = 1
        BY <2>2, <2>3, <4>1
      <4>2. CASE i # 1
        <5>1. i \in 1 .. 1 + n /\ ~(i <= 1) /\ i - 1 \in 1 .. n
          BY <2>2, <2>3, <4>2
        <5>. QED
          BY <1>0, <2>3, <5>1
      <4>. QED
        BY <4>1, <4>2
    <3>. QED
      BY <3>1, <3>2
  <2>5. /\ t \in Seq(Tokens)
        /\ (a \o <<">">>) \o prop = s
        /\ s = <<"<">> \o (device \o t)
        /\ device \o t \in Seq(Tokens)
    <3>1. t \in Seq(Tokens)
      BY <1>0, <2>2, ConcatProperties
    <3>2. (a \o <<">">>) \o prop = s
      BY <1>0, <2>2, <2>3, ConcatAssociative
    <3>3. s = <<"<">> \o (device \o t)
      BY <1>0, <2>2, <3>1, ConcatAssociative
    <3>4. device \o t \in Seq(Tokens)
      BY <1>0, <3>1, ConcatProperties
    <3>. QED
      BY <3>1, <3>2, <3>3, <3>4
  <2>6. /\ s \in Seq(Tokens) /\ s # <<>> /\ Find(">", s) = Len(a) + 1
        /\ SubSeq(s, 1, Len(a)) = a /\ Drop(s, Len(a) + 1) = prop
    <3>. HIDE DEF a
    <3>. QED
      BY <1>0, <2>3, <2>4, Delimited
  <2>. HIDE DEF a, s
  <2>7. Find(">", s) # 0 /\ Find(">", s) = n + 2 /\ Find(">", s) - 1 = n + 1
    BY <2>2, <2>3, <2>6
  <2>8. SubSeq(s, 2, n + 1) = device
    <3>1. \A i \in 1 .. Len(s) : s[i] \in Tokens
      BY <2>6, ElementOfSeq
    <3>2. Len(s) \in Nat /\ n + 1 <= Len(s)
      <4>1. Len(s) = Len(a) + Len(t) /\ Len(t) \in Nat
        BY <2>3, <2>5, ConcatProperties, LenProperties DEF s
      <4>. HIDE DEF t
      <4>. QED
        BY <2>2, <2>3, <4>1
    <3>3. \A i \in 1 .. n + 1 : SubSeq(s, 1, n + 1)[i] = s[i]
      <4>1. \A i \in 1 .. n + 1 : s[i] \in Tokens
        BY <2>2, <3>1, <3>2
      <4>. QED
        BY <2>2, <4>1, SubSeqProperties
    <3>4. \A i \in 1 .. n + 1 : s[i] = a[i]
      BY <2>2, <2>3, <2>6, <3>3
    <3>5. /\ SubSeq(s, 2, n + 1) \in Seq(Tokens)
          /\ Len(SubSeq(s, 2, n + 1)) = n
          /\ \A i \in 1 .. n : SubSeq(s, 2, n + 1)[i] = s[i + 1]
      <4>1. \A i \in 2 .. n + 1 : s[i] \in Tokens
        BY <2>2, <3>1, <3>2
      <4>2. /\ SubSeq(s, 2, n + 1) \in Seq(Tokens)
            /\ Len(SubSeq(s, 2, n + 1)) = IF 2 <= n + 1 THEN n + 1 - 2 + 1 ELSE 0
            /\ \A i \in 1 .. n + 1 - 2 + 1 : SubSeq(s, 2, n + 1)[i] = s[2 + i - 1]
        BY <2>2, <4>1, SubSeqProperties
      <4>. QED
        BY <2>2, <4>2
    <3>6. \A i \in 1 .. n : SubSeq(s, 2, n + 1)[i] = device[i]
      BY <2>2, <2>4, <3>4, <3>5
    <3>. QED
      BY <1>0, <3>5, <3>6, SeqEqual
  <2>9. ParseDeviceName(s) = <<Replace(device), prop>>
    BY <2>3, <2>6, <2>7, <2>8 DEF ParseDeviceName
  <2>. QED
    BY <2>1, <2>5, <2>6, <2>7, <2>9 DEF device, prop
<1>. QED
  BY <1>1, <1>2

\* parseStreamId inverts the documented format, but for the commas the device
\* name gets back; and such an id is never refused as unterminated.
THEOREM DocumentedIdsParsed ==
  ASSUME NEW f \in Fields
  PROVE  /\ ~Unterminated(Text(f))
         /\ ParseStreamId(Text(f)) =
              [pcmType |-> f.pcmType, deviceName |-> Replace(f.deviceName),
               propName |-> f.propName, propValue |-> f.propValue]
<1>. DEFINE type == f.pcmType
            rest == DeviceText(f)
<1>0. /\ type \in Seq(Tokens) /\ rest \in Seq(Tokens) /\ "<" \in Tokens
      /\ \A i \in 1 .. Len(type) : type[i] # "<"
  BY FieldFacts, DeviceParsed, DelimiterFacts
<1>1. Text(f) = type \o rest
  BY DEF Text, DeviceText, PropText
<1>2. ParsePcmType(Text(f)) = <<type, rest>>
  <2>1. CASE rest = <<>>
    <3>1. Text(f) = type
      BY <1>0, <1>1, <2>1, ConcatEmptySeq
    <3>2. Find("<", type) = 0
      <4>. HIDE DEF type
      <4>. QED
        BY <1>0, FindNone
    <3>. QED
      BY <2>1, <3>1, <3>2 DEF ParsePcmType
  <2>2. CASE rest # <<>>
    <3>1. PICK b \in Seq(Tokens) : rest = <<"<">> \o b
      BY <2>2, DeviceParsed
    <3>. DEFINE s == type \o (<<"<">> \o b)
    <3>2. Text(f) = s
      BY <1>1, <3>1
    <3>. HIDE DEF type, rest
    <3>3. /\ Find("<", s) = Len(type) + 1
          /\ SubSeq(s, 1, Len(type)) = type /\ Drop(s, Len(type)) = <<"<">> \o b
      BY <1>0, Delimited
    <3>4. Len(type) \in Nat
      BY <1>0, LenProperties
    <3>. HIDE DEF s
    <3>5. Find("<", s) # 0 /\ Find("<", s) - 1 = Len(type)
      BY <3>3, <3>4
    <3>. QED
      BY <3>1, <3>2, <3>3, <3>5 DEF ParsePcmType
  <2>. QED
    BY <2>1, <2>2
<1>3. ~Unterminated(Text(f))
  BY <1>2, DeviceParsed DEF Unterminated
<1>. QED
  BY <1>2, <1>3, DeviceParsed, PropParsed DEF ParseStreamId

\* The back end that the type names makes the device.
LEMMA NamedDevice ==
  ASSUME NEW type, NEW f \in Fields, ~InvalidId(Text(f))
  PROVE  LET device == CreatePcmDevice(type, Text(f))
         IN  /\ device.kind = Upper(f.pcmType)
             /\ device.type = type
             /\ IF device.kind = "ALSA"
                  THEN device.device = OrElse(Replace(f.deviceName), <<"default">>)
                  ELSE /\ device.device = Replace(f.deviceName)
                       /\ device.propName = OrElse(f.propName, <<"media.role">>)
                       /\ device.propValue = f.propValue
<1>. DEFINE id     == Text(f)
            parsed == ParseStreamId(id)
            kind   == Upper(f.pcmType)
<1>1. /\ parsed.pcmType = f.pcmType /\ parsed.deviceName = Replace(f.deviceName)
      /\ parsed.propName = f.propName /\ parsed.propValue = f.propValue
  BY DocumentedIdsParsed
<1>2. f.pcmType # <<>>
  BY FieldFacts
<1>3. kind # ""
  BY <1>2 DEF Upper
<1>4. Takes("ALSA", f.pcmType) \/ Takes("PULSE", f.pcmType)
  BY <1>1, DocumentedIdsParsed DEF InvalidId
<1>. HIDE DEF id, parsed, kind
<1>5. CASE Takes("ALSA", f.pcmType)
  <2>1. kind = "ALSA"
    BY <1>3, <1>5 DEF Takes, kind
  <2>2. CreatePcmDevice(type, id) =
          [kind |-> "ALSA", type |-> type,
           device |-> OrElse(Replace(f.deviceName), <<"default">>)]
    BY <1>1, <1>5 DEF CreatePcmDevice, parsed
  <2>. QED
    BY <2>1, <2>2 DEF kind, id
<1>6. CASE ~Takes("ALSA", f.pcmType)
  <2>1. kind = "PULSE"
    BY <1>3, <1>4, <1>6 DEF Takes, kind
  <2>2. CreatePcmDevice(type, id) =
          [kind |-> "PULSE", type |-> type, device |-> Replace(f.deviceName),
           propName |-> OrElse(f.propName, <<"media.role">>),
           propValue |-> f.propValue]
    BY <1>1, <1>6 DEF CreatePcmDevice, parsed
  <2>. QED
    BY <2>1, <2>2 DEF kind, id
<1>. QED
  BY <1>5, <1>6

\* Every request ring has the device createPcmDevice made of a valid id, and
\* XenStore still holds that id.
DeviceInv ==
  \A i \in 1 .. Len(rings) :
    rings[i].kind = "request" =>
      /\ ~InvalidId(store[rings[i].path].id)
      /\ rings[i].device = CreatePcmDevice(StreamType(store[rings[i].path].type),
                                         store[rings[i].path].id)

LEMMA DeviceStep ==
  ASSUME RingsInv, DeviceInv, [Next]_vars
  PROVE  DeviceInv'
<1>1. CASE UNCHANGED <<xenstore, rings>>
  BY <1>1 DEF xenstore, DeviceInv
<1>2. ASSUME NEW ring, rings' = Append(rings, ring), UNCHANGED store,
             ring.kind = "request" =>
               /\ ~InvalidId(store[ring.path].id)
               /\ ring.device = CreatePcmDevice(StreamType(store[ring.path].type),
                                               store[ring.path].id)
      PROVE  DeviceInv'
  <2>1. /\ Len(rings) \in Nat /\ Len(rings') = Len(rings) + 1
        /\ \A i \in 1 .. Len(rings) : rings'[i] = rings[i]
        /\ rings'[Len(rings) + 1] = ring
    BY <1>2 DEF RingsInv
  <2>2. SUFFICES ASSUME NEW i \in 1 .. Len(rings'), rings'[i].kind = "request"
                 PROVE  /\ ~InvalidId(store[rings'[i].path].id)
                        /\ rings'[i].device = CreatePcmDevice(StreamType(store[rings'[i].path].type),
                                                              store[rings'[i].path].id)
    BY <1>2 DEF DeviceInv
  <2>3. CASE i = Len(rings) + 1
    BY <1>2, <2>1, <2>2, <2>3
  <2>4. CASE i \in 1 .. Len(rings)
    BY <2>1, <2>2, <2>4 DEF DeviceInv
  <2>. QED
    BY <2>1, <2>2, <2>3, <2>4
<1>3. CASE Bind
  <2>1. CASE OnBind \/ ProcessDevice \/ Bound \/ DeviceDone \/ StreamThrows \/ RequestThrows
    BY <1>1, <2>1 DEF OnBind, ProcessDevice, Bound, DeviceDone, StreamThrows, RequestThrows,
                      BindThrows
  <2>2. CASE AddEventRing
    BY <1>2, <2>2 DEF AddEventRing, xenstore
  <2>3. CASE AddRequestRing
    BY <1>2, <2>3 DEF AddRequestRing, xenstore
  <2>4. CASE Closing
    BY <2>4 DEF Closing, DeviceInv
  <2>. QED
    BY <1>3, <2>1, <2>2, <2>3, <2>4 DEF Bind
<1>. QED
  BY <1>1, <1>3 DEF Next, vars, frontendVars

LEMMA DeviceNamed == DeviceInv => DeviceAsNamed
  BY NamedDevice DEF DeviceInv, DeviceAsNamed, StreamType

\* Whatever fields an id is written from, and wherever a word holds another
\* field's delimiter, the stream gets the device its id names.
THEOREM NamedDevicesMade == Spec => []DeviceAsNamed
<1>1. Init => DeviceInv
  BY DEF Init, DeviceInv
<1>2. WalkInv /\ RingsInv /\ [Next]_vars => WalkInv' /\ RingsInv'
  BY RingsStep
<1>3. RingsInv /\ DeviceInv /\ [Next]_vars => DeviceInv'
  BY DeviceStep
<1>. QED
  BY RingsInitial, DeviceNamed, <1>1, <1>2, <1>3, PTL DEF Spec

=============================================================================
