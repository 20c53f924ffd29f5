-------------------------- MODULE HwParams_proofs --------------------------
(* What AlsaPcm negotiates, for every hardware, request and stream: the     *)
(* parameters kept for queries are those of the whole device, and the       *)
(* stream has the sizes that were granted to it.                            *)
EXTENDS HwParams, FiniteSetTheorems, TLAPS

-----------------------------------------------------------------------------
(* Arithmetic. *)

LEMMA DivExact ==
  ASSUME NEW a \in Nat, NEW d \in Nat \ {0}
  PROVE  (a * d) \div d = a
  OBVIOUS

LEMMA DivBounds ==
  ASSUME NEW a \in Nat, NEW d \in Nat \ {0}
  PROVE  /\ a \div d \in Nat
         /\ (a \div d) * d <= a
         /\ a < ((a \div d) + 1) * d
  OBVIOUS

-----------------------------------------------------------------------------
(* The ends of a range. *)

LEMMA LeastExists ==
  ASSUME NEW S, S \subseteq Nat, S # {}
  PROVE  Least(S) \in S /\ \A y \in S : Least(S) <= y
<1>. DEFINE Below == {0 .. x : x \in S}
<1>1. Below # {} /\ Below \subseteq FiniteSubsetsOf(Nat)
  <2>. SUFFICES ASSUME NEW x \in S
                PROVE  0 .. x \in FiniteSubsetsOf(Nat)
    OBVIOUS
  <2>. QED
    BY FS_Interval DEF FiniteSubsetsOf
<1>2. PICK B \in Below : \A C \in Below : ~ (<<C, B>> \in StrictSubsetOrdering(Nat))
  BY <1>1, FS_StrictSubsetOrderingWellFounded, WFMin
<1>3. PICK x \in S : B = 0 .. x
  OBVIOUS
<1>4. ASSUME NEW y \in S PROVE x <= y
  <2>1. SUFFICES ASSUME y < x PROVE FALSE
    BY <1>3
  <2>2. 0 .. y \subseteq 0 .. x /\ x \in 0 .. x /\ x \notin 0 .. y
    BY <1>3, <2>1
  <2>3. 0 .. y \subseteq Nat /\ 0 .. x \subseteq Nat
    OBVIOUS
  <2>4. <<0 .. y, 0 .. x>> \in StrictSubsetOrdering(Nat)
    BY <2>2, <2>3 DEF StrictSubsetOrdering
  <2>5. 0 .. y \in Below
    OBVIOUS
  <2>. QED
    BY <1>2, <1>3, <2>4, <2>5
<1>. QED
  BY <1>4 DEF Least

LEMMA GreatestExists ==
  ASSUME NEW S, S \subseteq Nat, S # {}, NEW m \in Nat, \A x \in S : x <= m
  PROVE  Greatest(S) \in S /\ \A y \in S : Greatest(S) >= y
<1>. DEFINE T == {m - x : x \in S}
<1>1. T \subseteq Nat /\ T # {}
  <2>1. \A x \in S : m - x \in Nat
    OBVIOUS
  <2>. QED
    BY <2>1
<1>2. PICK t \in T : \A u \in T : t <= u
  BY <1>1, LeastExists
<1>3. PICK x \in S : t = m - x
  OBVIOUS
<1>4. \A y \in S : x >= y
  <2>. TAKE y \in S
  <2>1. m - x <= m - y
    BY <1>2, <1>3
  <2>2. x \in Nat /\ y \in Nat
    OBVIOUS
  <2>. QED
    BY <2>1, <2>2
<1>. QED
  BY <1>4 DEF Greatest

-----------------------------------------------------------------------------
(* The parameters. *)

LEMMA HardwareFacts ==
  ASSUME NEW hw \in Hardware, NEW c \in hw
  PROVE  /\ c \in Config /\ c.rate \in Nat \ {0} /\ c.channels \in Nat \ {0}
         /\ c.buffer \in Nat \ {0} /\ c.period \in Nat \ {0} /\ c.format \in Formats
  BY HwAssumption DEF Config

LEMMA ConfigFields ==
  ASSUME NEW c \in Config, NEW field \in Ranged
  PROVE  c[field] \in Nat \ {0}
  BY DEF Config, Ranged

\* Refining only takes configurations away.
LEMMA Refining ==
  ASSUME NEW params, NEW req
  PROVE  /\ AfterFormats(params, req) \subseteq params
         /\ AfterRate(params, req) \subseteq AfterFormats(params, req)
         /\ AfterChannels(params, req) \subseteq AfterRate(params, req)
         /\ AfterBuffer(params, req) \subseteq AfterChannels(params, req)
         /\ AfterPeriod(params, req) \subseteq AfterBuffer(params, req)
  BY DEF AfterFormats, AfterRate, AfterChannels, AfterBuffer, AfterPeriod, QueryFormats,
         SetMinMax

\* The ends of what a restriction has left are values it has left.
LEMMA BoundsInside ==
  ASSUME NEW hw \in Hardware, NEW params, params \subseteq hw, NEW field \in Ranged,
         NEW range, range.min \in Nat, range.max \in Nat,
         SetMinMax(params, field, range) # {}
  PROVE  LET b == Bounds(SetMinMax(params, field, range), field)
         IN  /\ range.min <= b.min /\ b.min <= b.max /\ b.max <= range.max
             /\ b.min \in Nat /\ b.max \in Nat
             /\ \A c \in SetMinMax(params, field, range) : b.min <= c[field] /\ c[field] <= b.max
<1>. DEFINE left == SetMinMax(params, field, range)
            V    == Values(left, field)
<1>1. \A c \in left : /\ c[field] \in Nat /\ c[field] \in V
                      /\ range.min <= c[field] /\ c[field] <= range.max
  BY HardwareFacts, ConfigFields DEF SetMinMax, Values
<1>2. \A v \in V : v \in Nat /\ range.min <= v /\ v <= range.max
  BY <1>1 DEF Values
<1>3. V \subseteq Nat /\ V # {}
  BY <1>1, <1>2
<1>4. /\ Least(V) \in V /\ \A v \in V : Least(V) <= v
      /\ Greatest(V) \in V /\ \A v \in V : Greatest(V) >= v
  BY <1>2, <1>3, LeastExists, GreatestExists
<1>. HIDE DEF left, V
<1>5. /\ range.min <= Least(V) /\ Least(V) <= Greatest(V) /\ Greatest(V) <= range.max
      /\ Least(V) \in Nat /\ Greatest(V) \in Nat
      /\ \A c \in left : Least(V) <= c[field] /\ c[field] <= Greatest(V)
  BY <1>1, <1>2, <1>4
<1>6. Bounds(left, field) = [min |-> Least(V), max |-> Greatest(V)]
  BY DEF Bounds, V
<1>. QED
  BY <1>5, <1>6 DEF left

-----------------------------------------------------------------------------
(* The invariants. *)

\* The parameters kept for queries are all the device can do, and what was
\* answered is the answer to that.
QueryInv ==
  /\ hardware \in Hardware
  /\ mHwQueryHandle \in BOOLEAN
  /\ mHwQueryParams = IF mHwQueryHandle THEN hardware ELSE {}
  /\ \A a \in answered :
       /\ a.req \in Requests
       /\ AfterPeriod(hardware, a.req) # {}
       /\ a.resp = Response(hardware, a.req)

\* The stream is set as it was opened, its sizes as near as the device has them.
StreamInv ==
  /\ opened \in Opens \cup {NotOpen}
  /\ opened = NotOpen => config = NoConfig
  /\ opened # NotOpen =>
       LET asked == AfterExact(opened)
       IN  /\ opened.format \in DOMAIN sPcmFormat
           /\ config \in asked
           /\ config.buffer \in
                Near(asked, "buffer", Frames(opened, opened.bufferSize, DefaultBufferFrames))
           /\ config.period \in
                Near(Set(asked, "buffer", config.buffer), "period",
                     Frames(opened, opened.periodSize, DefaultPeriodFrames))
           /\ threshold = config.buffer * 2
           /\ mTimerPeriodMs = (config.period * 1000) \div config.rate
  /\ mParams.bufferSize \in Nat /\ mParams.periodSize \in Nat
  /\ threshold \in Nat /\ mTimerPeriodMs \in Nat

LEMMA QueryStep ==
  ASSUME QueryInv, [Next]_vars
  PROVE  QueryInv' /\ hardware' = hardware
<1>1. Kept = hardware
  BY DEF QueryInv, Kept
<1>2. ASSUME NEW req \in Requests, QueryHwRanges(req)
      PROVE  QueryInv' /\ hardware' = hardware
  BY <1>1, <1>2 DEF QueryHwRanges, QueryInv
<1>3. CASE QueryRefused
  BY <1>1, <1>3 DEF QueryRefused, QueryInv
<1>4. CASE QueryClose /\ UNCHANGED <<hardware, answered>>
  BY <1>4 DEF QueryClose, QueryInv
<1>5. CASE UNCHANGED vars
  BY <1>5 DEF vars, queryVars, QueryInv
<1>. QED
  BY <1>2, <1>3, <1>4, <1>5 DEF Next, Close, Open, OpenFails

LEMMA OpensFacts ==
  ASSUME NEW p \in Opens
  PROVE  /\ p.rate \in Nat \ {0} /\ p.channels \in Nat \ {0}
         /\ p.bufferSize \in Nat /\ p.periodSize \in Nat
         /\ p \in [format : STRING, rate : Nat \ {0}, channels : Nat \ {0},
                   bufferSize : Nat, periodSize : Nat]
         /\ p # NotOpen
<1>1. p \in [format : STRING, rate : Nat \ {0}, channels : Nat \ {0},
             bufferSize : Nat, periodSize : Nat]
  BY FrontendAssumption
<1>2. p.rate # NotOpen.rate
  BY <1>1 DEF NotOpen
<1>. QED
  BY <1>1, <1>2

LEMMA FrameSizes ==
  ASSUME NEW p \in Opens, p.format \in DOMAIN sPcmFormat
  PROVE  FrameSize(p) \in Nat \ {0}
<1>1. FormatSize[sPcmFormat[p.format]] \in Nat \ {0}
  BY HwAssumption
<1>. DEFINE a == FormatSize[sPcmFormat[p.format]]
            b == p.channels
<1>2. a \in Nat \ {0} /\ b \in Nat \ {0}
  BY <1>1, OpensFacts
<1>3. b * a \in Nat \ {0}
  <2>. HIDE DEF a, b
  <2>. QED
    BY <1>2
<1>. QED
  BY <1>3 DEF FrameSize

LEMMA AfterExactFacts ==
  ASSUME NEW p \in Opens, NEW c \in AfterExact(p)
  PROVE  /\ c \in hardware /\ c.format = sPcmFormat[p.format]
         /\ c.rate = p.rate /\ c.channels = p.channels
  BY DEF AfterExact, Set

LEMMA OpenKeeps ==
  ASSUME QueryInv, NEW p \in Opens, Open(p)
  PROVE  StreamInv'
<1>. DEFINE asked == AfterExact(p)
            size  == FrameSize(p)
<1>1. PICK b \in Near(asked, "buffer", Frames(p, p.bufferSize, DefaultBufferFrames)) :
        \E f \in Near(Set(asked, "buffer", b), "period",
                      Frames(p, p.periodSize, DefaultPeriodFrames)) :
          /\ mParams' = Granted(p, b, f)
          /\ config' \in Set(Set(asked, "buffer", b), "period", f)
  BY DEF Open
<1>2. PICK f \in Near(Set(asked, "buffer", b), "period",
                      Frames(p, p.periodSize, DefaultPeriodFrames)) :
          /\ mParams' = Granted(p, b, f)
          /\ config' \in Set(Set(asked, "buffer", b), "period", f)
  BY <1>1
<1>3. /\ p.format \in DOMAIN sPcmFormat /\ opened' = p /\ hardware' = hardware
      /\ threshold' = BytesToFrames(config', mParams'.bufferSize) * 2
      /\ mTimerPeriodMs' =
           (BytesToFrames(config', mParams'.periodSize) * 1000) \div mParams'.rate
  BY DEF Open
<1>4. config' \in asked /\ config'.buffer = b /\ config'.period = f
  BY <1>2 DEF Set
<1>5. /\ config' \in hardware /\ config'.format = sPcmFormat[p.format]
      /\ config'.rate = p.rate /\ config'.channels = p.channels
  BY <1>4, AfterExactFacts
<1>6. b \in Nat /\ f \in Nat /\ p.rate \in Nat \ {0}
  BY <1>4, <1>5, HardwareFacts DEF QueryInv
<1>7. size \in Nat \ {0} /\ config'.channels * FormatSize[config'.format] = size
  BY <1>3, <1>5, FrameSizes DEF FrameSize
<1>8. mParams'.bufferSize = b * size /\ mParams'.periodSize = f * size /\ mParams'.rate = p.rate
  BY <1>2, OpensFacts DEF Granted
<1>. HIDE DEF size
<1>9. b * size \in Nat /\ f * size \in Nat
  BY <1>6, <1>7
<1>10. /\ BytesToFrames(config', mParams'.bufferSize) = b
       /\ BytesToFrames(config', mParams'.periodSize) = f
  BY <1>6, <1>7, <1>8, DivExact DEF BytesToFrames
<1>11. /\ threshold' = config'.buffer * 2
       /\ mTimerPeriodMs' = (config'.period * 1000) \div config'.rate
  BY <1>3, <1>4, <1>5, <1>8, <1>10
<1>12. threshold' \in Nat /\ mTimerPeriodMs' \in Nat
  <2>1. (config'.period * 1000) \div config'.rate \in Nat
    <3> DEFINE a == config'.period * 1000
               d == config'.rate
    <3>1. a \in Nat /\ d \in Nat \ {0}
      BY <1>4, <1>5, <1>6
    <3> HIDE DEF a, d
    <3>2. a \div d \in Nat
      BY <3>1, DivBounds
    <3>. QED
      BY <3>2 DEF a, d
  <2>. QED
    BY <1>4, <1>6, <1>11, <2>1
<1>13. AfterExact(p)' = asked
  BY <1>3 DEF AfterExact
<1>. QED
  BY <1>1, <1>2, <1>3, <1>4, <1>8, <1>9, <1>11, <1>12, <1>13, OpensFacts
     DEF StreamInv, AfterExact

LEMMA StreamStep ==
  ASSUME QueryInv, StreamInv, [Next]_vars
  PROVE  StreamInv'
<1>1. hardware' = hardware
  BY QueryStep
<1>2. CASE UNCHANGED streamVars
  BY <1>1, <1>2 DEF streamVars, StreamInv, AfterExact
<1>3. CASE CloseStream
  BY <1>3 DEF CloseStream, StreamInv
<1>4. ASSUME NEW p \in Opens, Open(p)
      PROVE  StreamInv'
  BY <1>4, OpenKeeps
<1>5. ASSUME NEW p \in Opens, OpenFails(p)
      PROVE  StreamInv'
  <2>1. mParams'.bufferSize \in Nat /\ mParams'.periodSize \in Nat
    BY <1>5, OpensFacts DEF OpenFails, StreamInv
  <2>. QED
    BY <1>5, <2>1 DEF OpenFails, StreamInv
<1>. QED
  BY <1>2, <1>3, <1>4, <1>5 DEF Next, QueryHwRanges, QueryRefused, Close, vars

LEMMA Initial == Init => QueryInv /\ StreamInv
<1>1. NotOpen.bufferSize \in Nat /\ NotOpen.periodSize \in Nat
  BY DEF NotOpen
<1>2. Init => QueryInv
  BY DEF Init, QueryInv
<1>3. Init => StreamInv
  BY <1>1 DEF Init, StreamInv
<1>. QED
  BY <1>2, <1>3

THEOREM Invariance == Spec => [](QueryInv /\ StreamInv)
<1>1. QueryInv /\ StreamInv /\ [Next]_vars => QueryInv' /\ StreamInv'
  BY QueryStep, StreamStep
<1>. QED
  BY Initial, <1>1, PTL DEF Spec

-----------------------------------------------------------------------------
(* What follows. *)

\* The parameters kept are those of a query handle that is open, and a stream
\* that is open has a configuration of the device.
THEOREM TypeCorrect == Spec => []TypeOK
<1>1. ASSUME QueryInv, StreamInv
      PROVE  TypeOK
  <2>1. hardware # {}
    BY <1>1, HwAssumption DEF QueryInv
  <2>2. ASSUME opened # NotOpen
        PROVE  config \in hardware /\ config # NoConfig
    <3>1. config \in hardware
      BY <1>1, <2>2, AfterExactFacts DEF StreamInv
    <3>2. config.rate # NoConfig.rate
      BY <1>1, <3>1, HardwareFacts DEF QueryInv, NoConfig
    <3>. QED
      BY <3>1, <3>2
  <2>. QED
    BY <1>1, <2>1, <2>2 DEF QueryInv, StreamInv, TypeOK
<1>. QED
  BY Invariance, <1>1, PTL

\* Every query is answered for the whole device, whatever was asked before.
THEOREM QueriesAreIndependent == Spec => []QueriesIndependent
<1>1. QueryInv => QueriesIndependent
  BY DEF QueryInv, QueriesIndependent
<1>. QED
  BY Invariance, <1>1, PTL

\* The start threshold is above the buffer the device has granted, and the
\* timer's period is the granted period to the millisecond.
THEOREM UsesGrantedSizes == Spec => []FromGrantedSizes
<1>1. ASSUME QueryInv, StreamInv, opened # NotOpen
      PROVE  /\ threshold > config.buffer
             /\ mTimerPeriodMs * config.rate <= config.period * 1000
             /\ (mTimerPeriodMs + 1) * config.rate > config.period * 1000
  <2>1. config \in hardware
    BY <1>1, AfterExactFacts DEF StreamInv
  <2>2. /\ config.buffer \in Nat \ {0} /\ config.rate \in Nat \ {0}
        /\ config.period * 1000 \in Nat
    BY <1>1, <2>1, HardwareFacts DEF QueryInv
  <2>3. /\ threshold = config.buffer * 2
        /\ mTimerPeriodMs = (config.period * 1000) \div config.rate
    BY <1>1 DEF StreamInv
  <2>4. threshold > config.buffer
    BY <2>2, <2>3
  <2>. DEFINE a == config.period * 1000
  <2>. HIDE DEF a
  <2>5. /\ mTimerPeriodMs \in Nat
        /\ mTimerPeriodMs * config.rate <= a
        /\ a < (mTimerPeriodMs + 1) * config.rate
    <3>1. a \in Nat /\ mTimerPeriodMs = a \div config.rate
      BY <2>2, <2>3 DEF a
    <3>. QED
      BY <2>2, <3>1, DivBounds
  <2>6. (mTimerPeriodMs + 1) * config.rate \in Nat
    BY <2>2, <2>5
  <2>7. (mTimerPeriodMs + 1) * config.rate > a
    BY <2>2, <2>5, <2>6 DEF a
  <2>. QED
    BY <2>4, <2>5, <2>7 DEF a
<1>2. QueryInv /\ StreamInv => FromGrantedSizes
  BY <1>1 DEF FromGrantedSizes
<1>. QED
  BY Invariance, <1>2, PTL

-----------------------------------------------------------------------------
(* The answers. *)

\* A query that leaves something has left something at every step.
LEMMA Left ==
  ASSUME NEW hw \in Hardware, NEW req, AfterPeriod(hw, req) # {}
  PROVE  /\ AfterFormats(hw, req) # {} /\ AfterRate(hw, req) # {}
         /\ AfterChannels(hw, req) # {} /\ AfterBuffer(hw, req) # {}
         /\ AfterFormats(hw, req) \subseteq hw /\ AfterRate(hw, req) \subseteq hw
         /\ AfterChannels(hw, req) \subseteq hw /\ AfterBuffer(hw, req) \subseteq hw
         /\ AfterPeriod(hw, req) \subseteq hw
<1>1. /\ AfterFormats(hw, req) \subseteq hw
      /\ AfterRate(hw, req) \subseteq AfterFormats(hw, req)
      /\ AfterChannels(hw, req) \subseteq AfterRate(hw, req)
      /\ AfterBuffer(hw, req) \subseteq AfterChannels(hw, req)
      /\ AfterPeriod(hw, req) \subseteq AfterBuffer(hw, req)
  BY Refining
<1>. QED
  BY <1>1, Zenon

\* The largest rate of the device is no less than any rate of a configuration.
LEMMA LargestRate ==
  ASSUME NEW hw \in Hardware, NEW c \in hw
  PROVE  Greatest(Values(hw, "rate")) \in Nat /\ c.rate <= Greatest(Values(hw, "rate"))
<1>. DEFINE V == Values(hw, "rate")
<1>1. PICK d \in hw : \A e \in hw : e.rate <= d.rate
  BY HwAssumption
<1>2. V \subseteq Nat /\ V # {} /\ c.rate \in V
  BY HardwareFacts DEF Values
<1>3. d.rate \in Nat /\ \A v \in V : v <= d.rate
  BY <1>1, HardwareFacts DEF Values
<1>4. Greatest(V) \in V /\ \A v \in V : Greatest(V) >= v
  BY <1>2, <1>3, GreatestExists
<1>. QED
  BY <1>2, <1>4

LEMMA ResponseWithin ==
  ASSUME NEW hw \in Hardware, NEW req \in Requests, AfterPeriod(hw, req) # {}
  PROVE  LET resp == Response(hw, req)
         IN  /\ resp.formats \subseteq req.formats
             /\ \A field \in Ranged \ {"rate"} : Within(resp[field], req[field])
             /\ req.rate.min <= resp.rate.min
             /\ \A field \in Ranged : resp[field].min <= resp[field].max
<1>. DEFINE resp == Response(hw, req)
<1>1. /\ req["rate"].min \in Nat /\ req["rate"].max \in Nat
      /\ req["channels"].min \in Nat /\ req["channels"].max \in Nat
      /\ req["buffer"].min \in Nat /\ req["buffer"].max \in Nat
      /\ req["period"].min \in Nat /\ req["period"].max \in Nat
  BY FrontendAssumption DEF Ranged
<1>2. ASSUME NEW field \in Ranged, NEW params, params \subseteq hw,
             SetMinMax(params, field, req[field]) # {}
      PROVE  LET b == Bounds(SetMinMax(params, field, req[field]), field)
             IN  /\ req[field].min <= b.min /\ b.min <= b.max /\ b.max <= req[field].max
                 /\ b.min \in Nat /\ b.max \in Nat
                 /\ \A c \in SetMinMax(params, field, req[field]) :
                      b.min <= c[field] /\ c[field] <= b.max
  BY <1>2, BoundsInside, FrontendAssumption
<1>3. /\ resp.formats = {f \in DOMAIN sPcmFormat :
                           sPcmFormat[f] \in Values(AfterFormats(hw, req), "format")}
      /\ resp.rate = QueryHwParamRate(hw, req)
      /\ resp.channels = Bounds(AfterChannels(hw, req), "channels")
      /\ resp.buffer = Bounds(AfterBuffer(hw, req), "buffer")
      /\ resp.period = Bounds(AfterPeriod(hw, req), "period")
  BY DEF Response, QueryHwParamBuffer
<1>. HIDE DEF resp
<1>4. resp.formats \subseteq req.formats
  <2>. SUFFICES ASSUME NEW f \in resp.formats
                PROVE  f \in req.formats
    OBVIOUS
  <2>1. f \in DOMAIN sPcmFormat /\ sPcmFormat[f] \in Values(AfterFormats(hw, req), "format")
    BY <1>3
  <2>2. PICK c \in AfterFormats(hw, req) : c.format = sPcmFormat[f]
    BY <2>1 DEF Values
  <2>3. PICK g \in req.formats \cap DOMAIN sPcmFormat : c.format = sPcmFormat[g]
    BY DEF AfterFormats, QueryFormats
  <2>4. f = g
    BY <2>1, <2>2, <2>3, HwAssumption
  <2>. QED
    BY <2>4
<1>5. Within(resp.channels, req.channels) /\ resp.channels.min <= resp.channels.max
  <2>1. AfterChannels(hw, req) = SetMinMax(AfterRate(hw, req), "channels", req["channels"])
    BY DEF AfterChannels
  <2>. QED
    BY <1>2, <1>3, <2>1, Left DEF Ranged, Within
<1>6. Within(resp.buffer, req.buffer) /\ resp.buffer.min <= resp.buffer.max
  <2>1. AfterBuffer(hw, req) = SetMinMax(AfterChannels(hw, req), "buffer", req["buffer"])
    BY DEF AfterBuffer
  <2>. QED
    BY <1>2, <1>3, <2>1, Left DEF Ranged, Within
<1>7. Within(resp.period, req.period) /\ resp.period.min <= resp.period.max
  <2>1. AfterPeriod(hw, req) = SetMinMax(AfterBuffer(hw, req), "period", req["period"])
    BY DEF AfterPeriod
  <2>. QED
    BY <1>2, <1>3, <2>1, Left DEF Ranged, Within
<1>8. req.rate.min <= resp.rate.min /\ resp.rate.min <= resp.rate.max
  <2>1. AfterRate(hw, req) = SetMinMax(AfterFormats(hw, req), "rate", req["rate"])
    BY DEF AfterRate
  <2>. DEFINE b == Bounds(AfterRate(hw, req), "rate")
  <2>2. /\ req.rate.min <= b.min /\ b.min \in Nat
        /\ \A c \in AfterRate(hw, req) : b.min <= c.rate
    BY <1>2, <2>1, Left DEF Ranged
  <2>3. resp.rate.min = b.min /\ resp.rate.max = Greatest(Values(hw, "rate"))
    BY <1>3 DEF QueryHwParamRate, Bounds
  <2>. HIDE DEF b
  <2>4. PICK c \in AfterRate(hw, req) : c \in hw
    BY Left
  <2>5. c.rate \in Nat /\ c.rate <= Greatest(Values(hw, "rate"))
        /\ Greatest(Values(hw, "rate")) \in Nat
    BY <2>4, LargestRate, HardwareFacts
  <2>. QED
    BY <2>2, <2>3, <2>5
<1>9. /\ \A field \in Ranged \ {"rate"} : Within(resp[field], req[field])
      /\ \A field \in Ranged : resp[field].min <= resp[field].max
  BY <1>5, <1>6, <1>7, <1>8 DEF Ranged
<1>. QED
  BY <1>4, <1>8, <1>9 DEF resp

\* No range answered is turned round, or outside the one asked for, but for the
\* largest rate.
THEOREM AnswersWithin == Spec => []AnswerWithin
<1>1. ASSUME QueryInv
      PROVE  AnswerWithin
  <2>. SUFFICES ASSUME NEW a \in answered
                PROVE  /\ a.resp.formats \subseteq a.req.formats
                       /\ \A field \in Ranged \ {"rate"} : Within(a.resp[field], a.req[field])
                       /\ a.req.rate.min <= a.resp.rate.min
                       /\ \A field \in Ranged : a.resp[field].min <= a.resp[field].max
    BY DEF AnswerWithin
  <2>1. /\ hardware \in Hardware /\ a.req \in Requests /\ AfterPeriod(hardware, a.req) # {}
        /\ a.resp = Response(hardware, a.req)
    BY <1>1 DEF QueryInv
  <2>. QED
    BY <2>1, ResponseWithin
<1>. QED
  BY Invariance, <1>1, PTL

-----------------------------------------------------------------------------
(* A stream opened as a query confirmed. *)

\* A value that is there is the only one near itself.
LEMMA NearExact ==
  ASSUME NEW params, NEW field, NEW x \in Nat,
         \A c \in params : c[field] \in Nat,
         NEW c \in params, c[field] = x,
         NEW v \in Near(params, field, x)
  PROVE  v = x
<1>1. x \in Values(params, field) /\ v \in Values(params, field)
  BY DEF Values, Near
<1>2. Distance(v, x) <= Distance(x, x) /\ v \in Nat
  BY <1>1 DEF Near, Values
<1>. QED
  BY <1>2 DEF Distance

\* What a query for p's own parameters has left is as p, sizes in frames.
LEMMA ExactLeft ==
  ASSUME QueryInv, NEW p \in Opens, p.format \in DOMAIN sPcmFormat,
         NEW c \in AfterPeriod(hardware, Exactly(p))
  PROVE  /\ c \in AfterExact(p)
         /\ c.buffer = p.bufferSize \div FrameSize(p)
         /\ c.period = p.periodSize \div FrameSize(p)
<1>. DEFINE req == Exactly(p)
            size == FrameSize(p)
<1>1. c \in hardware /\ c \in AfterFormats(hardware, req) /\ c \in AfterRate(hardware, req)
      /\ c \in AfterChannels(hardware, req) /\ c \in AfterBuffer(hardware, req)
  BY Refining
<1>2. /\ req.formats = {p.format}
      /\ req.rate.min = p.rate /\ req.rate.max = p.rate
      /\ req.channels.min = p.channels /\ req.channels.max = p.channels
      /\ req.buffer.min = p.bufferSize \div size /\ req.buffer.max = p.bufferSize \div size
      /\ req.period.min = p.periodSize \div size /\ req.period.max = p.periodSize \div size
  BY DEF Exactly
<1>. HIDE DEF req, size
<1>3. /\ c.format = sPcmFormat[p.format]
      /\ req.rate.min <= c.rate /\ c.rate <= req.rate.max
      /\ req.channels.min <= c.channels /\ c.channels <= req.channels.max
      /\ req.buffer.min <= c.buffer /\ c.buffer <= req.buffer.max
      /\ req.period.min <= c.period /\ c.period <= req.period.max
  <2>1. c.format = sPcmFormat[p.format]
    BY <1>1, <1>2 DEF AfterFormats, QueryFormats
  <2>. QED
    BY <1>1, <2>1 DEF AfterRate, AfterChannels, AfterBuffer, AfterPeriod, SetMinMax, req
<1>4. /\ c.rate \in Nat /\ c.channels \in Nat /\ c.buffer \in Nat /\ c.period \in Nat
      /\ p.rate \in Nat /\ p.channels \in Nat
  BY <1>1, HardwareFacts, OpensFacts DEF QueryInv
<1>5. p.bufferSize \div size \in Nat /\ p.periodSize \div size \in Nat
  BY OpensFacts, FrameSizes, DivBounds DEF size
<1>6. /\ c.rate = p.rate /\ c.channels = p.channels
      /\ c.buffer = p.bufferSize \div size /\ c.period = p.periodSize \div size
  BY <1>2, <1>3, <1>4, <1>5
<1>. QED
  BY <1>1, <1>3, <1>6 DEF AfterExact, Set, size

\* A query confirmed down to single values is what OPEN then sets, whatever the
\* frame's size.
THEOREM OpenedAsQueried == Spec => []OpensAsQueried
<1>1. ASSUME QueryInv, StreamInv, NEW a \in answered,
             opened # NotOpen, a.req = Exactly(opened)
      PROVE  config = [format |-> sPcmFormat[opened.format], rate |-> opened.rate,
                       channels |-> opened.channels,
                       buffer |-> a.resp.buffer.min, period |-> a.resp.period.min]
  <2>. DEFINE asked == AfterExact(opened)
              b == opened.bufferSize \div FrameSize(opened)
              f == opened.periodSize \div FrameSize(opened)
  <2>1. /\ hardware \in Hardware /\ a.req \in Requests
        /\ AfterPeriod(hardware, a.req) # {}
        /\ a.resp = Response(hardware, a.req)
        /\ opened \in Opens /\ opened.format \in DOMAIN sPcmFormat
        /\ config \in asked
        /\ config.buffer \in
             Near(asked, "buffer", Frames(opened, opened.bufferSize, DefaultBufferFrames))
        /\ config.period \in
             Near(Set(asked, "buffer", config.buffer), "period",
                  Frames(opened, opened.periodSize, DefaultPeriodFrames))
    BY <1>1 DEF QueryInv, StreamInv
  <2>2. PICK c \in AfterPeriod(hardware, a.req) : TRUE
    BY <2>1
  <2>3. c \in asked /\ c.buffer = b /\ c.period = f /\ c \in hardware
    BY <1>1, <2>1, ExactLeft, AfterExactFacts
  <2>4. b \in Nat \ {0} /\ f \in Nat \ {0}
    BY <2>1, <2>3, HardwareFacts
  <2>5. opened.bufferSize # 0 /\ opened.periodSize # 0
    <3>1. FrameSize(opened) \in Nat \ {0}
      BY <2>1, FrameSizes
    <3>2. 0 \div FrameSize(opened) = 0
      BY <3>1
    <3>. QED
      BY <2>4, <3>2
  <2>6. /\ Frames(opened, opened.bufferSize, DefaultBufferFrames) = b
        /\ Frames(opened, opened.periodSize, DefaultPeriodFrames) = f
    BY <2>5 DEF Frames
  <2>7. \A d \in asked : d.buffer \in Nat /\ d.period \in Nat
    BY <2>1, AfterExactFacts, HardwareFacts
  <2>. HIDE DEF asked, b, f
  <2>8. config.buffer = b
    BY <2>1, <2>3, <2>4, <2>6, <2>7, NearExact
  <2>9. config.period = f
    <3>1. c \in Set(asked, "buffer", config.buffer)
      BY <2>3, <2>8 DEF Set
    <3>2. \A d \in Set(asked, "buffer", config.buffer) : d["period"] \in Nat
      BY <2>7 DEF Set
    <3>. QED
      BY <2>1, <2>3, <2>4, <2>6, <3>1, <3>2, NearExact
  <2>10. a.resp.buffer.min = b /\ a.resp.period.min = f
    <3>. DEFINE B == SetMinMax(AfterChannels(hardware, a.req), "buffer", a.req.buffer)
                P == SetMinMax(B, "period", a.req.period)
    <3>1. /\ a.req.buffer.min = b /\ a.req.buffer.max = b
          /\ a.req.period.min = f /\ a.req.period.max = f
      BY <1>1 DEF Exactly, b, f
    <3>2. /\ a.resp.buffer = Bounds(B, "buffer") /\ a.resp.period = Bounds(P, "period")
          /\ AfterBuffer(hardware, a.req) = B /\ AfterPeriod(hardware, a.req) = P
      BY <2>1 DEF Response, QueryHwParamBuffer, AfterBuffer, AfterPeriod
    <3>3. /\ AfterChannels(hardware, a.req) \subseteq hardware /\ B \subseteq hardware
          /\ B # {} /\ P # {}
      BY <2>1, <3>2, Left
    <3>4. /\ b <= Bounds(B, "buffer").min /\ Bounds(B, "buffer").min <= Bounds(B, "buffer").max
          /\ Bounds(B, "buffer").max <= b
          /\ Bounds(B, "buffer").min \in Nat /\ Bounds(B, "buffer").max \in Nat
      BY <2>1, <2>4, <3>1, <3>3, BoundsInside DEF Ranged
    <3>5. /\ f <= Bounds(P, "period").min /\ Bounds(P, "period").min <= Bounds(P, "period").max
          /\ Bounds(P, "period").max <= f
          /\ Bounds(P, "period").min \in Nat /\ Bounds(P, "period").max \in Nat
      BY <2>1, <2>4, <3>1, <3>3, BoundsInside DEF Ranged
    <3>. HIDE DEF B, P
    <3>. QED
      BY <2>4, <3>2, <3>4, <3>5
  <2>11. /\ config \in Config /\ config.format = sPcmFormat[opened.format]
         /\ config.rate = opened.rate /\ config.channels = opened.channels
    BY <2>1, AfterExactFacts, HardwareFacts DEF asked
  <2>12. \A d \in Config : d = [format |-> d.format, rate |-> d.rate, channels |-> d.channels,
                                buffer |-> d.buffer, period |-> d.period]
    BY DEF Config
  <2>. QED
    BY <2>8, <2>9, <2>10, <2>11, <2>12
<1>2. QueryInv /\ StreamInv => OpensAsQueried
  BY <1>1 DEF OpensAsQueried
<1>. QED
  BY Invariance, <1>2, PTL
=============================================================================
