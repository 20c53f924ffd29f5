------------------------------ MODULE HwParams ------------------------------
(* What AlsaPcm negotiates with the hardware (AlsaPcm.cpp): the ranges that *)
(* HW_PARAM_QUERY refines, and the values OPEN sets.                        *)
(*                                                                          *)
(* A configuration gives every parameter one value, sizes in frames.  A     *)
(* snd_pcm_hw_params_t is a set of them: what snd_pcm_hw_params_any fills   *)
(* in and each set_ call restricts.  Only the request thread is in this     *)
(* code, so a command is one action.                                        *)
EXTENDS Integers

CONSTANTS
  Hardware,     \* the devices there may be: sets of configurations
  sPcmFormat,   \* the table from the frontend's formats to ALSA's
  FormatSize,   \* snd_pcm_format_size(format, 1), of formats that have one
  Requests,     \* the ranges frontends ask for, sizes in frames
  Opens,        \* the parameters frontends open with, sizes in bytes
  DefaultBufferFrames,
  DefaultPeriodFrames

Formats == DOMAIN FormatSize

Config == [format : Formats, rate : Nat \ {0}, channels : Nat \ {0},
           buffer : Nat \ {0}, period : Nat \ {0}]

Ranged == {"rate", "channels", "buffer", "period"}

ASSUME HwAssumption ==
  /\ \A hw \in Hardware : hw # {} /\ \A c \in hw : c \in Config
  /\ \A f \in Formats : FormatSize[f] \in Nat \ {0}
  /\ \A f \in DOMAIN sPcmFormat : sPcmFormat[f] \in Formats
  /\ \A f, g \in DOMAIN sPcmFormat : sPcmFormat[f] = sPcmFormat[g] => f = g
  /\ \A hw \in Hardware : \E c \in hw : \A d \in hw : d.rate <= c.rate
  /\ DefaultBufferFrames \in Nat \ {0}
  /\ DefaultPeriodFrames \in Nat \ {0}

\* Frontends send natural numbers; a stream has a rate and channels.
ASSUME FrontendAssumption ==
  /\ \A req \in Requests, field \in Ranged :
       req[field].min \in Nat /\ req[field].max \in Nat
  /\ Opens \subseteq [format : STRING, rate : Nat \ {0}, channels : Nat \ {0},
                     bufferSize : Nat, periodSize : Nat]

VARIABLES
  hardware,         \* the configurations the device can do
  mHwQueryHandle,   \* mHwQueryHandle # nullptr
  mHwQueryParams,   \* the parameters kept for queries, {}: none
  answered,         \* the last query answered with success, {}: none
  mParams,          \* the parameters of the stream, sizes in bytes
  config,           \* what the hardware of the stream is set to
  threshold,        \* frames at which the device starts by itself
  mTimerPeriodMs,
  opened            \* the parameters OPEN was given, NotOpen: no stream

queryVars  == <<mHwQueryHandle, mHwQueryParams>>
streamVars == <<mParams, config, threshold, mTimerPeriodMs, opened>>
vars == <<hardware, queryVars, answered, streamVars>>

NoConfig == [format |-> "none", rate |-> 0, channels |-> 0, buffer |-> 0, period |-> 0]
NotOpen  == [format |-> "none", rate |-> 0, channels |-> 0, bufferSize |-> 0, periodSize |-> 0]

\* The parameters kept are those of a query handle that is open.
TypeOK ==
  /\ hardware \in Hardware
  /\ mHwQueryHandle \in BOOLEAN
  /\ mHwQueryParams \subseteq hardware
  /\ mHwQueryHandle <=> mHwQueryParams # {}
  /\ opened \in Opens \cup {NotOpen}
  /\ config \in hardware \cup {NoConfig}
  /\ opened = NotOpen <=> config = NoConfig
  /\ mParams.bufferSize \in Nat /\ mParams.periodSize \in Nat
  /\ threshold \in Nat /\ mTimerPeriodMs \in Nat

Init ==
  /\ hardware \in Hardware
  /\ mHwQueryHandle = FALSE /\ mHwQueryParams = {}
  /\ answered = {}
  /\ mParams = NotOpen /\ config = NoConfig /\ opened = NotOpen
  /\ threshold = 0 /\ mTimerPeriodMs = 0

-----------------------------------------------------------------------------
(* libasound. *)

Values(params, field) == {c[field] : c \in params}
Least(S)    == CHOOSE x \in S : \A y \in S : x <= y
Greatest(S) == CHOOSE x \in S : \A y \in S : x >= y

\* snd_pcm_hw_params_set_..._minmax, which fails when nothing is left.
SetMinMax(params, field, range) ==
  {c \in params : range.min <= c[field] /\ c[field] <= range.max}

Bounds(params, field) ==
  [min |-> Least(Values(params, field)), max |-> Greatest(Values(params, field))]

Distance(a, b) == IF a < b THEN b - a ELSE a - b

\* snd_pcm_hw_params_set_..._near: a value as close to x as there is.
Near(params, field, x) ==
  {v \in Values(params, field) :
     \A w \in Values(params, field) : Distance(v, x) <= Distance(w, x)}

Set(params, field, v) == {c \in params : c[field] = v}

-----------------------------------------------------------------------------
(* queryOpen, queryClose and queryHwRanges. *)

\* snd_pcm_hw_params_any, once for each query handle.
Kept == IF mHwQueryHandle THEN mHwQueryParams ELSE hardware

QueryFormats(params, formats) ==
  {c \in params : \E f \in formats \cap DOMAIN sPcmFormat : c.format = sPcmFormat[f]}

\* What hwParams has become when a parameter is answered.
AfterFormats(params, req)  == QueryFormats(params, req.formats)
AfterRate(params, req)     == SetMinMax(AfterFormats(params, req), "rate", req.rate)
AfterChannels(params, req) == SetMinMax(AfterRate(params, req), "channels", req.channels)
AfterBuffer(params, req)   == SetMinMax(AfterChannels(params, req), "buffer", req.buffer)
AfterPeriod(params, req)   == SetMinMax(AfterBuffer(params, req), "period", req.period)

\* Mutant of QueryHwParamBuffer: the largest size read from the parameters kept.
BufferOfKept(params, req) ==
  [Bounds(AfterBuffer(params, req), "buffer") EXCEPT
     !.max = Greatest(Values(params, "buffer"))]

QueryHwParamBuffer(params, req) == Bounds(AfterBuffer(params, req), "buffer")

\* The smallest rate is that of hwParams, the largest that of mHwQueryParams.
QueryHwParamRate(params, req) ==
  [Bounds(AfterRate(params, req), "rate") EXCEPT
     !.max = Greatest(Values(params, "rate"))]

Response(params, req) ==
  [formats  |-> {f \in DOMAIN sPcmFormat :
                   sPcmFormat[f] \in Values(AfterFormats(params, req), "format")},
   rate     |-> QueryHwParamRate(params, req),
   channels |-> Bounds(AfterChannels(params, req), "channels"),
   buffer   |-> QueryHwParamBuffer(params, req),
   period   |-> Bounds(AfterPeriod(params, req), "period")]

\* Mutant of QueryHwRanges: the parameters kept refined, not a copy of them.
RefineKept(req) ==
  /\ AfterPeriod(Kept, req) # {}
  /\ mHwQueryHandle' = TRUE
  /\ mHwQueryParams' = AfterPeriod(Kept, req)
  /\ answered' = {[req |-> req, resp |-> Response(Kept, req)]}
  /\ UNCHANGED <<hardware, streamVars>>

\* queryHwRanges refines a copy, one parameter after the other.
QueryHwRanges(req) ==
  /\ AfterPeriod(Kept, req) # {}
  /\ mHwQueryHandle' = TRUE
  /\ mHwQueryParams' = Kept
  /\ answered' = {[req |-> req, resp |-> Response(Kept, req)]}
  /\ UNCHANGED <<hardware, streamVars>>

\* A restriction leaves nothing, or a call fails: the handle stays.
QueryRefused ==
  /\ mHwQueryHandle' = TRUE
  /\ mHwQueryParams' = Kept
  /\ UNCHANGED <<hardware, answered, streamVars>>

\* Mutant of QueryClose: the pointer to the parameters not reset.
QueryCloseHalf ==
  /\ mHwQueryHandle' = FALSE
  /\ UNCHANGED mHwQueryParams

QueryClose ==
  /\ mHwQueryHandle' = FALSE
  /\ mHwQueryParams' = {}

CloseStream ==
  /\ opened' = NotOpen
  /\ config' = NoConfig
  /\ UNCHANGED <<mParams, threshold, mTimerPeriodMs>>

\* CLOSE; and what queryOpen does when it fails.
Close ==
  /\ QueryClose
  /\ CloseStream
  /\ UNCHANGED <<hardware, answered>>

-----------------------------------------------------------------------------
(* OPEN: setHwParams, setSwParams and the period of the timer. *)

FrameSize(p) == p.channels * FormatSize[sPcmFormat[p.format]]

\* Mutant of Frames: the channels forgotten.
Samples(p, size, default) ==
  IF size # 0 THEN size \div FormatSize[sPcmFormat[p.format]] ELSE default

\* The frames of a size in bytes, or the default for none.
Frames(p, size, default) == IF size # 0 THEN size \div FrameSize(p) ELSE default

\* snd_pcm_bytes_to_frames on the handle, once it is configured.
BytesToFrames(c, size) == size \div (c.channels * FormatSize[c.format])

AfterExact(p) ==
  Set(Set(Set(hardware, "format", sPcmFormat[p.format]), "rate", p.rate),
      "channels", p.channels)

\* Mutant of Granted: the sizes the frontend asked for kept.
Asked(p, b, f) == p

\* mParams: the sizes the device has agreed to.
Granted(p, b, f) ==
  [p EXCEPT !.bufferSize = b * FrameSize(p), !.periodSize = f * FrameSize(p)]

\* Format, rate and channels are set exactly, the sizes nearly.
Open(p) ==
  /\ p.format \in DOMAIN sPcmFormat
  /\ \E b \in Near(AfterExact(p), "buffer", Frames(p, p.bufferSize, DefaultBufferFrames)) :
       LET rest == Set(AfterExact(p), "buffer", b)
       IN  \E f \in Near(rest, "period", Frames(p, p.periodSize, DefaultPeriodFrames)) :
             /\ mParams' = Granted(p, b, f)
             /\ config' \in Set(rest, "period", f)
  /\ threshold' = BytesToFrames(config', mParams'.bufferSize) * 2
  /\ mTimerPeriodMs' = (BytesToFrames(config', mParams'.periodSize) * 1000) \div mParams'.rate
  /\ opened' = p
  /\ QueryClose
  /\ UNCHANGED <<hardware, answered>>

\* A call of open fails: the parameters may be stored by then, and the stream
\* there may have been is gone.
OpenFails(p) ==
  /\ mParams' \in {mParams, p}
  /\ QueryClose
  /\ opened' = NotOpen /\ config' = NoConfig
  /\ UNCHANGED <<hardware, answered, threshold, mTimerPeriodMs>>

-----------------------------------------------------------------------------
Next ==
  \/ \E req \in Requests : QueryHwRanges(req)
  \/ QueryRefused
  \/ Close
  \/ \E p \in Opens : Open(p) \/ OpenFails(p)

Spec == Init /\ [][Next]_vars

-----------------------------------------------------------------------------
(* Properties. *)

Within(inner, outer) == outer.min <= inner.min /\ inner.max <= outer.max

\* Every range answered lies inside the one asked for, but for the largest
\* rate, and none is turned round; formats the frontend did not ask for, or
\* that are in no table, are not answered.
AnswerWithin ==
  \A a \in answered :
    /\ a.resp.formats \subseteq a.req.formats
    /\ \A field \in Ranged \ {"rate"} : Within(a.resp[field], a.req[field])
    /\ a.req.rate.min <= a.resp.rate.min
    /\ \A field \in Ranged : a.resp[field].min <= a.resp[field].max

\* A query is answered for the whole device: what was asked before, narrower
\* or wider, leaves no trace in the parameters kept between queries.
QueriesIndependent == \A a \in answered : a.resp = Response(hardware, a.req)

\* A request for exactly the parameters p, sizes in frames.
Exactly(p) ==
  LET one(v) == [min |-> v, max |-> v]
  IN  [formats |-> {p.format}, rate |-> one(p.rate), channels |-> one(p.channels),
       buffer |-> one(p.bufferSize \div FrameSize(p)),
       period |-> one(p.periodSize \div FrameSize(p))]

\* What a query has confirmed down to single values, OPEN then sets, to the
\* frame: "near" moves no size that was answered, in whatever unit it comes.
OpensAsQueried ==
  \A a \in answered :
    (opened # NotOpen /\ a.req = Exactly(opened)) =>
      config = [format |-> sPcmFormat[opened.format], rate |-> opened.rate,
                channels |-> opened.channels,
                buffer |-> a.resp.buffer.min, period |-> a.resp.period.min]

\* The start threshold and the period of the timer come from the sizes the
\* device has granted, not from those asked for: no amount of data starts the
\* device before the START trigger, and progress is reported once a period, to
\* the millisecond.
FromGrantedSizes ==
  opened # NotOpen =>
    /\ threshold > config.buffer
    /\ mTimerPeriodMs * config.rate <= config.period * 1000
    /\ (mTimerPeriodMs + 1) * config.rate > config.period * 1000

\* What the interface says of the response ("refined HW parameters that backend
\* can support"), of the largest rate: some configuration that meets the
\* request has it.
RateSupported ==
  \A a \in answered :
    \E c \in AfterPeriod(hardware, a.req) : c.rate = a.resp.rate.max

=============================================================================
