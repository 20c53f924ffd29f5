----------------------------- MODULE MCHwParams -----------------------------
(* Instance of HwParams for TLC: a device that can do everything, and one   *)
(* whose parameters depend on each other: stereo at one rate only, and      *)
(* buffers of whole periods.  The shortest period is below a millisecond.   *)
EXTENDS HwParams

Sizes == [S8 |-> 1, S16 |-> 2]
Table == [s8 |-> "S8", s16 |-> "S16"]

AllConfigs ==
  [format : {"S8", "S16"}, rate : {8000, 48000}, channels : {1, 2},
   buffer : {64, 96}, period : {16, 64}]

Dependent ==
  {c \in AllConfigs : /\ c.channels = 2 => c.rate = 48000
                      /\ c.buffer % c.period = 0
                      /\ c.format = "S8" => c.channels = 1}

SomeHardware == {AllConfigs, Dependent}

Range(lo, hi) == [min |-> lo, max |-> hi]

\* Formats by the frontend's names, one of them in no table.
SomeRequests ==
  [formats  : {{"s16"}, {"s8", "s16", "mpeg"}, {"mpeg"}},
   rate     : {Range(48000, 48000), Range(4000, 96000), Range(4000, 10000)},
   channels : {Range(2, 2), Range(1, 8)},
   buffer   : {Range(64, 64), Range(1, 100)},
   period   : {Range(16, 16), Range(1, 64)}]

\* Sizes in bytes: none, a value between two the device has, exact ones.
SomeOpens ==
  [format : {"s16"}, rate : {8000, 48000}, channels : {1, 2},
   bufferSize : {0, 79, 256}, periodSize : {0, 64, 67}]
  \cup
  [format : {"s8", "mpeg"}, rate : {8000, 48000}, channels : {1},
   bufferSize : {79}, periodSize : {0}]

=============================================================================
