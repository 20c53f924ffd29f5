----------------------------- MODULE PcmDevice -----------------------------
(* What a PCM device promises the command handler (PcmDevice of             *)
(* SoundItf.hpp): calls from one thread, answered with success or an        *)
(* exception, and progress reports from a thread of its own.  AlsaPcm and   *)
(* PulsePcm are shown to implement it; CommandHandler is built on it.       *)
VARIABLES
  open,         \* the device has a stream
  call,         \* the call it is in, "none": no call
  answer,       \* how the last call was answered, "none" while one runs
  reporting     \* the progress callback may be called

deviceVars == <<open, call, answer, reporting>>

Calls == {"query", "open", "close", "transfer", "trigger"}

DeviceOK ==
  /\ open \in BOOLEAN
  /\ call \in Calls \cup {"none"}
  /\ answer \in {"none", "ok", "error"}
  /\ reporting \in BOOLEAN

DeviceInit ==
  /\ open = FALSE
  /\ call = "none" /\ answer = "ok"
  /\ reporting = FALSE

\* Only a device that has a stream goes to work on a read, a write or a
\* trigger; an OPEN may give up the stream there was at once.
Call(c) ==
  /\ call = "none"
  /\ c \in {"transfer", "trigger"} => open = TRUE
  /\ call' = c
  /\ answer' = "none"
  /\ open' \in IF c = "open" THEN {open, FALSE} ELSE {open}
  /\ UNCHANGED reporting

\* What the call c leaves behind: a stream only an OPEN that succeeds can
\* bring, and nothing after CLOSE; an OPEN or a query that fails may take the
\* stream away.  Without a stream nothing is reported any more.
Outcome(c, result) ==
  /\ open' \in CASE c = "close"                         -> {FALSE}
                 [] c = "open" /\ result = "ok"         -> {TRUE}
                 [] c \in {"open", "query"} /\ result = "error" -> {open, FALSE}
                 [] OTHER                               -> {open}
  /\ c = "close" => result = "ok"
  /\ reporting' \in {FALSE, open'}
  /\ call' = "none"
  /\ answer' = result

Return ==
  \E result \in {"ok", "error"} : call # "none" /\ Outcome(call, result)

\* A call that is answered at once.
CallAndReturn(c) ==
  /\ call = "none"
  /\ \E result \in {"ok", "error"} :
       /\ (c \in {"transfer", "trigger"} /\ result = "ok") => open = TRUE
       /\ Outcome(c, result)

\* Reports begin and end by themselves while there is a stream, or an OPEN that
\* may have one already.
Report ==
  /\ open = TRUE \/ call = "open"
  /\ reporting' \in BOOLEAN
  /\ UNCHANGED <<open, call, answer>>

\* The device loses its stream, and with it what it would report.
Lose ==
  /\ open' = FALSE
  /\ reporting' = FALSE
  /\ UNCHANGED <<call, answer>>

DeviceNext ==
  \/ \E c \in Calls : Call(c) \/ CallAndReturn(c)
  \/ Return \/ Report \/ Lose

DeviceSpec == DeviceInit /\ [][DeviceNext]_deviceVars

\* Nothing is reported once the stream is gone, but for what an OPEN of a
\* device that was open before has still to put an end to.
QuietWhenClosed == reporting = TRUE => open = TRUE \/ call = "open"

=============================================================================
