--------------------------- MODULE PulseMainloop ---------------------------
(* The connection of one frontend to PulseAudio (PulseMainloop in           *)
(* PulsePcm.cpp): its constructor, which waits until the context is ready,  *)
(* and its destructor, on the thread that makes and deletes the frontend's  *)
(* handler, beside the mainloop thread that runs the callbacks.             *)
(*                                                                          *)
(* One action per call into libpulse.  The mainloop lock is explicit: the   *)
(* constructor takes it before it starts the mainloop thread and keeps it   *)
(* to its end but for the wait; the destructor does not take it.            *)
EXTENDS Naturals

VARIABLES
  mMainloop,    \* "null", "created", "running" (its thread runs), "freed"
  mContext,     \* state of the context
  lock,         \* who holds the mainloop lock: "free", "caller", "mainloop"
  signalled,    \* the wait of waitContextReady has been released
  caller,       \* where the constructor or destructor is
  threw         \* the constructor is on its way to throw

pulseVars == <<mMainloop, mContext, lock, signalled, caller, threw>>

ContextStates ==
  {"null", "unconnected", "connecting", "authorizing", "ready", "failed", "terminated", "freed"}

\* Where init is, then release.
Inside  == {"new", "context", "connect", "lock", "start", "check", "wait",
            "disconnect", "unref", "stop", "join", "free"}
Outside == {"none", "built", "gone"}

MainloopOK ==
  /\ mMainloop \in {"null", "created", "running", "freed"}
  /\ mContext \in ContextStates
  /\ lock \in {"free", "caller", "mainloop"}
  /\ signalled \in BOOLEAN
  /\ caller \in Inside \cup Outside
  /\ threw \in BOOLEAN

MainloopInit ==
  /\ mMainloop = "null" /\ mContext = "null"
  /\ lock = "free" /\ signalled = FALSE
  /\ caller = "none" /\ threw = FALSE

-----------------------------------------------------------------------------
(* The constructor: init. *)

\* The state is that of a context on its way to ready, or ready.
Good(state) == state \in {"connecting", "authorizing", "ready"}

\* The destructor and the error path of the constructor run release().
Release == caller' = "disconnect"

Construct ==
  /\ caller = "none"
  /\ caller' = "new"
  /\ UNCHANGED <<mMainloop, mContext, lock, signalled, threw>>

\* pa_threaded_mainloop_new and pa_threaded_mainloop_get_api.
NewMainloop ==
  /\ caller = "new"
  /\ mMainloop' = "created"
  /\ caller' = "context"
  /\ UNCHANGED <<mContext, lock, signalled, threw>>

NewContext ==
  /\ caller = "context"
  /\ mContext' = "unconnected"
  /\ caller' = "connect"
  /\ UNCHANGED <<mMainloop, lock, signalled, threw>>

Connect ==
  /\ caller = "connect"
  /\ mContext' = "connecting"
  /\ caller' = "lock"
  /\ UNCHANGED <<mMainloop, lock, signalled, threw>>

\* One of these calls fails: nothing is locked yet.
InitThrows ==
  /\ caller \in {"new", "context", "connect"}
  /\ threw' = TRUE
  /\ Release
  /\ UNCHANGED <<mMainloop, mContext, lock, signalled>>

LockMainloop ==
  /\ caller = "lock"
  /\ lock = "free"
  /\ lock' = "caller"
  /\ caller' = "start"
  /\ UNCHANGED <<mMainloop, mContext, signalled, threw>>

StartMainloop ==
  /\ caller = "start"
  /\ mMainloop' = "running"
  /\ caller' = "check"
  /\ UNCHANGED <<mContext, lock, signalled, threw>>

\* Mutant of Unwind: the lock held until release() has run.
UnwindLate ==
  /\ threw' = TRUE
  /\ Release
  /\ UNCHANGED lock

\* An exception leaves init: lock_guard gives up the lock before the handler
\* of the constructor runs release().
Unwind ==
  /\ threw' = TRUE
  /\ lock' = "free"
  /\ Release

StartFails ==
  /\ caller = "start"
  /\ Unwind
  /\ UNCHANGED <<mMainloop, mContext, signalled>>

\* waitContextReady: one turn of its loop, up to the wait.
ContextReady ==
  /\ caller = "check"
  /\ mContext = "ready"
  /\ lock' = "free"
  /\ caller' = "built"
  /\ UNCHANGED <<mMainloop, mContext, signalled, threw>>

ContextBad ==
  /\ caller = "check"
  /\ ~Good(mContext)
  /\ Unwind
  /\ UNCHANGED <<mMainloop, mContext, signalled>>

\* pa_threaded_mainloop_wait gives up the lock and waits in one step.
Wait ==
  /\ caller = "check"
  /\ Good(mContext) /\ mContext # "ready"
  /\ lock' = "free"
  /\ signalled' = FALSE
  /\ caller' = "wait"
  /\ UNCHANGED <<mMainloop, mContext, threw>>

WakeUp ==
  /\ caller = "wait"
  /\ signalled
  /\ lock = "free"
  /\ lock' = "caller"
  /\ caller' = "check"
  /\ UNCHANGED <<mMainloop, mContext, signalled, threw>>

-----------------------------------------------------------------------------
(* The destructor: release. *)

Destruct ==
  /\ caller = "built"
  /\ Release
  /\ UNCHANGED <<mMainloop, mContext, lock, signalled, threw>>

\* Mutant of Signal: a context that fails does not wake the constructor.
SignalReady == signalled' = (signalled \/ mContext = "ready")

\* contextStateChanged: a state that ends the wait signals, another does not.
Signal == signalled' = (signalled \/ mContext \in {"ready", "failed", "terminated"})

\* pa_context_disconnect, without the lock: the mainloop thread may be inside
\* a callback.  (The state callback it makes itself finds nobody waiting.)
Disconnect ==
  /\ caller = "disconnect"
  /\ mContext' = IF Good(mContext) THEN "terminated" ELSE mContext
  /\ caller' = "unref"
  /\ UNCHANGED <<mMainloop, lock, signalled, threw>>

\* pa_context_unref; a callback that runs has its own reference.
Unref ==
  /\ caller = "unref"
  /\ mContext' = IF mContext = "null" THEN "null" ELSE "freed"
  /\ caller' = IF mMainloop = "null" THEN "gone" ELSE "stop"
  /\ UNCHANGED <<mMainloop, lock, signalled, threw>>

\* Mutant of Stop: the mainloop freed without pa_threaded_mainloop_stop.
FreeWithoutStop ==
  /\ caller = "stop"
  /\ caller' = "free"
  /\ UNCHANGED <<mMainloop, mContext, lock, signalled, threw>>

\* pa_threaded_mainloop_stop asks the thread to quit ...
Stop ==
  /\ caller = "stop"
  /\ caller' = IF mMainloop = "running" THEN "join" ELSE "free"
  /\ UNCHANGED <<mMainloop, mContext, lock, signalled, threw>>

\* ... and joins it: the thread needs the lock once more to leave its poll.
Join ==
  /\ caller = "join"
  /\ lock = "free"
  /\ mMainloop' = "created"
  /\ caller' = "free"
  /\ UNCHANGED <<mContext, lock, signalled, threw>>

FreeMainloop ==
  /\ caller = "free"
  /\ mMainloop' = "freed"
  /\ caller' = "gone"
  /\ UNCHANGED <<mContext, lock, signalled, threw>>

-----------------------------------------------------------------------------
(* The mainloop thread: it holds the lock while it runs callbacks. *)

\* The server accepts the connection in two steps, refuses it or ends it.
ContextEvent ==
  /\ mMainloop = "running"
  /\ lock = "free"
  /\ Good(mContext)
  /\ lock' = "mainloop"
  /\ mContext' \in CASE mContext = "connecting"  -> {"authorizing", "failed"}
                     [] mContext = "authorizing" -> {"ready", "failed"}
                     [] mContext = "ready"       -> {"failed"}
  /\ UNCHANGED <<mMainloop, signalled, caller, threw>>

\* The state callback, which reads the state anew, and the end of the dispatch.
ContextCallback ==
  /\ lock = "mainloop"
  /\ Signal
  /\ lock' = "free"
  /\ UNCHANGED <<mMainloop, mContext, caller, threw>>

-----------------------------------------------------------------------------
CallerStep ==
  \/ NewMainloop \/ NewContext \/ Connect \/ InitThrows
  \/ LockMainloop \/ StartMainloop \/ StartFails
  \/ ContextReady \/ ContextBad \/ Wait \/ WakeUp
  \/ Disconnect \/ Unref \/ Stop \/ Join \/ FreeMainloop

\* The server answers a connection that is being made.
Answering == mContext \in {"connecting", "authorizing"} /\ ContextEvent

MainloopThread == ContextEvent \/ ContextCallback

-----------------------------------------------------------------------------
(* Properties. *)

\* While the constructor waits for the context and has not been released, the
\* event that will release it is still to come: no change of state falls
\* between the check and the wait, and every state that ends the loop signals.
ReadyNotLost ==
  caller = "wait" /\ ~signalled =>
    \/ mContext \in {"connecting", "authorizing"}
    \/ lock = "mainloop"

\* No callback runs on a mainloop that has been freed, and when the
\* constructor has thrown or the destructor returned nothing is left: no
\* thread, no context, no lock, whichever call failed.
ReleasedAll ==
  /\ lock = "mainloop" => mMainloop = "running"
  /\ caller = "gone" =>
       /\ mMainloop \in {"null", "freed"}
       /\ mContext \in {"null", "freed"}
       /\ lock = "free"

\* The constructor returns or throws and the destructor returns: neither waits
\* for a signal that was given before, nor joins a thread that waits for the
\* lock its caller holds.
Returns == caller \in Inside ~> caller \in Outside

=============================================================================
