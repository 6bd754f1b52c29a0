----------------------------- MODULE EventTimer -----------------------------
(***************************************************************************)
(* The timer of a connection (NEW_EVENT_ONCE in tcpSetTimeout) on the two  *)
(* loops.  Every read deletes and adds it again, so that the connection    *)
(* is closed after a time without a read.  What deleting and adding do to  *)
(* the time that is left differs between the loops.                        *)
(***************************************************************************)
EXTENDS EventApi, Integers

CONSTANTS
    Timeout,   \* c->timeout
    Horizon    \* bound: how long the clock runs

ASSUME TimerAssumption ==
    /\ Timeout \in Nat \ {0}
    /\ Horizon \in Nat

VARIABLES
    now,       \* the clock
    at,        \* when the timer is due; libev: the time left, while it is stopped
    armed,     \* the timer is added to the loop
    lastRead,  \* time of the last read, or of the connection's start
    link       \* the connection: "open", "timeout" or "closed"

timerVars == <<api, now, at, armed, lastRead, link>>

TimerTypeOK ==
    /\ api \in Apis
    /\ now \in 0..Horizon
    /\ at \in -Horizon..(Horizon + Timeout)
    /\ armed \in BOOLEAN
    /\ lastRead \in 0..now
    /\ link \in {"open", "timeout", "closed"}

-----------------------------------------------------------------------------
(* eventAdd and eventDel of a time event. *)

\* Defect: ae counts from the connection's start.
StartFromZero(left) == Timeout

\* ev_timer_start adds the clock to the watcher's time; aeCreateTimeEvent
\* takes the clock and e->id.
Start(left) == IF api = "libev" THEN left + now ELSE now + Timeout

\* ev_timer_stop leaves the time that is left in the watcher.
Stop == IF api = "libev" /\ armed THEN at - now ELSE at

\* tcpSetTimeout: the watcher is made with the timeout, and added.
TimerInit ==
    /\ api \in Apis
    /\ now = 0
    /\ at = Timeout
    /\ armed = TRUE
    /\ lastRead = 0
    /\ link = "open"

-----------------------------------------------------------------------------
\* Defect: the timer is not added again after the read.
ReadNoTimer ==
    /\ link = "open"
    /\ at' = Stop
    /\ armed' = FALSE
    /\ lastRead' = now
    /\ UNCHANGED <<api, now, link>>

\* tcpRead with data, or with nothing to read: DEL_EVENT_TIME, the read,
\* ADD_EVENT_TIME.
Read ==
    /\ link = "open"
    /\ at' = Start(Stop)
    /\ armed' = TRUE
    /\ lastRead' = now
    /\ UNCHANGED <<api, now, link>>

\* tcpRead meets an error or the end of the stream: DEL_EVENT_TIME, then
\* FIRE_CLOSE.
ReadClosed ==
    /\ link = "open"
    /\ at' = Stop
    /\ armed' = FALSE
    /\ link' = "closed"
    /\ UNCHANGED <<api, now, lastRead>>

\* The timer is due: tcpConnTimeoutHandler, FIRE_TIMEOUT and FIRE_CLOSE.
Fire ==
    /\ link = "open"
    /\ armed
    /\ now >= at
    /\ link' = "timeout"
    /\ armed' = FALSE
    /\ UNCHANGED <<api, now, at, lastRead>>

\* Time goes by while the loop sleeps: not past a timer that is due.
Tick ==
    /\ now < Horizon
    /\ link = "open"
    /\ armed => now < at
    /\ now' = now + 1
    /\ UNCHANGED <<api, at, armed, lastRead, link>>

TimerNext == Read \/ ReadClosed \/ Fire \/ Tick

TimerSpec == TimerInit /\ [][TimerNext]_timerVars

-----------------------------------------------------------------------------
(* Properties. *)

\* A connection without reads is closed in time: none is open for longer than
\* the timeout after its last read (no read leaves it without a timer).
SilenceEnds == link = "open" => now - lastRead <= Timeout

\* "Socket timeout in seconds" (README), logged as "read timeout": a
\* connection times out only when it was silent for the whole timeout.
TimeoutIsSilence == link = "timeout" => now - lastRead >= Timeout

\* With ae deleting and adding the timer for every read restarts it: a
\* connection times out only when it was silent for the whole timeout.
AeTimeoutIsSilence == api = "ae" => TimeoutIsSilence
=============================================================================
