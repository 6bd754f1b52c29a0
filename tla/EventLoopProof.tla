--------------------------- MODULE EventLoopProof ---------------------------
(***************************************************************************)
(* Proofs about the two loops: EventLoop, for any set of descriptors, and  *)
(* EventTimer, for any timeout and any length of time.  PollsTheAdded is   *)
(* inductive as it stands; that ae never gets a freed event needs that an  *)
(* added event belongs to an open connection, and that libev runs only     *)
(* what is ready needs that its pending watchers are added and ready.      *)
(***************************************************************************)
EXTENDS EventLoop, EventTimer, TLAPS

\* With libev an event that waits for its handler is added, and was reported
\* for the connection that has it.
PendingSound == api = "libev" => pending \subseteq el \cap ready

LoopInv == TypeOK /\ PollsTheAdded /\ NoFreedEvent /\ PendingSound

-----------------------------------------------------------------------------
\* A new connection has no event added yet.
LEMMA InitStep ==
    ASSUME LoopInv, NEW fd \in Fds, tcpInit(fd)
    PROVE  LoopInv'
  BY DEF LoopInv, TypeOK, PollsTheAdded, NoFreedEvent, PendingSound, tcpInit, Kinds

\* eventAdd makes the event, which is of an open connection, ae's clientData.
LEMMA AddStep ==
    ASSUME LoopInv, NEW e \in Events, eventAdd(e)
    PROVE  LoopInv'
  <1>1. PICK fd \in Fds, k \in Kinds : e = <<fd, k>>
    BY DEF Events
  <1>2. /\ fd \in conn /\ e[1] = fd /\ e[2] = k
        /\ el' = el \cup {e} /\ polled' = polled \cup {e}
        /\ owner' = [owner EXCEPT ![fd] = k]
        /\ UNCHANGED <<conn, pending, ready, running, api>>
    BY <1>1 DEF eventAdd
  <1>3. TypeOK' /\ PollsTheAdded'
    BY <1>1, <1>2 DEF LoopInv, TypeOK, PollsTheAdded, Events
  <1>4. NoFreedEvent'
    BY <1>1, <1>2 DEF LoopInv, TypeOK, NoFreedEvent
  <1>5. PendingSound'
    BY <1>2 DEF LoopInv, PendingSound
  <1> QED BY <1>3, <1>4, <1>5 DEF LoopInv

\* A failed eventAdd changes nothing of the loop.
LEMMA AddFailsStep ==
    ASSUME LoopInv, NEW e \in Events, eventAddFails(e)
    PROVE  LoopInv'
  <1>1. PICK fd \in Fds, k \in Kinds : e = <<fd, k>>
    BY DEF Events
  <1>2. /\ fd \in conn /\ el' = el \cup {e} /\ api = "ae"
        /\ UNCHANGED <<conn, polled, owner, pending, ready, running, api>>
    BY <1>1 DEF eventAddFails
  <1> QED BY <1>1, <1>2 DEF LoopInv, TypeOK, PollsTheAdded, NoFreedEvent, PendingSound

\* eventDel takes the event from the loop, from what is added and, with libev,
\* from what is pending.
LEMMA DelStep ==
    ASSUME LoopInv, NEW e \in Events, eventDel(e)
    PROVE  LoopInv'
  BY DEF LoopInv, TypeOK, PollsTheAdded, NoFreedEvent, PendingSound, eventDel, Unpend

\* tcpClose frees the events of a descriptor that is not polled any more.
LEMMA CloseStep ==
    ASSUME LoopInv, NEW fd \in Fds, tcpClose(fd)
    PROVE  LoopInv'
  <1>1. TypeOK'
    BY DEF LoopInv, TypeOK, tcpClose, Unpend, Of
  <1>2. PollsTheAdded' /\ PendingSound'
    BY DEF LoopInv, PollsTheAdded, PendingSound, tcpClose, Unpend
  <1>3. NoFreedEvent'
    <2>1. SUFFICES ASSUME NEW e \in polled'
                   PROVE  owner'[e[1]] \in Kinds
      BY DEF NoFreedEvent
    <2>2. e \in polled /\ e \notin Of(fd)
      BY DEF tcpClose
    <2>3. PICK f \in Fds, k \in Kinds : e = <<f, k>>
      BY <2>2 DEF LoopInv, TypeOK, Events
    <2>4. f # fd
      BY <2>2, <2>3 DEF Of
    <2> QED BY <2>2, <2>3, <2>4 DEF LoopInv, TypeOK, NoFreedEvent, tcpClose
  <1> QED BY <1>1, <1>2, <1>3 DEF LoopInv

\* The steps of the loop itself change nothing of what is added.
LEMMA LoopStep ==
    ASSUME LoopInv, Return \/ Poll \/ RunLibev \/ RunAe
    PROVE  LoopInv'
  <1>1. CASE Return
    BY <1>1 DEF LoopInv, TypeOK, PollsTheAdded, NoFreedEvent, PendingSound, Return
  <1>2. CASE Poll
    BY <1>2 DEF LoopInv, TypeOK, PollsTheAdded, NoFreedEvent, PendingSound, Poll
  <1>3. CASE RunLibev
    BY <1>3 DEF LoopInv, TypeOK, PollsTheAdded, NoFreedEvent, PendingSound, RunLibev
  <1>4. CASE RunAe
    <2>1. PICK fd \in Fds :
            /\ pending' = pending \ Of(fd)
            /\ running' = IF pending \cap polled \cap Of(fd) = {} THEN none ELSE <<fd, owner[fd]>>
      BY <1>4 DEF RunAe
    <2>2. running' \in Events \cup {none}
      <3>1. CASE pending \cap polled \cap Of(fd) = {}
        BY <2>1, <3>1
      <3>2. CASE pending \cap polled \cap Of(fd) # {}
        <4>1. PICK e \in polled : e \in Of(fd)
          BY <3>2
        <4>2. e[1] = fd
          BY <4>1 DEF Of
        <4>3. owner[fd] \in Kinds
          BY <4>1, <4>2 DEF LoopInv, NoFreedEvent
        <4> QED BY <2>1, <3>2, <4>3 DEF Events
      <3> QED BY <3>1, <3>2
    <2> QED BY <1>4, <2>1, <2>2
        DEF LoopInv, TypeOK, PollsTheAdded, NoFreedEvent, PendingSound, RunAe
  <1> QED BY <1>1, <1>2, <1>3, <1>4

\* In every reachable state what is polled is added, for connections that are
\* open, and ae's clientData is one of their events.
THEOREM LoopInvariant == Spec => []LoopInv
  <1>1. Init => LoopInv
    <2> SUFFICES ASSUME Init PROVE LoopInv
      OBVIOUS
    <2>1. PICK fd \in Fds :
            /\ conn = {fd} /\ el = {<<fd, "read">>} /\ polled = el
            /\ owner = [f \in Fds |-> IF f = fd THEN "read" ELSE "none"]
      BY DEF Init
    <2>2. pending = {} /\ ready = {} /\ running = none /\ api \in Apis
      BY DEF Init
    <2> QED BY <2>1, <2>2
        DEF LoopInv, TypeOK, PollsTheAdded, NoFreedEvent, PendingSound, Events, Kinds
  <1>2. LoopInv /\ [Next]_vars => LoopInv'
    <2> SUFFICES ASSUME LoopInv, [Next]_vars PROVE LoopInv'
      OBVIOUS
    <2>1. ASSUME NEW fd \in Fds, tcpInit(fd) PROVE LoopInv'
      BY <2>1, InitStep
    <2>2. ASSUME NEW fd \in Fds, tcpClose(fd) PROVE LoopInv'
      BY <2>2, CloseStep
    <2>3. ASSUME NEW e \in Events, eventAdd(e) PROVE LoopInv'
      BY <2>3, AddStep
    <2>4. ASSUME NEW e \in Events, eventDel(e) \/ eventAddFails(e) PROVE LoopInv'
      BY <2>4, DelStep, AddFailsStep
    <2>5. CASE Return \/ Poll \/ RunLibev \/ RunAe
      BY <2>5, LoopStep
    <2>6. CASE UNCHANGED vars
      BY <2>6 DEF LoopInv, TypeOK, PollsTheAdded, NoFreedEvent, PendingSound, vars
    <2> QED BY <2>1, <2>2, <2>3, <2>4, <2>5, <2>6 DEF Next, Handler
  <1> QED BY <1>1, <1>2, PTL DEF Spec

\* For any set of descriptors: eventDel and tcpClose never leave an event behind
\* in the loop, also when adds have failed, and libev polls all that is added.
THEOREM PolledAreAdded == Spec => []PollsTheAdded
  <1>1. LoopInv => PollsTheAdded
    BY DEF LoopInv
  <1> QED BY <1>1, LoopInvariant, PTL

\* aeProcessEvents never passes a freed event to eventIoHandler.
THEOREM NoEventIsFreed == Spec => []NoFreedEvent
  <1>1. LoopInv => NoFreedEvent
    BY DEF LoopInv
  <1> QED BY <1>1, LoopInvariant, PTL

\* With libev a handler runs only for an event that is added and was reported
\* for this connection, whatever the handlers before it have done.
THEOREM LibevRunsTheReady == Spec => RunsTheReady
  <1>1. LoopInv /\ [Next]_vars =>
            [api = "libev" /\ running' # running /\ running' # none =>
                running' \in el \cap ready]_vars
    <2> SUFFICES ASSUME LoopInv, [Next]_vars, api = "libev",
                        running' # running, running' # none
                 PROVE  running' \in el \cap ready
      OBVIOUS
    <2>1. CASE RunLibev
      BY <2>1 DEF LoopInv, PendingSound, RunLibev
    <2>2. CASE RunAe
      BY <2>2 DEF RunAe
    <2>3. ASSUME NEW fd \in Fds, tcpInit(fd) \/ tcpClose(fd) PROVE FALSE
      BY <2>3 DEF tcpInit, tcpClose
    <2>4. ASSUME NEW e \in Events, eventAdd(e) \/ eventAddFails(e) \/ eventDel(e) PROVE FALSE
      BY <2>4 DEF eventAdd, eventAddFails, eventDel
    <2>5. CASE Return \/ Poll \/ UNCHANGED vars
      BY <2>5 DEF Return, Poll, vars
    <2> QED BY <2>1, <2>2, <2>3, <2>4, <2>5 DEF Next, Handler
  <1> QED BY <1>1, LoopInvariant, PTL DEF Spec, RunsTheReady

-----------------------------------------------------------------------------
(* The timer of a connection, on the same loop. *)

\* While the connection is open its timer is armed, not overdue, and due no
\* later than the timeout after the last read; with ae exactly then.
TimerInv ==
    /\ now \in Int /\ at \in Int /\ lastRead \in Int /\ lastRead <= now
    /\ link = "open" => armed /\ now <= at /\ at <= lastRead + Timeout
    /\ link = "open" /\ api = "ae" => at = lastRead + Timeout
    /\ link = "timeout" /\ api = "ae" => now >= lastRead + Timeout

\* Every step keeps the timer in that relation to the last read.
LEMMA TimerStep ==
    ASSUME TimerInv, [TimerNext]_timerVars
    PROVE  TimerInv'
  <1> USE TimerAssumption
  <1>1. CASE Read
    BY <1>1 DEF TimerInv, Read, Start, Stop
  <1>2. CASE ReadClosed
    BY <1>2 DEF TimerInv, ReadClosed, Stop
  <1>3. CASE Fire
    BY <1>3 DEF TimerInv, Fire
  <1>4. CASE Tick
    BY <1>4 DEF TimerInv, Tick
  <1>5. CASE UNCHANGED timerVars
    BY <1>5 DEF TimerInv, timerVars
  <1> QED BY <1>1, <1>2, <1>3, <1>4, <1>5 DEF TimerNext

\* The relation holds in every reachable state.
THEOREM TimerInvariant == TimerSpec => []TimerInv
  <1>1. TimerInit => TimerInv
    BY TimerAssumption DEF TimerInit, TimerInv
  <1>2. TimerInv /\ [TimerNext]_timerVars => TimerInv'
    BY TimerStep
  <1> QED BY <1>1, <1>2, PTL DEF TimerSpec

\* tcpRead leaves no connection without a timer: with either loop none is open
\* for longer than the timeout after its last read.
THEOREM SilenceAlwaysEnds == TimerSpec => []SilenceEnds
  <1>1. TimerInv => SilenceEnds
    BY TimerAssumption DEF TimerInv, SilenceEnds
  <1> QED BY <1>1, TimerInvariant, PTL

\* With ae deleting and adding the timer starts it anew: a connection times
\* out only after a whole timeout without a read.
THEOREM AeTimesOutSilence == TimerSpec => []AeTimeoutIsSilence
  <1>1. TimerInv => AeTimeoutIsSilence
    BY TimerAssumption DEF TimerInv, AeTimeoutIsSilence, TimeoutIsSilence
  <1> QED BY <1>1, TimerInvariant, PTL
=============================================================================
