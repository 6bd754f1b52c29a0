----------------------------- MODULE EventLoop -----------------------------
(***************************************************************************)
(* The I/O events of lib/event: connections register a read and a write    *)
(* event on their descriptor with one of two loops, libev or redis' ae,    *)
(* and a single thread polls, then runs the handlers of what was ready.    *)
(* A handler may add and delete any event and close and open connections,  *)
(* while other events of the same poll still wait for their handlers.      *)
(***************************************************************************)
EXTENDS EventApi, FiniteSets

CONSTANTS
    Fds       \* file descriptors; the kernel gives a closed one out again

Kinds == {"read", "write"}
Events == Fds \X Kinds
Of(fd) == {fd} \X Kinds
none == <<>>

VARIABLES
    conn,     \* descriptors that are open
    el,       \* events whose e->el is set
    polled,   \* what the loop polls: libev's active watchers, ae's fe->mask
    owner,    \* ae's fe->clientData: the event that was added last, perhaps freed
    pending,  \* reported by the poll, handler not run yet
    ready,    \* reported by the poll for a connection that is still there
    running   \* the event whose handler runs

vars == <<api, conn, el, polled, owner, pending, ready, running>>

TypeOK ==
    /\ api \in Apis
    /\ conn \subseteq Fds
    /\ el \subseteq conn \X Kinds
    /\ polled \subseteq Events
    /\ owner \in [Fds -> Kinds \cup {"none", "freed"}]
    /\ pending \subseteq Events
    /\ ready \subseteq Events
    /\ running \in Events \cup {none}

\* One connection is there and waits for data, as after an accept.
Init ==
    /\ api \in Apis
    /\ \E fd \in Fds :
        /\ conn = {fd}
        /\ el = {<<fd, "read">>}
        /\ polled = el
        /\ owner = [f \in Fds |-> IF f = fd THEN "read" ELSE "none"]
    /\ pending = {}
    /\ ready = {}
    /\ running = none

-----------------------------------------------------------------------------
(* What a handler does. *)

\* tcpInit for a new connection: events are made and not yet added.
tcpInit(fd) ==
    /\ running # none
    /\ fd \notin conn
    /\ conn' = conn \cup {fd}
    /\ UNCHANGED <<el, polled, owner, pending, ready, running, api>>

\* ADD_EVENT, which asserts that the connection has the event (CLR_EVENT leaves
\* NULL).  Nothing happens to an event that is already added.  ae keeps one
\* clientData for the descriptor, whichever event it is of.
eventAdd(e) ==
    /\ running # none
    /\ e[1] \in conn
    /\ e \notin el
    /\ el' = el \cup {e}
    /\ polled' = polled \cup {e}
    /\ owner' = [owner EXCEPT ![e[1]] = e[2]]
    /\ UNCHANGED <<conn, pending, ready, running, api>>

\* aeCreateFileEvent fails: the descriptor is beyond the loop's size, or
\* epoll_ctl() refuses it.  e->el is set all the same and stays so; libev's
\* ev_io_start has no error to return.
eventAddFails(e) ==
    /\ api = "ae"
    /\ running # none
    /\ e[1] \in conn
    /\ e \notin el
    /\ el' = el \cup {e}
    /\ UNCHANGED <<conn, polled, owner, pending, ready, running, api>>

\* Defect: a stopped watcher keeps its place among the pending ones.
UnpendKeeps(es) == pending

\* ev_io_stop clears a pending watcher; ae tests fe->mask later, in Run.
Unpend(es) == IF api = "libev" THEN pending \ es ELSE pending

\* Defect: the loop is told, e->el stays set.
eventDelKeepsEl(e) ==
    /\ running # none
    /\ e \in el
    /\ polled' = polled \ {e}
    /\ pending' = Unpend({e})
    /\ UNCHANGED <<conn, el, owner, ready, running, api>>

\* DEL_EVENT.
eventDel(e) ==
    /\ running # none
    /\ e \in el
    /\ el' = el \ {e}
    /\ polled' = polled \ {e}
    /\ pending' = Unpend({e})
    /\ UNCHANGED <<conn, owner, ready, running, api>>

\* Defect: the write event is freed without being deleted from the loop.
tcpCloseKeepsWrite(fd) ==
    /\ running # none
    /\ fd \in conn
    /\ conn' = conn \ {fd}
    /\ el' = el \ Of(fd)
    /\ polled' = polled \ {<<fd, "read">>}
    /\ pending' = Unpend({<<fd, "read">>})
    /\ ready' = ready \ Of(fd)
    /\ owner' = [owner EXCEPT ![fd] = IF @ = "none" THEN @ ELSE "freed"]
    /\ UNCHANGED <<running, api>>

\* tcpClose: CLR_EVENT deletes and frees both events, then close().  ae's
\* clientData is left pointing to one of them, if one was ever added.
tcpClose(fd) ==
    /\ running # none
    /\ fd \in conn
    /\ conn' = conn \ {fd}
    /\ el' = el \ Of(fd)
    /\ polled' = polled \ Of(fd)
    /\ pending' = Unpend(Of(fd))
    /\ ready' = ready \ Of(fd)
    /\ owner' = [owner EXCEPT ![fd] = IF @ = "none" THEN @ ELSE "freed"]
    /\ UNCHANGED <<running, api>>

Return ==
    /\ running # none
    /\ running' = none
    /\ UNCHANGED <<conn, el, polled, owner, pending, ready, api>>

-----------------------------------------------------------------------------
(* The loop. *)

\* The poll reports some of what it was asked for.
Poll ==
    /\ running = none
    /\ pending = {}
    /\ \E es \in SUBSET polled \ {{}} : pending' = es /\ ready' = es
    /\ UNCHANGED <<conn, el, polled, owner, running, api>>

\* libev runs every pending watcher with the event it was made for.
RunLibev ==
    /\ api = "libev"
    /\ running = none
    /\ \E e \in pending :
        /\ running' = e
        /\ pending' = pending \ {e}
    /\ UNCHANGED <<conn, el, polled, owner, ready, api>>

\* aeProcessEvents takes a descriptor, drops what is not in its mask any more
\* and calls eventIoHandler with clientData: once, because the procedures for
\* reading and writing are the same.
RunAe ==
    /\ api = "ae"
    /\ running = none
    /\ \E fd \in Fds :
        /\ pending \cap Of(fd) # {}
        /\ pending' = pending \ Of(fd)
        /\ running' = IF pending \cap polled \cap Of(fd) = {} THEN none ELSE <<fd, owner[fd]>>
    /\ UNCHANGED <<conn, el, polled, owner, ready, api>>

Handler ==
    \/ \E fd \in Fds : tcpInit(fd) \/ tcpClose(fd)
    \/ \E e \in Events : eventAdd(e) \/ eventAddFails(e) \/ eventDel(e)
    \/ Return

Next == Handler \/ Poll \/ RunLibev \/ RunAe

Spec == Init /\ [][Next]_vars

-----------------------------------------------------------------------------
(* Properties. *)

\* What the loop polls is an event that its connection takes for added, so that
\* eventDel, which trusts e->el, never leaves one behind; with libev it is all
\* of them, so that eventAdd, which trusts it too, never leaves one out.
PollsTheAdded ==
    /\ polled \subseteq el
    /\ api = "libev" => el \subseteq polled

\* With either loop an event that counts as added is polled.  (Not so on ae once
\* eventAdd has logged "Add Event error": the connection waits for nothing.)
AddedArePolled == el \subseteq polled

\* ae never hands a freed event to eventIoHandler: as long as it polls a
\* descriptor, clientData is an event of the connection that has it now, also
\* when the descriptor was closed and given out again.
NoFreedEvent == \A e \in polled : owner[e[1]] \in Kinds

\* With libev a handler runs only for an event that is added now, and that the poll has
\* reported for this very connection: no handler of an event that an earlier
\* handler of the same poll deleted, or of a freed or a reused descriptor.
RunsTheReady ==
    [][api = "libev" /\ running' # running /\ running' # none =>
        running' \in el \cap ready]_vars

\* "only support libev, ae now" (README): the loop is interchangeable.  A
\* handler runs only for an event that is added.
RunsTheAdded ==
    [][running' # running /\ running' # none => running' \in el]_vars
=============================================================================
