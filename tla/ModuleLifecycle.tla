-------------------------- MODULE ModuleLifecycle --------------------------
(***************************************************************************)
(* moduleMain: the life of xs-server, xs-local, xs-redir and xs-tunnel,    *)
(* from the command line over daemon, pid file, signal handlers and        *)
(* listeners to the event loop and the way out.  One service is started    *)
(* several times, also while an earlier start is still running; i is the   *)
(* i-th start.  Between any two steps the process may be signalled or      *)
(* crash, and another start may act on the same pid file and port.         *)
(***************************************************************************)
EXTENDS Config

CONSTANTS
    MaxStarts,   \* bound: how often a service is started
    Scenarios    \* what is run: a program on a loop with a command line and a
                 \* file, and the bounds: its starts and its signals

ASSUME LifeAssumption ==
    /\ MaxStarts \in Nat
    /\ \A s \in Scenarios : s.starts <= MaxStarts /\ CommandLine(s.args) /\ JsonFile(s.file)

VARIABLES
    sc,        \* the scenario
    pc,        \* the step a start is about to take
    config,    \* mod->config
    forked,    \* xs_daemonize has left the process for its child
    sig,       \* the exit signal: "default", "installed" or "armed"
    stop,      \* ae: eventLoop->stop; libev: a signal waits in the loop
    linked,    \* the file that createPidFile has opened, and not written to, is
               \* the one at the path
    pidfile,   \* what the pid file holds
    tcp,       \* the start that listens on the TCP port
    udp,       \* the starts that are bound to the UDP port
    status,    \* how a start ended
    asked,     \* where an exit signal that is handled has met the process
    alone,     \* no start has yet begun while another one was alive
    signals    \* exit signals sent so far

shared == <<pidfile, tcp, udp>>
ghosts == <<asked, alone, signals>>
vars == <<sc, pc, config, forked, sig, stop, linked, shared, status, ghosts>>

Starts == 1..MaxStarts
Nobody == 0
NoFile == 0
EmptyFile == 1

\* A start before and after its fork has two process ids.
PidsOf(i) == {2 * i, 2 * i + 1}
getpid(i) == 2 * i + (IF forked[i] THEN 1 ELSE 0)

Alive(i) == pc[i] \notin {"off", "ended"}
ByLibev == sc.api = "libev"

\* Defect: the pid is written before the process becomes a daemon.
StartupPidFirst == <<"configure", "open", "write", "daemonize", "handlers", "arm",
                     "crypto", "listen", "run">>

\* moduleInit and moduleRun.
Startup == <<"configure", "daemonize", "open", "write", "handlers", "arm",
             "crypto", "listen", "run">>

After(step) == Startup[(CHOOSE k \in DOMAIN Startup : Startup[k] = step) + 1]

InLoop == {"check", "enter", "blocked"}
WayOut == {"close", "unlink", "disarm", "free"}
Steps == {"off", "hung", "ended"} \cup {Startup[k] : k \in DOMAIN Startup} \cup InLoop \cup WayOut

TypeOK ==
    /\ sc \in Scenarios
    /\ pc \in [Starts -> Steps]
    /\ config = [i \in Starts |-> config[i]]
    /\ forked \in [Starts -> BOOLEAN]
    /\ sig \in [Starts -> {"default", "installed", "armed"}]
    /\ stop \in [Starts -> BOOLEAN]
    /\ linked \in [Starts -> BOOLEAN]
    /\ pidfile \in {NoFile, EmptyFile} \cup UNION {PidsOf(i) : i \in Starts}
    /\ tcp \in Starts \cup {Nobody}
    /\ udp \subseteq Starts
    /\ status \in [Starts -> {"none", "refused", "failed", "killed", "crashed", "clean"}]
    /\ asked \in [Starts -> {"no", "busy", "waiting"}]
    /\ alone \in BOOLEAN
    /\ signals \in Nat

Init ==
    /\ sc \in Scenarios
    /\ pc = [i \in Starts |-> "off"]
    /\ config = [i \in Starts |-> [outcome |-> "none", text |-> configNew.text, num |-> configNew.num]]
    /\ forked = [i \in Starts |-> FALSE]
    /\ sig = [i \in Starts |-> "default"]
    /\ stop = [i \in Starts |-> FALSE]
    /\ linked = [i \in Starts |-> FALSE]
    /\ pidfile = NoFile
    /\ tcp = Nobody
    /\ udp = {}
    /\ status = [i \in Starts |-> "none"]
    /\ asked = [i \in Starts |-> "no"]
    /\ alone = TRUE
    /\ signals = 0

Goto(i, step) ==
    /\ pc' = [pc EXCEPT ![i] = step]
    /\ UNCHANGED status

\* The process is gone; the kernel closes its sockets.
End(i, how) ==
    /\ pc' = [pc EXCEPT ![i] = "ended"]
    /\ status' = [status EXCEPT ![i] = how]
    /\ tcp' = IF tcp = i THEN Nobody ELSE tcp
    /\ udp' = udp \ {i}

-----------------------------------------------------------------------------
(* moduleInit. *)

Launch(i) ==
    /\ pc[i] = "off"
    /\ i <= sc.starts
    /\ \A j \in Starts : j < i => pc[j] # "off"
    /\ alone' = (alone /\ \A j \in Starts : ~Alive(j))
    /\ Goto(i, "configure")
    /\ UNCHANGED <<sc, config, forked, sig, stop, linked, shared, asked, signals>>

\* configParse has returned, and there is a password.
Acceptable(c) == c.outcome = "ok" /\ c.text.password # NULL

\* configParse, initLogger and the password.
Configure(i) ==
    /\ pc[i] = "configure"
    /\ LET c == configParse(sc.args, sc.file)
       IN  /\ config' = [config EXCEPT ![i] = c]
           /\ IF Acceptable(c)
              THEN Goto(i, After("configure")) /\ UNCHANGED <<tcp, udp>>
              ELSE End(i, "refused")
    /\ UNCHANGED <<sc, forked, sig, stop, linked, pidfile, ghosts>>

\* xs_daemonize: the parent exits, the child goes on.  The parent exits also
\* when there is no child.
Daemonize(i) ==
    /\ pc[i] = "daemonize"
    /\ \/ /\ forked' = [forked EXCEPT ![i] = config[i].num.daemonize # 0]
          /\ Goto(i, After("daemonize"))
          /\ UNCHANGED <<tcp, udp>>
       \/ config[i].num.daemonize # 0 /\ forked' = forked /\ End(i, "failed")
    /\ UNCHANGED <<sc, config, sig, stop, linked, pidfile, ghosts>>

HasPidFile(c) == c.text.pidfile \notin {NULL, ""}

\* Defect: a file that is there already is left alone.
CreatesNew(c) == HasPidFile(c) /\ pidfile = NoFile

Creates(c) == HasPidFile(c)

\* createPidFile: fopen with "w", which empties a file that is there.
OpenPidFile(i) ==
    /\ pc[i] = "open"
    /\ IF Creates(config[i])
       THEN \/ /\ pidfile' = EmptyFile
               /\ linked' = [linked EXCEPT ![i] = TRUE]
               /\ Goto(i, After("open"))
               /\ UNCHANGED <<tcp, udp>>
            \/ UNCHANGED <<pidfile, linked>> /\ End(i, "failed")
       ELSE UNCHANGED <<shared, linked>> /\ Goto(i, After("write"))
    /\ UNCHANGED <<sc, config, forked, sig, stop, ghosts>>

\* createPidFile: fclose writes the id to the file that was opened, which need
\* not be at the path any more.  A write that fails goes unnoticed.
WritePidFile(i) ==
    /\ pc[i] = "write"
    /\ \/ /\ pidfile' = IF linked[i] THEN getpid(i) ELSE pidfile
          /\ linked' = [linked EXCEPT ![i] = FALSE]
       \/ UNCHANGED <<pidfile, linked>>
    /\ Goto(i, After("write"))
    /\ UNCHANGED <<sc, config, forked, sig, stop, tcp, udp, ghosts>>

\* eventLoopNew and setupSignalHandlers.  With ae sigaction comes first and the
\* entry of signals[] that the handler reads after it.
InstallHandlers(i) ==
    /\ pc[i] = "handlers"
    /\ sig' = [sig EXCEPT ![i] = IF ByLibev THEN "armed" ELSE "installed"]
    /\ Goto(i, IF ByLibev THEN After("arm") ELSE After("handlers"))
    /\ UNCHANGED <<sc, config, forked, stop, linked, shared, ghosts>>

Arm(i) ==
    /\ pc[i] = "arm"
    /\ sig' = [sig EXCEPT ![i] = "armed"]
    /\ Goto(i, After("arm"))
    /\ UNCHANGED <<sc, config, forked, stop, linked, shared, ghosts>>

\* crypto_init may refuse the method or the key, init_acl the file.
InitCrypto(i) ==
    /\ pc[i] = "crypto"
    /\ \/ Goto(i, After("crypto")) /\ UNCHANGED <<tcp, udp>>
       \/ End(i, "failed")
    /\ UNCHANGED <<sc, config, forked, sig, stop, linked, pidfile, ghosts>>

-----------------------------------------------------------------------------
(* The hooks that listen: serverRun, localRun, redirRun, tunnelInit. *)

WantsTcp(c) ==
    sc.program \in {"server", "local", "redir"} /\ c.num.mode # MODE_UDP_ONLY
WantsUdp(c) ==
    sc.program \in {"server", "tunnel"} /\ c.num.mode # MODE_TCP_ONLY

\* Defect: the listeners are not looked at.
ListensBlind(t, u) == TRUE

\* if (!s.ts && !s.us) exit(EXIT_ERR).
Listens(t, u) == t \/ u

\* A TCP port has one listener; UDP sockets share theirs (SO_REUSEADDR).
\* Either may also fail for other reasons.
Listen(i) ==
    /\ pc[i] = "listen"
    /\ \E t \in {FALSE, WantsTcp(config[i]) /\ tcp = Nobody}, u \in {FALSE, WantsUdp(config[i])} :
        /\ sc.program = "tunnel" /\ config[i].text.tunnel_address = NULL => ~u
        /\ IF Listens(t, u)
           THEN /\ tcp' = IF t THEN i ELSE tcp
                /\ udp' = IF u THEN udp \cup {i} ELSE udp
                /\ Goto(i, After("listen"))
           ELSE End(i, "failed")
    /\ UNCHANGED <<sc, config, forked, sig, stop, linked, pidfile, ghosts>>

-----------------------------------------------------------------------------
(* eventLoopRun. *)

\* Defect: libev's loop begins without the signals that wait, too.
StopAtRunNever(i) == FALSE

\* aeMain begins with stop = 0; ev_run leaves a waiting signal alone.
StopAtRun(i) == ByLibev /\ stop[i]

RunLoop(i) ==
    /\ pc[i] = "run"
    /\ stop' = [stop EXCEPT ![i] = StopAtRun(i)]
    /\ Goto(i, "check")
    /\ UNCHANGED <<sc, config, forked, sig, linked, shared, ghosts>>

\* The loop looks for a reason to stop: with libev signalExitHandler runs here.
\* aeMain looks at the flag some time before it waits.
CheckStop(i) ==
    /\ pc[i] = "check"
    /\ Goto(i, IF stop[i] THEN "close" ELSE IF ByLibev THEN "blocked" ELSE "enter")
    /\ UNCHANGED <<sc, config, forked, sig, stop, linked, shared, ghosts>>

EnterPoll(i) ==
    /\ pc[i] = "enter"
    /\ Goto(i, "blocked")
    /\ UNCHANGED <<sc, config, forked, sig, stop, linked, shared, ghosts>>

\* libev's own descriptor for signals wakes it.
WakeBySignal(i) ==
    /\ pc[i] = "blocked"
    /\ ByLibev /\ stop[i]
    /\ Goto(i, "check")
    /\ UNCHANGED <<sc, config, forked, sig, stop, linked, shared, ghosts>>

\* A socket or a timer is served, and the loop looks again.
Traffic(i) ==
    /\ pc[i] = "blocked"
    /\ Goto(i, "check")
    /\ UNCHANGED <<sc, config, forked, sig, stop, linked, shared, ghosts>>

-----------------------------------------------------------------------------
(* moduleExit. *)

\* hook.exit.
CloseListeners(i) ==
    /\ pc[i] = "close"
    /\ tcp' = IF tcp = i THEN Nobody ELSE tcp
    /\ udp' = udp \ {i}
    /\ Goto(i, "unlink")
    /\ UNCHANGED <<sc, config, forked, sig, stop, linked, pidfile, ghosts>>

\* unlink(config->pidfile), whoever wrote it; that of "" fails.
Unlinked(c, old) == IF HasPidFile(c) THEN NoFile ELSE old

Unlink(i) ==
    /\ pc[i] = "unlink"
    /\ pidfile' = Unlinked(config[i], pidfile)
    /\ linked' = [j \in Starts |-> linked[j] /\ ~HasPidFile(config[i])]
    /\ Goto(i, "disarm")
    /\ UNCHANGED <<sc, config, forked, sig, stop, tcp, udp, ghosts>>

\* listRelease(sigexit_events): ae empties the entry of signals[] before it
\* restores the default action.
Disarm(i) ==
    /\ pc[i] = "disarm"
    /\ sig' = [sig EXCEPT ![i] = IF ByLibev THEN "default" ELSE "installed"]
    /\ Goto(i, "free")
    /\ UNCHANGED <<sc, config, forked, stop, linked, shared, ghosts>>

\* The rest of moduleExit, and return from main.
Free(i) ==
    /\ pc[i] = "free"
    /\ sig' = [sig EXCEPT ![i] = "default"]
    /\ End(i, "clean")
    /\ UNCHANGED <<sc, config, forked, stop, linked, pidfile, ghosts>>

-----------------------------------------------------------------------------
(* Signals and crashes. *)

\* SIGINT, SIGTERM or SIGQUIT reaches a living process.
Sent(i) ==
    /\ Alive(i) /\ pc[i] # "hung"
    /\ signals < sc.signals
    /\ signals' = signals + 1

\* The default action; with ae also a handler that finds no event.
SignalKills(i) ==
    /\ Sent(i)
    /\ sig[i] # "armed"
    /\ End(i, "killed")
    /\ UNCHANGED <<sc, config, forked, sig, stop, linked, pidfile, asked, alone>>

Asked(i) ==
    asked' = [asked EXCEPT ![i] =
        IF pc[i] = "blocked" THEN "waiting" ELSE IF @ = "no" THEN "busy" ELSE @]

\* libev notes the signal for its loop.
SignalNoted(i) ==
    /\ Sent(i)
    /\ sig[i] = "armed" /\ ByLibev
    /\ stop' = [stop EXCEPT ![i] = TRUE]
    /\ Asked(i)
    /\ UNCHANGED <<sc, pc, config, forked, sig, linked, shared, status, alone>>

\* ae: signalExitHandler runs at once, logs and calls aeStop; a poll that it
\* interrupts returns.
SignalHandled(i) ==
    /\ Sent(i)
    /\ sig[i] = "armed" /\ ~ByLibev
    /\ stop' = [stop EXCEPT ![i] = TRUE]
    /\ Goto(i, IF pc[i] = "blocked" THEN "check" ELSE pc[i])
    /\ Asked(i)
    /\ UNCHANGED <<sc, config, forked, sig, linked, shared, alone>>

\* ae: logging is not safe in a signal handler; one that interrupts the
\* allocator or stdio may wait for itself for ever.
SignalHangs(i) ==
    /\ Sent(i)
    /\ sig[i] = "armed" /\ ~ByLibev
    /\ pc[i] # "blocked"
    /\ Goto(i, "hung")
    /\ UNCHANGED <<sc, config, forked, sig, stop, linked, shared, asked, alone>>

\* SIGKILL, or a fault, which sigsegvHandler reports before it kills the process.
Crash(i) ==
    /\ Alive(i)
    /\ End(i, "crashed")
    /\ UNCHANGED <<sc, config, forked, sig, stop, linked, pidfile, ghosts>>

Step(i) ==
    \/ Configure(i) \/ Daemonize(i) \/ OpenPidFile(i) \/ WritePidFile(i)
    \/ InstallHandlers(i) \/ Arm(i) \/ InitCrypto(i) \/ Listen(i)
    \/ RunLoop(i) \/ CheckStop(i) \/ EnterPoll(i) \/ WakeBySignal(i)
    \/ CloseListeners(i) \/ Unlink(i) \/ Disarm(i) \/ Free(i)

Next == \E i \in Starts :
    \/ Launch(i) \/ Step(i) \/ Traffic(i) \/ Crash(i)
    \/ SignalKills(i) \/ SignalNoted(i) \/ SignalHandled(i) \/ SignalHangs(i)

Spec == Init /\ [][Next]_vars

\* The kernel runs a process that is not waiting.
FairSpec == Spec /\ \A i \in Starts : WF_vars(Step(i))

-----------------------------------------------------------------------------
(* Properties. *)

\* If the pid file names a start, it is by the id of the process that went on
\* as the daemon, and that process has not left by moduleExit: a clean exit
\* takes its pid along, whatever other starts do to the file meanwhile.
PidFileSound ==
    \A i \in Starts : pidfile \in PidsOf(i) => pidfile = getpid(i) /\ status[i] # "clean"

\* As long as starts follow each other, a running process is the one that the
\* pid file names, whatever an earlier one left behind when it was killed,
\* crashed or failed at any step of createPidFile and after.  If its write has
\* failed the file is empty: it never names another process.
NamedWhenAlone ==
    alone =>
        \A i \in Starts :
            pc[i] \in {"handlers", "arm", "crypto", "listen", "run"} \cup InLoop /\ HasPidFile(config[i])
                => pidfile = IF linked[i] THEN EmptyFile ELSE getpid(i)

\* A command line that is wrong, or only asks for help or the version, a file
\* that is wrong and a missing password do nothing to a running service: the
\* start leaves no process, does not empty the pid file, and leaves no pid and
\* no listener.  (A log file that it names is created all the same.)
ShouldBeRefused ==
    \/ \E k \in DOMAIN sc.args : BadOption(sc.args[k]) \/ sc.args[k].opt \in {"V", "h"}
    \/ (\E k \in DOMAIN sc.args : sc.args[k].opt = "c") /\ BadFile(sc.file)
    \/ TextMeant(sc.args, sc.file, "password") = NULL
RefusedLeavesNoTrace ==
    \A i \in Starts :
        forked[i] \/ linked[i] \/ pidfile \in PidsOf(i) \/ tcp = i \/ i \in udp => ~ShouldBeRefused

\* A process in its event loop serves something: whichever of the program's
\* listeners the mode asks for and the port gives away, one of them is its own.
ServesSomething == \A i \in Starts : pc[i] \in InLoop => tcp = i \/ i \in udp

\* The loops over options and entries amount to the precedence of the last
\* option over the last entry over the default, key by key.
Precedence ==
    \A i \in Starts : pc[i] = After("configure") =>
        /\ \A k \in DOMAIN config[i].text :
            config[i].text[k] = TextMeant(sc.args, sc.file, k)
        /\ \A k \in DOMAIN config[i].num :
            config[i].num[k] = NumMeant(sc.args, sc.file, k)

\* "scheduling shutdown" (signalExitHandler): with libev a signal that comes
\* after the handlers are set ends the process, also one that comes before the
\* loop or while it is about to wait; with ae at least one that interrupts the
\* loop's wait does, unless a second one meets the way out.
SignalStops ==
    \A i \in Starts :
        (IF ByLibev THEN asked[i] # "no" ELSE asked[i] = "waiting")
            ~> pc[i] \in {"ended", "hung"}

\* The same for every signal that is handled: it does not hold with ae, which
\* forgets one that comes before aeMain, and may wait once more after one that
\* comes just before its poll.
EverySignalStops ==
    \A i \in Starts : asked[i] # "no" ~> pc[i] \in {"ended", "hung"}

\* "Process id save in file" (moduleRun): it does not hold when starts
\* overlap, because a start writes the file before it knows whether it can
\* listen, and an exit closes the port before it removes the file; nor when
\* the write of the id fails.
NamedWhileRunning ==
    \A i \in Starts : pc[i] \in InLoop /\ HasPidFile(config[i]) => pidfile = getpid(i)
=============================================================================
