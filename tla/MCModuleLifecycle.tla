------------------------- MODULE MCModuleLifecycle -------------------------
(* ModuleLifecycle for TLC. *)
EXTENDS ModuleLifecycle

Numbers == [s \in {"0", "30", "30s", "-1"} |->
    CASE s = "0" -> 0 [] s \in {"30", "30s"} -> 30 [] s = "-1" -> -1]
Decimals == [n \in {0, 30} |-> IF n = 0 THEN "0" ELSE "30"]
Unwritable == {"/bad"}

Opt(o, a) == [opt |-> o, arg |-> a]
Text(n, s) == [name |-> n, type |-> "string", text |-> s, num |-> 0]
Num(n, t, v) == [name |-> n, type |-> t, text |-> "", num |-> v]
File(entries) == [readable |-> TRUE, entries |-> entries]
NoConf == [readable |-> FALSE, entries |-> <<>>]

-----------------------------------------------------------------------------
(* Configurations: two options of every kind in any order, and files with    *)
(* entries that are repeated, overridden, converted, ignored or refused.     *)

GivenOptions == {Opt("c", "file"), Opt("t", "0"), Opt("t", "-1"), Opt("f", "/pid"),
            Opt("k", "word"), Opt("u", ""), Opt("U", ""), Opt("v", ""),
            Opt("loglevel", "error"), Opt("loglevel", "loud"),
            Opt("logfile", "/bad"), Opt("logfile", "/log"),
            Opt("h", ""), Opt("V", ""), Opt("?", "")}

Lines == {<<>>} \cup {<<a>> : a \in GivenOptions} \cup {<<a, b>> : a, b \in GivenOptions}
    \cup {<<Opt("c", "file"), a, b>> : a, b \in {o \in GivenOptions : o.opt \in {"t", "u", "loglevel", "v", "f"}}}

Files ==
    {NoConf,
     File(<<Num("timeout", "integer", 30), Text("timeout", "30s"), Text("mode", "udp_only")>>),
     File(<<Text("timeout", "30"), Text("mode", "both"), Text("user", "me")>>),
     File(<<Num("key", "integer", 65566), Num("timeout", "integer", 65536)>>),
     File(<<Num("password", "null", 0), Text("loglevel", "debug")>>),
     File(<<Num("daemonize", "boolean", 1), Text("pidfile", "/pid"), Num("key", "integer", 30)>>),
     File(<<Text("daemonize", "yes")>>),
     File(<<Text("logfile", "/bad")>>),
     File(<<Text("loglevel", "loud")>>),
     File(<<Text("colour", "red")>>),
     File(<<Text("remote_addr", "::1")>>)}

Configurations ==
    [program : {"server"}, api : {"libev"}, args : Lines, file : Files,
     starts : {1}, signals : {0}]

-----------------------------------------------------------------------------
(* Lives: a daemon with a pid file, one in the foreground, and one without,  *)
(* started while another start is anywhere, signalled and crashed.           *)

Daemon == <<Opt("f", "/pid"), Opt("u", "")>>
Foreground == <<Opt("c", "file")>>
WithPidFile == File(<<Text("pidfile", "/pid"), Text("mode", "udp_only")>>)
WithoutTunnel == File(<<Num("tunnel_address", "null", 0), Text("pidfile", ""), Text("mode", "tcp_and_udp")>>)

Lives ==
    [program : {"server", "local", "redir", "tunnel"}, api : {"libev", "ae"},
     args : {Daemon}, file : {NoConf}, starts : {2}, signals : {2}]
    \cup
    [program : {"server", "tunnel"}, api : {"libev", "ae"}, args : {Foreground},
     file : {WithPidFile, WithoutTunnel}, starts : {2}, signals : {2}]

AllScenarios == Configurations \cup Lives
=============================================================================
