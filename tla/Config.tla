------------------------------- MODULE Config -------------------------------
(***************************************************************************)
(* The configuration of a program: defaults (configNew), overwritten by    *)
(* the JSON file that -c names (configLoad), overwritten by the options    *)
(* (configParse).  A command line is a sequence of options with their      *)
(* arguments, a file a sequence of typed entries; NULL is a text here.     *)
(***************************************************************************)
EXTENDS Integers, Sequences

CONSTANTS
    Number,     \* the texts that begin with a numeral, with its value
    Decimal,    \* the numeral of an int
    IntSpan,    \* how many values an int has, 2^32 in the build
    BadFiles    \* the log files that cannot be opened

NULL == "NULL"
INT_MIN == -2147483647 - 1
MODE_TCP_ONLY == 1
MODE_UDP_ONLY == 2
MODE_TCP_AND_UDP == 3

\* configEnumGetValue in loglevel_enum; a name stands for its spellings in
\* upper and lower case.
loglevel_enum == [debug |-> 0, info |-> 1, notice |-> 2, warning |-> 3, error |-> 4]
configEnumGetValue(name) ==
    IF name \in DOMAIN loglevel_enum THEN loglevel_enum[name] ELSE INT_MIN

\* A JSON integer has 64 bits; what takes an int keeps the lower half.
ToInt(n) == ((n + IntSpan \div 2) % IntSpan) - (IntSpan \div 2)

\* Text and numbers: atoi reads the numeral a text begins with, and takes one
\* that begins with none for 0.
atoi(s) == IF s \in DOMAIN Number THEN Number[s] ELSE 0
xs_itoa(n) == Decimal[ToInt(n)]

\* testLogfile.
testLogfile(file) == file \notin BadFiles

\* configNew: the texts and the numbers of xsocksConfig.
configNew ==
    [text |-> [pidfile |-> NULL, remote_addr |-> "127.0.0.1", local_addr |-> NULL,
               password |-> "foobar", tunnel_address |-> "8.8.8.8:53", key |-> NULL,
               method |-> "aes-256-cfb", logfile |-> NULL, acl |-> NULL],
     num |-> [daemonize |-> 0, remote_port |-> 8388, local_port |-> 1080,
              timeout |-> 60, fast_open |-> 0, reuse_port |-> 0,
              mode |-> MODE_TCP_ONLY, mtu |-> 0, loglevel |-> 2,
              logfile_line |-> 0, use_syslog |-> 1, ipv6_first |-> 0,
              ipv6_only |-> 1, no_delay |-> 0]]

-----------------------------------------------------------------------------
(* configLoad.  An entry has a name, a JSON type, and its text or number. *)

\* Three names of the file differ from those of xsocksConfig, which the file
\* may not use then.
Renamed == [server |-> "remote_addr", server_port |-> "remote_port",
            local_address |-> "local_addr"]
KeyOf(name) ==
    IF name \in DOMAIN Renamed THEN Renamed[name]
    ELSE IF \E n \in DOMAIN Renamed : name = Renamed[n] THEN "unknown" ELSE name

Ignored == {"port_password", "user"}
MustBeBoolean == {"fast_open", "reuse_port", "logfile_line", "daemonize",
                  "ipv6_first", "ipv6_only", "use_syslog", "no_delay"}
Modes == [tcp_only |-> MODE_TCP_ONLY, tcp_and_udp |-> MODE_TCP_AND_UDP,
          udp_only |-> MODE_UDP_ONLY]

\* No numeral is a mode or no text at all, and "" is as good as no log file.
ASSUME ConfigAssumption ==
    /\ IntSpan \in Nat \ {0}
    /\ \A s \in DOMAIN Number : Number[s] \in Int
    /\ \A n \in DOMAIN Decimal : Decimal[n] \in STRING \ ({NULL} \cup DOMAIN Modes)
    /\ BadFiles \subseteq STRING \ {NULL, ""}

\* What getopt_long and json_parse hand over: an argument or a JSON string is
\* never NULL, and an integer has its numeral.
CommandLine(args) == args \in Seq([opt : STRING, arg : STRING \ {NULL}])
JsonFile(file) ==
    /\ file.readable \in BOOLEAN
    /\ file.entries \in
        Seq([name : STRING, type : {"string", "integer", "boolean", "null", "other"},
             text : STRING \ {NULL}, num : Int])
    /\ \A i \in DOMAIN file.entries :
        file.entries[i].type = "integer" => ToInt(file.entries[i].num) \in DOMAIN Decimal

IsText(k) == k \in DOMAIN configNew.text
IsNum(k) == k \in DOMAIN configNew.num

\* Read with to_string, although mode and loglevel become numbers.
ReadAsText(k) == IsText(k) \/ k \in {"mode", "loglevel"}

to_integer(e) ==
    IF e.type = "string" THEN atoi(e.text)
    ELSE IF e.type = "integer" THEN ToInt(e.num) ELSE IF e.type = "null" THEN 0 ELSE e.num

to_string(e) ==
    IF e.type = "string" THEN e.text ELSE IF e.type = "integer" THEN xs_itoa(e.num) ELSE NULL

\* The entry ends the program: a bad directive, a type that the entry cannot
\* have or the conversions refuse, a level that does not exist (null is even
\* handed to strcasecmp), a log file that cannot be opened.
BadEntry(e) ==
    LET k == KeyOf(e.name)
    IN  \/ e.name \notin Ignored /\ ~IsText(k) /\ ~IsNum(k)
        \/ e.name \in MustBeBoolean /\ e.type # "boolean"
        \/ e.name = "mtu" /\ e.type # "integer"
        \/ ReadAsText(k) /\ e.type \in {"boolean", "other"}
        \/ IsNum(k) /\ e.type = "other"
        \/ /\ k = "loglevel" /\ e.type \in {"string", "integer", "null"}
           /\ configEnumGetValue(to_string(e)) = INT_MIN
        \/ /\ k = "logfile" /\ e.type \in {"string", "integer"}
           /\ ~testLogfile(to_string(e))

\* An unknown mode is ignored.
ModeOf(s, mode) ==
    IF s = NULL THEN MODE_TCP_ONLY ELSE IF s \in DOMAIN Modes THEN Modes[s] ELSE mode

\* The number that an entry gives the key k.
NumLoaded(k, e, old) ==
    IF k = "mode" THEN ModeOf(to_string(e), old)
    ELSE IF k = "loglevel" THEN configEnumGetValue(to_string(e)) ELSE to_integer(e)

\* What one entry does to the configuration; those that are ignored have no key.
LoadEntry(c, e) ==
    LET k == KeyOf(e.name)
    IN  [text |-> IF IsText(k) THEN [c.text EXCEPT ![k] = to_string(e)] ELSE c.text,
         num |-> IF IsNum(k) THEN [c.num EXCEPT ![k] = NumLoaded(k, e, @)] ELSE c.num]

\* The file cannot be read or parsed, or has an entry that ends the program.
BadFile(file) == ~file.readable \/ \E i \in DOMAIN file.entries : BadEntry(file.entries[i])

configLoad(c, file) ==
    LET loaded[n \in 0..Len(file.entries)] ==
            IF n = 0 THEN c ELSE LoadEntry(loaded[n - 1], file.entries[n])
    IN  loaded[Len(file.entries)]

-----------------------------------------------------------------------------
(* configParse. *)

\* The options that take a text, take a number, and stand for a number.
TextOption == [key |-> "key", logfile |-> "logfile", s |-> "remote_addr",
               b |-> "local_addr", L |-> "tunnel_address", k |-> "password",
               password |-> "password", f |-> "pidfile", m |-> "method", acl |-> "acl"]
NumOption == [mtu |-> "mtu", p |-> "remote_port", l |-> "local_port", t |-> "timeout"]
FlagOption == [fast_open |-> "fast_open", no_delay |-> "no_delay",
               reuse_port |-> "reuse_port", f |-> "daemonize", u |-> "mode",
               U |-> "mode", v |-> "loglevel", ipv6 |-> "ipv6_first"]
FlagValue == [fast_open |-> 1, no_delay |-> 1, reuse_port |-> 1, f |-> 1, ipv6 |-> 1,
              u |-> MODE_TCP_AND_UDP, U |-> MODE_UDP_ONLY, v |-> loglevel_enum["debug"]]

\* The local variables of configParse before the first option.
NoOptions ==
    [text |-> [k \in DOMAIN configNew.text |-> NULL],
     num |-> [k \in DOMAIN configNew.num |-> -1],
     conf_path |-> FALSE, err |-> FALSE, help |-> FALSE, version |-> FALSE]

\* An option sets err, which no later option clears.
BadOption(a) ==
    \/ a.opt = "?"
    \/ a.opt = "loglevel" /\ configEnumGetValue(a.arg) = INT_MIN
    \/ a.opt = "logfile" /\ ~testLogfile(a.arg)

\* Defect: an option that is right clears the error of an earlier one.
ErrAfterForgives(err, a) == BadOption(a)

ErrAfter(err, a) == err \/ BadOption(a)

\* One round of the getopt_long loop.  printVersion exits there and then.
ParseOption(o, a) ==
    IF o.version THEN o ELSE
    [o EXCEPT
        !.text = IF a.opt \in DOMAIN TextOption THEN [@ EXCEPT ![TextOption[a.opt]] = a.arg] ELSE @,
        !.num = IF a.opt \in DOMAIN NumOption THEN [@ EXCEPT ![NumOption[a.opt]] = atoi(a.arg)]
                ELSE IF a.opt \in DOMAIN FlagOption THEN [@ EXCEPT ![FlagOption[a.opt]] = FlagValue[a.opt]]
                ELSE IF a.opt = "loglevel" THEN [@ EXCEPT !.loglevel = configEnumGetValue(a.arg)]
                ELSE @,
        !.conf_path = @ \/ a.opt = "c",
        !.err = ErrAfter(@, a),
        !.help = @ \/ a.opt = "h",
        !.version = a.opt = "V"]

\* The whole getopt_long loop.
Options(args) ==
    LET after[n \in 0..Len(args)] ==
            IF n = 0 THEN NoOptions ELSE ParseOption(after[n - 1], args[n])
    IN  after[Len(args)]

configStringDup(d, s) == IF s # NULL THEN s ELSE d

\* Defect: a zero from the command line counts as not given.
configIntDupPositive(d, s) == IF s > 0 THEN s ELSE d

configIntDup(d, s) == IF s > -1 THEN s ELSE d

\* How configParse ends: "ok", or with the end of the program.
Outcome(o, file) ==
    IF o.version THEN "version"
    ELSE IF (o.conf_path /\ BadFile(file)) \/ o.err THEN "fatal"
    ELSE IF o.help THEN "usage" ELSE "ok"

\* The options go over what the file has set.  tunnel_address stands for the
\* host and the port that it is split into.
Overridden(c, o) ==
    [outcome |-> "ok",
     text |-> [k \in DOMAIN c.text |-> configStringDup(c.text[k], o.text[k])],
     num |-> [k \in DOMAIN c.num |-> configIntDup(c.num[k], o.num[k])]]

configParse(args, file) ==
    LET o == Options(args)
    IN  IF Outcome(o, file) # "ok"
        THEN [outcome |-> Outcome(o, file), text |-> configNew.text, num |-> configNew.num]
        ELSE Overridden(IF o.conf_path THEN configLoad(configNew, file) ELSE configNew, o)

-----------------------------------------------------------------------------
(* What the configuration is meant to be, without the loops: the last option *)
(* for a key, else the last entry of the file, else the default.             *)

Latest(S) == CHOOSE i \in S : \A j \in S : j <= i

\* The options and the entries that give the key k a value.  A number below
\* zero is as good as none, and so is a mode that does not exist.
SetsText(a, k) == a.opt \in DOMAIN TextOption /\ TextOption[a.opt] = k
SetsNum(a, k) ==
    \/ a.opt \in DOMAIN NumOption /\ NumOption[a.opt] = k
    \/ a.opt \in DOMAIN FlagOption /\ FlagOption[a.opt] = k
    \/ a.opt = "loglevel" /\ k = "loglevel"
NumGiven(a) ==
    IF a.opt \in DOMAIN NumOption THEN atoi(a.arg)
    ELSE IF a.opt = "loglevel" THEN configEnumGetValue(a.arg) ELSE FlagValue[a.opt]
Entries(file, k) ==
    {i \in DOMAIN file.entries :
        /\ KeyOf(file.entries[i].name) = k
        /\ k = "mode" =>
            \/ file.entries[i].type = "null"
            \/ file.entries[i].type = "string" /\ file.entries[i].text \in DOMAIN Modes}

FromFile(args, file, k) ==
    IF (\E i \in DOMAIN args : args[i].opt = "c") /\ Entries(file, k) # {}
    THEN LoadEntry(configNew, file.entries[Latest(Entries(file, k))])
    ELSE configNew

TextMeant(args, file, k) ==
    LET given == {i \in DOMAIN args : SetsText(args[i], k)}
    IN  IF given # {} THEN args[Latest(given)].arg ELSE FromFile(args, file, k).text[k]

NumMeant(args, file, k) ==
    LET given == {i \in DOMAIN args : SetsNum(args[i], k)}
    IN  IF given # {} /\ NumGiven(args[Latest(given)]) >= 0
        THEN NumGiven(args[Latest(given)])
        ELSE FromFile(args, file, k).num[k]
=============================================================================
