------------------------ MODULE ModuleLifecycleProof ------------------------
(***************************************************************************)
(* ModuleLifecycle proved for any number of starts, any configurations and *)
(* any number of signals and crashes, and Config for command lines and     *)
(* files of any length.                                                    *)
(***************************************************************************)
EXTENDS ModuleLifecycle, WellFoundedInduction, TLAPS

-----------------------------------------------------------------------------
(* Induction, by the least number of a set, and what recursion defines.      *)

Less == {ss \in Nat \X Nat : ss[1] < ss[2]}

LEMMA LeastNumber ==
    ASSUME NEW T \in SUBSET Nat, T # {}
    PROVE  \E x \in T : \A y \in T : x <= y
  <1>1. IsWellFoundedOn(Less, Nat)
    BY NatLessThanWellFounded DEF OpToRel, Less
  <1>2. PICK x \in T : \A y \in T : ~(<<y, x>> \in Less)
    BY <1>1, WFMin
  <1>3. \A y \in T : ~(y < x)
    BY <1>2 DEF Less
  <1> QED BY <1>3

LEMMA Induction ==
    ASSUME NEW S, 0 \in S, \A n \in Nat : n \in S => n + 1 \in S
    PROVE  Nat \subseteq S
  <1>1. SUFFICES ASSUME Nat \ S # {} PROVE FALSE
    OBVIOUS
  <1>2. PICK x \in Nat \ S : \A y \in Nat \ S : x <= y
    BY <1>1, LeastNumber
  <1>3. x # 0 /\ x - 1 \in Nat
    BY <1>2
  <1>4. x - 1 \in S
    BY <1>2, <1>3
  <1>5. (x - 1) + 1 \in S
    BY <1>3, <1>4
  <1> QED BY <1>2, <1>5

\* The latest of some positions is one of them, and none is later.
LEMMA LatestIs ==
    ASSUME NEW n \in Nat, NEW S \in SUBSET (1..n), S # {}
    PROVE  Latest(S) \in S /\ \A j \in S : j <= Latest(S)
  <1>0. \A x \in S : x \in Int /\ n - x \in Nat
    OBVIOUS
  <1>1. {n - x : x \in S} \in SUBSET Nat /\ {n - x : x \in S} # {}
    BY <1>0, Zenon
  <1>2. PICK d \in {n - x : x \in S} : \A e \in {n - x : x \in S} : d <= e
    BY <1>1, LeastNumber
  <1>3. PICK x \in S : d = n - x
    BY <1>2
  <1>4. \A j \in S : n - x <= n - j
    BY <1>2, <1>3
  <1>5. \A j \in S : j <= x
    BY <1>0, <1>4
  <1> QED BY <1>5 DEF Latest

\* A loop over 1..m from c, whose round n takes t to G[t, n].
Loops(T, c, m, G) ==
    \E g \in [0..m -> T] : g[0] = c /\ \A n \in 1..m : g[n] = G[<<g[n - 1], n>>]

LEMMA LoopExists ==
    ASSUME NEW T, NEW c \in T, NEW m \in Nat, NEW G \in [T \X (1..m) -> T]
    PROVE  Loops(T, c, m, G)
  <1> DEFINE Upto(k) == \E g \in [0..k -> T] :
                            g[0] = c /\ \A n \in 1..k : g[n] = G[<<g[n - 1], n>>]
             S == {k \in Nat : k <= m => Upto(k)}
  <1>1. Upto(0)
    <2>1. [n \in 0..0 |-> c] \in [0..0 -> T]
      OBVIOUS
    <2> WITNESS [n \in 0..0 |-> c] \in [0..0 -> T]
    <2> QED OBVIOUS
  <1>2. ASSUME NEW k \in Nat, k \in S PROVE k + 1 \in S
    <2> SUFFICES ASSUME k + 1 <= m PROVE Upto(k + 1)
      OBVIOUS
    <2>1. k <= m /\ Upto(k)
      BY <1>2
    <2>2. PICK g \in [0..k -> T] : g[0] = c /\ \A n \in 1..k : g[n] = G[<<g[n - 1], n>>]
      BY <2>1
    <2> DEFINE h == [n \in 0..(k + 1) |-> IF n <= k THEN g[n] ELSE G[<<g[k], k + 1>>]]
    <2>3. g[k] \in T /\ k + 1 \in 1..m
      OBVIOUS
    <2>4. G[<<g[k], k + 1>>] \in T
      BY <2>3
    <2>5. h \in [0..(k + 1) -> T]
      BY <2>4
    <2>6. \A n \in 0..k : h[n] = g[n]
      OBVIOUS
    <2>7. h[k + 1] = G[<<g[k], k + 1>>]
      OBVIOUS
    <2> HIDE DEF h
    <2>8. ASSUME NEW n \in 1..(k + 1) PROVE h[n] = G[<<h[n - 1], n>>]
      <3>1. CASE n = k + 1
        <4>1. n - 1 = k /\ h[k] = g[k]
          BY <2>6, <3>1
        <4> QED BY <2>7, <3>1, <4>1
      <3>2. CASE n # k + 1
        <4>1. n \in 1..k /\ n \in 0..k /\ n - 1 \in 0..k
          BY <3>2
        <4>2. h[n] = g[n] /\ h[n - 1] = g[n - 1]
          BY <2>6, <4>1
        <4> QED BY <2>2, <4>1, <4>2
      <3> QED BY <3>1, <3>2
    <2>9. h[0] = c
      BY <2>2, <2>6
    <2> QED BY <2>5, <2>8, <2>9
  <1>3. Nat \subseteq S
    <2> HIDE DEF Upto
    <2>1. 0 \in S
      BY <1>1
    <2> HIDE DEF S
    <2> QED BY <2>1, <1>2, Induction
  <1> QED BY <1>3 DEF Loops

-----------------------------------------------------------------------------
(* The loop over the options. *)

TextKeys == DOMAIN configNew.text
NumKeys == DOMAIN configNew.num
Texts == STRING \cup {NULL} \cup {configNew.text[k] : k \in TextKeys}
GivenOpt == [opt : STRING, arg : STRING \ {NULL}]
OptionSet == [text : [TextKeys -> Texts], num : [NumKeys -> Int], conf_path : BOOLEAN,
              err : BOOLEAN, help : BOOLEAN, version : BOOLEAN]

LEMMA Keys ==
    /\ TextKeys = {"pidfile", "remote_addr", "local_addr", "password", "tunnel_address", "key",
                   "method", "logfile", "acl"}
    /\ NumKeys = {"daemonize", "remote_port", "local_port", "timeout", "fast_open", "reuse_port",
                  "mode", "mtu", "loglevel", "logfile_line", "use_syslog", "ipv6_first",
                  "ipv6_only", "no_delay"}
  BY SMT DEF TextKeys, NumKeys, configNew

LEMMA NumbersOf ==
    /\ \A s \in STRING : atoi(s) \in Int
    /\ \A s : configEnumGetValue(s) \in Int
  <1>1. INT_MIN \in Int
    BY SMT DEF INT_MIN
  <1>2. \A s \in DOMAIN loglevel_enum : loglevel_enum[s] \in Int
    BY DEF loglevel_enum
  <1>3. \A s : configEnumGetValue(s) \in Int
    BY <1>1, <1>2 DEF configEnumGetValue
  <1>4. \A s \in DOMAIN Number : Number[s] \in Int
    BY ConfigAssumption
  <1>5. \A s \in STRING : atoi(s) \in Int
    <2>1. 0 \in Int
      OBVIOUS
    <2> QED BY <1>4, <2>1, Zenon DEF atoi
  <1> QED BY <1>3, <1>5

LEMMA FlagsAre ==
    /\ DOMAIN FlagOption = DOMAIN FlagValue
    /\ \A s \in DOMAIN FlagValue : FlagValue[s] \in Int
  BY DEF FlagValue, FlagOption, loglevel_enum, MODE_TCP_AND_UDP, MODE_UDP_ONLY

\* What one option does, field by field.
LEMMA ParsedText ==
    ASSUME NEW o \in OptionSet, NEW a \in GivenOpt, ~o.version
    PROVE  /\ ParseOption(o, a).text \in [TextKeys -> Texts]
           /\ \A k \in TextKeys :
                ParseOption(o, a).text[k] = IF SetsText(a, k) THEN a.arg ELSE o.text[k]
  BY DEF ParseOption, OptionSet, GivenOpt, SetsText, Texts

LEMMA ParsedFlags ==
    ASSUME NEW o \in OptionSet, NEW a \in GivenOpt, ~o.version
    PROVE  /\ ParseOption(o, a).conf_path \in BOOLEAN /\ ParseOption(o, a).err \in BOOLEAN
           /\ ParseOption(o, a).help \in BOOLEAN /\ ParseOption(o, a).version \in BOOLEAN
           /\ ParseOption(o, a).conf_path <=> o.conf_path \/ a.opt = "c"
           /\ ParseOption(o, a).err <=> o.err \/ BadOption(a)
           /\ ParseOption(o, a).help <=> o.help \/ a.opt = "h"
           /\ ParseOption(o, a).version <=> a.opt = "V"
  <1>1. /\ ParseOption(o, a).conf_path = (o.conf_path \/ a.opt = "c")
        /\ ParseOption(o, a).err = (o.err \/ BadOption(a))
        /\ ParseOption(o, a).help = (o.help \/ a.opt = "h")
        /\ ParseOption(o, a).version = (a.opt = "V")
    BY DEF ParseOption, OptionSet, ErrAfter
  <1> QED BY <1>1, Zenon

LEMMA ParsedNum ==
    ASSUME NEW o \in OptionSet, NEW a \in GivenOpt, ~o.version
    PROVE  /\ ParseOption(o, a).num \in [NumKeys -> Int]
           /\ \A k \in NumKeys :
                ParseOption(o, a).num[k] = IF SetsNum(a, k) THEN NumGiven(a) ELSE o.num[k]
  <1>1. /\ o.num \in [NumKeys -> Int]
        /\ atoi(a.arg) \in Int /\ configEnumGetValue(a.arg) \in Int
    BY NumbersOf DEF OptionSet, GivenOpt
  <1>2. /\ a.opt \in DOMAIN FlagOption => FlagValue[a.opt] \in Int
        /\ a.opt \in DOMAIN FlagOption => a.opt \notin DOMAIN NumOption /\ a.opt # "loglevel"
        /\ a.opt \in DOMAIN NumOption => a.opt # "loglevel"
    BY FlagsAre DEF FlagOption, NumOption
  <1>3. ParseOption(o, a).num =
            IF a.opt \in DOMAIN NumOption THEN [o.num EXCEPT ![NumOption[a.opt]] = atoi(a.arg)]
            ELSE IF a.opt \in DOMAIN FlagOption
                 THEN [o.num EXCEPT ![FlagOption[a.opt]] = FlagValue[a.opt]]
            ELSE IF a.opt = "loglevel" THEN [o.num EXCEPT !["loglevel"] = configEnumGetValue(a.arg)]
            ELSE o.num
    BY DEF ParseOption, OptionSet
  <1>4. CASE a.opt \in DOMAIN NumOption
    BY <1>1, <1>2, <1>3, <1>4 DEF SetsNum, NumGiven
  <1>5. CASE a.opt \in DOMAIN FlagOption
    BY <1>1, <1>2, <1>3, <1>5 DEF SetsNum, NumGiven
  <1>6. CASE a.opt = "loglevel"
    BY <1>1, <1>2, <1>3, <1>6 DEF SetsNum, NumGiven
  <1>7. CASE a.opt \notin DOMAIN NumOption /\ a.opt \notin DOMAIN FlagOption /\ a.opt # "loglevel"
    BY <1>1, <1>3, <1>7 DEF SetsNum
  <1> QED BY <1>4, <1>5, <1>6, <1>7

LEMMA OptionSetHas ==
    ASSUME NEW t \in [TextKeys -> Texts], NEW u \in [NumKeys -> Int], NEW c \in BOOLEAN,
           NEW e \in BOOLEAN, NEW h \in BOOLEAN, NEW v \in BOOLEAN
    PROVE  [text |-> t, num |-> u, conf_path |-> c, err |-> e, help |-> h, version |-> v] \in OptionSet
  BY DEF OptionSet

LEMMA ParsedType ==
    ASSUME NEW o \in OptionSet, NEW a \in GivenOpt
    PROVE  ParseOption(o, a) \in OptionSet
  <1>1. CASE o.version
    BY <1>1 DEF ParseOption
  <1>2. CASE ~o.version
    <2> DEFINE p == ParseOption(o, a)
    <2>1. /\ p.text \in [TextKeys -> Texts] /\ p.num \in [NumKeys -> Int]
          /\ p.conf_path \in BOOLEAN /\ p.err \in BOOLEAN /\ p.help \in BOOLEAN /\ p.version \in BOOLEAN
      BY <1>2, ParsedText, ParsedNum, ParsedFlags
    <2>2. p = [text |-> p.text, num |-> p.num, conf_path |-> p.conf_path, err |-> p.err,
               help |-> p.help, version |-> p.version]
      BY <1>2 DEF ParseOption, OptionSet
    <2> HIDE DEF p
    <2>3. [text |-> p.text, num |-> p.num, conf_path |-> p.conf_path, err |-> p.err,
           help |-> p.help, version |-> p.version] \in OptionSet
      BY <2>1, OptionSetHas
    <2>4. p \in OptionSet
      BY <2>2, <2>3, Zenon
    <2> QED BY <2>4 DEF p
  <1> QED BY <1>1, <1>2

LEMMA NoOptionsType == NoOptions \in OptionSet
  <1>1. [k \in TextKeys |-> NULL] \in [TextKeys -> Texts]
    <2>1. NULL \in Texts
      BY DEF Texts
    <2> QED BY <2>1, Zenon
  <1>2. [k \in NumKeys |-> -1] \in [NumKeys -> Int]
    OBVIOUS
  <1>3. FALSE \in BOOLEAN
    OBVIOUS
  <1> QED BY <1>1, <1>2, <1>3, OptionSetHas, Zenon DEF NoOptions, TextKeys, NumKeys

Rounds(args, g) ==
    /\ g \in [0..Len(args) -> OptionSet]
    /\ g[0] = NoOptions
    /\ \A n \in 1..Len(args) : g[n] = ParseOption(g[n - 1], args[n])

\* The options after each round of the loop, and after the last one.
LEMMA OptionsAre ==
    ASSUME NEW args \in Seq(GivenOpt)
    PROVE  \E g : Rounds(args, g) /\ Options(args) = g[Len(args)]
  <1> DEFINE m == Len(args)
  <1>0. m \in Nat /\ \A n \in 1..m : args[n] \in GivenOpt
    OBVIOUS
  <1> HIDE DEF m
  <1> DEFINE G == [x \in OptionSet \X (1..m) |-> ParseOption(x[1], args[x[2]])]
  <1>1. G \in [OptionSet \X (1..m) -> OptionSet]
    BY <1>0, ParsedType
  <1>2. \A o \in OptionSet, n \in 1..m : G[<<o, n>>] = ParseOption(o, args[n])
    OBVIOUS
  <1> HIDE DEF G
  <1>3. PICK h \in [0..m -> OptionSet] :
            h[0] = NoOptions /\ \A n \in 1..m : h[n] = G[<<h[n - 1], n>>]
    <2>1. Loops(OptionSet, NoOptions, m, G)
      BY <1>0, <1>1, NoOptionsType, LoopExists
    <2> QED BY <2>1 DEF Loops
  <1>4. \A n \in 1..m : h[n] = ParseOption(h[n - 1], args[n])
    <2> TAKE n \in 1..m
    <2>1. n - 1 \in 0..m
      BY <1>0
    <2> QED BY <1>2, <1>3, <2>1
  <1> DEFINE Body(f) == [n \in 0..m |-> IF n = 0 THEN NoOptions ELSE ParseOption(f[n - 1], args[n])]
             after == CHOOSE f : f = Body(f)
  <1>5. h = Body(h)
    <2>1. \A n \in 0..m : h[n] = IF n = 0 THEN NoOptions ELSE ParseOption(h[n - 1], args[n])
      BY <1>0, <1>3, <1>4
    <2> QED BY <1>3, <2>1
  <1>6. after = Body(after)
    <2> HIDE DEF Body
    <2> QED BY <1>5
  <1>7. Options(args) = after[m]
    BY DEF Options, m
  <1> HIDE DEF after
  <1>8. after[0] = NoOptions /\ \A n \in 1..m : after[n] = ParseOption(after[n - 1], args[n])
    BY <1>0, <1>6
  <1>9. \A n \in 0..m : after[n] \in OptionSet
    <2> DEFINE S == {n \in Nat : n <= m => after[n] \in OptionSet}
    <2>1. 0 \in S
      BY <1>8, NoOptionsType
    <2>2. ASSUME NEW n \in Nat, n \in S PROVE n + 1 \in S
      <3> SUFFICES ASSUME n + 1 <= m PROVE after[n + 1] \in OptionSet
        OBVIOUS
      <3>1. after[n] \in OptionSet /\ n + 1 \in 1..m /\ (n + 1) - 1 = n
        BY <1>0, <2>2
      <3>2. after[n + 1] = ParseOption(after[n], args[n + 1])
        BY <1>8, <3>1
      <3> QED BY <1>0, <3>1, <3>2, ParsedType
    <2> HIDE DEF S
    <2>3. Nat \subseteq S
      BY <2>1, <2>2, Induction
    <2> QED BY <1>0, <2>3 DEF S
  <1>10. after \in [0..m -> OptionSet]
    <2>1. after = [n \in 0..m |-> after[n]]
      BY <1>6
    <2> QED BY <1>9, <2>1
  <1>11. Rounds(args, after)
    BY <1>8, <1>10 DEF Rounds, m
  <1> QED BY <1>7, <1>11 DEF m

\* A round keeps the version option in force.
LEMMA VersionStays ==
    ASSUME NEW args \in Seq(GivenOpt), NEW g, Rounds(args, g),
           NEW n \in Nat, n + 1 <= Len(args)
    PROVE  /\ g[n] \in OptionSet /\ args[n + 1] \in GivenOpt
           /\ g[n + 1] = ParseOption(g[n], args[n + 1])
           /\ ~g[n + 1].version => ~g[n].version
  <1>1. Len(args) \in Nat /\ n \in 0..Len(args) /\ n + 1 \in 1..Len(args) /\ (n + 1) - 1 = n
    OBVIOUS
  <1>2. args[n + 1] \in GivenOpt
    BY <1>1
  <1>3. g[n] \in OptionSet /\ g[n + 1] = ParseOption(g[n], args[n + 1])
    BY <1>1 DEF Rounds
  <1> QED BY <1>2, <1>3 DEF ParseOption

\* err, help and conf_path note any option of their kind.
Noted(args, o, n) ==
    /\ \A i \in 1..n : args[i].opt # "V"
    /\ o.err <=> \E i \in 1..n : BadOption(args[i])
    /\ o.help <=> \E i \in 1..n : args[i].opt = "h"
    /\ o.conf_path <=> \E i \in 1..n : args[i].opt = "c"

LEMMA FlagsNoted ==
    ASSUME NEW args \in Seq(GivenOpt), NEW g, Rounds(args, g)
    PROVE  \A n \in 0..Len(args) : ~g[n].version => Noted(args, g[n], n)
  <1> DEFINE S == {n \in Nat : n <= Len(args) => (~g[n].version => Noted(args, g[n], n))}
  <1>1. 0 \in S
    <2>1. g[0] = NoOptions
      BY DEF Rounds
    <2>2. ~g[0].err /\ ~g[0].help /\ ~g[0].conf_path
      BY <2>1 DEF NoOptions
    <2> QED BY <2>2 DEF Noted
  <1>2. ASSUME NEW n \in Nat, n \in S PROVE n + 1 \in S
    <2> SUFFICES ASSUME n + 1 <= Len(args), ~g[n + 1].version PROVE Noted(args, g[n + 1], n + 1)
      OBVIOUS
    <2>0. Len(args) \in Nat
      OBVIOUS
    <2>1. /\ g[n] \in OptionSet /\ args[n + 1] \in GivenOpt /\ ~g[n].version
          /\ g[n + 1] = ParseOption(g[n], args[n + 1])
      BY VersionStays
    <2>2. Noted(args, g[n], n)
      BY <1>2, <2>0, <2>1
    <2> DEFINE a == args[n + 1]
    <2>3. /\ g[n + 1].conf_path <=> g[n].conf_path \/ a.opt = "c"
          /\ g[n + 1].err <=> g[n].err \/ BadOption(a)
          /\ g[n + 1].help <=> g[n].help \/ a.opt = "h"
          /\ g[n + 1].version <=> a.opt = "V"
      BY <2>1, ParsedFlags
    <2>4. \A i \in 1..(n + 1) : i \in 1..n \/ i = n + 1
      OBVIOUS
    <2>5. 1..n \subseteq 1..(n + 1) /\ n + 1 \in 1..(n + 1)
      OBVIOUS
    <2> QED BY <2>2, <2>3, <2>4, <2>5, Zenon DEF Noted
  <1> HIDE DEF S
  <1>3. Nat \subseteq S
    BY <1>1, <1>2, Induction
  <1> QED BY <1>3 DEF S

\* The text of the key k is that of the last option for it.
LastText(args, n, k, v) ==
    /\ (\A i \in 1..n : ~SetsText(args[i], k)) => v = NULL
    /\ \A i \in 1..n :
        SetsText(args[i], k) /\ (\A j \in 1..n : SetsText(args[j], k) => j <= i)
            => v = args[i].arg

LEMMA TextGathered ==
    ASSUME NEW args \in Seq(GivenOpt), NEW g, Rounds(args, g), NEW k \in TextKeys
    PROVE  \A n \in 0..Len(args) : ~g[n].version => LastText(args, n, k, g[n].text[k])
  <1> DEFINE S == {n \in Nat : n <= Len(args) => (~g[n].version => LastText(args, n, k, g[n].text[k]))}
  <1>1. 0 \in S
    <2>1. g[0] = NoOptions
      BY DEF Rounds
    <2>2. g[0].text[k] = NULL
      BY <2>1 DEF NoOptions, TextKeys
    <2> QED BY <2>2 DEF LastText
  <1>2. ASSUME NEW n \in Nat, n \in S PROVE n + 1 \in S
    <2> SUFFICES ASSUME n + 1 <= Len(args), ~g[n + 1].version
                 PROVE  LastText(args, n + 1, k, g[n + 1].text[k])
      OBVIOUS
    <2>0. Len(args) \in Nat
      OBVIOUS
    <2>1. /\ g[n] \in OptionSet /\ args[n + 1] \in GivenOpt /\ ~g[n].version
          /\ g[n + 1] = ParseOption(g[n], args[n + 1])
      BY VersionStays
    <2>2. LastText(args, n, k, g[n].text[k])
      BY <1>2, <2>0, <2>1
    <2> DEFINE a == args[n + 1]
    <2>3. g[n + 1].text[k] = IF SetsText(a, k) THEN a.arg ELSE g[n].text[k]
      BY <2>1, ParsedText
    <2>4. \A i \in 1..(n + 1) : i \in 1..n \/ i = n + 1
      OBVIOUS
    <2>5. 1..n \subseteq 1..(n + 1) /\ n + 1 \in 1..(n + 1) /\ \A i \in 1..n : ~(n + 1 <= i)
      OBVIOUS
    <2>6. CASE SetsText(a, k)
      <3>1. ASSUME NEW i \in 1..(n + 1), \A j \in 1..(n + 1) : SetsText(args[j], k) => j <= i
            PROVE  i = n + 1
        BY <2>4, <2>5, <2>6, <3>1
      <3> QED BY <2>3, <2>5, <2>6, <3>1 DEF LastText
    <2>7. CASE ~SetsText(a, k)
      BY <2>2, <2>3, <2>4, <2>5, <2>7, Zenon DEF LastText
    <2> QED BY <2>6, <2>7
  <1> HIDE DEF S
  <1>3. Nat \subseteq S
    BY <1>1, <1>2, Induction
  <1> QED BY <1>3 DEF S

\* So is its number, or none was given.
LastNum(args, n, k, v) ==
    /\ (\A i \in 1..n : ~SetsNum(args[i], k)) => v = -1
    /\ \A i \in 1..n :
        SetsNum(args[i], k) /\ (\A j \in 1..n : SetsNum(args[j], k) => j <= i)
            => v = NumGiven(args[i])

LEMMA NumGathered ==
    ASSUME NEW args \in Seq(GivenOpt), NEW g, Rounds(args, g), NEW k \in NumKeys
    PROVE  \A n \in 0..Len(args) : ~g[n].version => LastNum(args, n, k, g[n].num[k])
  <1> DEFINE S == {n \in Nat : n <= Len(args) => (~g[n].version => LastNum(args, n, k, g[n].num[k]))}
  <1>1. 0 \in S
    <2>1. g[0] = NoOptions
      BY DEF Rounds
    <2>2. g[0].num[k] = -1
      BY <2>1 DEF NoOptions, NumKeys
    <2> QED BY <2>2 DEF LastNum
  <1>2. ASSUME NEW n \in Nat, n \in S PROVE n + 1 \in S
    <2> SUFFICES ASSUME n + 1 <= Len(args), ~g[n + 1].version
                 PROVE  LastNum(args, n + 1, k, g[n + 1].num[k])
      OBVIOUS
    <2>0. Len(args) \in Nat
      OBVIOUS
    <2>1. /\ g[n] \in OptionSet /\ args[n + 1] \in GivenOpt /\ ~g[n].version
          /\ g[n + 1] = ParseOption(g[n], args[n + 1])
      BY VersionStays
    <2>2. LastNum(args, n, k, g[n].num[k])
      BY <1>2, <2>0, <2>1
    <2> DEFINE a == args[n + 1]
    <2>3. g[n + 1].num[k] = IF SetsNum(a, k) THEN NumGiven(a) ELSE g[n].num[k]
      BY <2>1, ParsedNum
    <2>4. \A i \in 1..(n + 1) : i \in 1..n \/ i = n + 1
      OBVIOUS
    <2>5. 1..n \subseteq 1..(n + 1) /\ n + 1 \in 1..(n + 1) /\ \A i \in 1..n : ~(n + 1 <= i)
      OBVIOUS
    <2>6. CASE SetsNum(a, k)
      <3>1. ASSUME NEW i \in 1..(n + 1), \A j \in 1..(n + 1) : SetsNum(args[j], k) => j <= i
            PROVE  i = n + 1
        BY <2>4, <2>5, <2>6, <3>1
      <3> QED BY <2>3, <2>5, <2>6, <3>1 DEF LastNum
    <2>7. CASE ~SetsNum(a, k)
      BY <2>2, <2>3, <2>4, <2>5, <2>7, Zenon DEF LastNum
    <2> QED BY <2>6, <2>7
  <1> HIDE DEF S
  <1>3. Nat \subseteq S
    BY <1>1, <1>2, Induction
  <1> QED BY <1>3 DEF S

\* What the whole loop makes of the options, unless one of them asks for the
\* version.
TextsGiven(args, k) == {i \in DOMAIN args : SetsText(args[i], k)}
NumsGiven(args, k) == {i \in DOMAIN args : SetsNum(args[i], k)}

LEMMA OptionsMean ==
    ASSUME NEW args \in Seq(GivenOpt), ~Options(args).version
    PROVE  /\ Options(args) \in OptionSet
           /\ Noted(args, Options(args), Len(args))
           /\ \A k \in TextKeys :
                Options(args).text[k] =
                    IF TextsGiven(args, k) # {} THEN args[Latest(TextsGiven(args, k))].arg ELSE NULL
           /\ \A k \in NumKeys :
                Options(args).num[k] =
                    IF NumsGiven(args, k) # {} THEN NumGiven(args[Latest(NumsGiven(args, k))]) ELSE -1
  <1> DEFINE m == Len(args)
             o == Options(args)
  <1>1. PICK g : Rounds(args, g) /\ o = g[m]
    BY OptionsAre
  <1>2. m \in Nat /\ m \in 0..m /\ DOMAIN args = 1..m
    OBVIOUS
  <1>3. o \in OptionSet
    BY <1>1, <1>2 DEF Rounds
  <1>4. ~g[m].version
    BY <1>1
  <1> HIDE DEF m, o
  <1>5. Noted(args, o, m)
    <2>1. \A n \in 0..m : ~g[n].version => Noted(args, g[n], n)
      BY <1>1, FlagsNoted DEF m
    <2> QED BY <1>1, <1>2, <1>4, <2>1
  <1>6. ASSUME NEW k \in TextKeys
        PROVE  o.text[k] = IF TextsGiven(args, k) # {} THEN args[Latest(TextsGiven(args, k))].arg ELSE NULL
    <2> DEFINE S == TextsGiven(args, k)
    <2>1. LastText(args, m, k, o.text[k])
      <3>1. \A n \in 0..m : ~g[n].version => LastText(args, n, k, g[n].text[k])
        BY <1>1, TextGathered DEF m
      <3> QED BY <1>1, <1>2, <1>4, <3>1
    <2>2. S \in SUBSET (1..m) /\ \A i \in 1..m : i \in S <=> SetsText(args[i], k)
      BY <1>2 DEF TextsGiven
    <2> HIDE DEF S
    <2>3. CASE S = {}
      BY <2>1, <2>2, <2>3 DEF LastText, S
    <2>4. CASE S # {}
      <3>1. Latest(S) \in S /\ \A j \in S : j <= Latest(S)
        BY <1>2, <2>2, <2>4, LatestIs
      <3>2. o.text[k] = args[Latest(S)].arg
        BY <2>1, <2>2, <3>1 DEF LastText
      <3> QED BY <2>4, <3>2 DEF S
    <2> QED BY <2>3, <2>4
  <1>7. ASSUME NEW k \in NumKeys
        PROVE  o.num[k] = IF NumsGiven(args, k) # {} THEN NumGiven(args[Latest(NumsGiven(args, k))]) ELSE -1
    <2> DEFINE S == NumsGiven(args, k)
    <2>1. LastNum(args, m, k, o.num[k])
      <3>1. \A n \in 0..m : ~g[n].version => LastNum(args, n, k, g[n].num[k])
        BY <1>1, NumGathered DEF m
      <3> QED BY <1>1, <1>2, <1>4, <3>1
    <2>2. S \in SUBSET (1..m) /\ \A i \in 1..m : i \in S <=> SetsNum(args[i], k)
      BY <1>2 DEF NumsGiven
    <2> HIDE DEF S
    <2>3. CASE S = {}
      BY <2>1, <2>2, <2>3 DEF LastNum, S
    <2>4. CASE S # {}
      <3>1. Latest(S) \in S /\ \A j \in S : j <= Latest(S)
        BY <1>2, <2>2, <2>4, LatestIs
      <3>2. o.num[k] = NumGiven(args[Latest(S)])
        BY <2>1, <2>2, <3>1 DEF LastNum
      <3> QED BY <2>4, <3>2 DEF S
    <2> QED BY <2>3, <2>4
  <1> QED BY <1>3, <1>5, <1>6, <1>7 DEF m, o

-----------------------------------------------------------------------------
(* The loop over the entries of the file. *)

ConfigSet == [text : [TextKeys -> Texts], num : [NumKeys -> Int]]

LEMMA DefaultsType == configNew \in ConfigSet
  <1>1. configNew = [text |-> configNew.text, num |-> configNew.num]
    BY SMT DEF configNew
  <1>2. configNew.text = [k \in TextKeys |-> configNew.text[k]]
    BY SMT DEF configNew, TextKeys
  <1>3. configNew.num \in [NumKeys -> Int]
    BY SMT DEF configNew, NumKeys, MODE_TCP_ONLY
  <1>4. configNew.text \in [TextKeys -> Texts]
    BY <1>2 DEF Texts
  <1> QED BY <1>1, <1>3, <1>4 DEF ConfigSet

EntrySet == [name : STRING, type : {"string", "integer", "boolean", "null", "other"},
             text : STRING \ {NULL}, num : Int]

\* An entry that does not end the program.
Fine(e) ==
    /\ e.type \in {"string", "integer", "boolean", "null", "other"}
    /\ e.text \in STRING \ {NULL}
    /\ e.num \in Int
    /\ e.type = "integer" => ToInt(e.num) \in DOMAIN Decimal
    /\ ~BadEntry(e)

LEMMA Conversions ==
    ASSUME NEW e, Fine(e)
    PROVE  /\ to_integer(e) \in Int /\ to_string(e) \in Texts
           /\ configEnumGetValue(to_string(e)) \in Int
           /\ e.type = "integer" => to_string(e) \in STRING \ ({NULL} \cup DOMAIN Modes)
  <1>1. to_integer(e) \in Int
    <2>1. e.text \in STRING /\ e.num \in Int
      BY DEF Fine
    <2>2. atoi(e.text) \in Int
      BY <2>1, NumbersOf, Zenon
    <2>3. 0 \in Int
      OBVIOUS
    <2>4. ToInt(e.num) \in Int
      <3>0. IntSpan \in Nat \ {0}
        BY ConfigAssumption, Zenon
      <3>1. IntSpan \in Nat /\ IntSpan > 0
        BY <3>0
      <3>2. IntSpan \div 2 \in Int
        BY <3>1
      <3>3. (e.num + IntSpan \div 2) % IntSpan \in Int
        BY <2>1, <3>1, <3>2
      <3> QED BY <3>2, <3>3 DEF ToInt
    <2> QED BY <2>1, <2>2, <2>3, <2>4, Zenon DEF to_integer
  <1>2. e.type = "integer" => to_string(e) \in STRING \ ({NULL} \cup DOMAIN Modes)
    BY ConfigAssumption DEF Fine, to_string, xs_itoa
  <1>3. to_string(e) \in Texts
    BY <1>2 DEF Fine, to_string, Texts
  <1>4. configEnumGetValue(to_string(e)) \in Int
    BY NumbersOf
  <1> QED BY <1>1, <1>2, <1>3, <1>4

LEMMA NumLoadedType ==
    ASSUME NEW e, Fine(e), NEW k, NEW old \in Int
    PROVE  NumLoaded(k, e, old) \in Int
  <1>1. \A s : ModeOf(s, old) \in Int
    BY DEF ModeOf, Modes, MODE_TCP_ONLY, MODE_UDP_ONLY, MODE_TCP_AND_UDP
  <1> QED BY <1>1, Conversions DEF NumLoaded

LEMMA LoadedEntry ==
    ASSUME NEW c \in ConfigSet, NEW e, Fine(e)
    PROVE  /\ LoadEntry(c, e) \in ConfigSet
           /\ \A k \in TextKeys :
                LoadEntry(c, e).text[k] = IF KeyOf(e.name) = k THEN to_string(e) ELSE c.text[k]
           /\ \A k \in NumKeys :
                LoadEntry(c, e).num[k] =
                    IF KeyOf(e.name) = k THEN NumLoaded(k, e, c.num[k]) ELSE c.num[k]
  <1> DEFINE l == LoadEntry(c, e)
             k0 == KeyOf(e.name)
  <1>1. /\ l = [text |-> l.text, num |-> l.num]
        /\ l.text = IF k0 \in TextKeys THEN [c.text EXCEPT ![k0] = to_string(e)] ELSE c.text
        /\ l.num = IF k0 \in NumKeys THEN [c.num EXCEPT ![k0] = NumLoaded(k0, e, c.num[k0])] ELSE c.num
    BY DEF LoadEntry, IsText, IsNum, TextKeys, NumKeys
  <1>2. c.text \in [TextKeys -> Texts] /\ c.num \in [NumKeys -> Int]
    BY DEF ConfigSet
  <1>3. to_string(e) \in Texts
    BY Conversions
  <1>4. k0 \in NumKeys => NumLoaded(k0, e, c.num[k0]) \in Int
    BY <1>2, NumLoadedType
  <1> HIDE DEF l, k0
  <1>5. /\ l.text \in [TextKeys -> Texts]
        /\ \A k \in TextKeys : l.text[k] = IF k0 = k THEN to_string(e) ELSE c.text[k]
    BY <1>1, <1>2, <1>3
  <1>6. /\ l.num \in [NumKeys -> Int]
        /\ \A k \in NumKeys : l.num[k] = IF k0 = k THEN NumLoaded(k, e, c.num[k]) ELSE c.num[k]
    BY <1>1, <1>2, <1>4
  <1>7. l \in ConfigSet
    BY <1>1, <1>5, <1>6 DEF ConfigSet
  <1> QED BY <1>5, <1>6, <1>7 DEF l, k0

\* The configurations on the way through a file whose entries are all fine.
LoadRounds(c, file, g) ==
    /\ g \in [0..Len(file.entries) -> ConfigSet]
    /\ g[0] = c
    /\ \A n \in 1..Len(file.entries) : g[n] = LoadEntry(g[n - 1], file.entries[n])

LEMMA LoadedAre ==
    ASSUME NEW c \in ConfigSet, NEW file, Len(file.entries) \in Nat,
           \A n \in 1..Len(file.entries) : Fine(file.entries[n])
    PROVE  \E g : LoadRounds(c, file, g) /\ configLoad(c, file) = g[Len(file.entries)]
  <1> DEFINE m == Len(file.entries)
  <1>0. m \in Nat /\ \A n \in 1..m : Fine(file.entries[n])
    OBVIOUS
  <1> HIDE DEF m
  <1> DEFINE G == [x \in ConfigSet \X (1..m) |-> LoadEntry(x[1], file.entries[x[2]])]
  <1>1. G \in [ConfigSet \X (1..m) -> ConfigSet]
    BY <1>0, LoadedEntry
  <1>2. \A o \in ConfigSet, n \in 1..m : G[<<o, n>>] = LoadEntry(o, file.entries[n])
    OBVIOUS
  <1> HIDE DEF G
  <1>3. PICK h \in [0..m -> ConfigSet] :
            h[0] = c /\ \A n \in 1..m : h[n] = G[<<h[n - 1], n>>]
    <2>1. Loops(ConfigSet, c, m, G)
      BY <1>0, <1>1, LoopExists
    <2> QED BY <2>1 DEF Loops
  <1>4. \A n \in 1..m : h[n] = LoadEntry(h[n - 1], file.entries[n])
    <2> TAKE n \in 1..m
    <2>1. n - 1 \in 0..m
      BY <1>0
    <2> QED BY <1>2, <1>3, <2>1
  <1> DEFINE Body(f) == [n \in 0..m |-> IF n = 0 THEN c ELSE LoadEntry(f[n - 1], file.entries[n])]
             after == CHOOSE f : f = Body(f)
  <1>5. h = Body(h)
    <2>1. \A n \in 0..m : h[n] = IF n = 0 THEN c ELSE LoadEntry(h[n - 1], file.entries[n])
      BY <1>0, <1>3, <1>4
    <2> QED BY <1>3, <2>1
  <1>6. after = Body(after)
    <2> HIDE DEF Body
    <2> QED BY <1>5
  <1>7. configLoad(c, file) = after[m]
    BY DEF configLoad, m
  <1> HIDE DEF after
  <1>8. after[0] = c /\ \A n \in 1..m : after[n] = LoadEntry(after[n - 1], file.entries[n])
    BY <1>0, <1>6
  <1>9. \A n \in 0..m : after[n] \in ConfigSet
    <2> DEFINE S == {n \in Nat : n <= m => after[n] \in ConfigSet}
    <2>1. 0 \in S
      BY <1>8
    <2>2. ASSUME NEW n \in Nat, n \in S PROVE n + 1 \in S
      <3> SUFFICES ASSUME n + 1 <= m PROVE after[n + 1] \in ConfigSet
        OBVIOUS
      <3>1. after[n] \in ConfigSet /\ n + 1 \in 1..m /\ (n + 1) - 1 = n
        BY <1>0, <2>2
      <3>2. after[n + 1] = LoadEntry(after[n], file.entries[n + 1])
        BY <1>8, <3>1
      <3>3. Fine(file.entries[n + 1])
        BY <1>0, <3>1
      <3>4. LoadEntry(after[n], file.entries[n + 1]) \in ConfigSet
        BY <3>1, <3>3, LoadedEntry
      <3> QED BY <3>2, <3>4
    <2> HIDE DEF S
    <2>3. Nat \subseteq S
      BY <2>1, <2>2, Induction
    <2> QED BY <1>0, <2>3 DEF S
  <1>10. after \in [0..m -> ConfigSet]
    <2>1. after = [n \in 0..m |-> after[n]]
      BY <1>6
    <2> QED BY <1>9, <2>1
  <1>11. LoadRounds(c, file, after)
    BY <1>8, <1>10 DEF LoadRounds, m
  <1> QED BY <1>7, <1>11 DEF m

\* An entry for k that counts gives it a value, whatever it was; one that does
\* not count leaves it.
For(e, k) == KeyOf(e.name) = k
Settles(e, k) == k = "mode" => e.type = "null" \/ (e.type = "string" /\ e.text \in DOMAIN Modes)

LEMMA Settled ==
    ASSUME NEW e, Fine(e), NEW k, Settles(e, k), NEW u, NEW v
    PROVE  NumLoaded(k, e, u) = NumLoaded(k, e, v)
  <1>1. CASE k # "mode"
    BY <1>1 DEF NumLoaded
  <1>2. CASE k = "mode"
    <2>1. NumLoaded(k, e, u) = ModeOf(to_string(e), u) /\ NumLoaded(k, e, v) = ModeOf(to_string(e), v)
      BY <1>2 DEF NumLoaded
    <2>2. to_string(e) = NULL \/ to_string(e) \in DOMAIN Modes
      BY <1>2 DEF Settles, to_string
    <2> QED BY <2>1, <2>2 DEF ModeOf
  <1> QED BY <1>1, <1>2

LEMMA Unsettled ==
    ASSUME NEW e, Fine(e), NEW k, For(e, k), ~Settles(e, k), NEW u
    PROVE  NumLoaded(k, e, u) = u
  <1>1. k = "mode" /\ e.type # "null" /\ ~(e.type = "string" /\ e.text \in DOMAIN Modes)
    BY DEF Settles
  <1>2. e.type \in {"string", "integer"}
    BY <1>1 DEF Fine, BadEntry, ReadAsText, For
  <1>3. e.type = "string" => to_string(e) = e.text /\ to_string(e) # NULL
    BY DEF to_string, Fine
  <1>4. e.type = "integer" => to_string(e) # NULL /\ to_string(e) \notin DOMAIN Modes
    BY Conversions
  <1>5. to_string(e) # NULL /\ to_string(e) \notin DOMAIN Modes
    BY <1>1, <1>2, <1>3, <1>4
  <1> QED BY <1>1, <1>5 DEF ModeOf, NumLoaded

\* The text of the key k is that of the last entry that counts, or d.
LastEntryText(file, n, k, d, v) ==
    /\ (\A i \in 1..n : i \notin Entries(file, k)) => v = d
    /\ \A i \in 1..n :
        i \in Entries(file, k) /\ (\A j \in 1..n : j \in Entries(file, k) => j <= i)
            => v = to_string(file.entries[i])

LEMMA TextLoads ==
    ASSUME NEW c \in ConfigSet, NEW file, NEW g, LoadRounds(c, file, g),
           Len(file.entries) \in Nat, DOMAIN file.entries = 1..Len(file.entries),
           \A n \in 1..Len(file.entries) : Fine(file.entries[n]),
           NEW k \in TextKeys
    PROVE  \A n \in 0..Len(file.entries) : LastEntryText(file, n, k, c.text[k], g[n].text[k])
  <1> DEFINE m == Len(file.entries)
             d == c.text[k]
             S == {n \in Nat : n <= m => LastEntryText(file, n, k, d, g[n].text[k])}
  <1>0. m \in Nat /\ DOMAIN file.entries = 1..m
    OBVIOUS
  <1>1. 0 \in S
    BY DEF LoadRounds, LastEntryText
  <1>2. ASSUME NEW n \in Nat, n \in S PROVE n + 1 \in S
    <2> SUFFICES ASSUME n + 1 <= m PROVE LastEntryText(file, n + 1, k, d, g[n + 1].text[k])
      OBVIOUS
    <2>1. n \in 0..m /\ n + 1 \in 1..m /\ (n + 1) - 1 = n /\ n <= m
      BY <1>0
    <2> DEFINE e == file.entries[n + 1]
    <2>2. g[n] \in ConfigSet /\ Fine(e) /\ g[n + 1] = LoadEntry(g[n], e)
      BY <2>1 DEF LoadRounds
    <2>3. LastEntryText(file, n, k, d, g[n].text[k])
      BY <1>2, <2>1
    <2>4. g[n + 1].text[k] = IF KeyOf(e.name) = k THEN to_string(e) ELSE g[n].text[k]
      BY <2>2, LoadedEntry
    <2>5. n + 1 \in Entries(file, k) <=> KeyOf(e.name) = k
      BY <1>0, <2>1, Keys DEF Entries
    <2>6. \A i \in 1..(n + 1) : i \in 1..n \/ i = n + 1
      OBVIOUS
    <2>7. 1..n \subseteq 1..(n + 1) /\ n + 1 \in 1..(n + 1) /\ \A i \in 1..n : ~(n + 1 <= i)
      OBVIOUS
    <2> HIDE DEF m, d
    <2>8. CASE n + 1 \in Entries(file, k)
      <3>1. ASSUME NEW i \in 1..(n + 1), \A j \in 1..(n + 1) : j \in Entries(file, k) => j <= i
            PROVE  i = n + 1
        BY <2>6, <2>7, <2>8, <3>1
      <3>2. g[n + 1].text[k] = to_string(file.entries[n + 1])
        BY <2>4, <2>5, <2>8
      <3> QED BY <2>7, <2>8, <3>1, <3>2 DEF LastEntryText
    <2>9. CASE n + 1 \notin Entries(file, k)
      <3>1. g[n + 1].text[k] = g[n].text[k]
        BY <2>4, <2>5, <2>9
      <3> QED BY <2>3, <2>6, <2>7, <2>9, <3>1, Zenon DEF LastEntryText
    <2> QED BY <2>8, <2>9
  <1> HIDE DEF S
  <1>3. Nat \subseteq S
    BY <1>1, <1>2, Induction
  <1> QED BY <1>3 DEF S

\* So is its number.
LastEntryNum(file, n, k, d, v) ==
    /\ (\A i \in 1..n : i \notin Entries(file, k)) => v = d
    /\ \A i \in 1..n :
        i \in Entries(file, k) /\ (\A j \in 1..n : j \in Entries(file, k) => j <= i)
            => v = NumLoaded(k, file.entries[i], d)

LEMMA NumLoads ==
    ASSUME NEW c \in ConfigSet, NEW file, NEW g, LoadRounds(c, file, g),
           Len(file.entries) \in Nat, DOMAIN file.entries = 1..Len(file.entries),
           \A n \in 1..Len(file.entries) : Fine(file.entries[n]),
           NEW k \in NumKeys
    PROVE  \A n \in 0..Len(file.entries) : LastEntryNum(file, n, k, c.num[k], g[n].num[k])
  <1> DEFINE m == Len(file.entries)
             d == c.num[k]
             S == {n \in Nat : n <= m => LastEntryNum(file, n, k, d, g[n].num[k])}
  <1>0. m \in Nat /\ DOMAIN file.entries = 1..m
    OBVIOUS
  <1>1. 0 \in S
    BY DEF LoadRounds, LastEntryNum
  <1>2. ASSUME NEW n \in Nat, n \in S PROVE n + 1 \in S
    <2> SUFFICES ASSUME n + 1 <= m PROVE LastEntryNum(file, n + 1, k, d, g[n + 1].num[k])
      OBVIOUS
    <2>1. n \in 0..m /\ n + 1 \in 1..m /\ (n + 1) - 1 = n /\ n <= m
      BY <1>0
    <2> DEFINE e == file.entries[n + 1]
    <2>2. g[n] \in ConfigSet /\ Fine(e) /\ g[n + 1] = LoadEntry(g[n], e)
      BY <2>1 DEF LoadRounds
    <2>3. LastEntryNum(file, n, k, d, g[n].num[k])
      BY <1>2, <2>1
    <2>4. g[n + 1].num[k] = IF KeyOf(e.name) = k THEN NumLoaded(k, e, g[n].num[k]) ELSE g[n].num[k]
      BY <2>2, LoadedEntry
    <2>5. n + 1 \in Entries(file, k) <=> For(e, k) /\ Settles(e, k)
      BY <1>0, <2>1 DEF Entries, For, Settles
    <2>6. \A i \in 1..(n + 1) : i \in 1..n \/ i = n + 1
      OBVIOUS
    <2>7. 1..n \subseteq 1..(n + 1) /\ n + 1 \in 1..(n + 1) /\ \A i \in 1..n : ~(n + 1 <= i)
      OBVIOUS
    <2>8. CASE n + 1 \in Entries(file, k)
      <3>1. ASSUME NEW i \in 1..(n + 1), \A j \in 1..(n + 1) : j \in Entries(file, k) => j <= i
            PROVE  i = n + 1
        BY <2>6, <2>7, <2>8, <3>1
      <3>2. NumLoaded(k, e, g[n].num[k]) = NumLoaded(k, e, d)
        BY <2>2, <2>5, <2>8, Settled
      <3>3. g[n + 1].num[k] = NumLoaded(k, file.entries[n + 1], d)
        BY <2>4, <2>5, <2>8, <3>2 DEF For
      <3> HIDE DEF m, d
      <3> QED BY <2>7, <2>8, <3>1, <3>3 DEF LastEntryNum
    <2>9. CASE n + 1 \notin Entries(file, k)
      <3>1. g[n + 1].num[k] = g[n].num[k]
        <4>1. CASE KeyOf(e.name) = k
          <5>1. NumLoaded(k, e, g[n].num[k]) = g[n].num[k]
            <6>1. For(e, k) /\ ~Settles(e, k)
              BY <2>5, <2>9, <4>1 DEF For
            <6> QED BY <2>2, <6>1, Unsettled
          <5> QED BY <2>4, <4>1, <5>1
        <4>2. CASE KeyOf(e.name) # k
          BY <2>4, <4>2
        <4> QED BY <4>1, <4>2
      <3> HIDE DEF m, d
      <3> QED BY <2>3, <2>6, <2>7, <2>9, <3>1, Zenon DEF LastEntryNum
    <2> QED BY <2>8, <2>9
  <1> HIDE DEF S
  <1>3. Nat \subseteq S
    BY <1>1, <1>2, Induction
  <1> QED BY <1>3 DEF S

\* What the loop over the entries makes of the defaults.
LEMMA FileMeans ==
    ASSUME NEW file, JsonFile(file), ~BadFile(file)
    PROVE  /\ configLoad(configNew, file) \in ConfigSet
           /\ \A k \in TextKeys :
                configLoad(configNew, file).text[k] =
                    IF Entries(file, k) # {}
                    THEN LoadEntry(configNew, file.entries[Latest(Entries(file, k))]).text[k]
                    ELSE configNew.text[k]
           /\ \A k \in NumKeys :
                configLoad(configNew, file).num[k] =
                    IF Entries(file, k) # {}
                    THEN LoadEntry(configNew, file.entries[Latest(Entries(file, k))]).num[k]
                    ELSE configNew.num[k]
  <1> DEFINE m == Len(file.entries)
             l == configLoad(configNew, file)
  <1>1. m \in Nat /\ DOMAIN file.entries = 1..m /\ m \in 0..m
    BY DEF JsonFile
  <1>2. \A n \in 1..m : Fine(file.entries[n])
    <2> TAKE n \in 1..m
    <2>1. file.entries[n] \in EntrySet
      <3>1. file.entries \in Seq(EntrySet)
        BY DEF JsonFile, EntrySet
      <3> QED BY <3>1
    <2>2. /\ ~BadEntry(file.entries[n])
          /\ file.entries[n].type = "integer" => ToInt(file.entries[n].num) \in DOMAIN Decimal
      BY <1>1 DEF BadFile, JsonFile
    <2> QED BY <2>1, <2>2 DEF Fine, EntrySet
  <1>3. PICK g : LoadRounds(configNew, file, g) /\ l = g[m]
    BY <1>1, <1>2, DefaultsType, LoadedAre
  <1>4. l \in ConfigSet
    BY <1>1, <1>3 DEF LoadRounds
  <1>5. \A k : Entries(file, k) \in SUBSET (1..m)
    BY <1>1 DEF Entries
  <1>6. ASSUME NEW k, Entries(file, k) # {}
        PROVE  /\ Latest(Entries(file, k)) \in Entries(file, k) /\ Latest(Entries(file, k)) \in 1..m
               /\ \A j \in Entries(file, k) : j <= Latest(Entries(file, k))
               /\ KeyOf(file.entries[Latest(Entries(file, k))].name) = k
               /\ Fine(file.entries[Latest(Entries(file, k))])
    <2> DEFINE S == Entries(file, k)
    <2>1. S \in SUBSET (1..m) /\ S # {}
      BY <1>5, <1>6
    <2>2. \A i \in S : KeyOf(file.entries[i].name) = k
      BY DEF Entries
    <2> HIDE DEF S, m
    <2>3. Latest(S) \in S /\ \A j \in S : j <= Latest(S)
      BY <1>1, <2>1, LatestIs
    <2> QED BY <1>2, <2>1, <2>2, <2>3 DEF S
  <1>7. ASSUME NEW k \in TextKeys
        PROVE  l.text[k] = IF Entries(file, k) # {}
                           THEN LoadEntry(configNew, file.entries[Latest(Entries(file, k))]).text[k]
                           ELSE configNew.text[k]
    <2>1. LastEntryText(file, m, k, configNew.text[k], l.text[k])
      <3>1. \A n \in 0..m : LastEntryText(file, n, k, configNew.text[k], g[n].text[k])
        BY <1>1, <1>2, <1>3, DefaultsType, TextLoads
      <3> QED BY <1>1, <1>3, <3>1
    <2> HIDE DEF m, l
    <2>2. CASE Entries(file, k) = {}
      BY <2>1, <2>2 DEF LastEntryText
    <2>3. CASE Entries(file, k) # {}
      <3> DEFINE i == Latest(Entries(file, k))
      <3>1. /\ i \in Entries(file, k) /\ i \in 1..m /\ \A j \in Entries(file, k) : j <= i
            /\ KeyOf(file.entries[i].name) = k /\ Fine(file.entries[i])
        BY <1>6, <2>3
      <3> HIDE DEF i
      <3>2. l.text[k] = to_string(file.entries[i])
        BY <2>1, <3>1 DEF LastEntryText
      <3>3. LoadEntry(configNew, file.entries[i]).text[k] = to_string(file.entries[i])
        BY <3>1, DefaultsType, LoadedEntry
      <3> QED BY <2>3, <3>2, <3>3 DEF i
    <2> QED BY <2>2, <2>3
  <1>8. ASSUME NEW k \in NumKeys
        PROVE  l.num[k] = IF Entries(file, k) # {}
                          THEN LoadEntry(configNew, file.entries[Latest(Entries(file, k))]).num[k]
                          ELSE configNew.num[k]
    <2>1. LastEntryNum(file, m, k, configNew.num[k], l.num[k])
      <3>1. \A n \in 0..m : LastEntryNum(file, n, k, configNew.num[k], g[n].num[k])
        BY <1>1, <1>2, <1>3, DefaultsType, NumLoads
      <3> QED BY <1>1, <1>3, <3>1
    <2> HIDE DEF m, l
    <2>2. CASE Entries(file, k) = {}
      BY <2>1, <2>2 DEF LastEntryNum
    <2>3. CASE Entries(file, k) # {}
      <3> DEFINE i == Latest(Entries(file, k))
      <3>1. /\ i \in Entries(file, k) /\ i \in 1..m /\ \A j \in Entries(file, k) : j <= i
            /\ KeyOf(file.entries[i].name) = k /\ Fine(file.entries[i])
        BY <1>6, <2>3
      <3> HIDE DEF i
      <3>2. l.num[k] = NumLoaded(k, file.entries[i], configNew.num[k])
        BY <2>1, <3>1 DEF LastEntryNum
      <3>3. LoadEntry(configNew, file.entries[i]).num[k] = NumLoaded(k, file.entries[i], configNew.num[k])
        BY <3>1, DefaultsType, LoadedEntry
      <3> QED BY <2>3, <3>2, <3>3 DEF i
    <2> QED BY <2>2, <2>3
  <1> QED BY <1>4, <1>7, <1>8

\* An option gives a text that is not NULL, and a number.
LEMMA GivenIs ==
    ASSUME NEW args \in Seq(GivenOpt), NEW i \in DOMAIN args
    PROVE  args[i].arg # NULL /\ (\A k : SetsNum(args[i], k) => NumGiven(args[i]) \in Int)
  <1>1. args[i] \in GivenOpt
    OBVIOUS
  <1>2. args[i].arg \in STRING /\ args[i].arg # NULL
    BY <1>1 DEF GivenOpt
  <1>3. atoi(args[i].arg) \in Int /\ configEnumGetValue(args[i].arg) \in Int
    BY <1>2, NumbersOf
  <1>4. ASSUME NEW k, SetsNum(args[i], k) PROVE NumGiven(args[i]) \in Int
    BY <1>3, <1>4, FlagsAre DEF SetsNum, NumGiven
  <1> QED BY <1>2, <1>4

\* configParse, when it succeeds, has found nothing to refuse and gives every
\* key what it is meant to have.
LEMMA ParseMeans ==
    ASSUME NEW args, CommandLine(args), NEW file, JsonFile(file),
           configParse(args, file).outcome = "ok"
    PROVE  /\ \A i \in DOMAIN args : ~BadOption(args[i]) /\ args[i].opt \notin {"V", "h"}
           /\ (\E i \in DOMAIN args : args[i].opt = "c") => ~BadFile(file)
           /\ DOMAIN configParse(args, file).text = TextKeys
           /\ DOMAIN configParse(args, file).num = NumKeys
           /\ \A k \in TextKeys : configParse(args, file).text[k] = TextMeant(args, file, k)
           /\ \A k \in NumKeys : configParse(args, file).num[k] = NumMeant(args, file, k)
  <1> DEFINE o == Options(args)
             c == IF o.conf_path THEN configLoad(configNew, file) ELSE configNew
             p == configParse(args, file)
  <1>0. args \in Seq(GivenOpt) /\ DOMAIN args = 1..Len(args)
    BY DEF CommandLine, GivenOpt
  <1>1. Outcome(o, file) = "ok"
    BY DEF configParse
  <1>2. ~o.version /\ ~(o.conf_path /\ BadFile(file)) /\ ~o.err /\ ~o.help
    BY <1>1 DEF Outcome
  <1>3. Noted(args, o, Len(args)) /\ o \in OptionSet
    BY <1>0, <1>2, OptionsMean
  <1>4. /\ \A i \in DOMAIN args : ~BadOption(args[i]) /\ args[i].opt \notin {"V", "h"}
        /\ o.conf_path <=> \E i \in DOMAIN args : args[i].opt = "c"
    BY <1>0, <1>2, <1>3 DEF Noted
  <1>5. p = Overridden(c, o)
    BY <1>1 DEF configParse
  <1>6. ASSUME NEW k \in TextKeys PROVE c.text[k] = FromFile(args, file, k).text[k]
    BY <1>2, <1>4, FileMeans DEF FromFile
  <1>7. ASSUME NEW k \in NumKeys PROVE c.num[k] = FromFile(args, file, k).num[k]
    BY <1>2, <1>4, FileMeans DEF FromFile
  <1>8. c \in ConfigSet
    BY <1>2, FileMeans, DefaultsType
  <1> HIDE DEF c, p
  <1>9. /\ DOMAIN p.text = TextKeys /\ DOMAIN p.num = NumKeys
        /\ \A k \in TextKeys : p.text[k] = configStringDup(c.text[k], o.text[k])
        /\ \A k \in NumKeys : p.num[k] = configIntDup(c.num[k], o.num[k])
    BY <1>5, <1>8 DEF Overridden, ConfigSet
  <1>10. ASSUME NEW k \in TextKeys PROVE p.text[k] = TextMeant(args, file, k)
    <2> DEFINE S == TextsGiven(args, k)
    <2>1. o.text[k] = IF S # {} THEN args[Latest(S)].arg ELSE NULL
      BY <1>0, <1>2, OptionsMean
    <2>2. TextMeant(args, file, k) =
            IF S # {} THEN args[Latest(S)].arg ELSE FromFile(args, file, k).text[k]
      BY DEF TextMeant, TextsGiven
    <2>3. S # {} => Latest(S) \in DOMAIN args
      <3>1. S \in SUBSET (1..Len(args)) /\ Len(args) \in Nat
        BY <1>0 DEF TextsGiven
      <3> HIDE DEF S
      <3> QED BY <1>0, <3>1, LatestIs
    <2>4. S # {} => args[Latest(S)].arg # NULL
      BY <1>0, <2>3, GivenIs
    <2> HIDE DEF S, o
    <2> QED BY <1>6, <1>9, <2>1, <2>2, <2>4 DEF configStringDup
  <1>11. ASSUME NEW k \in NumKeys PROVE p.num[k] = NumMeant(args, file, k)
    <2> DEFINE S == NumsGiven(args, k)
               v == NumGiven(args[Latest(S)])
    <2>1. o.num[k] = IF S # {} THEN v ELSE -1
      BY <1>0, <1>2, OptionsMean
    <2>2. NumMeant(args, file, k) = IF S # {} /\ v >= 0 THEN v ELSE FromFile(args, file, k).num[k]
      BY DEF NumMeant, NumsGiven
    <2>3. S # {} => Latest(S) \in S
      <3>1. S \in SUBSET (1..Len(args)) /\ Len(args) \in Nat
        BY <1>0 DEF NumsGiven
      <3> HIDE DEF S
      <3> QED BY <1>0, <3>1, LatestIs
    <2>4. S # {} => v \in Int
      BY <1>0, <2>3, GivenIs DEF NumsGiven
    <2> HIDE DEF S, o, v
    <2> QED BY <1>7, <1>9, <2>1, <2>2, <2>4 DEF configIntDup
  <1> QED BY <1>2, <1>4, <1>9, <1>10, <1>11 DEF p

-----------------------------------------------------------------------------
(* The order of moduleInit, and process ids. *)

LEMMA Order ==
    /\ After("configure") = "daemonize" /\ After("daemonize") = "open"
    /\ After("open") = "write"          /\ After("write") = "handlers"
    /\ After("handlers") = "arm"        /\ After("arm") = "crypto"
    /\ After("crypto") = "listen"       /\ After("listen") = "run"
  <1>1. DOMAIN Startup = 1..9
    BY DEF Startup
  <1>2. /\ Startup[1] = "configure" /\ Startup[2] = "daemonize" /\ Startup[3] = "open"
        /\ Startup[4] = "write" /\ Startup[5] = "handlers" /\ Startup[6] = "arm"
        /\ Startup[7] = "crypto" /\ Startup[8] = "listen" /\ Startup[9] = "run"
    BY DEF Startup
  <1>3. \A k \in 1..9 : k = 1 \/ k = 2 \/ k = 3 \/ k = 4 \/ k = 5 \/ k = 6 \/ k = 7 \/ k = 8 \/ k = 9
    OBVIOUS
  <1>4. ASSUME NEW n \in 1..8 PROVE After(Startup[n]) = Startup[n + 1]
    <2>1. \A k \in 1..9 : Startup[k] = Startup[n] => k = n
      BY <1>2, <1>3
    <2>2. (CHOOSE k \in 1..9 : Startup[k] = Startup[n]) = n
      BY <2>1
    <2> QED BY <1>1, <2>2 DEF After
  <1>5. After(Startup[1]) = Startup[2] /\ After(Startup[2]) = Startup[3] /\ After(Startup[3]) = Startup[4]
    BY <1>4
  <1>6. After(Startup[4]) = Startup[5] /\ After(Startup[5]) = Startup[6] /\ After(Startup[6]) = Startup[7]
    BY <1>4
  <1>7. After(Startup[7]) = Startup[8] /\ After(Startup[8]) = Startup[9]
    BY <1>4
  <1> QED BY <1>2, <1>5, <1>6, <1>7

Early == {"off", "configure", "daemonize", "open", "write"}
Named == {"handlers", "arm", "crypto", "listen", "run"} \cup InLoop

LEMMA StepsAre ==
    Steps = {"off", "hung", "ended", "configure", "daemonize", "open", "write", "handlers",
             "arm", "crypto", "listen", "run", "check", "enter", "blocked", "close",
             "unlink", "disarm", "free"}
  <1>1. DOMAIN Startup = 1..9
    BY DEF Startup
  <1>2. {Startup[k] : k \in DOMAIN Startup} =
        {"configure", "daemonize", "open", "write", "handlers", "arm", "crypto", "listen", "run"}
    <2>1. /\ Startup[1] = "configure" /\ Startup[2] = "daemonize" /\ Startup[3] = "open"
          /\ Startup[4] = "write" /\ Startup[5] = "handlers" /\ Startup[6] = "arm"
          /\ Startup[7] = "crypto" /\ Startup[8] = "listen" /\ Startup[9] = "run"
      BY DEF Startup
    <2>2. 1..9 = {1, 2, 3, 4, 5, 6, 7, 8, 9}
      OBVIOUS
    <2> HIDE DEF Startup
    <2> QED BY <1>1, <2>1, <2>2
  <1> QED BY <1>2 DEF Steps, InLoop, WayOut

\* Two starts never have an id in common, and none is that of no process.
LEMMA Pids ==
    ASSUME NEW i \in Starts, NEW j \in Starts
    PROVE  /\ getpid(i) \in PidsOf(i)
           /\ getpid(i) \in PidsOf(j) => i = j
           /\ NoFile \notin PidsOf(i) /\ EmptyFile \notin PidsOf(i)
  BY LifeAssumption DEF Starts, getpid, PidsOf, NoFile, EmptyFile

-----------------------------------------------------------------------------
(* The inductive invariant. *)

\* A process that has listened holds a listener until hook.exit.
Serving == \A i \in Starts : pc[i] \in {"run"} \cup InLoop => tcp = i \/ i \in udp

\* The pid file names a start by its last id, from createPidFile to unlink.
PidOf(i) ==
    /\ status[i] # "none" => pc[i] = "ended"
    /\ pc[i] = "write" => HasPidFile(config[i])
    /\ pidfile \in PidsOf(i) =>
        /\ pidfile = getpid(i)
        /\ HasPidFile(config[i])
        /\ pc[i] \notin Early \cup {"disarm", "free"}
        /\ status[i] # "clean"
PidKept == \A i \in Starts : PidOf(i)

\* Starts that follow each other leave each other's pid alone.
Solo ==
    alone =>
        /\ \A i, j \in Starts : Alive(i) /\ Alive(j) => i = j
        /\ \A i \in Starts :
            /\ pc[i] = "write" => linked[i] /\ pidfile = EmptyFile
            /\ pc[i] \in Named /\ HasPidFile(config[i])
                 => pidfile = IF linked[i] THEN EmptyFile ELSE getpid(i)

\* A start that is past configParse has the configuration of its scenario, and
\* so has, for ever, one that has forked, has opened the pid file, has left its
\* pid or holds a listener.
Accepted(i) == config[i] = configParse(sc.args, sc.file) /\ Acceptable(config[i])
Leaves(i) == forked[i] \/ linked[i] \/ pidfile \in PidsOf(i) \/ tcp = i \/ i \in udp
Configured ==
    \A i \in Starts :
        pc[i] \notin {"off", "configure", "hung", "ended"} \/ Leaves(i) => Accepted(i)

LifeInv == TypeOK /\ Serving /\ PidKept /\ Solo /\ Configured

-----------------------------------------------------------------------------
(* Every action keeps it. *)

LEMMA InitLife == Init => LifeInv
  <1> SUFFICES ASSUME Init PROVE LifeInv
    OBVIOUS
  <1>1. TypeOK
    BY LifeAssumption, StepsAre DEF Init, TypeOK
  <1>2. Serving /\ Solo
    BY DEF Init, Serving, Solo, Alive, Named, InLoop
  <1>3. PidKept
    BY Pids DEF Init, PidKept, PidOf
  <1>4. Configured
    <2>1. \A i \in Starts : i # Nobody /\ NoFile \notin PidsOf(i)
      BY Pids, LifeAssumption DEF Starts, Nobody
    <2> QED BY <2>1 DEF Init, Configured, Leaves
  <1> QED BY <1>1, <1>2, <1>3, <1>4 DEF LifeInv

LEMMA TypeStep == TypeOK /\ [Next]_vars => TypeOK'
  <1> SUFFICES ASSUME TypeOK, [Next]_vars PROVE TypeOK'
    OBVIOUS
  <1> USE DEF Goto, End, shared, ghosts
  <1>1. CASE UNCHANGED vars
    BY <1>1 DEF vars, TypeOK
  <1>2. ASSUME NEW i \in Starts, Launch(i) PROVE TypeOK'
    BY <1>2, StepsAre DEF Launch, TypeOK
  <1>3. ASSUME NEW i \in Starts, Configure(i) PROVE TypeOK'
    <2>1. /\ pc' = [pc EXCEPT ![i] = "daemonize"] \/ pc' = [pc EXCEPT ![i] = "ended"]
          /\ status' = status \/ status' = [status EXCEPT ![i] = "refused"]
          /\ tcp' \in {tcp, Nobody} /\ udp' \subseteq udp
      BY <1>3, Order DEF Configure
    <2>2. \E c : config' = [config EXCEPT ![i] = c]
      BY <1>3 DEF Configure
    <2>3. UNCHANGED <<sc, forked, sig, stop, linked, pidfile, ghosts>>
      BY <1>3 DEF Configure
    <2>4. pc' \in [Starts -> Steps] /\ tcp' \in Starts \cup {Nobody} /\ udp' \subseteq Starts
      BY <2>1, StepsAre DEF TypeOK
    <2>5. status' \in [Starts -> {"none", "refused", "failed", "killed", "crashed", "clean"}]
      BY <2>1 DEF TypeOK
    <2>6. config' = [j \in Starts |-> config'[j]]
      BY <2>2 DEF TypeOK
    <2> QED BY <2>3, <2>4, <2>5, <2>6 DEF TypeOK
  <1>4. ASSUME NEW i \in Starts, Daemonize(i) PROVE TypeOK'
    <2>1. forked' \in [Starts -> BOOLEAN]
      BY <1>4 DEF Daemonize, TypeOK
    <2>2. \/ pc' = [pc EXCEPT ![i] = "open"] /\ UNCHANGED <<status, tcp, udp>>
          \/ End(i, "failed")
      BY <1>4, Order DEF Daemonize
    <2>3. UNCHANGED <<sc, config, sig, stop, linked, pidfile, ghosts>>
      BY <1>4 DEF Daemonize
    <2> QED BY <2>1, <2>2, <2>3, StepsAre DEF TypeOK
  <1>5. ASSUME NEW i \in Starts, OpenPidFile(i) PROVE TypeOK'
    <2>1. pidfile' \in {EmptyFile, pidfile} /\ linked' \in [Starts -> BOOLEAN]
      BY <1>5 DEF OpenPidFile, TypeOK
    <2>2. \/ pc' = [pc EXCEPT ![i] = "write"] /\ UNCHANGED <<status, tcp, udp>>
          \/ pc' = [pc EXCEPT ![i] = "handlers"] /\ UNCHANGED <<status, tcp, udp>>
          \/ End(i, "failed")
      BY <1>5, Order DEF OpenPidFile
    <2>3. UNCHANGED <<sc, config, forked, sig, stop, ghosts>>
      BY <1>5 DEF OpenPidFile
    <2> QED BY <2>1, <2>2, <2>3, StepsAre DEF TypeOK
  <1>6. ASSUME NEW i \in Starts, WritePidFile(i) PROVE TypeOK'
    <2>1. pidfile' \in {getpid(i), pidfile}
      BY <1>6 DEF WritePidFile
    <2>2. getpid(i) \in UNION {PidsOf(j) : j \in Starts}
      BY Pids
    <2> QED BY <1>6, <2>1, <2>2, StepsAre, Order DEF WritePidFile, TypeOK
  <1>7. ASSUME NEW i \in Starts, InstallHandlers(i) PROVE TypeOK'
    BY <1>7, StepsAre, Order DEF InstallHandlers, TypeOK
  <1>8. ASSUME NEW i \in Starts, Arm(i) PROVE TypeOK'
    BY <1>8, StepsAre, Order DEF Arm, TypeOK
  <1>9. ASSUME NEW i \in Starts, InitCrypto(i) PROVE TypeOK'
    BY <1>9, StepsAre, Order DEF InitCrypto, TypeOK
  <1>10. ASSUME NEW i \in Starts, Listen(i) PROVE TypeOK'
    BY <1>10, StepsAre, Order DEF Listen, TypeOK
  <1>11. ASSUME NEW i \in Starts, RunLoop(i) PROVE TypeOK'
    BY <1>11, StepsAre DEF RunLoop, StopAtRun, ByLibev, TypeOK
  <1>12. ASSUME NEW i \in Starts, CheckStop(i) \/ EnterPoll(i) \/ WakeBySignal(i) \/ Traffic(i)
         PROVE  TypeOK'
    BY <1>12, StepsAre DEF CheckStop, EnterPoll, WakeBySignal, Traffic, TypeOK
  <1>13. ASSUME NEW i \in Starts, CloseListeners(i) PROVE TypeOK'
    BY <1>13, StepsAre DEF CloseListeners, TypeOK
  <1>14. ASSUME NEW i \in Starts, Unlink(i) PROVE TypeOK'
    BY <1>14, StepsAre DEF Unlink, Unlinked, TypeOK
  <1>15. ASSUME NEW i \in Starts, Disarm(i) \/ Free(i) PROVE TypeOK'
    BY <1>15, StepsAre DEF Disarm, Free, TypeOK
  <1>16. ASSUME NEW i \in Starts, SignalKills(i) \/ Crash(i) PROVE TypeOK'
    BY <1>16, StepsAre DEF SignalKills, Crash, Sent, TypeOK
  <1>17. ASSUME NEW i \in Starts, SignalNoted(i) PROVE TypeOK'
    BY <1>17 DEF SignalNoted, Asked, Sent, TypeOK
  <1>18. ASSUME NEW i \in Starts, SignalHandled(i) PROVE TypeOK'
    BY <1>18, StepsAre DEF SignalHandled, Asked, Sent, TypeOK
  <1>19. ASSUME NEW i \in Starts, SignalHangs(i) PROVE TypeOK'
    BY <1>19, StepsAre DEF SignalHangs, Sent, TypeOK
  <1> QED BY <1>1, <1>2, <1>3, <1>4, <1>5, <1>6, <1>7, <1>8, <1>9, <1>10, <1>11, <1>12,
             <1>13, <1>14, <1>15, <1>16, <1>17, <1>18, <1>19 DEF Next, Step

LEMMA ServingStep == TypeOK /\ Serving /\ [Next]_vars => Serving'
  <1> SUFFICES ASSUME TypeOK, Serving, [Next]_vars PROVE Serving'
    OBVIOUS
  <1> USE DEF Goto, End, shared, ghosts, TypeOK, Serving, InLoop
  <1>1. CASE UNCHANGED vars
    BY <1>1 DEF vars
  <1>2. ASSUME NEW i \in Starts, Launch(i) PROVE Serving'
    BY <1>2 DEF Launch
  <1>3. ASSUME NEW i \in Starts, Configure(i) PROVE Serving'
    BY <1>3, Order DEF Configure
  <1>4. ASSUME NEW i \in Starts, Daemonize(i) PROVE Serving'
    BY <1>4, Order DEF Daemonize
  <1>5. ASSUME NEW i \in Starts, OpenPidFile(i) PROVE Serving'
    BY <1>5, Order DEF OpenPidFile
  <1>6. ASSUME NEW i \in Starts, WritePidFile(i) PROVE Serving'
    BY <1>6, Order DEF WritePidFile
  <1>7. ASSUME NEW i \in Starts, InstallHandlers(i) PROVE Serving'
    BY <1>7, Order DEF InstallHandlers
  <1>8. ASSUME NEW i \in Starts, Arm(i) PROVE Serving'
    BY <1>8, Order DEF Arm
  <1>9. ASSUME NEW i \in Starts, InitCrypto(i) PROVE Serving'
    BY <1>9, Order DEF InitCrypto
  <1>10. ASSUME NEW i \in Starts, Listen(i) PROVE Serving'
    <2>1. \A j \in Starts : j # Nobody
      BY LifeAssumption DEF Starts, Nobody
    <2>2. CASE pc' = [pc EXCEPT ![i] = "ended"]
      BY <1>10, <2>2, Order DEF Listen
    <2>3. CASE pc' = [pc EXCEPT ![i] = "run"]
      <3>1. PICK t \in {FALSE, WantsTcp(config[i]) /\ tcp = Nobody}, u \in BOOLEAN :
                /\ t \/ u
                /\ tcp' = IF t THEN i ELSE tcp
                /\ udp' = IF u THEN udp \cup {i} ELSE udp
        BY <1>10, <2>3 DEF Listen, Listens, WantsUdp
      <3> QED BY <2>1, <2>3, <3>1
    <2> QED BY <1>10, <2>2, <2>3, Order DEF Listen
  <1>11. ASSUME NEW i \in Starts, RunLoop(i) PROVE Serving'
    BY <1>11 DEF RunLoop
  <1>12. ASSUME NEW i \in Starts, CheckStop(i) \/ EnterPoll(i) \/ WakeBySignal(i) \/ Traffic(i)
         PROVE  Serving'
    BY <1>12 DEF CheckStop, EnterPoll, WakeBySignal, Traffic
  <1>13. ASSUME NEW i \in Starts, CloseListeners(i) PROVE Serving'
    BY <1>13 DEF CloseListeners
  <1>14. ASSUME NEW i \in Starts, Unlink(i) PROVE Serving'
    BY <1>14 DEF Unlink
  <1>15. ASSUME NEW i \in Starts, Disarm(i) \/ Free(i) PROVE Serving'
    BY <1>15 DEF Disarm, Free
  <1>16. ASSUME NEW i \in Starts, SignalKills(i) \/ Crash(i) PROVE Serving'
    BY <1>16 DEF SignalKills, Crash
  <1>17. ASSUME NEW i \in Starts, SignalNoted(i) \/ SignalHandled(i) \/ SignalHangs(i)
         PROVE  Serving'
    BY <1>17 DEF SignalNoted, SignalHandled, SignalHangs, Sent
  <1> QED BY <1>1, <1>2, <1>3, <1>4, <1>5, <1>6, <1>7, <1>8, <1>9, <1>10, <1>11, <1>12,
             <1>13, <1>14, <1>15, <1>16, <1>17 DEF Next, Step

LEMMA PidStep == TypeOK /\ PidKept /\ [Next]_vars => PidKept'
  <1> SUFFICES ASSUME TypeOK, PidKept, [Next]_vars PROVE PidKept'
    OBVIOUS
  <1> USE DEF Goto, End, shared, ghosts, TypeOK, PidKept, PidOf, getpid, Early
  <1>1. CASE UNCHANGED vars
    BY <1>1 DEF vars
  <1>2. ASSUME NEW i \in Starts, Launch(i) PROVE PidKept'
    BY <1>2, Pids DEF Launch
  <1>3. ASSUME NEW i \in Starts, Configure(i) PROVE PidKept'
    BY <1>3, Order, Pids DEF Configure
  <1>4. ASSUME NEW i \in Starts, Daemonize(i) PROVE PidKept'
    BY <1>4, Order, Pids DEF Daemonize
  <1>5. ASSUME NEW i \in Starts, OpenPidFile(i) PROVE PidKept'
    BY <1>5, Order, Pids DEF OpenPidFile, Creates
  <1>6. ASSUME NEW i \in Starts, WritePidFile(i) PROVE PidKept'
    BY <1>6, Order, Pids DEF WritePidFile
  <1>7. ASSUME NEW i \in Starts, InstallHandlers(i) PROVE PidKept'
    BY <1>7, Order DEF InstallHandlers
  <1>8. ASSUME NEW i \in Starts, Arm(i) PROVE PidKept'
    BY <1>8, Order DEF Arm
  <1>9. ASSUME NEW i \in Starts, InitCrypto(i) PROVE PidKept'
    BY <1>9, Order DEF InitCrypto
  <1>10. ASSUME NEW i \in Starts, Listen(i) PROVE PidKept'
    BY <1>10, Order DEF Listen
  <1>11. ASSUME NEW i \in Starts, RunLoop(i) PROVE PidKept'
    BY <1>11 DEF RunLoop
  <1>12. ASSUME NEW i \in Starts, CheckStop(i) \/ EnterPoll(i) \/ WakeBySignal(i) \/ Traffic(i)
         PROVE  PidKept'
    BY <1>12 DEF CheckStop, EnterPoll, WakeBySignal, Traffic
  <1>13. ASSUME NEW i \in Starts, CloseListeners(i) PROVE PidKept'
    BY <1>13 DEF CloseListeners
  <1>14. ASSUME NEW i \in Starts, Unlink(i) PROVE PidKept'
    BY <1>14, Pids DEF Unlink, Unlinked
  <1>15. ASSUME NEW i \in Starts, Disarm(i) \/ Free(i) PROVE PidKept'
    BY <1>15 DEF Disarm, Free
  <1>16. ASSUME NEW i \in Starts, SignalKills(i) \/ Crash(i) PROVE PidKept'
    BY <1>16 DEF SignalKills, Crash, Sent, Alive
  <1>17. ASSUME NEW i \in Starts, SignalNoted(i) \/ SignalHandled(i) \/ SignalHangs(i)
         PROVE  PidKept'
    BY <1>17 DEF SignalNoted, SignalHandled, SignalHangs, Sent, Alive
  <1> QED BY <1>1, <1>2, <1>3, <1>4, <1>5, <1>6, <1>7, <1>8, <1>9, <1>10, <1>11, <1>12,
             <1>13, <1>14, <1>15, <1>16, <1>17 DEF Next, Step

LEMMA SoloStep == TypeOK /\ PidKept /\ Solo /\ [Next]_vars => Solo'
  <1> SUFFICES ASSUME TypeOK, PidKept, Solo, [Next]_vars PROVE Solo'
    OBVIOUS
  <1> USE DEF Goto, End, shared, ghosts, TypeOK, Solo, Alive, getpid, Named, InLoop
  <1>1. CASE UNCHANGED vars
    BY <1>1 DEF vars
  <1>2. ASSUME NEW i \in Starts, Launch(i) PROVE Solo'
    BY <1>2 DEF Launch
  <1>3. ASSUME NEW i \in Starts, Configure(i) PROVE Solo'
    BY <1>3, Order DEF Configure
  <1>4. ASSUME NEW i \in Starts, Daemonize(i) PROVE Solo'
    BY <1>4, Order DEF Daemonize
  <1>5. ASSUME NEW i \in Starts, OpenPidFile(i) PROVE Solo'
    BY <1>5, Order DEF OpenPidFile, Creates
  <1>6. ASSUME NEW i \in Starts, WritePidFile(i) PROVE Solo'
    BY <1>6, Order DEF WritePidFile, PidKept, PidOf
  <1>7. ASSUME NEW i \in Starts, InstallHandlers(i) PROVE Solo'
    BY <1>7, Order DEF InstallHandlers
  <1>8. ASSUME NEW i \in Starts, Arm(i) PROVE Solo'
    BY <1>8, Order DEF Arm
  <1>9. ASSUME NEW i \in Starts, InitCrypto(i) PROVE Solo'
    BY <1>9, Order DEF InitCrypto
  <1>10. ASSUME NEW i \in Starts, Listen(i) PROVE Solo'
    BY <1>10, Order DEF Listen
  <1>11. ASSUME NEW i \in Starts, RunLoop(i) PROVE Solo'
    BY <1>11 DEF RunLoop
  <1>12. ASSUME NEW i \in Starts, CheckStop(i) \/ EnterPoll(i) \/ WakeBySignal(i) \/ Traffic(i)
         PROVE  Solo'
    <2>1. CASE CheckStop(i)
      BY <2>1 DEF CheckStop
    <2>2. CASE EnterPoll(i)
      BY <2>2 DEF EnterPoll
    <2>3. CASE WakeBySignal(i)
      BY <2>3 DEF WakeBySignal
    <2>4. CASE Traffic(i)
      BY <2>4 DEF Traffic
    <2> QED BY <1>12, <2>1, <2>2, <2>3, <2>4
  <1>13. ASSUME NEW i \in Starts, CloseListeners(i) PROVE Solo'
    BY <1>13 DEF CloseListeners
  <1>14. ASSUME NEW i \in Starts, Unlink(i) PROVE Solo'
    BY <1>14 DEF Unlink, Unlinked
  <1>15. ASSUME NEW i \in Starts, Disarm(i) \/ Free(i) PROVE Solo'
    <2>1. CASE Disarm(i)
      BY <2>1 DEF Disarm
    <2>2. CASE Free(i)
      BY <2>2 DEF Free
    <2> QED BY <1>15, <2>1, <2>2
  <1>16. ASSUME NEW i \in Starts, SignalKills(i) \/ Crash(i) PROVE Solo'
    <2>1. CASE SignalKills(i)
      BY <2>1 DEF SignalKills, Sent
    <2>2. CASE Crash(i)
      BY <2>2 DEF Crash
    <2> QED BY <1>16, <2>1, <2>2
  <1>17. ASSUME NEW i \in Starts, SignalNoted(i) \/ SignalHandled(i) \/ SignalHangs(i)
         PROVE  Solo'
    <2>1. CASE SignalNoted(i)
      BY <2>1 DEF SignalNoted, Sent
    <2>2. CASE SignalHandled(i)
      BY <2>2 DEF SignalHandled, Sent
    <2>3. CASE SignalHangs(i)
      BY <2>3 DEF SignalHangs, Sent
    <2> QED BY <1>17, <2>1, <2>2, <2>3
  <1> QED BY <1>1, <1>2, <1>3, <1>4, <1>5, <1>6, <1>7, <1>8, <1>9, <1>10, <1>11, <1>12,
             <1>13, <1>14, <1>15, <1>16, <1>17 DEF Next, Step

\* Nothing but configParse changes a configuration, and nobody else's steps
\* fork for a start, open its pid file, or leave its pid or its listeners.
LEMMA ConfiguredStep == TypeOK /\ Configured /\ [Next]_vars => Configured'
  <1> SUFFICES ASSUME TypeOK, Configured, [Next]_vars PROVE Configured'
    OBVIOUS
  <1>0. \A j \in Starts : j # Nobody /\ NoFile \notin PidsOf(j) /\ EmptyFile \notin PidsOf(j)
    BY Pids, LifeAssumption DEF Starts, Nobody
  <1>1. CASE UNCHANGED vars
    BY <1>1 DEF vars, shared, ghosts, Configured, Leaves, Accepted, Acceptable
  \* Steps of i other than configParse: i was accepted, or is at its end.
  <1>2. ASSUME NEW i \in Starts, UNCHANGED <<sc, config>>,
               \A j \in Starts : pc'[j] \notin {"off", "configure", "hung", "ended"} =>
                    pc[j] \notin {"off", "configure", "hung", "ended"},
               \A j \in Starts : Leaves(j)' =>
                    Leaves(j) \/ pc[j] \notin {"off", "configure", "hung", "ended"}
        PROVE  Configured'
    BY <1>2 DEF Configured, Accepted, Acceptable
  <1>3. ASSUME NEW i \in Starts, Configure(i) PROVE Configured'
    <2> DEFINE c == configParse(sc.args, sc.file)
    <2>1. /\ config' = [config EXCEPT ![i] = c] /\ sc' = sc /\ pidfile' = pidfile
          /\ forked' = forked /\ linked' = linked
          /\ \/ pc' = [pc EXCEPT ![i] = "daemonize"] /\ Acceptable(c) /\ UNCHANGED <<tcp, udp>>
             \/ pc' = [pc EXCEPT ![i] = "ended"] /\ tcp' \in {tcp, Nobody} /\ udp' \subseteq udp
      BY <1>3, Order DEF Configure, Goto, End
    <2> HIDE DEF c
    <2>2. \A j \in Starts : Leaves(j)' => Leaves(j)
      BY <1>0, <2>1 DEF Leaves
    <2>3. config \in [Starts -> {config[j] : j \in Starts}] /\ pc \in [Starts -> Steps]
      BY DEF TypeOK
    <2>4. config'[i] = c /\ \A j \in Starts : j # i => config'[j] = config[j] /\ pc'[j] = pc[j]
      BY <2>1, <2>3
    <2>5. ASSUME NEW j \in Starts, j # i,
                 pc'[j] \notin {"off", "configure", "hung", "ended"} \/ Leaves(j)'
          PROVE  Accepted(j)'
      BY <2>1, <2>2, <2>4, <2>5 DEF Configured, Accepted, Acceptable
    <2>6. ASSUME pc'[i] \notin {"off", "configure", "hung", "ended"} \/ Leaves(i)'
          PROVE  Accepted(i)'
      <3>1. Acceptable(c)
        <4>1. CASE Leaves(i)'
          BY <2>2, <4>1 DEF Configured, Accepted, c
        <4>2. CASE pc'[i] \notin {"off", "configure", "hung", "ended"}
          BY <2>1, <2>3, <4>2
        <4> QED BY <2>6, <4>1, <4>2
      <3>2. config'[i] = configParse(sc'.args, sc'.file)
        BY <2>1, <2>4 DEF c
      <3> QED BY <2>4, <3>1, <3>2 DEF Accepted, Acceptable
    <2> QED BY <2>5, <2>6 DEF Configured
  <1>4. ASSUME NEW i \in Starts, Launch(i) PROVE Configured'
    BY <1>0, <1>2, <1>4, Order, Pids DEF Launch, Goto, End, shared, TypeOK, Leaves
  <1>5. ASSUME NEW i \in Starts, Daemonize(i) PROVE Configured'
    BY <1>0, <1>2, <1>5, Order, Pids DEF Daemonize, Goto, End, shared, TypeOK, Leaves
  <1>6. ASSUME NEW i \in Starts, OpenPidFile(i) PROVE Configured'
    BY <1>0, <1>2, <1>6, Order, Pids DEF OpenPidFile, Creates, Goto, End, shared, TypeOK, Leaves
  <1>7. ASSUME NEW i \in Starts, WritePidFile(i) PROVE Configured'
    BY <1>0, <1>2, <1>7, Order, Pids DEF WritePidFile, Goto, End, shared, TypeOK, Leaves
  <1>8. ASSUME NEW i \in Starts, InstallHandlers(i) PROVE Configured'
    BY <1>0, <1>2, <1>8, Order, Pids DEF InstallHandlers, Goto, End, shared, TypeOK, Leaves
  <1>9. ASSUME NEW i \in Starts, Arm(i) PROVE Configured'
    BY <1>0, <1>2, <1>9, Order, Pids DEF Arm, Goto, End, shared, TypeOK, Leaves
  <1>10. ASSUME NEW i \in Starts, InitCrypto(i) PROVE Configured'
    BY <1>0, <1>2, <1>10, Order, Pids DEF InitCrypto, Goto, End, shared, TypeOK, Leaves
  <1>11. ASSUME NEW i \in Starts, Listen(i) PROVE Configured'
    BY <1>0, <1>2, <1>11, Order, Pids DEF Listen, Goto, End, shared, TypeOK, Leaves
  <1>12. ASSUME NEW i \in Starts, RunLoop(i) PROVE Configured'
    BY <1>0, <1>2, <1>12, Order, Pids DEF RunLoop, Goto, End, shared, TypeOK, Leaves
  <1>13. ASSUME NEW i \in Starts, CheckStop(i) PROVE Configured'
    BY <1>0, <1>2, <1>13, Order, Pids DEF CheckStop, Goto, End, shared, TypeOK, Leaves
  <1>14. ASSUME NEW i \in Starts, EnterPoll(i) PROVE Configured'
    BY <1>0, <1>2, <1>14, Order, Pids DEF EnterPoll, Goto, End, shared, TypeOK, Leaves
  <1>15. ASSUME NEW i \in Starts, WakeBySignal(i) PROVE Configured'
    BY <1>0, <1>2, <1>15, Order, Pids DEF WakeBySignal, Goto, End, shared, TypeOK, Leaves
  <1>16. ASSUME NEW i \in Starts, Traffic(i) PROVE Configured'
    BY <1>0, <1>2, <1>16, Order, Pids DEF Traffic, Goto, End, shared, TypeOK, Leaves
  <1>17. ASSUME NEW i \in Starts, CloseListeners(i) PROVE Configured'
    BY <1>0, <1>2, <1>17, Order, Pids DEF CloseListeners, Goto, End, shared, TypeOK, Leaves
  <1>18. ASSUME NEW i \in Starts, Unlink(i) PROVE Configured'
    BY <1>0, <1>2, <1>18, Order, Pids DEF Unlink, Unlinked, Goto, End, shared, TypeOK, Leaves
  <1>19. ASSUME NEW i \in Starts, Disarm(i) PROVE Configured'
    BY <1>0, <1>2, <1>19, Order, Pids DEF Disarm, Goto, End, shared, TypeOK, Leaves
  <1>20. ASSUME NEW i \in Starts, Free(i) PROVE Configured'
    BY <1>0, <1>2, <1>20, Order, Pids DEF Free, Goto, End, shared, TypeOK, Leaves
  <1>21. ASSUME NEW i \in Starts, SignalKills(i) PROVE Configured'
    BY <1>0, <1>2, <1>21, Order, Pids DEF SignalKills, Sent, Goto, End, shared, TypeOK, Leaves
  <1>22. ASSUME NEW i \in Starts, Crash(i) PROVE Configured'
    BY <1>0, <1>2, <1>22, Order, Pids DEF Crash, Goto, End, shared, TypeOK, Leaves
  <1>23. ASSUME NEW i \in Starts, SignalNoted(i) PROVE Configured'
    BY <1>0, <1>2, <1>23, Order, Pids DEF SignalNoted, Sent, Goto, End, shared, TypeOK, Leaves
  <1>24. ASSUME NEW i \in Starts, SignalHandled(i) PROVE Configured'
    BY <1>0, <1>2, <1>24, Order, Pids DEF SignalHandled, Sent, Goto, End, shared, TypeOK, Leaves
  <1>25. ASSUME NEW i \in Starts, SignalHangs(i) PROVE Configured'
    BY <1>0, <1>2, <1>25, Order, Pids DEF SignalHangs, Sent, Goto, End, shared, TypeOK, Leaves
  <1> QED BY <1>1, <1>3, <1>4, <1>5, <1>6, <1>7, <1>8, <1>9, <1>10, <1>11, <1>12, <1>13, <1>14, <1>15, <1>16, <1>17, <1>18, <1>19, <1>20, <1>21, <1>22, <1>23, <1>24, <1>25 DEF Next, Step

LEMMA LifeInvariant == Spec => []LifeInv
  <1>1. LifeInv /\ [Next]_vars => LifeInv'
    BY TypeStep, ServingStep, PidStep, SoloStep, ConfiguredStep DEF LifeInv
  <1> QED BY InitLife, <1>1, PTL DEF Spec

-----------------------------------------------------------------------------
(* Theorems. *)

\* TypeOK of a service's starts holds whatever they are configured to do.
THEOREM TypeCorrect == Spec => []TypeOK
  <1>1. LifeInv => TypeOK
    BY DEF LifeInv
  <1> QED BY LifeInvariant, <1>1, PTL

\* PidFileSound: createPidFile comes after xs_daemonize, and moduleExit removes
\* the file, so that the pid in it is that of a daemon that has not left cleanly,
\* for any number of starts that overlap in any way.
THEOREM PidIsSound == Spec => []PidFileSound
  <1>1. LifeInv => PidFileSound
    BY DEF LifeInv, PidKept, PidOf, PidFileSound
  <1> QED BY LifeInvariant, <1>1, PTL

\* NamedWhenAlone: starts that follow each other are named by the pid file from
\* createPidFile to the end of the loop, however the earlier ones ended.
THEOREM AloneIsNamed == Spec => []NamedWhenAlone
  <1>1. LifeInv => NamedWhenAlone
    BY DEF LifeInv, Solo, Named, NamedWhenAlone
  <1> QED BY LifeInvariant, <1>1, PTL

\* ServesSomething: the run hooks end a process without a listener, and no
\* other start takes a listener away from a process in its loop.
THEOREM LoopServes == Spec => []ServesSomething
  <1>1. LifeInv => ServesSomething
    BY DEF LifeInv, Serving, ServesSomething
  <1> QED BY LifeInvariant, <1>1, PTL

\* Whoever is accepted should not have been refused.
LEMMA AcceptedIsMeant ==
    ASSUME TypeOK, NEW i \in Starts, Accepted(i)
    PROVE  /\ ~ShouldBeRefused
           /\ DOMAIN config[i].text = TextKeys /\ DOMAIN config[i].num = NumKeys
           /\ \A k \in TextKeys : config[i].text[k] = TextMeant(sc.args, sc.file, k)
           /\ \A k \in NumKeys : config[i].num[k] = NumMeant(sc.args, sc.file, k)
  <1> DEFINE c == configParse(sc.args, sc.file)
  <1>1. CommandLine(sc.args) /\ JsonFile(sc.file)
    BY LifeAssumption DEF TypeOK
  <1>2. config[i] = c /\ c.outcome = "ok" /\ c.text.password # NULL
    BY DEF Accepted, Acceptable
  <1>3. /\ \A j \in DOMAIN sc.args : ~BadOption(sc.args[j]) /\ sc.args[j].opt \notin {"V", "h"}
        /\ (\E j \in DOMAIN sc.args : sc.args[j].opt = "c") => ~BadFile(sc.file)
        /\ DOMAIN c.text = TextKeys /\ DOMAIN c.num = NumKeys
        /\ \A k \in TextKeys : c.text[k] = TextMeant(sc.args, sc.file, k)
        /\ \A k \in NumKeys : c.num[k] = NumMeant(sc.args, sc.file, k)
    BY <1>1, <1>2, ParseMeans
  <1> HIDE DEF c
  <1>4. TextMeant(sc.args, sc.file, "password") # NULL
    BY <1>2, <1>3, Keys
  <1> QED BY <1>2, <1>3, <1>4 DEF ShouldBeRefused

\* RefusedLeavesNoTrace: what configParse and the password check refuse, for
\* any command line and any file, forks no daemon, empties no pid file and leaves
\* no pid and no listener.
THEOREM RefusalLeavesNoTrace == Spec => []RefusedLeavesNoTrace
  <1>1. LifeInv => RefusedLeavesNoTrace
    BY AcceptedIsMeant DEF LifeInv, Configured, Leaves, RefusedLeavesNoTrace
  <1> QED BY LifeInvariant, <1>1, PTL

\* Precedence: the loops of configParse and configLoad, for any number of
\* options and entries, give every key the last option for it, else the last
\* entry of the file, else the default.
THEOREM LastOptionWins == Spec => []Precedence
  <1>1. LifeInv => Precedence
    BY AcceptedIsMeant, Order DEF LifeInv, Configured, Precedence
  <1> QED BY LifeInvariant, <1>1, PTL
=============================================================================
